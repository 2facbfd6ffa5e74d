---------------------------- MODULE TemplateDir ----------------------------
(***************************************************************************)
(* EnsureTemplateDir and CloneTemplateDir (src/engine/template.go): boots  *)
(* of several instances share one template directory.  Each boot that      *)
(* finds none builds one of its own beside it and renames it into place;   *)
(* then it copies the template into its instance's data directory.         *)
(*                                                                         *)
(* A directory is a function from files to the boot whose init wrote them, *)
(* because two inits differ (a database cluster has an identity).  init,   *)
(* cp and os.RemoveAll work one file at a time; a rename is atomic and     *)
(* fails onto a directory with files.  ready is the driver's, and looks    *)
(* for one file.                                                           *)
(***************************************************************************)
CONSTANTS
    Boots,      \* boots, each of an instance of its own
    Files,      \* the files of a template
    Marker,     \* the file ready looks for
    Immovable,  \* files os.RemoveAll cannot remove; its error is ignored
    Absent

ASSUME MarkerAssumption == Marker \in Files
ASSUME ImmovableAssumption == Immovable \subseteq Files
ASSUME AbsentAssumption == Absent \notin Boots

VARIABLES
    template,   \* templateDir
    tmp,        \* each boot's _tmpl- directory
    dest,       \* each instance's data directory
    at

templateVars == <<template, tmp, dest, at>>

Empty == [f \in Files |-> Absent]
Built(b) == [f \in Files |-> b]
Dirs == [Files -> Boots \cup {Absent}]

TemplateTypeOK ==
    /\ template \in Dirs
    /\ tmp \in [Boots -> Dirs]
    /\ dest \in [Boots -> Dirs]
    /\ at \in [Boots -> {"idle", "init", "recheck", "rename", "remove", "copy",
                         "inside", "booted", "initFailed", "installFailed", "copyFailed"}]
TemplateInit ==
    /\ template = Empty
    /\ tmp = [b \in Boots |-> Empty]
    /\ dest = [b \in Boots |-> Empty]
    /\ at = [b \in Boots |-> "idle"]

Moves(b, from, to) == at[b] = from /\ at' = [at EXCEPT ![b] = to]

Ready(dir) == dir[Marker] # Absent

-----------------------------------------------------------------------------
(* The deferred os.RemoveAll(tmp). *)
TmpRemoved(b) ==
    [tmp EXCEPT ![b] = [f \in Files |-> IF f \in Immovable THEN @[f] ELSE Absent]]

\* init builds in the template directory itself
InitInPlace(b, f) ==
    /\ template' = [template EXCEPT ![f] = b]
    /\ UNCHANGED tmp
(* init builds in a directory only this boot knows. *)
InitWrites(b, f) ==
    /\ tmp' = [tmp EXCEPT ![b][f] = b]
    /\ UNCHANGED template

\* an old template is removed before the rename
RenamesOver == TRUE
(* os.Rename fails onto a directory that has files. *)
Renames == template = Empty

\* a failed rename is an error, whatever is there now
LostRaceIgnored == FALSE
(* A failed rename is success if the template is ready now. *)
LostRace == Ready(template)

-----------------------------------------------------------------------------
EnsureHit(b) ==
    /\ Ready(template)
    /\ Moves(b, "idle", "remove")
    /\ UNCHANGED <<template, tmp, dest>>

EnsureMiss(b) ==
    /\ ~Ready(template)
    /\ Moves(b, "idle", "init")
    /\ UNCHANGED <<template, tmp, dest>>

InitFile(b, f) ==
    /\ at[b] = "init"
    /\ tmp[b][f] = Absent
    /\ InitWrites(b, f)
    /\ UNCHANGED <<dest, at>>

InitDone(b) ==
    /\ tmp[b] = Built(b)
    /\ Moves(b, "init", "recheck")
    /\ UNCHANGED <<template, tmp, dest>>

InitFailed(b) ==
    /\ Moves(b, "init", "initFailed")
    /\ tmp' = TmpRemoved(b)
    /\ UNCHANGED <<template, dest>>

(* Another boot won the race while init ran. *)
RecheckReady(b) ==
    /\ Ready(template)
    /\ Moves(b, "recheck", "remove")
    /\ tmp' = TmpRemoved(b)
    /\ UNCHANGED <<template, dest>>

RecheckMissing(b) ==
    /\ ~Ready(template)
    /\ Moves(b, "recheck", "rename")
    /\ UNCHANGED <<template, tmp, dest>>

Rename(b) ==
    /\ Renames
    /\ Moves(b, "rename", "remove")
    /\ template' = tmp[b]
    /\ tmp' = [tmp EXCEPT ![b] = Empty]
    /\ UNCHANGED dest

(* Lost the race between the check and the rename, or not a race. *)
RenameFailed(b) ==
    /\ ~Renames
    /\ Moves(b, "rename", IF LostRace THEN "remove" ELSE "installFailed")
    /\ tmp' = TmpRemoved(b)
    /\ UNCHANGED <<template, dest>>

(* CloneTemplateDir: whatever is in the data directory goes, file by file. *)
RemoveFile(b, f) ==
    /\ at[b] = "remove"
    /\ f \notin Immovable /\ dest[b][f] # Absent
    /\ dest' = [dest EXCEPT ![b][f] = Absent]
    /\ UNCHANGED <<template, tmp, at>>

(* cp makes a copy of its own name inside a data directory that is still there. *)
Removed(b) ==
    /\ \A f \in Files \ Immovable : dest[b][f] = Absent
    /\ Moves(b, "remove", IF dest[b] = Empty THEN "copy" ELSE "inside")
    /\ UNCHANGED <<template, tmp, dest>>

(* cp copies what it finds in the template when it gets there. *)
CopyFile(b, f) ==
    /\ at[b] = "copy"
    /\ dest[b][f] = Absent
    /\ dest' = [dest EXCEPT ![b][f] = template[f]]
    /\ UNCHANGED <<template, tmp, at>>

Copied(b) ==
    /\ at[b] = "copy" => \A f \in Files : dest[b][f] # Absent \/ template[f] = Absent
    /\ \E from \in {"copy", "inside"} : Moves(b, from, "booted")
    /\ UNCHANGED <<template, tmp, dest>>

(* cp fails, or the boot's context ends: what was copied stays. *)
CopyFailed(b) ==
    /\ \E from \in {"copy", "inside"} : Moves(b, from, "copyFailed")
    /\ UNCHANGED <<template, tmp, dest>>

(* The next boot of the instance, after a result or after the process died
   anywhere: a new temporary directory, the same data directory. *)
Again(b) ==
    /\ at[b] # "idle"
    /\ at' = [at EXCEPT ![b] = "idle"]
    /\ tmp' = [tmp EXCEPT ![b] = Empty]
    /\ UNCHANGED <<template, dest>>

TemplateNext ==
    \E b \in Boots :
        \/ EnsureHit(b) \/ EnsureMiss(b)
        \/ InitDone(b) \/ InitFailed(b)
        \/ RecheckReady(b) \/ RecheckMissing(b)
        \/ Rename(b) \/ RenameFailed(b)
        \/ Removed(b) \/ Copied(b) \/ CopyFailed(b)
        \/ \E f \in Files : InitFile(b, f) \/ RemoveFile(b, f) \/ CopyFile(b, f)
        \/ Again(b)

TemplateSpec == TemplateInit /\ [][TemplateNext]_templateVars

-----------------------------------------------------------------------------
(* "a concurrent boot of another instance can never observe a half-built
   template" (template.go:15-17): what reads as ready is one init's, whole; and
   a boot that succeeded runs on a whole copy of one template, whatever an
   earlier, interrupted clone had left in its data directory.  A boot that
   returned left nothing in its temporary directory. *)
TemplateWhole ==
    /\ TemplateTypeOK
    /\ \A b \in Boots : tmp[b] # Empty => at[b] \in {"init", "recheck", "rename"}
    /\ Ready(template) => \E b \in Boots : template = Built(b)
    /\ \A b \in Boots : at[b] = "booted" => \E w \in Boots : dest[b] = Built(w)

(* A template in use is never replaced or taken away: not by a boot that built
   another at the same time, failed, or died. *)
TemplateKept == [][template # Empty => template' = template]_templateVars

(* "whichever boot loses the rename race just uses the winner's": no boot fails
   because another one installed the template first. *)
LoserServed == \A b \in Boots : at[b] # "installFailed"
=============================================================================
