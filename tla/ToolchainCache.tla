--------------------------- MODULE ToolchainCache --------------------------
(***************************************************************************)
(* binaries.Manager's cache (src/binaries/binaries.go): Ensure,            *)
(* EnsureArtifact and ensureDownload for one cache key, file by file.      *)
(*                                                                         *)
(* A directory is a function from paths to the archive a file came from;   *)
(* Meta is the recorded digest.  Extraction writes one file at a time and  *)
(* os.RemoveAll removes one at a time, so a call can die between any two.  *)
(* Both directories have fixed names, so two calls share them.             *)
(***************************************************************************)
CONSTANTS
    Installers,  \* processes or goroutines that call Ensure
    Archives,    \* archives the mirror may serve; each stands for its digest
    Signed,      \* the archives the SigningKey accepts (all, without a key)
    Parts,       \* the files archives hold
    Bin,         \* the executables under bin/
    Meta,        \* .doze-archive-sha
    Holds,       \* the files of each archive
    Stuck,       \* paths no removal and no rename moves; the error is ignored
    Absent,      \* no file at a path
    NoPin,       \* expectedSHA is ""
    NoSum,       \* the mirror's manifest gives no checksum
    NoAnswer, Error

ASSUME PathAssumption == Bin \in Parts /\ Meta \notin Parts
ASSUME ArchiveAssumption ==
    /\ Signed \subseteq Archives
    /\ Holds \in [Archives -> SUBSET Parts]
    /\ {Absent, NoPin, NoSum, NoAnswer, Error} \cap Archives = {}
    /\ Absent \notin {NoAnswer, Error} /\ NoAnswer # Error

Paths == Parts \cup {Meta}

ASSUME StuckAssumption == Stuck \subseteq Paths

VARIABLES
    tmp,         \* <contentDir>.tmp
    content,     \* contentDir
    pc, pin, ans,
    got,         \* the archive a call has downloaded and verified
    todo         \* the files it has still to extract

vars == <<tmp, content, pc, pin, ans, got, todo>>

Empty == [p \in Paths |-> Absent]

(* The directory archive a unpacks to, with digest record d. *)
Tree(a, d) ==
    [p \in Paths |-> IF p = Meta THEN d ELSE IF p \in Holds[a] THEN a ELSE Absent]

Dirs == [Paths -> Archives \cup {Absent}]

PCs == {"idle", "download", "clearTmp", "extract", "locate", "record",
        "clearContent", "publish", "answered"}

TypeOK ==
    /\ tmp \in Dirs /\ content \in Dirs
    /\ pc \in [Installers -> PCs]
    /\ pin \in [Installers -> Archives \cup {NoPin}]
    /\ ans \in [Installers -> Archives \cup {Absent, NoAnswer, Error}]
    /\ got \in [Installers -> Archives \cup {Absent}]
    /\ todo \in [Installers -> SUBSET Parts]
    /\ \A i \in Installers : (ans[i] = NoAnswer) <=> (pc[i] # "answered")

(* An empty cache, or one an earlier doze left: its entries are whole, with or
   without a digest record. *)
Init ==
    /\ tmp = Empty
    /\ content \in {Empty} \cup {Tree(a, d) : a \in Signed, d \in Archives \cup {Absent}}
    /\ content[Meta] # Absent => content = Tree(content[Meta], content[Meta])
    /\ pc = [i \in Installers |-> "idle"]
    /\ pin = [i \in Installers |-> NoPin]
    /\ ans = [i \in Installers |-> NoAnswer]
    /\ got = [i \in Installers |-> Absent]
    /\ todo = [i \in Installers |-> {}]

-----------------------------------------------------------------------------
Goto(i, from, to) == pc[i] = from /\ pc' = [pc EXCEPT ![i] = to]

Answer(i, d) == ans' = [ans EXCEPT ![i] = d]

(* dirHasFiles(binDir). *)
HasBin(dir) == dir[Bin] # Absent

\* the pin is not compared with what is on disk
HitUnchecked(e) == content[Meta]
(* cached: the recorded digest answers, unless the pin is another one. *)
Hit(e) ==
    IF e # NoPin /\ content[Meta] \notin {Absent, e} THEN Error ELSE content[Meta]

\* the publisher's signature is not looked at
AcceptsUnsigned(a, w, e) == IF e # NoPin THEN a = e ELSE a = w
(* ensureDownload's checks of an archive a against the pin e, else the mirror's
   checksum w, and against the publisher's key. *)
Accepts(a, w, e) == (IF e # NoPin THEN a = e ELSE a = w) /\ a \in Signed

\* the archive is unpacked over whatever a dead call left in tmp
ClearedAnyway(dir) == TRUE
(* os.RemoveAll has removed everything under dir it can. *)
Cleared(dir) == \A p \in Paths \ Stuck : dir[p] = Absent

(* The digest is computed from the bytes that arrived. *)
Digest(a, w) == a

-----------------------------------------------------------------------------
(* A usable entry answers without the network. *)
EnsureHit(i, e) ==
    /\ HasBin(content)
    /\ Goto(i, "idle", "answered")
    /\ pin' = [pin EXCEPT ![i] = e]
    /\ Answer(i, Hit(e))
    /\ UNCHANGED <<tmp, content, got, todo>>

EnsureMiss(i, e) ==
    /\ ~HasBin(content)
    /\ Goto(i, "idle", "download")
    /\ pin' = [pin EXCEPT ![i] = e]
    /\ UNCHANGED <<tmp, content, ans, got, todo>>

(* The mirror served archive a, whose manifest or index entry gives checksum w. *)
Download(i, a, w) ==
    /\ Accepts(a, w, pin[i])
    /\ Goto(i, "download", "clearTmp")
    /\ got' = [got EXCEPT ![i] = Digest(a, w)]
    /\ todo' = [todo EXCEPT ![i] = Holds[a]]
    /\ UNCHANGED <<tmp, content, pin, ans>>

(* A download or checksum error, an extraction error, no bin directory. *)
Fail(i) ==
    /\ \/ pc[i] \in {"download", "extract"}
       \/ pc[i] = "locate" /\ ~HasBin(tmp)
    /\ pc' = [pc EXCEPT ![i] = "answered"]
    /\ Answer(i, Error)
    /\ UNCHANGED <<tmp, content, pin, got, todo>>

RemoveFromTmp(i, p) ==
    /\ pc[i] = "clearTmp"
    /\ p \notin Stuck /\ tmp[p] # Absent
    /\ tmp' = [tmp EXCEPT ![p] = Absent]
    /\ UNCHANGED <<content, pc, pin, ans, got, todo>>

TmpCleared(i) ==
    /\ Cleared(tmp)
    /\ Goto(i, "clearTmp", "extract")
    /\ UNCHANGED <<tmp, content, pin, ans, got, todo>>

(* The next file of the archive; a file already there is truncated. *)
Extract(i, p) ==
    /\ pc[i] = "extract"
    /\ p \in todo[i]
    /\ tmp' = [tmp EXCEPT ![p] = got[i]]
    /\ todo' = [todo EXCEPT ![i] = @ \ {p}]
    /\ UNCHANGED <<content, pc, pin, ans, got>>

Extracted(i) ==
    /\ todo[i] = {}
    /\ Goto(i, "extract", "locate")
    /\ UNCHANGED <<tmp, content, pin, ans, got, todo>>

(* dir once its tree is moved up, all but the entries in left. *)
MovedUp(dir, left) == [p \in Paths |-> IF p \in left THEN Absent ELSE dir[p]]

(* There is a bin directory, which may be empty, and its tree is moved up: an
   entry that cannot be moved, or a symlink that was not made, is missing. *)
Located(i) ==
    /\ Goto(i, "locate", "record")
    /\ \E left \in SUBSET Stuck : tmp' = MovedUp(tmp, left)
    /\ UNCHANGED <<content, pin, ans, got, todo>>

(* writeShaMeta: an error is ignored. *)
RecordDigest(i) ==
    /\ Goto(i, "record", "clearContent")
    /\ tmp' \in {tmp, [tmp EXCEPT ![Meta] = got[i]]}
    /\ UNCHANGED <<content, pin, ans, got, todo>>

RemoveFromContent(i, p) ==
    /\ pc[i] = "clearContent"
    /\ p \notin Stuck /\ content[p] # Absent
    /\ content' = [content EXCEPT ![p] = Absent]
    /\ UNCHANGED <<tmp, pc, pin, ans, got, todo>>

ContentCleared(i) ==
    /\ Cleared(content)
    /\ Goto(i, "clearContent", "publish")
    /\ UNCHANGED <<tmp, content, pin, ans, got, todo>>

(* os.Rename(tmp, contentDir) is atomic, and fails onto a directory with files
   or from one that is gone. *)
Publish(i) ==
    /\ Goto(i, "publish", "answered")
    /\ IF tmp # Empty /\ content = Empty
       THEN /\ content' = tmp
            /\ tmp' = Empty
            /\ Answer(i, IF HasBin(tmp) THEN got[i] ELSE Error)
       ELSE /\ Answer(i, Error)
            /\ UNCHANGED <<tmp, content>>
    /\ UNCHANGED <<pin, got, todo>>

Return(i) ==
    /\ Goto(i, "answered", "idle")
    /\ Answer(i, NoAnswer)
    /\ UNCHANGED <<tmp, content, pin, got, todo>>

(* The process dies between two steps; the disk stays as it is. *)
Crash(i) ==
    /\ pc[i] # "idle"
    /\ pc' = [pc EXCEPT ![i] = "idle"]
    /\ Answer(i, NoAnswer)
    /\ UNCHANGED <<tmp, content, pin, got, todo>>

Step(i) ==
    \/ \E a \in Archives, w \in Archives \cup {NoSum} : Download(i, a, w)
    \/ Fail(i)
    \/ \E p \in Paths : RemoveFromTmp(i, p) \/ RemoveFromContent(i, p)
    \/ TmpCleared(i) \/ ContentCleared(i)
    \/ \E p \in Parts : Extract(i, p)
    \/ Extracted(i) \/ Located(i) \/ RecordDigest(i)
    \/ Publish(i)
    \/ Return(i)

Next ==
    \E i \in Installers :
        \/ \E e \in Archives \cup {NoPin} : EnsureHit(i, e) \/ EnsureMiss(i, e)
        \/ Step(i)
        \/ Crash(i)

Spec == Init /\ [][Next]_vars

-----------------------------------------------------------------------------
(* An entry a later call will be served from holds one archive, whole, that the
   publisher signed, under no digest but its own: no crash and no error leaves
   a mixed or half-unpacked toolchain behind that reads as a cache hit. *)
EntryWhole ==
    HasBin(content) =>
        \E a \in Signed, d \in Archives \cup {Absent} :
            d \in {a, Absent} /\ content = Tree(a, d)

(* A call that succeeded under a pin runs the archive the lock pins, unless the
   entry has no digest record to compare ("a cache entry from before digests
   were recorded ... is accepted"). *)
PinHonoured ==
    \A i \in Installers :
        pc[i] = "answered" /\ ans[i] # Error =>
            HasBin(content) /\ (pin[i] = NoPin \/ content[Meta] \in {Absent, pin[i]})

(* "commit it and every machine gets byte-identical binaries" (lock.go:21-23):
   when every call in flight has answered with a digest, the cache holds what
   that digest names. *)
AnswersAreInstalled ==
    (\A i \in Installers : ans[i] \in Archives) =>
        \A i \in Installers : \A p \in Parts : content[p] = Tree(ans[i], Absent)[p]

(* What earlier failures and crashes left on disk never makes a later call
   fail: the final rename always finds tmp unpacked and its target free. *)
RenameSucceeds ==
    \A i \in Installers :
        pc[i] = "publish" => content = Empty /\ tmp \in {Tree(got[i], got[i]), Tree(got[i], Absent)}

(* The cache implements ToolchainStore: the entry appears in one step and stays. *)
Store == INSTANCE ToolchainStore WITH
    NoEntry <- Error,
    entry <- IF HasBin(content)
             THEN [tree |-> content[Bin], digest |-> content[Meta]]
             ELSE Error

ASSUME EntryAssumption == Error \notin Store!Entries

ImplementsStore == Store!StoreSpec
=============================================================================
