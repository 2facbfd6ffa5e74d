---------------------------- MODULE DownloadCache ---------------------------
(***************************************************************************)
(* A service's download: binaries.Manager.EnsureDownload                   *)
(* (src/binaries/download.go) for one URL, and the two layers of doze.lock *)
(* (src/binaries/lock.go) its callers keep in memory and save: the digest  *)
(* the URL is pinned to, and a module's pin beside it.                     *)
(*                                                                         *)
(* Several projects, each with a doze.lock of its own, share one cache and *)
(* one daemon; the server behind the URL sends what it likes.  As in       *)
(* ToolchainCache a directory is a function from paths to the archive a    *)
(* file came from, and every file is written and removed by itself, so a   *)
(* call can fail or die between any two.                                   *)
(***************************************************************************)
CONSTANTS
    Calls, Projects,
    Of,          \* the project of each call
    Archives,    \* what the server may send; each stands for its digest
    Broken,      \* those that cannot be unpacked: cut short, or a path outside
    Parts,       \* the files archives hold, under root/
    Holds,       \* the files of each archive: a directory is known by its files
    Under,       \* the top-level directory of a file, or the file itself
    Dirs,        \* which of these are directories
    Raw, Meta,   \* .download, .doze-archive-sha
    Stuck,       \* paths that cannot be removed, or linked; the error is ignored
    Overlap,     \* whether calls may fetch at the same time, and an entry be
                 \* removed bit by bit or under a call that is reading it
    ModulePins,  \* releases a module may be pinned to
    Modular,     \* the projects that use the module
    Versionless, \* a module pin of an older doze's lock
    Absent, NoPin, NoModule, NoAnswer, Error

ASSUME PathAssumption == Raw \notin Parts /\ Meta \notin Parts /\ Raw # Meta
ASSUME ArchiveAssumption ==
    /\ Holds \in [Archives -> (SUBSET Parts) \ {{}}]
    /\ Broken \subseteq Archives
    /\ {Absent, NoPin, NoAnswer, Error} \cap Archives = {}
    /\ NoAnswer # Error
ASSUME LockAssumption ==
    /\ Of \in [Calls -> Projects] /\ Modular \subseteq Projects /\ Overlap \in BOOLEAN
    /\ Versionless \notin ModulePins /\ NoModule \notin ModulePins \cup {Versionless}

Paths == Parts \cup {Raw, Meta}

ASSUME StuckAssumption == Stuck \subseteq Paths

VARIABLES
    tmp,         \* <contentDir>.tmp
    content,     \* contentDir
    pc, pin,
    ans,         \* each call's answer: the digest, and the directory to run in
    got,         \* the archive a call streamed and verified, or found
    todo,        \* the files it has still to unpack
    lock,        \* each project's Lock: its downloads and its modules layer
    dirty,       \* Lock.dirty
    file         \* its doze.lock

cacheVars == <<tmp, content, pc, pin, ans, got, todo>>
lockVars == <<lock, dirty, file>>
vars == <<cacheVars, lockVars>>

Empty == [p \in Paths |-> Absent]

(* Archive a unpacked, with digest record d. *)
Tree(a, d) ==
    [p \in Paths |-> CASE p = Meta -> d [] p \in Holds[a] -> a [] OTHER -> Absent]

(* Every file of archive a, and no other, is under root/. *)
Whole(dir, a) == \A p \in Parts : dir[p] = Tree(a, Absent)[p]

(* What a call returns: the digest and the directory to run in, or an error. *)
Results == [digest : Archives, root : {Under[p] : p \in Parts} \cup {"root"}] \cup {Error}

Layers == [download : Archives \cup {NoPin}, module : ModulePins \cup {NoModule}]

PCs == {"idle", "hit", "clear", "stream", "unpack", "record", "clearContent",
        "publish", "root", "cleanup", "answered"}

TypeOK ==
    /\ tmp \in [Paths -> Archives \cup {Absent}]
    /\ content \in [Paths -> Archives \cup {Absent}]
    /\ pc \in [Calls -> PCs]
    /\ pin \in [Calls -> Archives \cup {NoPin}]
    /\ ans \in [Calls -> Results \cup {NoAnswer}]
    /\ got \in [Calls -> Archives \cup {Absent}]
    /\ todo \in [Calls -> SUBSET Parts]
    /\ lock \in [Projects -> Layers]
    /\ dirty \in [Projects -> BOOLEAN]
    /\ file \in [Projects -> [download : Archives \cup {NoPin},
                              module : ModulePins \cup {Versionless, NoModule}]]

-----------------------------------------------------------------------------
(* What an empty doze.lock says. *)
NoLock == [download |-> NoPin, module |-> NoModule]

(* LoadLock drops the pins of an older doze: they pin again on the next use. *)
Load(f) == [f EXCEPT !.module = IF @ = Versionless THEN NoModule ELSE @]

\* dropping a pin is no change
LoadsClean(f) == FALSE
LoadDirties(f) == Load(f) # f

\* a second digest moves the pin
RecordMoves(l, a) == [l EXCEPT !.download = a]
(* RecordDownload: the first digest is the pin. *)
Record(l, a) == IF l.download = NoPin THEN [l EXCEPT !.download = a] ELSE l

\* the pin is compared only with what is fetched
HitUnchecked(d, e) == d
(* A recorded digest answers, unless the pin is another one. *)
Hit(d, e) == IF e \in {NoPin, d} THEN d ELSE Error

(* The digest of the bytes that arrived is the pinned one. *)
Accepts(a, e) == e \in {NoPin, a}

\* nothing is removed when a call fails
NoCleanup(from) == IF from = "root" THEN "cleanup" ELSE "answered"
(* The deferred os.RemoveAll(tmp). *)
Deferred(from) == "cleanup"

(* os.RemoveAll has removed everything under dir it can. *)
Bare(dir) == \A p \in Paths \ Stuck : dir[p] = Absent

(* archiveRoot: the only directory under root/, else root/ itself. *)
archiveRoot(dir) ==
    LET tops == {Under[p] : p \in {q \in Parts : dir[q] # Absent}}
    IN  IF \E t \in Dirs : tops = {t} THEN CHOOSE t \in Dirs : tops = {t} ELSE "root"

(* A cache that is empty or holds what somebody fetched earlier; locks that
   others committed, from the server's other archives or an older doze. *)
Init ==
    /\ tmp = Empty
    /\ content \in {Empty} \cup {Tree(a, a) : a \in Archives \ Broken}
    /\ pc = [i \in Calls |-> "idle"]
    /\ pin = [i \in Calls |-> NoPin]
    /\ ans = [i \in Calls |-> NoAnswer]
    /\ got = [i \in Calls |-> Absent]
    /\ todo = [i \in Calls |-> {}]
    /\ file \in [Projects -> [download : {NoPin} \cup (Archives \ Broken),
                              module : {Versionless, NoModule}]]
    /\ \A p \in Projects : file[p].module = Versionless =>
          p \in Modular /\ file[p].download = NoPin
    /\ lock = [p \in Projects |-> Load(file[p])]
    /\ dirty = [p \in Projects |-> LoadDirties(file[p])]

-----------------------------------------------------------------------------
Goto(i, from, to) == pc[i] = from /\ pc' = [pc EXCEPT ![i] = to]

(* The calls of S are over, and their locals with them. *)
Over(S) ==
    /\ pc' = [i \in Calls |-> IF i \in S THEN "idle" ELSE pc[i]]
    /\ pin' = [i \in Calls |-> IF i \in S THEN NoPin ELSE pin[i]]
    /\ ans' = [i \in Calls |-> IF i \in S THEN NoAnswer ELSE ans[i]]
    /\ got' = [i \in Calls |-> IF i \in S THEN Absent ELSE got[i]]
    /\ todo' = [i \in Calls |-> IF i \in S THEN {} ELSE todo[i]]

Answer(i, d, dir) ==
    ans' = [ans EXCEPT ![i] =
               IF d = Error THEN Error ELSE [digest |-> d, root |-> archiveRoot(dir)]]

(* The caller asks with what GetDownload has for the URL. *)
Asks(i) == pin' = [pin EXCEPT ![i] = lock[Of[i]].download]

(* readShaMeta found a digest its pin allows; archiveRoot is still to be read. *)
EnsureHit(i) ==
    /\ content[Meta] # Absent
    /\ Goto(i, "idle", "hit")
    /\ Asks(i)
    /\ Hit(content[Meta], pin'[i]) # Error
    /\ got' = [got EXCEPT ![i] = content[Meta]]
    /\ UNCHANGED <<tmp, content, ans, todo, lockVars>>

EnsureMismatch(i) ==
    /\ content[Meta] # Absent
    /\ Goto(i, "idle", "answered")
    /\ Asks(i)
    /\ Hit(content[Meta], pin'[i]) = Error
    /\ Answer(i, Error, content)
    /\ UNCHANGED <<tmp, content, got, todo, lockVars>>

Fetching(i) == pc[i] \notin {"idle", "hit", "answered"}

EnsureMiss(i) ==
    /\ content[Meta] = Absent
    /\ Overlap \/ \A j \in Calls : ~Fetching(j)
    /\ Goto(i, "idle", "clear")
    /\ Asks(i)
    /\ UNCHANGED <<tmp, content, ans, got, todo, lockVars>>

(* os.RemoveAll of what an earlier call left, before and after. *)
RemoveFromTmp(i, p) ==
    /\ pc[i] \in {"clear", "cleanup"}
    /\ p \notin Stuck /\ tmp[p] # Absent
    /\ tmp' = [tmp EXCEPT ![p] = Absent]
    /\ UNCHANGED <<content, pc, pin, ans, got, todo, lockVars>>

Cleared(i) ==
    /\ Bare(tmp)
    /\ \/ Goto(i, "clear", "stream")
       \/ Goto(i, "cleanup", "answered")
    /\ UNCHANGED <<tmp, content, pin, ans, got, todo, lockVars>>

(* streamTo, whose hash is of the bytes that passed, then the checks. *)
Stream(i, a) ==
    /\ Goto(i, "stream", "unpack")
    /\ Accepts(a, pin[i])
    /\ tmp' = [tmp EXCEPT ![Raw] = a]
    /\ got' = [got EXCEPT ![i] = a]
    /\ todo' = [todo EXCEPT ![i] = Holds[a]]
    /\ UNCHANGED <<content, pin, ans, lockVars>>

(* The next file of the archive; a symlink that cannot be made is left out. *)
Unpack(i, p) ==
    /\ pc[i] = "unpack"
    /\ p \in todo[i]
    /\ \/ tmp' = [tmp EXCEPT ![p] = got[i]]
       \/ p \in Stuck /\ UNCHANGED tmp
    /\ todo' = [todo EXCEPT ![i] = @ \ {p}]
    /\ UNCHANGED <<content, pc, pin, ans, got, lockVars>>

(* os.Remove(.download): its error is ignored. *)
Unpacked(i) ==
    /\ todo[i] = {} /\ got[i] \notin Broken
    /\ Goto(i, "unpack", "record")
    /\ tmp' \in {tmp, [tmp EXCEPT ![Raw] = Absent]}
    /\ UNCHANGED <<content, pin, ans, got, todo, lockVars>>

(* A directory that cannot be made, a download that fails or is refused, with
   or without a file begun; an archive that cannot be unpacked. *)
Fail(i) ==
    /\ \/ Goto(i, "clear", "answered") /\ Bare(tmp) /\ UNCHANGED tmp
       \/ Goto(i, "stream", Deferred("stream"))
          /\ tmp' \in {tmp} \cup {[tmp EXCEPT ![Raw] = a] : a \in Archives}
       \/ Goto(i, "unpack", Deferred("unpack")) /\ UNCHANGED tmp
    /\ Answer(i, Error, tmp)
    /\ UNCHANGED <<content, pin, got, todo, lockVars>>

(* writeShaMeta: an error is ignored. *)
RecordDigest(i) ==
    /\ Goto(i, "record", "clearContent")
    /\ tmp' \in {tmp, [tmp EXCEPT ![Meta] = got[i]]}
    /\ UNCHANGED <<content, pin, ans, got, todo, lockVars>>

(* os.RemoveAll(contentDir). *)
RemoveFromContent(i, p) ==
    /\ pc[i] = "clearContent"
    /\ p \notin Stuck /\ content[p] # Absent
    /\ content' = [content EXCEPT ![p] = Absent]
    /\ UNCHANGED <<tmp, pc, pin, ans, got, todo, lockVars>>

ContentCleared(i) ==
    /\ Bare(content)
    /\ Goto(i, "clearContent", "publish")
    /\ UNCHANGED <<tmp, content, pin, ans, got, todo, lockVars>>

(* os.Rename(tmp, contentDir). *)
Publish(i) ==
    /\ IF tmp # Empty /\ content = Empty
       THEN /\ Goto(i, "publish", "root")
            /\ content' = tmp /\ tmp' = Empty
            /\ UNCHANGED ans
       ELSE /\ Goto(i, "publish", Deferred("publish"))
            /\ Answer(i, Error, tmp)
            /\ UNCHANGED <<tmp, content>>
    /\ UNCHANGED <<pin, got, todo, lockVars>>

(* archiveRoot reads what is there by now. *)
ReadRoot(i) ==
    /\ \/ Goto(i, "hit", "answered")
       \/ Goto(i, "root", Deferred("root"))
    /\ Answer(i, got[i], content)
    /\ UNCHANGED <<tmp, content, pin, got, todo, lockVars>>

-----------------------------------------------------------------------------
(* A change of a project's lock sets dirty. *)
Update(p, l) ==
    /\ lock' = [lock EXCEPT ![p] = l]
    /\ dirty' = [dirty EXCEPT ![p] = @ \/ l # lock[p]]
    /\ UNCHANGED file

(* The caller has its answer, and pins the digest if the URL had no pin. *)
Return(i) ==
    /\ pc[i] = "answered"
    /\ Over({i})
    /\ IF ans[i] # Error THEN Update(Of[i], Record(lock[Of[i]], ans[i].digest))
                         ELSE UNCHANGED lockVars
    /\ UNCHANGED <<tmp, content>>

(* RecordModule replaces a pin that differs. *)
RecordModule(p, m) ==
    /\ p \in Modular
    /\ Update(p, [lock[p] EXCEPT !.module = m])
    /\ UNCHANGED cacheVars

DropModule(p) ==
    /\ lock[p].module # NoModule
    /\ Update(p, [lock[p] EXCEPT !.module = NoModule])
    /\ UNCHANGED cacheVars

(* Save writes nothing unless there are changes. *)
Save(p) ==
    /\ dirty[p]
    /\ file' = [file EXCEPT ![p] = lock[p]]
    /\ dirty' = [dirty EXCEPT ![p] = FALSE]
    /\ UNCHANGED <<cacheVars, lock>>

(* The daemon dies and starts again: each lock is what is in its doze.lock. *)
Reload ==
    /\ Over(Calls)
    /\ lock' = [p \in Projects |-> Load(file'[p])]
    /\ dirty' = [p \in Projects |-> LoadDirties(file'[p])]
    /\ UNCHANGED <<tmp, content>>

Restart == UNCHANGED file /\ Reload

(* What os.WriteFile can leave of l when it is cut short: nothing, or the
   modules, which are written first. *)
Cuts(l) == {NoLock, [l EXCEPT !.download = NoPin]}

(* It dies in Save. *)
SaveDies(p) ==
    /\ dirty[p]
    /\ \E f \in Cuts(lock[p]) : file' = [file EXCEPT ![p] = f]
    /\ Reload

(* The person removes the entry, as the mismatch message tells them to. *)
Evict(S) ==
    /\ \E p \in S : content[p] # Absent
    /\ Overlap \/ /\ S = Paths /\ content[Meta] # Absent
                  /\ \A i \in Calls : pc[i] \notin {"hit", "root"}
    /\ content' = [p \in Paths |-> IF p \in S THEN Absent ELSE content[p]]
    /\ UNCHANGED <<tmp, pc, pin, ans, got, todo, lockVars>>

Next ==
    \/ \E i \in Calls :
        \/ EnsureHit(i) \/ EnsureMismatch(i) \/ EnsureMiss(i) \/ Cleared(i) \/ Fail(i)
        \/ \E a \in Archives : Stream(i, a)
        \/ \E p \in Parts : Unpack(i, p)
        \/ Unpacked(i) \/ RecordDigest(i) \/ ContentCleared(i) \/ Publish(i)
        \/ ReadRoot(i) \/ Return(i)
        \/ \E p \in Paths : RemoveFromTmp(i, p) \/ RemoveFromContent(i, p)
    \/ \E p \in Projects :
        \/ \E m \in ModulePins : RecordModule(p, m)
        \/ DropModule(p) \/ Save(p)
    \/ (\E p \in Projects : SaveDies(p)) \/ Restart
    \/ \E S \in SUBSET Paths : Evict(S)

Spec == Init /\ [][Next]_vars

-----------------------------------------------------------------------------
(* The cache implements DownloadStore: "A lock that pins something else is an
   error, never satisfied by what is on disk", and what answers is whole. *)
Store == INSTANCE DownloadStore WITH
    NoEntry <- Error,
    Root <- [a \in Archives |->
                IF \E t \in Dirs : \A p \in Holds[a] : Under[p] = t
                THEN CHOOSE t \in Dirs : \A p \in Holds[a] : Under[p] = t ELSE "root"],
    sent <- {j \in Calls : pc[j] \in {"hit", "root"}},
    entry <- IF content[Meta] = Absent THEN Error ELSE content[Meta],
    tree <- IF \E a \in Archives : Whole(content, a)
            THEN CHOOSE a \in Archives : Whole(content, a) ELSE Error

ImplementsStore == Store!StoreSpec

(* "nothing was unpacked" (download_test.go:125-131 finds the cache empty): a
   fetch that ends, whatever went wrong in it, leaves nothing beside the cache,
   and one that starts trips over nothing an earlier one left by dying. *)
TmpGone ==
    [][\A i \in Calls : Fetching(i) /\ pc'[i] \in {"stream", "answered"} => tmp' = Empty]_vars

(* A Lock without unsaved changes is what doze.lock says, through both layers
   and the pins LoadLock drops: Save skipping the write never loses a pin, and
   no pin of an older doze's is ever in a Lock (TypeOK). *)
CleanMeansSaved ==
    /\ TypeOK
    /\ \A p \in Projects : dirty[p] \/ file[p] = lock[p]

(* "A URL that is already pinned is never re-pinned" (lock.go, download.go:37):
   in memory, and on disk whoever saves and whenever the daemon dies, unless a
   death cuts doze.lock itself. *)
PinsStay ==
    [][\A p \in Projects :
          /\ file[p].download # NoPin =>
                \/ file'[p].download = file[p].download
                \/ file'[p].download = NoPin /\ SaveDies(p)
          /\ lock[p].download # NoPin =>
                lock'[p].download \in {lock[p].download, file'[p].download}]_vars
=============================================================================
