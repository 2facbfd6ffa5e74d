------------------------- MODULE DownloadCacheProofs ------------------------
(***************************************************************************)
(* Theorems about DownloadCache, for any archives, projects and calls.     *)
(*                                                                         *)
(* What doze.lock is told holds however calls overlap (LockInv).  What the *)
(* cache holds is known only while one call fetches at a time (CacheInv):  *)
(* each phase of the fetch relies on what the one before left in the two   *)
(* directories, and no file of the cache carries its archive's name once   *)
(* they are mixed.                                                         *)
(***************************************************************************)
EXTENDS DownloadCache, TLAPS

(* A Lock without changes is its doze.lock, and has every pin that is saved. *)
Pins ==
    \A p \in Projects : /\ dirty[p] \/ file[p] = lock[p]
                        /\ file[p].download # NoPin => lock[p].download = file[p].download

Verified == {"unpack", "record", "clearContent", "publish"}
Sending == {"hit", "root"}

Known(i) ==
    /\ IF pc[i] \in {"cleanup", "answered"} THEN ans[i] \in Results ELSE ans[i] = NoAnswer
    /\ pc[i] \in Verified \cup Sending => got[i] \in Archives /\ Accepts(got[i], pin[i])

LockInv == TypeOK /\ Pins /\ \A i \in Calls : Known(i)

One == \A i, j \in Calls : Fetching(i) /\ Fetching(j) => i = j

(* Files of one archive, and only of those it holds. *)
OneArchive(dir) ==
    \A p, q \in Parts : dir[p] # Absent /\ dir[q] # Absent => dir[p] = dir[q] /\ p \in Holds[dir[p]]

Entry ==
    /\ OneArchive(content)
    /\ content[Meta] # Absent => Whole(content, content[Meta])

(* What a fetch has in the temporary directory, and what it left in the cache. *)
Phase(i) ==
    /\ Fetching(i) /\ pc[i] \notin {"root", "cleanup"} => content[Meta] = Absent
    /\ pc[i] = "hit" => content[Meta] = got[i]
    /\ pc[i] \in Sending => Whole(content, got[i])
    /\ pc[i] = "stream" => tmp = Empty
    /\ pc[i] \in {"unpack", "record"} => tmp[Meta] = Absent
    /\ pc[i] = "unpack" =>
          /\ todo[i] \subseteq Holds[got[i]]
          /\ \A p \in Parts : tmp[p] = IF p \in Holds[got[i]] \ todo[i] THEN got[i] ELSE Absent
    /\ pc[i] \in Verified \ {"unpack"} => Whole(tmp, got[i]) /\ tmp[Meta] \in {Absent, got[i]}

(* Removals and links succeed: their errors are ignored (download.go:88, 92, 113,
   255), and what is left over is then published. *)
Removable == Stuck = {}

CacheInv == One /\ Entry /\ \A i \in Calls : Phase(i)

-----------------------------------------------------------------------------
(* A directory os.RemoveAll has gone over is empty when nothing is stuck. *)
LEMMA BareEmpty ==
    ASSUME Removable, NEW dir \in [Paths -> Archives \cup {Absent}], Bare(dir) PROVE dir = Empty
BY DEF Removable, Bare, Empty

(* The directory archiveRoot answers is under root/, or root/ itself. *)
LEMMA RootTyped ==
    ASSUME NEW dir PROVE archiveRoot(dir) \in {Under[p] : p \in Parts} \cup {"root"}
  <1> DEFINE tops == {Under[p] : p \in {q \in Parts : dir[q] # Absent}}
  <1>1. CASE \E t \in Dirs : tops = {t}
    <2>1. PICK t \in Dirs : archiveRoot(dir) = t /\ tops = {t}
      BY <1>1 DEF archiveRoot
    <2>2. t \in tops
      BY <2>1
    <2> QED BY <2>1, <2>2
  <1>2. CASE ~ \E t \in Dirs : tops = {t}
    BY <1>2 DEF archiveRoot
  <1> QED BY <1>1, <1>2

(* The files of an archive that is whole, and of none that is not. *)
LEMMA WholeMeans ==
    ASSUME NEW dir, NEW a
    PROVE  Whole(dir, a) <=> \A p \in Parts : dir[p] = IF p \in Holds[a] THEN a ELSE Absent
  <1>1. \A p \in Parts : Tree(a, Absent)[p] = IF p \in Holds[a] THEN a ELSE Absent
    BY PathAssumption DEF Tree, Paths
  <1> QED BY <1>1 DEF Whole

LEMMA TreeTyped ==
    ASSUME NEW a \in Archives
    PROVE  Tree(a, a) \in [Paths -> Archives \cup {Absent}] /\ Tree(a, a)[Meta] = a /\ Whole(Tree(a, a), a)
  <1>1. Tree(a, a) \in [Paths -> Archives \cup {Absent}] /\ Tree(a, a)[Meta] = a
    BY DEF Tree, Paths
  <1>2. \A p \in Parts : Tree(a, a)[p] = Tree(a, Absent)[p]
    BY PathAssumption DEF Tree, Paths
  <1> QED BY <1>1, <1>2 DEF Whole

(* A directory that is whole is one archive's. *)
LEMMA WholeIsOne ==
    ASSUME NEW dir, NEW a \in Archives, Whole(dir, a) PROVE OneArchive(dir)
  BY WholeMeans DEF OneArchive

LEMMA InitInv == Init => LockInv /\ CacheInv
  <1> SUFFICES ASSUME Init PROVE LockInv /\ CacheInv
    OBVIOUS
  <1>1. Empty \in [Paths -> Archives \cup {Absent}] /\ Empty[Meta] = Absent /\ OneArchive(Empty)
    BY DEF Empty, Paths, OneArchive
  <1>2. content \in [Paths -> Archives \cup {Absent}] /\ Entry
    <2>1. CASE content = Empty
      BY <1>1, <2>1 DEF Entry
    <2>2. ASSUME NEW a \in Archives, content = Tree(a, a) PROVE content \in [Paths -> Archives \cup {Absent}] /\ Entry
      BY <2>2, TreeTyped, WholeIsOne DEF Entry
    <2> QED BY <2>1, <2>2 DEF Init
  <1>3. \A p \in Projects : lock[p] = [file[p] EXCEPT !.module = IF @ = Versionless THEN NoModule ELSE @]
    BY DEF Init, Load
  <1>4. \A p \in Projects : /\ file[p] \in [download : Archives \cup {NoPin}, module : {Versionless, NoModule}]
                            /\ lock[p] \in Layers /\ lock[p].download = file[p].download
                            /\ dirty[p] \in BOOLEAN /\ (dirty[p] \/ file[p] = lock[p])
    <2> TAKE p \in Projects
    <2>1. file[p] \in [download : {NoPin} \cup (Archives \ Broken), module : {Versionless, NoModule}]
      BY DEF Init
    <2>2. dirty[p] = (Load(file[p]) # file[p]) /\ lock[p] = Load(file[p])
      BY DEF Init, LoadDirties
    <2>3. lock[p].download = file[p].download /\ lock[p] \in Layers
      BY <2>1, <1>3 DEF Layers
    <2> QED BY <2>1, <2>2, <2>3
  <1>5. TypeOK
    <2>1. /\ file \in [Projects -> [download : Archives \cup {NoPin}, module : ModulePins \cup {Versionless, NoModule}]]
      BY <1>4 DEF Init
    <2>2. lock \in [Projects -> Layers] /\ dirty \in [Projects -> BOOLEAN]
      BY <1>4 DEF Init
    <2> QED BY <1>1, <1>2, <2>1, <2>2 DEF Init, TypeOK, PCs
  <1>6. Pins
    BY <1>4 DEF Pins
  <1>7. \A i \in Calls : pc[i] = "idle" /\ ans[i] = NoAnswer
    BY DEF Init
  <1>8. \A i \in Calls : Known(i) /\ Phase(i) /\ ~Fetching(i)
    BY <1>7 DEF Known, Phase, Fetching, Verified, Sending
  <1> QED BY <1>2, <1>5, <1>6, <1>8 DEF LockInv, CacheInv, One

-----------------------------------------------------------------------------
(* A step of call i keeps what is known of the others. *)
LEMMA CallFrame ==
    ASSUME LockInv, NEW i \in Calls, UNCHANGED lockVars, TypeOK', Known(i)',
           \A j \in Calls \ {i} : /\ pc'[j] = pc[j] /\ pin'[j] = pin[j]
                                  /\ ans'[j] = ans[j] /\ got'[j] = got[j]
    PROVE  LockInv'
  <1>1. Pins'
    BY DEF LockInv, Pins, lockVars
  <1>2. ASSUME NEW j \in Calls \ {i} PROVE Known(j)'
    BY <1>2 DEF LockInv, Known, Accepts
  <1> QED BY <1>1, <1>2 DEF LockInv

LEMMA EnsureLock ==
    ASSUME LockInv, NEW i \in Calls, EnsureHit(i) \/ EnsureMismatch(i) \/ EnsureMiss(i) PROVE LockInv'
  <1>1. /\ UNCHANGED <<tmp, content, todo, lockVars>> /\ pc[i] = "idle"
        /\ pin' = [pin EXCEPT ![i] = lock[Of[i]].download]
    BY DEF EnsureHit, EnsureMismatch, EnsureMiss, Goto, Asks
  <1>2. lock[Of[i]].download \in Archives \cup {NoPin}
    BY LockAssumption DEF LockInv, TypeOK, Layers
  <1>3. pin' \in [Calls -> Archives \cup {NoPin}] /\ pin'[i] = lock[Of[i]].download
    BY <1>1, <1>2 DEF LockInv, TypeOK
  <1>4. CASE EnsureHit(i)
    <2> DEFINE a == content[Meta]
    <2>1. a \in Archives /\ a # Error
      BY <1>4, ArchiveAssumption DEF EnsureHit, LockInv, TypeOK, Paths
    <2>2. ans' = ans /\ pc' = [pc EXCEPT ![i] = "hit"] /\ got' = [got EXCEPT ![i] = a]
      BY <1>4 DEF EnsureHit, Goto
    <2>3. Accepts(a, pin'[i])
      BY <1>4 DEF EnsureHit, Hit, Accepts
    <2> HIDE DEF a
    <2>4. TypeOK'
      BY <1>1, <1>3, <2>1, <2>2 DEF LockInv, TypeOK, PCs, lockVars
    <2>5. pc'[i] = "hit" /\ got'[i] = a /\ ans'[i] = NoAnswer
      BY <1>1, <2>2 DEF LockInv, TypeOK, Known
    <2>6. Known(i)'
      BY <2>1, <2>3, <2>5 DEF Known, Accepts
    <2>7. \A j \in Calls \ {i} : pc'[j] = pc[j] /\ pin'[j] = pin[j] /\ ans'[j] = ans[j] /\ got'[j] = got[j]
      BY <1>1, <2>2 DEF LockInv, TypeOK
    <2> QED BY <1>1, <2>4, <2>6, <2>7, CallFrame
  <1>5. CASE EnsureMismatch(i)
    <2>1. ans' = [ans EXCEPT ![i] = Error] /\ pc' = [pc EXCEPT ![i] = "answered"] /\ got' = got
      BY <1>5 DEF EnsureMismatch, Answer, Goto
    <2>2. TypeOK'
      BY <1>1, <1>3, <2>1 DEF LockInv, TypeOK, PCs, Results, lockVars
    <2>3. pc'[i] = "answered" /\ ans'[i] \in Results
      BY <2>1 DEF LockInv, TypeOK, Results
    <2>4. Known(i)'
      BY <2>3 DEF Known, Verified, Sending
    <2>5. \A j \in Calls \ {i} : pc'[j] = pc[j] /\ pin'[j] = pin[j] /\ ans'[j] = ans[j] /\ got'[j] = got[j]
      BY <1>1, <2>1 DEF LockInv, TypeOK
    <2> QED BY <1>1, <2>2, <2>4, <2>5, CallFrame
  <1>6. CASE EnsureMiss(i)
    <2>1. ans' = ans /\ got' = got /\ pc' = [pc EXCEPT ![i] = "clear"]
      BY <1>6 DEF EnsureMiss, Goto
    <2>2. TypeOK'
      BY <1>1, <1>3, <2>1 DEF LockInv, TypeOK, PCs, lockVars
    <2>3. pc'[i] = "clear" /\ ans'[i] = NoAnswer
      BY <1>1, <2>1 DEF LockInv, TypeOK, Known
    <2>4. Known(i)'
      BY <2>3 DEF Known, Verified, Sending
    <2>5. \A j \in Calls \ {i} : pc'[j] = pc[j] /\ pin'[j] = pin[j] /\ ans'[j] = ans[j] /\ got'[j] = got[j]
      BY <1>1, <2>1 DEF LockInv, TypeOK
    <2> QED BY <1>1, <2>2, <2>4, <2>5, CallFrame
  <1> QED BY <1>4, <1>5, <1>6

(* The steps of a fetch that answer nothing. *)
LEMMA FetchLock ==
    ASSUME LockInv, NEW i \in Calls,
           \/ Cleared(i) \/ Unpacked(i) \/ RecordDigest(i) \/ ContentCleared(i)
           \/ \E p \in Paths : RemoveFromTmp(i, p) \/ RemoveFromContent(i, p)
    PROVE  LockInv'
  <1>1. UNCHANGED <<pin, ans, got, todo, lockVars>>
    BY DEF Cleared, Unpacked, RecordDigest, ContentCleared, RemoveFromTmp, RemoveFromContent
  <1>2. /\ pc' = [pc EXCEPT ![i] = pc'[i]]
        /\ \/ pc'[i] = pc[i]
           \/ pc[i] = "clear" /\ pc'[i] = "stream"
           \/ pc[i] = "cleanup" /\ pc'[i] = "answered"
           \/ pc[i] \in Verified /\ pc'[i] \in Verified
    <2>1. pc' = pc => pc' = [pc EXCEPT ![i] = pc'[i]] /\ pc'[i] = pc[i]
      BY DEF LockInv, TypeOK
    <2>2. ASSUME NEW from, NEW to, Goto(i, from, to) PROVE pc' = [pc EXCEPT ![i] = pc'[i]] /\ pc[i] = from /\ pc'[i] = to
      BY <2>2 DEF Goto, LockInv, TypeOK
    <2> QED
      BY <2>1, <2>2 DEF Cleared, Unpacked, RecordDigest, ContentCleared, RemoveFromTmp, RemoveFromContent, Verified, Sending
  <1>3. pc' \in [Calls -> PCs]
    BY <1>2 DEF LockInv, TypeOK, Verified, PCs
  <1>4. tmp' \in [Paths -> Archives \cup {Absent}] /\ content' \in [Paths -> Archives \cup {Absent}]
    <2>1. CASE Cleared(i) \/ ContentCleared(i)
      BY <2>1 DEF Cleared, ContentCleared, LockInv, TypeOK
    <2>2. CASE Unpacked(i)
      BY <2>2 DEF Unpacked, LockInv, TypeOK
    <2>3. CASE RecordDigest(i)
      BY <2>3 DEF RecordDigest, LockInv, TypeOK
    <2>4. CASE \E p \in Paths : RemoveFromTmp(i, p) \/ RemoveFromContent(i, p)
      BY <2>4 DEF RemoveFromTmp, RemoveFromContent, LockInv, TypeOK
    <2> QED BY <2>1, <2>2, <2>3, <2>4
  <1>5. TypeOK'
    BY <1>1, <1>3, <1>4 DEF LockInv, TypeOK, lockVars
  <1>6. Known(i)'
    BY <1>1, <1>2 DEF LockInv, Known, Verified, Sending, Accepts
  <1>7. \A j \in Calls \ {i} : pc'[j] = pc[j] /\ pin'[j] = pin[j] /\ ans'[j] = ans[j] /\ got'[j] = got[j]
    BY <1>1, <1>2 DEF LockInv, TypeOK
  <1> QED BY <1>1, <1>5, <1>6, <1>7, CallFrame

LEMMA StreamLock ==
    ASSUME LockInv, NEW i \in Calls,
           (\E a \in Archives : Stream(i, a)) \/ (\E p \in Parts : Unpack(i, p))
    PROVE  LockInv'
  <1>1. ASSUME NEW a \in Archives, Stream(i, a) PROVE LockInv'
    <2>1. /\ UNCHANGED <<content, pin, ans, lockVars>> /\ pc[i] = "stream"
          /\ pc' = [pc EXCEPT ![i] = "unpack"] /\ tmp' = [tmp EXCEPT ![Raw] = a]
          /\ got' = [got EXCEPT ![i] = a] /\ todo' = [todo EXCEPT ![i] = Holds[a]]
          /\ Accepts(a, pin[i])
      BY <1>1 DEF Stream, Goto
    <2>2. TypeOK'
      BY <2>1, ArchiveAssumption DEF LockInv, TypeOK, PCs, lockVars
    <2>3. pc'[i] = "unpack" /\ got'[i] = a /\ ans'[i] = NoAnswer
      BY <2>1 DEF LockInv, TypeOK, Known
    <2>4. Known(i)'
      BY <2>1, <2>3 DEF Known, Verified, Sending, Accepts
    <2>5. \A j \in Calls \ {i} : pc'[j] = pc[j] /\ pin'[j] = pin[j] /\ ans'[j] = ans[j] /\ got'[j] = got[j]
      BY <2>1 DEF LockInv, TypeOK
    <2> QED BY <2>1, <2>2, <2>4, <2>5, CallFrame
  <1>2. ASSUME NEW p \in Parts, Unpack(i, p) PROVE LockInv'
    <2>1. /\ UNCHANGED <<content, pc, pin, ans, got, lockVars>> /\ pc[i] = "unpack"
          /\ tmp' \in {tmp, [tmp EXCEPT ![p] = got[i]]} /\ todo' = [todo EXCEPT ![i] = @ \ {p}]
      BY <1>2 DEF Unpack
    <2>2. got[i] \in Archives
      BY <2>1 DEF LockInv, Known, Verified, Sending
    <2>3. TypeOK'
      BY <2>1, <2>2 DEF LockInv, TypeOK, lockVars
    <2>4. Known(i)'
      BY <2>1 DEF LockInv, Known, Accepts
    <2> QED BY <2>1, <2>3, <2>4, CallFrame
  <1> QED BY <1>1, <1>2

(* A call that gets its answer: the archive, or an error. *)
LEMMA EndLock ==
    ASSUME LockInv, NEW i \in Calls, Fail(i) \/ Publish(i) \/ ReadRoot(i) PROVE LockInv'
  <1>1. UNCHANGED <<pin, got, todo, lockVars>>
    BY DEF Fail, Publish, ReadRoot
  <1>2. Empty \in [Paths -> Archives \cup {Absent}]
    BY DEF Empty
  <1>3. /\ pc' = [pc EXCEPT ![i] = pc'[i]]
        /\ \/ pc'[i] \in {"cleanup", "answered"}
           \/ pc[i] = "publish" /\ pc'[i] = "root" /\ ans' = ans
        /\ tmp' \in [Paths -> Archives \cup {Absent}] /\ content' \in [Paths -> Archives \cup {Absent}]
    <2>1. CASE Fail(i)
      BY <2>1 DEF Fail, Goto, Deferred, LockInv, TypeOK
    <2>2. CASE Publish(i)
      BY <1>2, <2>2 DEF Publish, Goto, Deferred, LockInv, TypeOK
    <2>3. CASE ReadRoot(i)
      BY <2>3 DEF ReadRoot, Goto, Deferred, LockInv, TypeOK
    <2> QED BY <2>1, <2>2, <2>3
  <1>4. pc' \in [Calls -> PCs] /\ \A j \in Calls \ {i} : pc'[j] = pc[j]
    BY <1>3 DEF LockInv, TypeOK, PCs
  <1>5. CASE pc[i] = "publish" /\ pc'[i] = "root" /\ ans' = ans
    <2>1. TypeOK'
      BY <1>1, <1>3, <1>4, <1>5 DEF LockInv, TypeOK, lockVars
    <2>2. Known(i)'
      BY <1>1, <1>5 DEF LockInv, Known, Verified, Sending, Accepts
    <2> QED BY <1>1, <1>4, <1>5, <2>1, <2>2, CallFrame
  <1>6. CASE pc'[i] \in {"cleanup", "answered"}
    <2>1. PICK r \in Results : ans' = [ans EXCEPT ![i] = r]
      <3>1. ASSUME NEW d \in Archives \cup {Error}, NEW dir, Answer(i, d, dir)
            PROVE \E r \in Results : ans' = [ans EXCEPT ![i] = r]
        BY <3>1, RootTyped DEF Answer, Results
      <3>2. pc[i] \in Sending => got[i] \in Archives
        BY DEF LockInv, Known
      <3>3. \E d \in Archives \cup {Error} : Answer(i, d, tmp) \/ Answer(i, d, content)
        BY <1>3, <1>6, <3>2 DEF Fail, Publish, ReadRoot, Goto, Sending, LockInv, TypeOK
      <3> QED BY <3>1, <3>3
    <2>2. TypeOK'
      BY <1>1, <1>3, <1>4, <2>1 DEF LockInv, TypeOK, lockVars
    <2>3. ans'[i] = r
      BY <2>1 DEF LockInv, TypeOK
    <2>4. Known(i)'
      BY <1>6, <2>3 DEF Known, Verified, Sending
    <2>5. \A j \in Calls \ {i} : pc'[j] = pc[j] /\ pin'[j] = pin[j] /\ ans'[j] = ans[j] /\ got'[j] = got[j]
      BY <1>1, <1>4, <2>1 DEF LockInv, TypeOK
    <2> QED BY <1>1, <2>2, <2>4, <2>5, CallFrame
  <1> QED BY <1>3, <1>5, <1>6

(* The calls of S are over: what is known of the others stays. *)
LEMMA OverKnown ==
    ASSUME LockInv, NEW S \in SUBSET Calls, Over(S)
    PROVE  /\ pc' \in [Calls -> PCs]
           /\ pin' \in [Calls -> Archives \cup {NoPin}] /\ ans' \in [Calls -> Results \cup {NoAnswer}]
           /\ got' \in [Calls -> Archives \cup {Absent}] /\ todo' \in [Calls -> SUBSET Parts]
           /\ \A i \in Calls : Known(i)'
  <1>1. /\ \A i \in S : pc'[i] = "idle" /\ ans'[i] = NoAnswer
        /\ \A i \in Calls \ S : pc'[i] = pc[i] /\ pin'[i] = pin[i] /\ ans'[i] = ans[i] /\ got'[i] = got[i]
    BY DEF Over
  <1>2. \A i \in S : Known(i)'
    BY <1>1 DEF Known, Verified, Sending
  <1>3. \A i \in Calls \ S : Known(i)'
    BY <1>1 DEF LockInv, Known, Accepts
  <1> QED BY <1>2, <1>3 DEF Over, LockInv, TypeOK, PCs

(* A lock changes to another that has every pin of its doze.lock. *)
LEMMA UpdatePins ==
    ASSUME LockInv, NEW p \in Projects, NEW l \in Layers, Update(p, l),
           lock[p].download # NoPin => l.download = lock[p].download
    PROVE  /\ lock' \in [Projects -> Layers] /\ dirty' \in [Projects -> BOOLEAN] /\ file' = file
           /\ Pins'
           /\ \A q \in Projects : lock[q].download # NoPin => lock'[q].download = lock[q].download
  <1>1. /\ lock' \in [Projects -> Layers] /\ dirty' \in [Projects -> BOOLEAN] /\ file' = file
        /\ lock'[p] = l /\ \A q \in Projects \ {p} : lock'[q] = lock[q] /\ dirty'[q] = dirty[q]
    BY DEF Update, LockInv, TypeOK
  <1>2. dirty'[p] \/ (~dirty[p] /\ l = lock[p])
    BY DEF Update, LockInv, TypeOK
  <1>3. Pins'
    <2>1. dirty'[p] \/ file'[p] = lock'[p]
      BY <1>1, <1>2 DEF LockInv, Pins
    <2>2. file'[p].download # NoPin => lock'[p].download = file'[p].download
      BY <1>1 DEF LockInv, Pins
    <2> QED BY <1>1, <2>1, <2>2 DEF LockInv, Pins
  <1> QED BY <1>1, <1>3

(* Pins a step may not lose. *)
Kept ==
    \A p \in Projects :
        /\ file[p].download # NoPin =>
              \/ file'[p].download = file[p].download
              \/ file'[p].download = NoPin /\ SaveDies(p)
        /\ lock[p].download # NoPin => lock'[p].download \in {lock[p].download, file'[p].download}

LEMMA ReturnLock ==
    ASSUME LockInv, NEW i \in Calls, Return(i) PROVE LockInv' /\ Kept
  <1> DEFINE l == Record(lock[Of[i]], ans[i].digest)
  <1>1. Over({i}) /\ tmp' = tmp /\ content' = content /\ pc[i] = "answered" /\ Of[i] \in Projects
    BY LockAssumption DEF Return
  <1>2. /\ lock' \in [Projects -> Layers] /\ dirty' \in [Projects -> BOOLEAN] /\ file' = file
        /\ Pins'
        /\ \A q \in Projects : lock[q].download # NoPin => lock'[q].download = lock[q].download
    <2>1. CASE ans[i] = Error
      BY <2>1 DEF Return, lockVars, LockInv, TypeOK, Pins
    <2>2. CASE ans[i] # Error
      <3>1. ans[i].digest \in Archives
        BY <1>1, <2>2 DEF LockInv, Known, Results
      <3>2. lock[Of[i]] \in Layers
        BY <1>1 DEF LockInv, TypeOK
      <3>3. l \in Layers /\ (lock[Of[i]].download # NoPin => l.download = lock[Of[i]].download)
        BY <3>1, <3>2 DEF Record, Layers
      <3>4. Update(Of[i], l)
        BY <2>2 DEF Return
      <3> HIDE DEF l
      <3> QED BY <1>1, <3>3, <3>4, UpdatePins
    <2> QED BY <2>1, <2>2
  <1>3. LockInv'
    <2>1. TypeOK'
      BY <1>1, <1>2, OverKnown DEF LockInv, TypeOK
    <2> QED BY <1>1, <1>2, <2>1, OverKnown DEF LockInv
  <1> QED BY <1>2, <1>3 DEF Kept

LEMMA ModuleLock ==
    ASSUME LockInv, NEW p \in Projects,
           DropModule(p) \/ \E m \in ModulePins : RecordModule(p, m)
    PROVE  LockInv' /\ Kept
  <1>1. PICK m \in ModulePins \cup {NoModule} :
           Update(p, [lock[p] EXCEPT !.module = m]) /\ UNCHANGED cacheVars
    BY DEF DropModule, RecordModule
  <1>2. /\ [lock[p] EXCEPT !.module = m] \in Layers
        /\ [lock[p] EXCEPT !.module = m].download = lock[p].download
    BY DEF LockInv, TypeOK, Layers
  <1>3. /\ lock' \in [Projects -> Layers] /\ dirty' \in [Projects -> BOOLEAN] /\ file' = file
        /\ Pins'
        /\ \A q \in Projects : lock[q].download # NoPin => lock'[q].download = lock[q].download
    BY <1>1, <1>2, UpdatePins
  <1>4. TypeOK'
    BY <1>1, <1>3 DEF cacheVars, LockInv, TypeOK
  <1>5. \A i \in Calls : Known(i)'
    BY <1>1 DEF cacheVars, LockInv, Known, Accepts
  <1> QED BY <1>3, <1>4, <1>5 DEF LockInv, Kept

LEMMA SaveLock ==
    ASSUME LockInv, NEW p \in Projects, Save(p) PROVE LockInv' /\ Kept
  <1>1. /\ UNCHANGED <<cacheVars, lock>> /\ file' = [file EXCEPT ![p] = lock[p]]
        /\ dirty' = [dirty EXCEPT ![p] = FALSE]
    BY DEF Save
  <1>2. lock[p] \in [download : Archives \cup {NoPin}, module : ModulePins \cup {Versionless, NoModule}]
    BY DEF LockInv, TypeOK, Layers
  <1>3. TypeOK'
    BY <1>1, <1>2 DEF cacheVars, LockInv, TypeOK
  <1>4. /\ file'[p] = lock[p] /\ \A q \in Projects \ {p} : file'[q] = file[q] /\ dirty'[q] = dirty[q]
    BY <1>1 DEF LockInv, TypeOK
  <1>5. Pins' /\ Kept
    BY <1>1, <1>4 DEF LockInv, Pins, Kept
  <1>6. \A i \in Calls : Known(i)'
    BY <1>1 DEF cacheVars, LockInv, Known, Accepts
  <1> QED BY <1>3, <1>5, <1>6 DEF LockInv

(* A daemon that starts again has the pins of the files it finds. *)
LEMMA ReloadLock ==
    ASSUME LockInv, Restart \/ \E p \in Projects : SaveDies(p) PROVE LockInv' /\ Kept
  <1> DEFINE Files == [download : Archives \cup {NoPin}, module : ModulePins \cup {Versionless, NoModule}]
  <1>1. Over(Calls) /\ tmp' = tmp /\ content' = content
    BY DEF Restart, SaveDies, Reload
  <1>2. NoLock \in Files /\ NoLock.download = NoPin
    BY DEF NoLock
  <1>3. /\ file' \in [Projects -> Files]
        /\ \A p \in Projects : file'[p] = file[p] \/ (file'[p].download = NoPin /\ SaveDies(p))
    <2>1. CASE Restart
      BY <2>1 DEF Restart, LockInv, TypeOK
    <2>2. ASSUME NEW q \in Projects, SaveDies(q)
          PROVE  /\ file' \in [Projects -> Files]
                 /\ file'[q].download = NoPin /\ \A p \in Projects \ {q} : file'[p] = file[p]
      <3>1. PICK f \in Cuts(lock[q]) : file' = [file EXCEPT ![q] = f]
        BY <2>2 DEF SaveDies
      <3>2. lock[q] \in Layers
        BY DEF LockInv, TypeOK
      <3>3. f \in Files /\ f.download = NoPin
        BY <1>2, <3>1, <3>2 DEF Cuts, Layers
      <3> QED BY <3>1, <3>3 DEF LockInv, TypeOK
    <2> QED BY <2>1, <2>2
  <1>4. \A p \in Projects : /\ lock'[p] = [file'[p] EXCEPT !.module = IF @ = Versionless THEN NoModule ELSE @]
                            /\ dirty'[p] = (lock'[p] # file'[p])
    BY DEF Restart, SaveDies, Reload, Load, LoadDirties
  <1>5. \A p \in Projects : lock'[p] \in Layers /\ lock'[p].download = file'[p].download
    <2> SUFFICES ASSUME NEW p \in Projects
                 PROVE  lock'[p] \in Layers /\ lock'[p].download = file'[p].download
      OBVIOUS
    <2>1. PICK f \in Files : file'[p] = f
      BY <1>3
    <2>2. lock'[p] = [f EXCEPT !.module = IF @ = Versionless THEN NoModule ELSE @]
      BY <1>4, <2>1
    <2> QED BY <2>1, <2>2 DEF Layers
  <1>6. lock' \in [Projects -> Layers] /\ dirty' \in [Projects -> BOOLEAN]
    BY <1>4, <1>5 DEF Restart, SaveDies, Reload
  <1>7. TypeOK'
    BY <1>1, <1>3, <1>6, OverKnown DEF LockInv, TypeOK
  <1>8. Pins' /\ Kept
    BY <1>2, <1>3, <1>4, <1>5 DEF Pins, Kept
  <1> QED BY <1>1, <1>7, <1>8, OverKnown DEF LockInv

LEMMA EvictLock == ASSUME LockInv, NEW S \in SUBSET Paths, Evict(S) PROVE LockInv'
  <1>1. content' \in [Paths -> Archives \cup {Absent}]
    BY DEF Evict, LockInv, TypeOK
  <1>2. TypeOK'
    BY <1>1 DEF Evict, LockInv, TypeOK, lockVars
  <1> QED BY <1>2 DEF Evict, LockInv, Known, Pins, Accepts, lockVars

LEMMA StepLock == ASSUME LockInv, [Next]_vars PROVE LockInv' /\ Kept
  <1>a. UNCHANGED <<lock, file>> => Kept
    BY DEF Kept
  <1>1. CASE UNCHANGED vars
    BY <1>1, <1>a DEF vars, cacheVars, lockVars, LockInv, TypeOK, Known, Pins, Accepts
  <1>2. ASSUME NEW i \in Calls, EnsureHit(i) \/ EnsureMismatch(i) \/ EnsureMiss(i) PROVE LockInv' /\ Kept
    BY <1>2, <1>a, EnsureLock DEF EnsureHit, EnsureMismatch, EnsureMiss, lockVars
  <1>3. ASSUME NEW i \in Calls,
               \/ Cleared(i) \/ Unpacked(i) \/ RecordDigest(i) \/ ContentCleared(i)
               \/ \E p \in Paths : RemoveFromTmp(i, p) \/ RemoveFromContent(i, p)
        PROVE LockInv' /\ Kept
    BY <1>3, <1>a, FetchLock
       DEF Cleared, Unpacked, RecordDigest, ContentCleared, RemoveFromTmp, RemoveFromContent, lockVars
  <1>4. ASSUME NEW i \in Calls,
               (\E a \in Archives : Stream(i, a)) \/ (\E p \in Parts : Unpack(i, p))
        PROVE LockInv' /\ Kept
    BY <1>4, <1>a, StreamLock DEF Stream, Unpack, lockVars
  <1>5. ASSUME NEW i \in Calls, Fail(i) \/ Publish(i) \/ ReadRoot(i) PROVE LockInv' /\ Kept
    BY <1>5, <1>a, EndLock DEF Fail, Publish, ReadRoot, lockVars
  <1>6. ASSUME NEW S \in SUBSET Paths, Evict(S) PROVE LockInv' /\ Kept
    BY <1>6, <1>a, EvictLock DEF Evict, lockVars
  <1> QED
    BY <1>1, <1>2, <1>3, <1>4, <1>5, <1>6, ReturnLock, ModuleLock, SaveLock, ReloadLock DEF Next

-----------------------------------------------------------------------------
(* While i fetches nobody else does: what the others may rely on is nothing. *)
LEMMA FetchFrame ==
    ASSUME LockInv, CacheInv, NEW i \in Calls, Fetching(i),
           \A j \in Calls \ {i} : pc'[j] = pc[j] /\ got'[j] = got[j],
           content' = content \/ content[Meta] = Absent, Entry', Phase(i)'
    PROVE  CacheInv'
  <1>1. \A j \in Calls \ {i} : ~Fetching(j)'
    BY DEF CacheInv, One, Fetching
  <1>2. One'
    BY <1>1 DEF One
  <1>3. ASSUME NEW j \in Calls \ {i} PROVE Phase(j)'
    <2>1. CASE pc[j] # "hit"
      BY <1>1, <2>1 DEF Phase, Fetching, Verified, Sending
    <2>2. CASE pc[j] = "hit"
      <3>1. content[Meta] = got[j] /\ Whole(content, got[j]) /\ got[j] \in Archives
        BY <2>2 DEF LockInv, Known, CacheInv, Phase, Sending
      <3>2. content' = content
        BY <3>1, ArchiveAssumption
      <3> QED BY <2>2, <3>1, <3>2 DEF Phase, Fetching, Verified, Sending, Whole, Tree
    <2> QED BY <2>1, <2>2
  <1> QED BY <1>2, <1>3 DEF CacheInv

LEMMA EnsureCache ==
    ASSUME LockInv, CacheInv, ~Overlap, NEW i \in Calls,
           EnsureHit(i) \/ EnsureMismatch(i) \/ EnsureMiss(i)
    PROVE  CacheInv'
  <1>a. UNCHANGED <<tmp, content, todo>> /\ \A j \in Calls \ {i} : got'[j] = got[j]
    BY DEF EnsureHit, EnsureMismatch, EnsureMiss, LockInv, TypeOK
  <1>1. UNCHANGED <<tmp, content, todo>> /\ Entry' /\ \A j \in Calls \ {i} : got'[j] = got[j]
    BY <1>a DEF CacheInv, Entry, OneArchive, Whole, Tree
  <1>2. CASE EnsureHit(i) \/ EnsureMismatch(i)
    <2>1. pc'[i] \in {"hit", "answered"} /\ \A j \in Calls \ {i} : pc'[j] = pc[j]
      BY <1>2 DEF EnsureHit, EnsureMismatch, Goto, LockInv, TypeOK
    <2>2. One'
      BY <2>1 DEF CacheInv, One, Fetching
    <2>3. pc'[i] = "hit" => got'[i] = content[Meta] /\ content[Meta] # Absent
      BY <1>2 DEF EnsureHit, EnsureMismatch, Goto, LockInv, TypeOK
    <2>4. Phase(i)'
      BY <1>1, <2>1, <2>3 DEF CacheInv, Entry, Phase, Fetching, Verified, Sending, Whole, Tree
    <2>5. ASSUME NEW j \in Calls \ {i} PROVE Phase(j)'
      BY <1>1, <2>1 DEF CacheInv, Phase, Fetching, Verified, Sending, Whole, Tree
    <2> QED BY <1>1, <2>2, <2>4, <2>5 DEF CacheInv
  <1>3. CASE EnsureMiss(i)
    <2>1. /\ pc'[i] = "clear" /\ content[Meta] = Absent
          /\ \A j \in Calls \ {i} : pc'[j] = pc[j] /\ ~Fetching(j)
      BY <1>3 DEF EnsureMiss, Goto, LockInv, TypeOK
    <2>2. One'
      BY <2>1 DEF One, Fetching
    <2>3. Phase(i)'
      BY <1>1, <2>1 DEF Phase, Verified, Sending
    <2>4. ASSUME NEW j \in Calls \ {i} PROVE Phase(j)'
      BY <1>1, <2>1 DEF CacheInv, Phase, Fetching, Verified, Sending, Whole, Tree
    <2> QED BY <1>1, <2>2, <2>3, <2>4 DEF CacheInv
  <1> QED BY <1>2, <1>3

(* The steps on the temporary directory. *)
LEMMA TmpCache ==
    ASSUME LockInv, CacheInv, Removable, NEW i \in Calls,
           \/ Cleared(i) \/ Fail(i) \/ Unpacked(i) \/ RecordDigest(i)
           \/ \E p \in Paths : RemoveFromTmp(i, p)
           \/ \E a \in Archives : Stream(i, a)
           \/ \E p \in Parts : Unpack(i, p)
    PROVE  CacheInv'
  <1>1. content' = content /\ Fetching(i)
    BY DEF Cleared, Fail, Unpacked, RecordDigest, RemoveFromTmp, Stream, Unpack, Goto, Fetching
  <1>2. Entry'
    BY <1>1 DEF CacheInv, Entry, OneArchive, Whole, Tree
  <1>3. \A j \in Calls \ {i} : pc'[j] = pc[j] /\ got'[j] = got[j]
    BY DEF Cleared, Fail, Unpacked, RecordDigest, RemoveFromTmp, Stream, Unpack, Goto, LockInv, TypeOK
  <1>4. CASE Cleared(i)
    <2>1. tmp' = tmp /\ tmp = Empty /\ \/ pc[i] = "clear" /\ pc'[i] = "stream"
                                       \/ pc'[i] = "answered"
      BY <1>4, BareEmpty DEF Cleared, Goto, LockInv, TypeOK
    <2>2. Phase(i)'
      BY <1>1, <2>1 DEF CacheInv, Phase, Fetching, Verified, Sending, Empty
    <2> QED BY <1>1, <1>2, <1>3, <2>2, FetchFrame
  <1>5. CASE Fail(i)
    <2>1. pc'[i] \in {"cleanup", "answered"}
      BY <1>5 DEF Fail, Goto, Deferred, LockInv, TypeOK
    <2>2. Phase(i)'
      BY <2>1 DEF Phase, Fetching, Verified, Sending
    <2> QED BY <1>1, <1>2, <1>3, <2>2, FetchFrame
  <1>6. ASSUME NEW p \in Paths, RemoveFromTmp(i, p) PROVE CacheInv'
    <2>1. pc' = pc /\ pc[i] \in {"clear", "cleanup"}
      BY <1>6 DEF RemoveFromTmp
    <2>2. Phase(i)'
      BY <1>1, <2>1 DEF CacheInv, Phase, Fetching, Verified, Sending
    <2> QED BY <1>1, <1>2, <1>3, <2>2, FetchFrame
  <1>7. ASSUME NEW a \in Archives, Stream(i, a) PROVE CacheInv'
    <2>1. /\ pc[i] = "stream" /\ pc'[i] = "unpack" /\ got'[i] = a /\ todo'[i] = Holds[a]
          /\ tmp = Empty /\ tmp' = [tmp EXCEPT ![Raw] = a]
      BY <1>7 DEF Stream, Goto, LockInv, TypeOK, CacheInv, Phase
    <2>2. tmp'[Meta] = Absent /\ \A p \in Parts : tmp'[p] = Absent
      BY <2>1, PathAssumption DEF Empty, Paths
    <2>3. content'[Meta] = Absent
      BY <1>1, <2>1 DEF CacheInv, Phase, Fetching
    <2>4. Phase(i)'
      BY <2>1, <2>2, <2>3 DEF Phase, Verified, Sending
    <2> QED BY <1>1, <1>2, <1>3, <2>4, FetchFrame
  <1>8. ASSUME NEW p \in Parts, Unpack(i, p) PROVE CacheInv'
    <2>1. /\ pc' = pc /\ pc[i] = "unpack" /\ got' = got /\ todo'[i] = todo[i] \ {p} /\ p \in todo[i]
          /\ tmp' = [tmp EXCEPT ![p] = got[i]]
      BY <1>8 DEF Unpack, Removable, LockInv, TypeOK
    <2>2. /\ tmp[Meta] = Absent /\ content'[Meta] = Absent
          /\ \A q \in Parts : tmp[q] = IF q \in Holds[got[i]] \ todo[i] THEN got[i] ELSE Absent
      BY <1>1, <2>1 DEF CacheInv, Phase, Fetching
    <2>3. todo[i] \subseteq Holds[got[i]]
      BY <2>1 DEF CacheInv, Phase
    <2>4. tmp'[Meta] = Absent
      BY <2>1, <2>2, PathAssumption
    <2>5. tmp'[p] = got[i] /\ \A q \in Parts \ {p} : tmp'[q] = tmp[q]
      BY <2>1 DEF LockInv, TypeOK, Paths
    <2>6. \A q \in Parts : tmp'[q] = IF q \in Holds[got[i]] \ todo'[i] THEN got[i] ELSE Absent
      BY <2>1, <2>2, <2>3, <2>5
    <2>7. Phase(i)'
      BY <2>1, <2>2, <2>3, <2>4, <2>6 DEF Phase, Verified, Sending
    <2> QED BY <1>1, <1>2, <1>3, <2>7, FetchFrame
  <1>9. CASE Unpacked(i)
    <2>1. /\ pc[i] = "unpack" /\ pc'[i] = "record" /\ got' = got /\ todo[i] = {}
          /\ tmp' \in {tmp, [tmp EXCEPT ![Raw] = Absent]}
      BY <1>9 DEF Unpacked, Goto, LockInv, TypeOK
    <2>2. \A p \in Parts \cup {Meta} : tmp'[p] = tmp[p]
      BY <2>1, PathAssumption DEF LockInv, TypeOK, Paths
    <2>3. tmp[Meta] = Absent /\ content'[Meta] = Absent
      BY <1>1, <2>1 DEF CacheInv, Phase, Fetching
    <2>4. \A p \in Parts : tmp[p] = IF p \in Holds[got[i]] THEN got[i] ELSE Absent
      BY <2>1 DEF CacheInv, Phase
    <2>5. Whole(tmp', got'[i])
      BY <2>1, <2>2, <2>4, WholeMeans
    <2>6. Phase(i)'
      BY <2>1, <2>2, <2>3, <2>5 DEF Phase, Verified, Sending, Whole, Tree
    <2> QED BY <1>1, <1>2, <1>3, <2>6, FetchFrame
  <1>10. CASE RecordDigest(i)
    <2>1. /\ pc[i] = "record" /\ pc'[i] = "clearContent" /\ got' = got
          /\ tmp' \in {tmp, [tmp EXCEPT ![Meta] = got[i]]}
      BY <1>10 DEF RecordDigest, Goto, LockInv, TypeOK
    <2>2. /\ \A p \in Parts : tmp'[p] = tmp[p]
          /\ tmp'[Meta] \in {tmp[Meta], got[i]}
      BY <2>1, PathAssumption DEF LockInv, TypeOK, Paths
    <2>3. tmp[Meta] = Absent /\ content'[Meta] = Absent /\ Whole(tmp, got[i])
      BY <1>1, <2>1 DEF CacheInv, Phase, Fetching, Verified, Sending
    <2>4. Phase(i)'
      BY <2>1, <2>2, <2>3 DEF Phase, Verified, Sending, Whole, Tree
    <2> QED BY <1>1, <1>2, <1>3, <2>4, FetchFrame
  <1> QED BY <1>4, <1>5, <1>6, <1>7, <1>8, <1>9, <1>10

(* The steps on the cache's own directory. *)
LEMMA ContentCache ==
    ASSUME LockInv, CacheInv, Removable, NEW i \in Calls,
           \/ ContentCleared(i) \/ Publish(i)
           \/ \E p \in Paths : RemoveFromContent(i, p)
    PROVE  CacheInv'
  <1>1. Fetching(i) /\ content[Meta] = Absent /\ Whole(tmp, got[i]) /\ tmp[Meta] \in {Absent, got[i]}
    <2>1. pc[i] \in {"clearContent", "publish"}
      BY DEF ContentCleared, Publish, RemoveFromContent, Goto
    <2> QED BY <2>1 DEF CacheInv, Phase, Fetching, Verified, Sending
  <1>2. got' = got /\ \A j \in Calls \ {i} : pc'[j] = pc[j] /\ got'[j] = got[j]
    BY DEF ContentCleared, Publish, RemoveFromContent, Goto, LockInv, TypeOK
  <1>3. CASE ContentCleared(i)
    <2>1. tmp' = tmp /\ content' = content /\ pc'[i] = "publish"
      BY <1>3 DEF ContentCleared, Goto, LockInv, TypeOK
    <2>2. Phase(i)'
      BY <1>1, <1>2, <2>1 DEF Phase, Verified, Sending, Whole, Tree
    <2>3. Entry'
      BY <2>1 DEF CacheInv, Entry, OneArchive, Whole, Tree
    <2> QED BY <1>1, <1>2, <2>2, <2>3, FetchFrame
  <1>4. ASSUME NEW p \in Paths, RemoveFromContent(i, p) PROVE CacheInv'
    <2>1. /\ tmp' = tmp /\ content' = [content EXCEPT ![p] = Absent] /\ pc' = pc
          /\ pc[i] = "clearContent"
      BY <1>4 DEF RemoveFromContent
    <2>2. \A q \in Paths : content'[q] \in {Absent, content[q]}
      BY <2>1 DEF LockInv, TypeOK
    <2>3. content'[Meta] = Absent
      BY <1>1, <2>2 DEF Paths
    <2>4. Phase(i)'
      BY <1>1, <1>2, <2>1, <2>3 DEF Phase, Verified, Sending, Whole, Tree
    <2>5. \A q \in Parts : content'[q] \in {Absent, content[q]}
      BY <2>2 DEF Paths
    <2>6. Entry'
      BY <2>3, <2>5 DEF CacheInv, Entry, OneArchive
    <2> QED BY <1>1, <1>2, <2>4, <2>6, FetchFrame
  <1>5. CASE Publish(i)
    <2>1. pc[i] = "publish" /\ got[i] \in Archives
      BY <1>5 DEF Publish, Goto, LockInv, Known, Verified
    <2>2. CASE content' = tmp /\ pc'[i] = "root"
      <3>1. OneArchive(tmp) /\ (tmp[Meta] # Absent => Whole(tmp, tmp[Meta]))
        BY <1>1, <2>1, WholeIsOne
      <3>2. Entry'
        BY <2>2, <3>1 DEF Entry, OneArchive, Whole, Tree
      <3>3. Whole(content, got[i])'
        BY <1>1, <1>2, <2>2 DEF Whole, Tree
      <3>4. Phase(i)'
        BY <2>2, <3>3 DEF Phase, Fetching, Verified, Sending
      <3> QED BY <1>1, <1>2, <3>2, <3>4, FetchFrame
    <2>3. CASE content' = content /\ pc'[i] = "cleanup"
      <3>1. Entry'
        BY <2>3 DEF CacheInv, Entry, OneArchive, Whole, Tree
      <3>2. Phase(i)'
        BY <2>3 DEF Phase, Fetching, Verified, Sending
      <3> QED BY <1>1, <1>2, <3>1, <3>2, FetchFrame
    <2> QED BY <1>5, <2>2, <2>3 DEF Publish, Goto, Deferred, LockInv, TypeOK
  <1> QED BY <1>3, <1>4, <1>5

(* archiveRoot only looks. *)
LEMMA ReadCache ==
    ASSUME LockInv, CacheInv, NEW i \in Calls, ReadRoot(i) PROVE CacheInv'
  <1>1. /\ UNCHANGED <<tmp, content, got, todo>> /\ \A j \in Calls \ {i} : pc'[j] = pc[j]
        /\ \/ pc[i] = "hit" /\ pc'[i] = "answered"
           \/ pc[i] = "root" /\ pc'[i] = "cleanup"
    BY DEF ReadRoot, Goto, Deferred, LockInv, TypeOK
  <1>2. One'
    BY <1>1 DEF CacheInv, One, Fetching
  <1>3. Entry'
    BY <1>1 DEF CacheInv, Entry, OneArchive, Whole, Tree
  <1>4. Phase(i)'
    BY <1>1 DEF Phase, Fetching, Verified, Sending
  <1>5. ASSUME NEW j \in Calls \ {i} PROVE Phase(j)'
    BY <1>1 DEF CacheInv, Phase, Fetching, Verified, Sending, Whole, Tree
  <1> QED BY <1>2, <1>3, <1>4, <1>5 DEF CacheInv

(* Calls that are over, and what touches neither the calls nor the cache. *)
LEMMA OverCache ==
    ASSUME LockInv, CacheInv, NEW S \in SUBSET Calls, Over(S), UNCHANGED <<tmp, content>>
    PROVE  CacheInv'
  <1>1. /\ \A i \in S : pc'[i] = "idle"
        /\ \A i \in Calls \ S : pc'[i] = pc[i] /\ got'[i] = got[i] /\ todo'[i] = todo[i]
    BY DEF Over
  <1>2. One'
    BY <1>1 DEF CacheInv, One, Fetching
  <1>3. Entry'
    BY DEF CacheInv, Entry, OneArchive, Whole, Tree
  <1>4. \A i \in S : Phase(i)'
    BY <1>1 DEF Phase, Fetching, Verified, Sending
  <1>5. \A i \in Calls \ S : Phase(i)'
    BY <1>1 DEF CacheInv, Phase, Fetching, Verified, Sending, Whole, Tree
  <1> QED BY <1>2, <1>3, <1>4, <1>5 DEF CacheInv

LEMMA EvictCache ==
    ASSUME LockInv, CacheInv, ~Overlap, NEW S \in SUBSET Paths, Evict(S) PROVE CacheInv'
  <1>1. /\ content' = [p \in Paths |-> Absent] /\ UNCHANGED <<tmp, pc, got, todo>>
        /\ \A i \in Calls : pc[i] \notin Sending
    BY DEF Evict, Sending
  <1>2. Entry' /\ content'[Meta] = Absent
    BY <1>1 DEF Entry, OneArchive, Paths
  <1>3. \A i \in Calls : Phase(i)'
    BY <1>1, <1>2 DEF CacheInv, Phase, Fetching, Verified, Sending, Whole, Tree
  <1> QED BY <1>1, <1>2, <1>3 DEF CacheInv, One, Fetching

LEMMA StepCache ==
    ASSUME LockInv, CacheInv, ~Overlap, Removable, [Next]_vars PROVE CacheInv'
  <1>1. CASE UNCHANGED cacheVars
    BY <1>1 DEF cacheVars, CacheInv, One, Fetching, Entry, OneArchive, Phase, Verified, Sending, Whole, Tree
  <1>2. ASSUME NEW i \in Calls, Return(i) PROVE CacheInv'
    BY <1>2, OverCache DEF Return
  <1>3. CASE Restart \/ \E p \in Projects : SaveDies(p)
    BY <1>3, OverCache DEF Restart, SaveDies, Reload
  <1>4. CASE \E p \in Projects : DropModule(p) \/ Save(p) \/ \E m \in ModulePins : RecordModule(p, m)
    BY <1>1, <1>4 DEF DropModule, Save, RecordModule
  <1> QED
    BY <1>1, <1>2, <1>3, <1>4, EnsureCache, TmpCache, ContentCache, ReadCache,
       EvictCache DEF Next, vars

-----------------------------------------------------------------------------
(* A step in which a fetch comes to its download, or to its answer, leaves nothing
   in the temporary directory. *)
LEMMA StepTmp ==
    ASSUME LockInv, CacheInv, Removable, [Next]_vars,
           NEW k \in Calls, Fetching(k), pc'[k] \in {"stream", "answered"}
    PROVE  tmp' = Empty
  <1>1. UNCHANGED tmp /\ pc'[k] = pc[k] => tmp' = Empty
    BY DEF CacheInv, Phase, Fetching
  <1>2. \A i \in Calls : Fetching(i) => i = k
    BY DEF CacheInv, One
  <1>3. ASSUME NEW i \in Calls, EnsureHit(i) \/ EnsureMismatch(i) \/ EnsureMiss(i) PROVE tmp' = Empty
    <2>1. i # k
      BY <1>3 DEF EnsureHit, EnsureMismatch, EnsureMiss, Goto, Fetching
    <2> QED BY <1>1, <1>3, <2>1 DEF EnsureHit, EnsureMismatch, EnsureMiss, Goto, LockInv, TypeOK
  <1>r. ASSUME NEW i \in Calls, ReadRoot(i) PROVE tmp' = Empty
    <2>1. i # k
      BY <1>r DEF ReadRoot, Goto, Deferred, Fetching, LockInv, TypeOK
    <2> QED BY <1>1, <1>r, <2>1 DEF ReadRoot, Goto, LockInv, TypeOK
  <1>4. ASSUME NEW i \in Calls, Return(i) PROVE tmp' = Empty
    <2>1. i # k
      BY <1>4 DEF Return, Fetching
    <2> QED BY <1>1, <1>4, <2>1 DEF Return, Over
  <1>5. ASSUME NEW i \in Calls, Cleared(i) \/ Fail(i) PROVE tmp' = Empty
    <2>1. i = k
      BY <1>2, <1>5 DEF Cleared, Fail, Goto, Fetching
    <2>2. CASE Cleared(k)
      BY <2>2, BareEmpty DEF Cleared, LockInv, TypeOK
    <2>3. CASE Fail(k)
      BY <2>3, BareEmpty DEF Fail, Goto, Deferred, LockInv, TypeOK
    <2> QED BY <1>5, <2>1, <2>2, <2>3
  <1>6. ASSUME NEW i \in Calls,
               \/ Unpacked(i) \/ RecordDigest(i) \/ ContentCleared(i) \/ Publish(i)
               \/ \E a \in Archives : Stream(i, a)
               \/ \E p \in Parts : Unpack(i, p)
               \/ \E p \in Paths : RemoveFromTmp(i, p) \/ RemoveFromContent(i, p)
        PROVE FALSE
    <2>1. i = k
      BY <1>2, <1>6 DEF Unpacked, RecordDigest, ContentCleared, Publish, Stream, Unpack,
                        RemoveFromTmp, RemoveFromContent, Goto, Fetching
    <2>2. pc'[k] \notin {"stream", "answered"}
      BY <1>6, <2>1 DEF Unpacked, RecordDigest, ContentCleared, Publish, Deferred, Stream, Unpack,
                        RemoveFromTmp, RemoveFromContent, Goto, LockInv, TypeOK
    <2> QED BY <2>2
  <1>7. CASE Restart \/ \E p \in Projects : SaveDies(p)
    BY <1>7 DEF Restart, SaveDies, Reload, Over
  <1>8. CASE UNCHANGED cacheVars
    BY <1>1, <1>8 DEF cacheVars
  <1>9. CASE \E S \in SUBSET Paths : Evict(S)
    BY <1>1, <1>9 DEF Evict
  <1> QED
    BY <1>3, <1>r, <1>4, <1>5, <1>6, <1>7, <1>8, <1>9 DEF Next, vars, DropModule, Save, RecordModule

-----------------------------------------------------------------------------
(* The refinement mapping's archive for what the cache holds. *)
TreeOf(dir) ==
    IF \E a \in Archives : Whole(dir, a) THEN CHOOSE a \in Archives : Whole(dir, a) ELSE Error

Roots ==
    [a \in Archives |->
        IF \E t \in Dirs : \A p \in Holds[a] : Under[p] = t
        THEN CHOOSE t \in Dirs : \A p \in Holds[a] : Under[p] = t ELSE "root"]

LEMMA TreeIs ==
    ASSUME NEW dir, NEW a \in Archives, Whole(dir, a) PROVE TreeOf(dir) = a
  <1>1. PICK p \in Parts : p \in Holds[a]
    BY ArchiveAssumption
  <1>2. ASSUME NEW b \in Archives, Whole(dir, b) PROVE b = a
    BY <1>1, <1>2, WholeMeans, ArchiveAssumption
  <1> QED BY <1>2 DEF TreeOf

(* The only directory at the top is the one all files are under. *)
LEMMA RootIs ==
    ASSUME NEW dir, NEW a \in Archives, Whole(dir, a) PROVE archiveRoot(dir) = Roots[a]
  <1> DEFINE tops == {Under[p] : p \in {q \in Parts : dir[q] # Absent}}
  <1>1. {q \in Parts : dir[q] # Absent} = Holds[a]
    BY WholeMeans, ArchiveAssumption
  <1>2. PICK p \in Parts : p \in Holds[a]
    BY ArchiveAssumption
  <1>3. \A t \in Dirs : tops = {t} <=> \A q \in Holds[a] : Under[q] = t
    BY <1>1, <1>2
  <1>4. (\E t \in Dirs : tops = {t}) <=> \E t \in Dirs : \A q \in Holds[a] : Under[q] = t
    BY <1>3
  <1>5. (CHOOSE t \in Dirs : tops = {t}) = CHOOSE t \in Dirs : \A q \in Holds[a] : Under[q] = t
    BY <1>3
  <1> QED BY <1>4, <1>5 DEF archiveRoot, Roots

EntryOf(dir) == IF dir[Meta] = Absent THEN Error ELSE dir[Meta]

(* The cache a daemon starts on is a store's. *)
LEMMA InitStore == Init => Store!StoreInit
  <1> SUFFICES ASSUME Init PROVE Store!StoreInit
    OBVIOUS
  <1>1. Entry /\ content \in [Paths -> Archives \cup {Absent}]
    BY InitInv DEF CacheInv, LockInv, TypeOK
  <1>2. EntryOf(content) \in Archives \cup {Error}
    BY <1>1 DEF EntryOf, Paths
  <1>3. EntryOf(content) # Error => TreeOf(content) = EntryOf(content)
    BY <1>1, TreeIs DEF EntryOf, Entry, Paths
  <1>4. /\ pin = [i \in Calls |-> NoPin] /\ ans = [i \in Calls |-> NoAnswer]
        /\ {i \in Calls : pc[i] \in {"hit", "root"}} = {}
    BY DEF Init
  <1> QED BY <1>2, <1>3, <1>4 DEF Store!StoreInit, EntryOf, TreeOf

(* The calls that have found what they will be sent to. *)
Sent == {i \in Calls : pc[i] \in {"hit", "root"}}

LEMMA SentIs ==
    ASSUME LockInv, NEW i \in Calls, NEW from, NEW to, Goto(i, from, to)
    PROVE  Sent' = IF to \in {"hit", "root"} THEN Sent \cup {i} ELSE Sent \ {i}
BY DEF Goto, Sent, LockInv, TypeOK

LEMMA FindStore ==
    ASSUME LockInv, NEW i \in Calls, EnsureHit(i) \/ EnsureMismatch(i)
    PROVE  \E e \in Archives \cup {NoPin} : Store!Find(i, e) \/ Store!Mismatch(i, e)
  <1>1. /\ content[Meta] \in Archives /\ content' = content /\ ans[i] = NoAnswer /\ i \notin Sent
    BY DEF EnsureHit, EnsureMismatch, Goto, LockInv, TypeOK, Known, Paths, Sent
  <1>2. PICK e \in Archives \cup {NoPin} : e = lock[Of[i]].download
    BY LockAssumption DEF LockInv, TypeOK, Layers
  <1>3. pin' = [pin EXCEPT ![i] = e] /\ pin'[i] = e
    BY <1>2 DEF EnsureHit, EnsureMismatch, Asks, LockInv, TypeOK
  <1>4. content[Meta] # Error /\ content[Meta] # Absent
    BY <1>1, ArchiveAssumption
  <1>5. CASE EnsureHit(i)
    <2>1. e \in {NoPin, content[Meta]} /\ ans' = ans
      BY <1>3, <1>4, <1>5 DEF EnsureHit, Hit
    <2>2. Sent' = Sent \cup {i}
      BY <1>5, SentIs DEF EnsureHit
    <2>3. Store!Find(i, e)
      BY <1>1, <1>3, <1>4, <2>1, <2>2, ZenonT(30) DEF Store!Find, Store!Waiting, Sent
    <2> QED BY <2>3
  <1>6. CASE EnsureMismatch(i)
    <2>1. e \notin {NoPin, content[Meta]}
      BY <1>3, <1>4, <1>6 DEF EnsureMismatch, Hit
    <2>2. ans' = [ans EXCEPT ![i] = Error]
      BY <1>6 DEF EnsureMismatch, Answer
    <2>3. Sent' = Sent
      BY <1>1, <1>6, SentIs DEF EnsureMismatch
    <2>4. Store!Mismatch(i, e)
      BY <1>1, <1>3, <1>4, <2>1, <2>2, <2>3 DEF Store!Mismatch, Store!Waiting, Sent
    <2> QED BY <1>2, <2>4
  <1> QED BY <1>5, <1>6

LEMMA AskStore ==
    ASSUME LockInv, NEW i \in Calls, EnsureMiss(i)
    PROVE  \E e \in Archives \cup {NoPin} : Store!Ask(i, e)
  <1>1. lock[Of[i]].download \in Archives \cup {NoPin}
    BY LockAssumption DEF LockInv, TypeOK, Layers
  <1>2. /\ pin' = [pin EXCEPT ![i] = lock[Of[i]].download]
        /\ ans[i] = NoAnswer /\ ans' = ans /\ content' = content /\ i \notin Sent
    BY DEF EnsureMiss, Asks, Goto, LockInv, Known, Sent
  <1>3. Sent' = Sent
    BY <1>2, SentIs DEF EnsureMiss
  <1>4. Store!Ask(i, lock[Of[i]].download)
    BY <1>2, <1>3 DEF Store!Ask, Store!Waiting, Sent
  <1> QED BY <1>1, <1>4

(* What a call found is still what archiveRoot finds. *)
LEMMA ServeStore ==
    ASSUME LockInv, CacheInv, NEW i \in Calls, ReadRoot(i) PROVE Store!Serve(i)
  <1>1. pc[i] \in Sending /\ content' = content /\ pin' = pin /\ i \in Sent
    BY DEF ReadRoot, Goto, Sending, Sent
  <1>2. Whole(content, got[i]) /\ got[i] \in Archives /\ Accepts(got[i], pin[i])
    BY <1>1 DEF LockInv, Known, CacheInv, Phase
  <1>3. TreeOf(content) = got[i] /\ archiveRoot(content) = Roots[got[i]] /\ got[i] # Error
    BY <1>2, TreeIs, RootIs, ArchiveAssumption
  <1>4. ans' = [ans EXCEPT ![i] = [digest |-> got[i], root |-> Roots[got[i]]]]
    BY <1>3 DEF ReadRoot, Answer
  <1>5. Sent' = Sent \ {i}
    BY SentIs DEF ReadRoot, Deferred
  <1>6. pin[i] \in {NoPin, TreeOf(content)}
    BY <1>2, <1>3 DEF Accepts
  <1> QED BY <1>1, <1>3, <1>4, <1>5, <1>6 DEF Store!Serve, Store!Answer, Roots, TreeOf, Sent

LEMMA RefuseStore ==
    ASSUME LockInv, NEW i \in Calls, Fail(i) PROVE Store!Refuse(i)
  <1>1. /\ ans[i] = NoAnswer /\ ans' = [ans EXCEPT ![i] = Error] /\ UNCHANGED <<content, pin>>
        /\ i \notin Sent
    BY DEF Fail, Answer, Goto, LockInv, Known, Sent
  <1>2. Sent' = Sent
    BY <1>1, SentIs DEF Fail, Deferred
  <1> QED BY <1>1, <1>2 DEF Store!Refuse, Store!Waiting, Sent

(* Nobody has found what a fetch has yet to publish. *)
LEMMA NobodySent ==
    ASSUME LockInv, CacheInv, NEW i \in Calls, pc[i] \in {"clearContent", "publish"}
    PROVE  Sent = {} /\ content[Meta] = Absent
  <1>1. Fetching(i) /\ content[Meta] = Absent
    BY DEF CacheInv, Phase, Fetching
  <1>2. ASSUME NEW j \in Calls, pc[j] = "root" PROVE FALSE
    BY <1>1, <1>2 DEF CacheInv, One, Fetching
  <1>3. ASSUME NEW j \in Calls, pc[j] = "hit" PROVE FALSE
    BY <1>1, <1>3, ArchiveAssumption DEF LockInv, Known, Sending, CacheInv, Phase
  <1> QED BY <1>1, <1>2, <1>3 DEF Sent

(* The rename is the fetch, and the one step in which an archive appears. *)
LEMMA PublishStore ==
    ASSUME LockInv, CacheInv, NEW i \in Calls, Publish(i)
    PROVE  (\E a \in Archives, kept \in BOOLEAN : Store!Fetch(i, a, kept)) \/ Store!Refuse(i)
  <1>1. /\ pc[i] = "publish" /\ ans[i] = NoAnswer
        /\ got[i] \in Archives /\ Accepts(got[i], pin[i])
        /\ Whole(tmp, got[i]) /\ tmp[Meta] \in {Absent, got[i]} /\ pin' = pin
    BY DEF Publish, Goto, LockInv, Known, CacheInv, Phase, Fetching, Verified
  <1>2. content[Meta] = Absent /\ Sent = {}
    BY <1>1, NobodySent
  <1>3. CASE tmp # Empty /\ content = Empty
    <2>k. PICK a \in Archives, kept \in BOOLEAN : a = got[i] /\ (kept <=> tmp[Meta] # Absent)
      BY <1>1
    <2>1. content' = tmp /\ ans' = ans /\ TreeOf(content') = got[i]
      BY <1>1, <1>3, TreeIs DEF Publish
    <2>2. got[i] # Error /\ got[i] # Absent
      BY <1>1, ArchiveAssumption
    <2>3. Sent' = {i}
      BY <1>2, <1>3, SentIs DEF Publish
    <2>4. EntryOf(content') = IF kept THEN got[i] ELSE Error
      BY <1>1, <2>k, <2>1 DEF EntryOf
    <2>5. Store!Fetch(i, a, kept)
      BY <1>1, <1>2, <2>k, <2>1, <2>3, <2>4, ZenonT(30)
         DEF Store!Fetch, Store!Waiting, TreeOf, EntryOf, Accepts, Sent
    <2> QED BY <2>5
  <1>4. CASE ~(tmp # Empty /\ content = Empty)
    <2>1. content' = content /\ ans' = [ans EXCEPT ![i] = Error]
      BY <1>4 DEF Publish, Answer
    <2>2. Sent' = Sent
      BY <1>2, <1>4, SentIs DEF Publish, Deferred
    <2> QED BY <1>1, <1>2, <2>1, <2>2 DEF Store!Refuse, Store!Waiting, Sent
  <1> QED BY <1>3, <1>4

(* A directory that loses a file is no whole archive any more. *)
LEMMA DiscardStore ==
    ASSUME LockInv, CacheInv, NEW i \in Calls, NEW p \in Paths, RemoveFromContent(i, p)
    PROVE  Store!Discard \/ UNCHANGED Store!StoreVars
  <1>1. /\ content[Meta] = Absent /\ content[p] # Absent /\ content' = [content EXCEPT ![p] = Absent]
        /\ UNCHANGED <<pin, ans>> /\ Sent = {} /\ Sent' = {}
    BY NobodySent DEF RemoveFromContent, Sent
  <1>2. content'[Meta] = Absent
    BY <1>1 DEF LockInv, TypeOK, Paths
  <1>3. CASE p \in Parts
    <2>1. content'[p] = Absent /\ \A q \in Parts : content'[q] \in {Absent, content[q]}
      BY <1>1 DEF LockInv, TypeOK, Paths
    <2>2. ASSUME NEW a \in Archives, Whole(content', a) PROVE FALSE
      <3>1. \A q \in Parts : content'[q] = IF q \in Holds[a] THEN a ELSE Absent
        BY <2>2, WholeMeans
      <3>2. PICK q \in Parts : q \in Holds[a]
        BY ArchiveAssumption
      <3>3. content[q] = a /\ a # Absent
        BY <2>1, <3>1, <3>2, ArchiveAssumption
      <3>4. content[p] = a /\ p \in Holds[a]
        BY <1>1, <1>3, <3>3 DEF CacheInv, Entry, OneArchive
      <3> QED BY <1>3, <2>1, <3>1, <3>3, <3>4
    <2>3. TreeOf(content') = Error
      BY <2>2 DEF TreeOf
    <2> QED BY <1>1, <1>2, <2>3 DEF Store!Discard, TreeOf, Sent
  <1>4. CASE p \notin Parts
    <2>1. \A q \in Parts : content'[q] = content[q]
      BY <1>1, <1>4 DEF LockInv, TypeOK, Paths
    <2>2. \A a \in Archives : Whole(content', a) <=> Whole(content, a)
      BY <2>1 DEF Whole
    <2>3. TreeOf(content') = TreeOf(content)
      BY <2>2 DEF TreeOf
    <2> QED BY <1>1, <1>2, <2>3 DEF Store!StoreVars, TreeOf, Sent
  <1> QED BY <1>3, <1>4

LEMMA LeaveStore ==
    ASSUME NEW S \in SUBSET Calls, Over(S), content' = content PROVE Store!Leave(S)
  <1>1. Sent' = Sent \ S
    BY DEF Over, Sent
  <1> QED BY <1>1 DEF Over, Store!Leave, Sent

LEMMA RemoveStore ==
    ASSUME ~Overlap, NEW S \in SUBSET Paths, Evict(S) PROVE Store!Remove
  <1>1. /\ content' = Empty /\ UNCHANGED <<pc, pin, ans>> /\ Empty[Meta] = Absent /\ Sent = {}
    BY DEF Evict, Empty, Paths, Sent
  <1>2. ASSUME NEW a \in Archives PROVE ~Whole(content', a)
    <2>1. PICK p \in Parts : p \in Holds[a]
      BY ArchiveAssumption
    <2>2. Empty[p] = Absent /\ a # Absent
      BY ArchiveAssumption DEF Empty, Paths
    <2> QED BY <1>1, <2>1, <2>2, WholeMeans
  <1>3. TreeOf(content') = Error /\ EntryOf(content') = Error /\ Sent' = {}
    BY <1>1, <1>2 DEF TreeOf, EntryOf, Sent
  <1> QED BY <1>1, <1>3 DEF Store!Remove, TreeOf, EntryOf, Sent

(* Every step of the code is a step of the store, or one it cannot see. *)
LEMMA StepStore ==
    ASSUME LockInv, CacheInv, ~Overlap, [Next]_vars
    PROVE  [Store!StoreNext]_Store!StoreVars
  <1>1. ASSUME UNCHANGED <<content, pin, ans>>, Sent' = Sent PROVE UNCHANGED Store!StoreVars
    BY <1>1 DEF Store!StoreVars, Sent
  <1>2. ASSUME NEW i \in Calls,
               \/ Cleared(i) \/ Unpacked(i) \/ RecordDigest(i) \/ ContentCleared(i)
               \/ \E a \in Archives : Stream(i, a)
               \/ \E p \in Parts : Unpack(i, p)
               \/ \E p \in Paths : RemoveFromTmp(i, p)
        PROVE UNCHANGED Store!StoreVars
    <2>1. UNCHANGED <<content, pin, ans>>
      BY <1>2 DEF Cleared, Unpacked, RecordDigest, ContentCleared, Stream, Unpack, RemoveFromTmp
    <2>2. i \notin Sent /\ pc'[i] \notin {"hit", "root"} /\ \A j \in Calls \ {i} : pc'[j] = pc[j]
      BY <1>2 DEF Cleared, Unpacked, RecordDigest, ContentCleared, Stream, Unpack, RemoveFromTmp,
                  Goto, Sent, LockInv, TypeOK
    <2> QED BY <1>1, <2>1, <2>2 DEF Sent
  <1>3. CASE \E p \in Projects : DropModule(p) \/ Save(p) \/ \E m \in ModulePins : RecordModule(p, m)
    BY <1>1, <1>3 DEF DropModule, Save, RecordModule, cacheVars, Sent
  <1>4. ASSUME NEW i \in Calls, EnsureHit(i) \/ EnsureMismatch(i) \/ EnsureMiss(i)
        PROVE Store!StoreNext
    BY <1>4, FindStore, AskStore DEF Store!StoreNext
  <1>5. ASSUME NEW i \in Calls, Fail(i) \/ Publish(i) \/ ReadRoot(i) PROVE Store!StoreNext
    BY <1>5, RefuseStore, PublishStore, ServeStore DEF Store!StoreNext
  <1>6. ASSUME NEW i \in Calls, NEW p \in Paths, RemoveFromContent(i, p)
        PROVE [Store!StoreNext]_Store!StoreVars
    BY <1>6, DiscardStore DEF Store!StoreNext
  <1>7. ASSUME NEW i \in Calls, Return(i) PROVE Store!StoreNext
    <2>1. Store!Leave({i})
      BY <1>7, LeaveStore DEF Return
    <2> QED BY <2>1 DEF Store!StoreNext
  <1>8. CASE Restart \/ \E p \in Projects : SaveDies(p)
    <2>1. Store!Leave(Calls)
      BY <1>8, LeaveStore DEF Restart, SaveDies, Reload
    <2> QED BY <2>1 DEF Store!StoreNext
  <1>9. CASE \E S \in SUBSET Paths : Evict(S)
    BY <1>9, RemoveStore DEF Store!StoreNext
  <1>10. CASE UNCHANGED vars
    BY <1>1, <1>10 DEF vars, cacheVars, Sent
  <1> QED BY <1>2, <1>3, <1>4, <1>5, <1>6, <1>7, <1>8, <1>9, <1>10 DEF Next

-----------------------------------------------------------------------------
(* However calls overlap, die and start again, a Lock that is not dirty says what
   doze.lock says: Save never skips a pin (lock.go). *)
THEOREM LocksSaved == Spec => []CleanMeansSaved
  <1>1. LockInv /\ [Next]_vars => LockInv'
    BY StepLock
  <1>2. LockInv => CleanMeansSaved
    BY DEF LockInv, Pins, CleanMeansSaved
  <1> QED BY InitInv, <1>1, <1>2, PTL DEF Spec

(* A URL that is pinned is never pinned to another archive, in memory or on disk,
   except by a death in the middle of Save (lock.go, download.go:37). *)
THEOREM PinsKept == Spec => PinsStay
  <1>1. LockInv /\ [Next]_vars => LockInv'
    BY StepLock
  <1>2. LockInv /\ [Next]_vars =>
            [\A p \in Projects :
                /\ file[p].download # NoPin =>
                      \/ file'[p].download = file[p].download
                      \/ file'[p].download = NoPin /\ SaveDies(p)
                /\ lock[p].download # NoPin =>
                      lock'[p].download \in {lock[p].download, file'[p].download}]_vars
    BY StepLock DEF Kept
  <1> QED BY InitInv, <1>1, <1>2, PTL DEF Spec, PinsStay

(* What every phase of EnsureDownload finds in the two directories, and what every
   Lock has of its doze.lock, while calls fetch one URL in turn. *)
THEOREM Inductive == ASSUME ~Overlap, Removable PROVE Spec => [](LockInv /\ CacheInv)
  <1>1. LockInv /\ CacheInv /\ [Next]_vars => LockInv' /\ CacheInv'
    BY StepLock, StepCache
  <1> QED BY InitInv, <1>1, PTL DEF Spec

(* A fetch that ends leaves nothing beside the cache, and one that downloads starts
   from nothing, whatever died before it (download.go:87-108). *)
THEOREM NothingBeside == ASSUME ~Overlap, Removable PROVE Spec => TmpGone
  <1>1. LockInv /\ CacheInv /\ [Next]_vars =>
            [\A i \in Calls : Fetching(i) /\ pc'[i] \in {"stream", "answered"} => tmp' = Empty]_vars
    BY StepTmp
  <1> QED BY Inductive, <1>1, PTL DEF Spec, TmpGone

(* The code, file by file and through every death, implements DownloadStore: what
   answers a call is one archive, whole, under its own digest and no pin's but it,
   and it appears in one step. *)
THEOREM CacheImplementsStore == ASSUME ~Overlap, Removable PROVE Spec => ImplementsStore
  <1>1. LockInv /\ CacheInv /\ [Next]_vars => [Store!StoreNext]_Store!StoreVars
    BY StepStore
  <1> QED BY InitStore, Inductive, <1>1, PTL DEF Spec, ImplementsStore, Store!StoreSpec
=============================================================================
