------------------------ MODULE ToolchainCacheProofs ------------------------
(***************************************************************************)
(* What the toolchain cache keeps for any archives, files and pins, while  *)
(* one installer works on a version at a time: crashes between any two     *)
(* file operations leave nothing that reads as a cache hit, and the code   *)
(* implements ToolchainStore.  With two installers both fail: see          *)
(* MCToolchainShared.cfg.                                                  *)
(***************************************************************************)
EXTENDS ToolchainCache, TLAPS

(* What a call knows, phase by phase, about the two directories.  It is the
   strengthening: what is renamed into place is known only from what was
   removed and extracted before. *)
Working == {"clearTmp", "extract", "locate", "record", "clearContent", "publish"}

Chosen(i) ==
    pc[i] \in Working => got[i] \in Signed /\ pin[i] \in {NoPin, got[i]}

NotServed(i) == pc[i] \in Working \cup {"download"} => ~HasBin(content)

Partial(i) == [p \in Paths |-> IF p \in Holds[got[i]] \ todo[i] THEN got[i] ELSE Absent]

Unpacked(i) ==
    /\ pc[i] = "clearTmp" => todo[i] = Holds[got[i]]
    /\ pc[i] = "extract" => todo[i] \subseteq Holds[got[i]] /\ tmp = Partial(i)
    /\ pc[i] \in {"locate", "record"} => tmp = Tree(got[i], Absent)
    /\ pc[i] \in {"clearContent", "publish"} =>
          tmp \in {Tree(got[i], got[i]), Tree(got[i], Absent)}
    /\ pc[i] = "publish" => content = Empty

Honoured(i) ==
    pc[i] = "answered" /\ ans[i] # Error =>
        HasBin(content) /\ (pin[i] = NoPin \/ content[Meta] \in {Absent, pin[i]})

Phase(i) == Chosen(i) /\ NotServed(i) /\ Unpacked(i) /\ Honoured(i)

IInv == TypeOK /\ EntryWhole /\ \A i \in Installers : Phase(i)

(* Every removal and rename the code makes succeeds: it ignores their errors
   (binaries.go:220, 233, 237, 347), and what is left over is then published. *)
Removable == Stuck = {}

(* One installer per version at a time. *)
Alone == \A i, j \in Installers : i = j

(* What Tree gives at the paths the cache looks at. *)
LEMMA TreeFacts ==
    ASSUME NEW a \in Archives, NEW d \in Archives \cup {Absent}
    PROVE  /\ Tree(a, d) \in Dirs
           /\ Tree(a, d)[Meta] = d
           /\ HasBin(Tree(a, d)) => Tree(a, d)[Bin] = a
BY PathAssumption DEF Tree, Dirs, Paths, HasBin

(* A directory os.RemoveAll has gone over is empty, and a tree moved up is all
   there, when nothing is stuck. *)
LEMMA RemovableFacts ==
    ASSUME Removable, NEW dir \in Dirs
    PROVE  /\ Cleared(dir) => dir = Empty
           /\ \A left \in SUBSET Stuck : MovedUp(dir, left) = dir
BY DEF Removable, Cleared, MovedUp, Dirs, Empty

(* The cache a daemon starts on satisfies the invariant. *)
LEMMA InitIInv == Init => IInv
<1> SUFFICES ASSUME Init PROVE IInv
  OBVIOUS
<1>1. content \in Dirs /\ EntryWhole
  <2>1. CASE content = Empty
    BY <2>1, PathAssumption DEF Empty, Dirs, EntryWhole, HasBin, Paths
  <2>2. CASE content # Empty
    <3>1. PICK a \in Signed, d \in Archives \cup {Absent} : content = Tree(a, d)
      BY <2>2 DEF Init
    <3>2. a \in Archives
      BY <3>1, ArchiveAssumption
    <3>3. content[Meta] = d /\ content \in Dirs
      BY <3>1, <3>2, TreeFacts
    <3>4. CASE d = Absent
      BY <3>1, <3>3, <3>4 DEF EntryWhole
    <3>5. CASE d # Absent
      <4>1. content = Tree(d, d) /\ d \in Archives
        BY <3>3, <3>5 DEF Init
      <4>2. HasBin(content) => content[Bin] = d /\ content[Bin] = a
        BY <3>1, <3>2, <4>1, TreeFacts
      <4> QED BY <3>1, <3>3, <4>1, <4>2 DEF EntryWhole
    <3> QED BY <3>4, <3>5
  <2> QED BY <2>1, <2>2
<1>2. TypeOK
  BY <1>1, ArchiveAssumption DEF Init, TypeOK, Dirs, Empty, PCs, Paths
<1>3. ASSUME NEW i \in Installers PROVE Phase(i)
  BY DEF Init, Phase, Chosen, NotServed, Unpacked, Honoured, Working
<1> QED BY <1>1, <1>2, <1>3 DEF IInv

(* One lemma per group of steps: each starts and ends in the invariant. *)
LEMMA EnsureStep ==
    ASSUME IInv, Alone, Removable, NEW i \in Installers, NEW e \in Archives \cup {NoPin},
           EnsureHit(i, e) \/ EnsureMiss(i, e)
    PROVE  IInv'
<1>1. tmp' = tmp /\ content' = content /\ EntryWhole' /\ pc[i] = "idle"
  BY DEF EnsureHit, EnsureMiss, Goto, IInv, EntryWhole, HasBin
<1>2. CASE EnsureHit(i, e)
  <2>1. Hit(e) \in Archives \cup {Absent, Error}
    BY PathAssumption DEF Hit, IInv, TypeOK, Dirs, Paths
  <2>2. Hit(e) # NoAnswer
    BY <2>1, ArchiveAssumption
  <2>3. TypeOK'
    BY <1>1, <1>2, <2>1, <2>2 DEF EnsureHit, Goto, Answer, IInv, TypeOK, PCs
  <2>4. /\ pc' = [pc EXCEPT ![i] = "answered"] /\ pin' = [pin EXCEPT ![i] = e]
        /\ ans' = [ans EXCEPT ![i] = Hit(e)] /\ HasBin(content)
    BY <1>2 DEF EnsureHit, Goto, Answer
  <2>5. pc'[i] = "answered" /\ pin'[i] = e /\ ans'[i] = Hit(e) /\ HasBin(content)'
    BY <1>1, <2>4 DEF IInv, TypeOK, HasBin
  <2>6. Hit(e) # Error => e = NoPin \/ content[Meta] \in {Absent, e}
    BY DEF Hit
  <2>7. Honoured(i)'
    BY <1>1, <2>5, <2>6 DEF Honoured
  <2>8. Phase(i)'
    BY <2>5, <2>7 DEF Phase, Chosen, NotServed, Unpacked, Working
  <2> QED BY <1>1, <2>3, <2>8 DEF Alone, IInv
<1>3. CASE EnsureMiss(i, e)
  <2>1. TypeOK'
    BY <1>3 DEF EnsureMiss, Goto, IInv, TypeOK, PCs
  <2>2. pc'[i] = "download" /\ ~HasBin(content)'
    BY <1>1, <1>3 DEF EnsureMiss, Goto, IInv, TypeOK, HasBin
  <2>3. Phase(i)'
    BY <2>2 DEF Phase, Chosen, NotServed, Unpacked, Honoured, Working
  <2> QED BY <1>1, <2>1, <2>3 DEF Alone, IInv
<1> QED BY <1>2, <1>3

LEMMA DownloadStep ==
    ASSUME IInv, Alone, Removable, NEW i \in Installers,
           NEW a \in Archives, NEW w \in Archives \cup {NoSum}, Download(i, a, w)
    PROVE  IInv'
<1>1. /\ tmp' = tmp /\ content' = content /\ pin' = pin /\ ans' = ans
      /\ pc[i] = "download" /\ pc' = [pc EXCEPT ![i] = "clearTmp"]
      /\ got' = [got EXCEPT ![i] = a] /\ todo' = [todo EXCEPT ![i] = Holds[a]]
  BY DEF Download, Goto, Digest
<1>2. EntryWhole' /\ ~HasBin(content)'
  BY <1>1 DEF IInv, EntryWhole, HasBin, Phase, NotServed
<1>3. TypeOK'
  BY <1>1, ArchiveAssumption DEF IInv, TypeOK, PCs
<1>4. pc'[i] = "clearTmp" /\ got'[i] = a /\ todo'[i] = Holds[a] /\ pin'[i] = pin[i]
  BY <1>1 DEF IInv, TypeOK
<1>5. a \in Signed /\ pin[i] \in {NoPin, a}
  BY DEF Download, Accepts
<1>6. Phase(i)'
  BY <1>2, <1>4, <1>5 DEF Phase, Chosen, NotServed, Unpacked, Honoured, Working
<1> QED BY <1>2, <1>3, <1>6 DEF Alone, IInv

LEMMA FailStep ==
    ASSUME IInv, Alone, Removable, NEW i \in Installers, Fail(i)
    PROVE  IInv'
<1>1. /\ tmp' = tmp /\ content' = content /\ UNCHANGED <<pin, got, todo>>
      /\ pc' = [pc EXCEPT ![i] = "answered"] /\ ans' = [ans EXCEPT ![i] = Error]
  BY DEF Fail, Answer
<1>2. EntryWhole'
  BY <1>1 DEF IInv, EntryWhole, HasBin
<1>3. TypeOK'
  BY <1>1, ArchiveAssumption DEF IInv, TypeOK, PCs
<1>4. pc'[i] = "answered" /\ ans'[i] = Error
  BY <1>1 DEF IInv, TypeOK
<1>5. Phase(i)'
  BY <1>4 DEF Phase, Chosen, NotServed, Unpacked, Honoured, Working
<1> QED BY <1>2, <1>3, <1>5 DEF Alone, IInv

LEMMA TmpStep ==
    ASSUME IInv, Alone, Removable, NEW i \in Installers,
           \/ \E p \in Paths : RemoveFromTmp(i, p)
           \/ TmpCleared(i)
    PROVE  IInv'
<1>1. /\ content' = content /\ UNCHANGED <<pin, ans, got, todo>>
      /\ pc[i] = "clearTmp"
  BY DEF RemoveFromTmp, TmpCleared, Goto
<1>2. EntryWhole' /\ (~HasBin(content))' /\ Chosen(i) /\ todo[i] = Holds[got[i]]
  BY <1>1 DEF IInv, EntryWhole, HasBin, Phase, NotServed, Unpacked, Working
<1>3. ASSUME NEW p \in Paths, RemoveFromTmp(i, p) PROVE IInv'
  <2>1. TypeOK' /\ pc' = pc
    BY <1>1, <1>3 DEF RemoveFromTmp, IInv, TypeOK, Dirs
  <2>2. Phase(i)'
    BY <1>1, <1>2, <2>1 DEF Phase, Chosen, NotServed, Unpacked, Honoured, Working
  <2> QED BY <1>2, <2>1, <2>2 DEF Alone, IInv
<1>4. CASE TmpCleared(i)
  <2>1. tmp' = tmp /\ tmp = Empty /\ pc' = [pc EXCEPT ![i] = "extract"]
    BY <1>4, RemovableFacts DEF TmpCleared, Goto, IInv, TypeOK
  <2>2. TypeOK' /\ pc'[i] = "extract"
    BY <1>1, <2>1 DEF IInv, TypeOK, PCs
  <2>3. Partial(i)' = Empty
    BY <1>1, <1>2 DEF Partial, Empty
  <2>4. Unpacked(i)'
    BY <1>1, <1>2, <2>1, <2>2, <2>3 DEF Unpacked
  <2>5. Phase(i)'
    BY <1>1, <1>2, <2>2, <2>4 DEF Phase, Chosen, NotServed, Honoured, Working
  <2> QED BY <1>2, <2>2, <2>5 DEF Alone, IInv
<1> QED BY <1>3, <1>4

LEMMA ExtractStep ==
    ASSUME IInv, Alone, Removable, NEW i \in Installers,
           \/ \E p \in Parts : Extract(i, p)
           \/ Extracted(i)
    PROVE  IInv'
<1>1. /\ content' = content /\ UNCHANGED <<pin, ans, got>>
      /\ pc[i] = "extract"
  BY DEF Extract, Extracted, Goto
<1>2. /\ EntryWhole' /\ (~HasBin(content))' /\ Chosen(i)
      /\ todo[i] \subseteq Holds[got[i]] /\ tmp = Partial(i)
  BY <1>1 DEF IInv, EntryWhole, HasBin, Phase, NotServed, Unpacked, Working
<1>3. got[i] \in Archives
  BY <1>1, <1>2, ArchiveAssumption DEF Chosen, Working
<1>4. ASSUME NEW p \in Parts, Extract(i, p) PROVE IInv'
  <2>1. /\ p \in todo[i] /\ pc' = pc /\ tmp' = [tmp EXCEPT ![p] = got[i]]
        /\ todo' = [todo EXCEPT ![i] = @ \ {p}]
    BY <1>4 DEF Extract
  <2>2. TypeOK'
    BY <1>1, <1>3, <2>1 DEF IInv, TypeOK, Dirs
  <2>3. todo'[i] = todo[i] \ {p}
    BY <2>1 DEF IInv, TypeOK
  <2>4. tmp' = Partial(i)'
    BY <1>1, <1>2, <2>1, <2>3 DEF Partial, Paths
  <2>5. Unpacked(i)'
    BY <1>1, <1>2, <2>1, <2>3, <2>4 DEF Unpacked
  <2>6. Phase(i)'
    BY <1>1, <1>2, <2>1, <2>5 DEF Phase, Chosen, NotServed, Honoured, Working
  <2> QED BY <1>2, <2>2, <2>6 DEF Alone, IInv
<1>5. CASE Extracted(i)
  <2>1. /\ todo[i] = {} /\ tmp' = tmp /\ todo' = todo
        /\ pc' = [pc EXCEPT ![i] = "locate"]
    BY <1>5 DEF Extracted, Goto
  <2>2. TypeOK' /\ pc'[i] = "locate"
    BY <1>1, <2>1 DEF IInv, TypeOK, PCs
  <2>3. Holds[got[i]] \subseteq Parts
    BY <1>3, ArchiveAssumption
  <2>4. tmp = Tree(got[i], Absent)
    BY <1>2, <2>1, <2>3, PathAssumption DEF Partial, Tree
  <2>5. tmp' = Tree(got[i], Absent)'
    BY <1>1, <2>1, <2>4 DEF Tree
  <2>6. Unpacked(i)'
    BY <2>2, <2>5 DEF Unpacked, Tree
  <2>7. Phase(i)'
    BY <1>1, <1>2, <2>2, <2>6 DEF Phase, Chosen, NotServed, Honoured, Working
  <2> QED BY <1>2, <2>2, <2>7 DEF Alone, IInv
<1> QED BY <1>4, <1>5

LEMMA RecordStep ==
    ASSUME IInv, Alone, Removable, NEW i \in Installers, Located(i) \/ RecordDigest(i)
    PROVE  IInv'
<1>1. /\ content' = content /\ UNCHANGED <<pin, ans, got, todo>>
      /\ pc[i] \in {"locate", "record"}
  BY DEF Located, RecordDigest, Goto
<1>2. /\ EntryWhole' /\ (~HasBin(content))' /\ Chosen(i)
      /\ tmp = Tree(got[i], Absent)
  BY <1>1 DEF IInv, EntryWhole, HasBin, Phase, NotServed, Unpacked, Working
<1>3. got[i] \in Archives
  BY <1>1, <1>2, ArchiveAssumption DEF Chosen, Working
<1>4. CASE Located(i)
  <2>1. tmp' = tmp /\ pc' = [pc EXCEPT ![i] = "record"]
    BY <1>4, RemovableFacts DEF Located, Goto, IInv, TypeOK
  <2>2. TypeOK' /\ pc'[i] = "record"
    BY <1>1, <2>1 DEF IInv, TypeOK, PCs
  <2>3. Unpacked(i)'
    BY <1>1, <1>2, <2>1, <2>2 DEF Unpacked, Tree
  <2>4. Phase(i)'
    BY <1>1, <1>2, <2>2, <2>3 DEF Phase, Chosen, NotServed, Honoured, Working
  <2> QED BY <1>2, <2>2, <2>4 DEF Alone, IInv
<1>5. CASE RecordDigest(i)
  <2>1. /\ tmp' \in {tmp, [tmp EXCEPT ![Meta] = got[i]]}
        /\ pc' = [pc EXCEPT ![i] = "clearContent"]
    BY <1>5 DEF RecordDigest, Goto
  <2>2. [tmp EXCEPT ![Meta] = got[i]] = Tree(got[i], got[i])
    BY <1>2 DEF Tree, Paths
  <2>3. tmp' \in {Tree(got[i], got[i]), Tree(got[i], Absent)}
    BY <1>2, <2>1, <2>2
  <2>4. tmp' \in Dirs
    BY <1>3, <2>3, TreeFacts
  <2>5. TypeOK' /\ pc'[i] = "clearContent"
    BY <1>1, <2>1, <2>4 DEF IInv, TypeOK, PCs
  <2>6. Unpacked(i)'
    BY <1>1, <2>3, <2>5 DEF Unpacked, Tree
  <2>7. Phase(i)'
    BY <1>1, <1>2, <2>5, <2>6 DEF Phase, Chosen, NotServed, Honoured, Working
  <2> QED BY <1>2, <2>5, <2>7 DEF Alone, IInv
<1> QED BY <1>4, <1>5

LEMMA ClearStep ==
    ASSUME IInv, Alone, Removable, NEW i \in Installers,
           \/ \E p \in Paths : RemoveFromContent(i, p)
           \/ ContentCleared(i)
    PROVE  IInv'
<1>1. /\ tmp' = tmp /\ UNCHANGED <<pin, ans, got, todo>>
      /\ pc[i] = "clearContent"
  BY DEF RemoveFromContent, ContentCleared, Goto
<1>2. /\ ~HasBin(content) /\ Chosen(i)
      /\ tmp \in {Tree(got[i], got[i]), Tree(got[i], Absent)}
  BY <1>1 DEF IInv, Phase, NotServed, Unpacked, Working
<1>3. ASSUME NEW p \in Paths, RemoveFromContent(i, p) PROVE IInv'
  <2>1. content' = [content EXCEPT ![p] = Absent] /\ pc' = pc
    BY <1>3 DEF RemoveFromContent
  <2>2. TypeOK' /\ (~HasBin(content))'
    BY <1>1, <1>2, <2>1, PathAssumption DEF IInv, TypeOK, Dirs, HasBin, Paths
  <2>3. EntryWhole'
    BY <2>2 DEF EntryWhole
  <2>4. Unpacked(i)'
    BY <1>1, <1>2, <2>1 DEF Unpacked, Tree
  <2>5. Phase(i)'
    BY <1>1, <1>2, <2>1, <2>2, <2>4 DEF Phase, Chosen, NotServed, Honoured, Working
  <2> QED BY <2>2, <2>3, <2>5 DEF Alone, IInv
<1>4. CASE ContentCleared(i)
  <2>1. content = Empty /\ content' = content /\ pc' = [pc EXCEPT ![i] = "publish"]
    BY <1>4, RemovableFacts DEF ContentCleared, Goto, IInv, TypeOK
  <2>2. TypeOK' /\ pc'[i] = "publish"
    BY <1>1, <2>1 DEF IInv, TypeOK, PCs
  <2>3. EntryWhole' /\ (~HasBin(content))'
    BY <1>2, <2>1 DEF EntryWhole, HasBin
  <2>4. Unpacked(i)'
    BY <1>1, <1>2, <2>1, <2>2 DEF Unpacked, Tree, Empty
  <2>5. Phase(i)'
    BY <1>1, <1>2, <2>2, <2>3, <2>4 DEF Phase, Chosen, NotServed, Honoured, Working
  <2> QED BY <2>2, <2>3, <2>5 DEF Alone, IInv
<1> QED BY <1>3, <1>4

(* The rename: the only step that makes an entry appear. *)
LEMMA PublishStep ==
    ASSUME IInv, Alone, Removable, NEW i \in Installers, Publish(i)
    PROVE  IInv'
<1>1. /\ pc[i] = "publish" /\ pc' = [pc EXCEPT ![i] = "answered"]
      /\ UNCHANGED <<pin, got, todo>>
  BY DEF Publish, Goto
<1>2. /\ got[i] \in Signed /\ pin[i] \in {NoPin, got[i]}
      /\ content = Empty /\ ~HasBin(content)
      /\ tmp \in {Tree(got[i], got[i]), Tree(got[i], Absent)}
  BY <1>1 DEF IInv, Phase, Chosen, NotServed, Unpacked, Working
<1>3. got[i] \in Archives
  BY <1>2, ArchiveAssumption
<1>4. Empty \in Dirs
  BY DEF Empty, Dirs
<1>5. CASE tmp # Empty
  <2>1. /\ content' = tmp /\ tmp' = Empty
        /\ ans' = [ans EXCEPT ![i] = IF HasBin(tmp) THEN got[i] ELSE Error]
    BY <1>2, <1>5 DEF Publish, Answer
  <2>2. TypeOK'
    BY <1>1, <1>3, <1>4, <2>1, ArchiveAssumption DEF IInv, TypeOK, PCs
  <2>3. EntryWhole'
    BY <1>2, <1>3, <2>1 DEF EntryWhole, Tree, Paths
  <2>4. /\ pc'[i] = "answered" /\ pin'[i] = pin[i]
        /\ ans'[i] = IF HasBin(tmp) THEN got[i] ELSE Error
    BY <1>1, <2>1 DEF IInv, TypeOK
  <2>5. tmp[Meta] \in {got[i], Absent}
    BY <1>2, <1>3, TreeFacts
  <2>6. Honoured(i)'
    BY <1>2, <2>1, <2>4, <2>5 DEF Honoured, HasBin
  <2>7. Phase(i)'
    BY <2>4, <2>6 DEF Phase, Chosen, NotServed, Unpacked, Working
  <2> QED BY <2>2, <2>3, <2>7 DEF Alone, IInv
<1>6. CASE tmp = Empty
  <2>1. content' = content /\ tmp' = tmp /\ ans' = [ans EXCEPT ![i] = Error]
    BY <1>6 DEF Publish, Answer
  <2>2. TypeOK'
    BY <1>1, <2>1, ArchiveAssumption DEF IInv, TypeOK, PCs
  <2>3. EntryWhole'
    BY <1>2, <2>1 DEF EntryWhole, HasBin
  <2>4. pc'[i] = "answered" /\ ans'[i] = Error
    BY <1>1, <2>1 DEF IInv, TypeOK
  <2>5. Phase(i)'
    BY <2>4 DEF Phase, Chosen, NotServed, Unpacked, Honoured, Working
  <2> QED BY <2>2, <2>3, <2>5 DEF Alone, IInv
<1> QED BY <1>5, <1>6

(* The caller leaves, or the process dies: the disk keeps what it has. *)
LEMMA LeaveStep ==
    ASSUME IInv, Alone, Removable, NEW i \in Installers, Return(i) \/ Crash(i)
    PROVE  IInv'
<1>1. /\ tmp' = tmp /\ content' = content /\ UNCHANGED <<pin, got, todo>>
      /\ pc' = [pc EXCEPT ![i] = "idle"] /\ ans' = [ans EXCEPT ![i] = NoAnswer]
  BY DEF Return, Crash, Goto, Answer
<1>2. EntryWhole'
  BY <1>1 DEF IInv, EntryWhole, HasBin
<1>3. TypeOK'
  BY <1>1, ArchiveAssumption DEF IInv, TypeOK, PCs
<1>4. pc'[i] = "idle"
  BY <1>1 DEF IInv, TypeOK
<1>5. Phase(i)'
  BY <1>4 DEF Phase, Chosen, NotServed, Unpacked, Honoured, Working
<1> QED BY <1>2, <1>3, <1>5 DEF Alone, IInv

LEMMA StepIInv == ASSUME Alone, Removable, IInv, [Next]_vars PROVE IInv'
<1>1. CASE UNCHANGED vars
  BY <1>1 DEF vars, IInv, TypeOK, EntryWhole, HasBin, Tree, Phase, Chosen, NotServed,
              Unpacked, Partial, Honoured
<1>2. ASSUME NEW i \in Installers, NEW e \in Archives \cup {NoPin},
             EnsureHit(i, e) \/ EnsureMiss(i, e)
      PROVE  IInv'
  BY <1>2, EnsureStep
<1>3. ASSUME NEW i \in Installers, Step(i) PROVE IInv'
  BY <1>3, DownloadStep, FailStep, TmpStep, ExtractStep, RecordStep, ClearStep,
     PublishStep, LeaveStep DEF Step
<1>4. ASSUME NEW i \in Installers, Crash(i) PROVE IInv'
  BY <1>4, LeaveStep
<1> QED BY <1>1, <1>2, <1>3, <1>4 DEF Next

-----------------------------------------------------------------------------
(* While one installer at a time works on a version, what later calls are
   served from is one signed archive, whole, under no digest but its own, for
   every archive, pin and point of death. *)
THEOREM EntriesWhole == ASSUME Alone, Removable PROVE Spec => []EntryWhole
<1>1. Init => IInv
  BY InitIInv
<1>2. IInv /\ [Next]_vars => IInv'
  BY StepIInv
<1>3. IInv => EntryWhole
  BY DEF IInv
<1> QED BY <1>1, <1>2, <1>3, PTL DEF Spec

(* Every variable keeps its type: the digest a call reports is an archive's. *)
THEOREM TypeCorrect == ASSUME Alone, Removable PROVE Spec => []TypeOK
<1>1. Init => IInv
  BY InitIInv
<1>2. IInv /\ [Next]_vars => IInv'
  BY StepIInv
<1>3. IInv => TypeOK
  BY DEF IInv
<1> QED BY <1>1, <1>2, <1>3, PTL DEF Spec

(* A call that succeeds under a pin of doze.lock runs the pinned archive. *)
THEOREM PinsHonoured == ASSUME Alone, Removable PROVE Spec => []PinHonoured
<1>1. Init => IInv
  BY InitIInv
<1>2. IInv /\ [Next]_vars => IInv'
  BY StepIInv
<1>3. IInv => PinHonoured
  BY DEF IInv, Phase, Honoured, PinHonoured
<1> QED BY <1>1, <1>2, <1>3, PTL DEF Spec

(* What failures and crashes leave behind never makes the final rename fail. *)
THEOREM RenamesSucceed == ASSUME Alone, Removable PROVE Spec => []RenameSucceeds
<1>1. Init => IInv
  BY InitIInv
<1>2. IInv /\ [Next]_vars => IInv'
  BY StepIInv
<1>3. IInv => RenameSucceeds
  BY DEF IInv, Phase, Unpacked, RenameSucceeds
<1> QED BY <1>1, <1>2, <1>3, PTL DEF Spec

-----------------------------------------------------------------------------
(* The refinement mapping's value for the cache entry. *)
Entry == IF HasBin(content)
         THEN [tree |-> content[Bin], digest |-> content[Meta]]
         ELSE Error

(* A cache a daemon starts on is a store's. *)
LEMMA InitStore == Init => Store!StoreInit
<1> SUFFICES ASSUME Init PROVE Store!StoreInit
  OBVIOUS
<1>1. CASE ~HasBin(content)
  BY <1>1 DEF Init, Store!StoreInit
<1>2. CASE HasBin(content)
  <2>1. IInv
    BY InitIInv
  <2>2. PICK a \in Signed, d \in Archives \cup {Absent} :
           d \in {a, Absent} /\ content = Tree(a, d)
    BY <1>2, <2>1 DEF IInv, EntryWhole
  <2>3. content[Bin] = a /\ content[Meta] = d
    BY <1>2, <2>2, TreeFacts, ArchiveAssumption
  <2>4. Entry = [tree |-> a, digest |-> d]
    BY <1>2, <2>3 DEF Entry
  <2> QED BY <1>2, <2>2, <2>3, <2>4 DEF Init, Store!StoreInit
<1> QED BY <1>1, <1>2

(* Every step of the code is a step of the store, or none it can see. *)
LEMMA StepStore ==
    ASSUME Alone, Removable, IInv, [Next]_vars
    PROVE  [Store!StoreNext]_Store!StoreVars
<1>1. CASE UNCHANGED vars
  BY <1>1 DEF vars, Store!StoreVars, HasBin
<1>2. ASSUME NEW i \in Installers, NEW e \in Archives \cup {NoPin}, EnsureHit(i, e)
      PROVE  Store!Serve(i, e)
  <2>1. pc[i] = "idle" /\ ans[i] = NoAnswer /\ HasBin(content) /\ content' = content
    BY <1>2 DEF EnsureHit, Goto, IInv, TypeOK
  <2>2. ans' = [ans EXCEPT ![i] = Hit(e)] /\ pin' = [pin EXCEPT ![i] = e]
    BY <1>2 DEF EnsureHit, Answer
  <2>3. [tree |-> content[Bin], digest |-> content[Meta]] \in Store!Entries
    BY <2>1, PathAssumption DEF IInv, TypeOK, Dirs, Paths, HasBin, Store!Entries
  <2>4. [tree |-> content[Bin], digest |-> content[Meta]] # Error
    BY <2>3, EntryAssumption
  <2>5. Hit(e) = Store!HitAnswer([tree |-> content[Bin], digest |-> content[Meta]], e)
    BY DEF Hit, Store!HitAnswer
  <2> QED BY <2>1, <2>2, <2>4, <2>5 DEF Store!Serve, HasBin
<1>3. ASSUME NEW i \in Installers, NEW e \in Archives \cup {NoPin}, EnsureMiss(i, e)
      PROVE  Store!Ask(i, e)
  BY <1>3 DEF EnsureMiss, Goto, IInv, TypeOK, Store!Ask, HasBin
<1>4. ASSUME NEW i \in Installers, Fail(i)
      PROVE  Store!Refuse(i)
  <2>1. ans[i] = NoAnswer
    BY <1>4 DEF Fail, IInv, TypeOK
  <2> QED BY <1>4, <2>1 DEF Fail, Answer, Store!Refuse, HasBin
<1>5. ASSUME NEW i \in Installers, Publish(i)
      PROVE  \/ \E a \in Archives, d \in Archives \cup {Absent} : Store!Install(i, a, d)
             \/ Store!Refuse(i)
  <2>1. pc[i] = "publish" /\ ans[i] = NoAnswer
    BY <1>5 DEF Publish, Goto, IInv, TypeOK
  <2>2. /\ got[i] \in Signed /\ pin[i] \in {NoPin, got[i]}
        /\ content = Empty /\ ~HasBin(content)
        /\ tmp \in {Tree(got[i], got[i]), Tree(got[i], Absent)}
    BY <2>1 DEF IInv, Phase, Chosen, NotServed, Unpacked, Working
  <2>3. got[i] \in Archives
    BY <2>2, ArchiveAssumption
  <2>4. tmp[Meta] \in {got[i], Absent} /\ (HasBin(tmp) => tmp[Bin] = got[i])
    BY <2>2, <2>3, TreeFacts
  <2>5. CASE HasBin(tmp)
    <3>1. tmp # Empty
      BY <2>5, PathAssumption DEF HasBin, Empty, Paths
    <3>2. content' = tmp /\ ans' = [ans EXCEPT ![i] = got[i]] /\ pin' = pin
      BY <1>5, <2>2, <2>5, <3>1 DEF Publish, Answer
    <3>3. HasBin(content)'
      BY <2>5, <3>2 DEF HasBin
    <3>4. Entry' = [tree |-> got[i], digest |-> tmp[Meta]] /\ Entry = Error
      BY <2>2, <2>4, <2>5, <3>2, <3>3 DEF Entry
    <3>5. Store!Install(i, got[i], tmp[Meta])
      BY <2>1, <2>2, <2>4, <3>2, <3>4 DEF Store!Install, Entry
    <3> QED BY <2>3, <2>4, <3>5
  <2>6. CASE ~HasBin(tmp)
    <3>1. ans' = [ans EXCEPT ![i] = Error] /\ pin' = pin /\ ~HasBin(content)'
      BY <1>5, <2>2, <2>6 DEF Publish, Answer, HasBin
    <3> QED BY <2>1, <2>2, <3>1 DEF Store!Refuse
  <2> QED BY <2>5, <2>6
<1>6. ASSUME NEW i \in Installers, Return(i) \/ Crash(i)
      PROVE  Store!Leave(i)
  BY <1>6 DEF Return, Crash, Goto, Answer, Store!Leave, HasBin
<1>7. ASSUME NEW i \in Installers, NEW p \in Paths, RemoveFromContent(i, p)
      PROVE  UNCHANGED Store!StoreVars
  <2>1. ~HasBin(content)
    BY <1>7 DEF RemoveFromContent, IInv, Phase, NotServed, Working
  <2>2. ~HasBin(content)'
    BY <1>7, <2>1, PathAssumption DEF RemoveFromContent, IInv, TypeOK, Dirs, HasBin, Paths
  <2> QED BY <1>7, <2>1, <2>2 DEF RemoveFromContent, Store!StoreVars
<1>8. ASSUME NEW i \in Installers,
             \/ \E a \in Archives, w \in Archives \cup {NoSum} : Download(i, a, w)
             \/ \E p \in Paths : RemoveFromTmp(i, p)
             \/ TmpCleared(i) \/ ContentCleared(i)
             \/ \E p \in Parts : Extract(i, p)
             \/ Extracted(i) \/ Located(i) \/ RecordDigest(i)
      PROVE  UNCHANGED Store!StoreVars
  BY <1>8 DEF Download, RemoveFromTmp, TmpCleared, ContentCleared, Extract, Extracted,
              Located, RecordDigest, Store!StoreVars, HasBin
<1>9. ASSUME NEW i \in Installers, Step(i)
      PROVE  [Store!StoreNext]_Store!StoreVars
  BY <1>4, <1>5, <1>6, <1>7, <1>8, <1>9 DEF Step, Store!StoreNext
<1> QED BY <1>1, <1>2, <1>3, <1>6, <1>9 DEF Next, Store!StoreNext

(* The code, file by file and with crashes, implements the store it promises:
   an entry appears in one step, is allowed by pin and signature, and stays. *)
THEOREM CacheImplementsStore == ASSUME Alone, Removable PROVE Spec => ImplementsStore
<1>1. Init => IInv /\ Store!StoreInit
  BY InitIInv, InitStore
<1>2. IInv /\ [Next]_vars => IInv' /\ [Store!StoreNext]_Store!StoreVars
  BY StepIInv, StepStore
<1> QED BY <1>1, <1>2, PTL DEF Spec, ImplementsStore, Store!StoreSpec
=============================================================================
