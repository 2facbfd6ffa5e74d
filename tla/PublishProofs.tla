--------------------------- MODULE PublishProofs ---------------------------
(***************************************************************************)
(* The safety of Publish for every set of sources, versions and triples:   *)
(* types, ArchivesMatch and SignatureFresh whatever order versions have,   *)
(* StableIsHighest and SelectServes where their segments are numbers.      *)
(*                                                                         *)
(* ArchivesMatch is not inductive: what keeps a truncated archive out of   *)
(* the index is that Build asked the index first, and what makes the next  *)
(* index true is that the archive was written before the merge.  Building  *)
(* carries both from step to step, and Pending says of the merged index    *)
(* in memory what is about to be true of the one on disk.                  *)
(***************************************************************************)
EXTENDS Publish, FiniteSetTheorems, WellFoundedInduction, TLAPS

Slots == Versions \X Triples

(* What the index says of a slot is here, or untouched where it was downloaded. *)
Held(a, s) == archives[a] = s \/ (archives[a] = Absent /\ remote[a] = s)

Matches(i) == \A a \in Slots : i.artifacts[a] # Absent => Held(a, i.artifacts[a])

Stamped(i) ==
    \A v \in Versions :
        i.stamp[v] # Absent <=> \E t \in Triples : i.artifacts[<<v, t>>] # Absent

(* From the question to the index to the merge into it. *)
Building ==
    /\ pc \in {"archive", "merge"} => ~Published(version, at)
    /\ pc = "merge" => archives[<<version, at>>] = cur

Pending ==
    pc = "write" => idx \in Indexes /\ Matches(idx) /\ Stamped(idx) /\ ~idx.signed

IInv == TypeOK /\ ArchivesMatch /\ SignatureFresh /\ Building /\ Pending

-----------------------------------------------------------------------------
LEMMA VersionIsVersion ==
    ASSUME TypeOK, pc # "idle"
    PROVE  cur \in Sources /\ version \in Versions
  BY DEF TypeOK, version, Versions

(* Whatever mergeIndex makes of the index it read is an index, unsigned, that
   the archives on disk match. *)
LEMMA MergesMatch ==
    ASSUME IInv, pc = "merge", NEW i \in Merges
    PROVE  i \in Indexes /\ Matches(i) /\ Stamped(i) /\ ~i.signed
<1> DEFINE old == IF Readable(index) THEN index ELSE NoArtifacts
           stamp == Stamp(old.stamp, version)
<1>1. cur \in Sources /\ version \in Versions /\ cur # Absent /\ at \in Triples
  BY VersionIsVersion, AbsentAssumption DEF IInv, TypeOK
<1>2. PICK head \in Heads(version, {v \in Versions : stamp[v] # Absent}) :
        i = [artifacts |-> [old.artifacts EXCEPT ![<<version, at>>] = cur],
             stamp |-> stamp, stable |-> head, signed |-> Signature]
  BY DEF Merges
<1>3. /\ old.artifacts \in [Slots -> Sources \cup {Absent}]
      /\ old.stamp \in [Versions -> Sources \cup {Absent}]
      /\ \A v \in Versions :
            old.stamp[v] # Absent <=> \E t \in Triples : old.artifacts[<<v, t>>] # Absent
      /\ \A a \in Slots : old.artifacts[a] # Absent => Held(a, old.artifacts[a])
  <2>1. CASE Readable(index)
    <3>1. index \in Indexes
      BY <2>1 DEF IInv, TypeOK, Readable
    <3> QED BY <2>1, <3>1 DEF IInv, TypeOK, ArchivesMatch, Held, Indexes, Slots
  <2>2. CASE ~Readable(index)
    BY <2>2 DEF NoArtifacts, Slots
  <2> QED BY <2>1, <2>2
<1>4. head \in Versions
  BY <1>1, <1>2 DEF Heads
<1> HIDE DEF old
<1>5. i.artifacts = [old.artifacts EXCEPT ![<<version, at>>] = cur] /\ ~i.signed
      /\ i.stamp = [old.stamp EXCEPT ![version] = cur]
  BY <1>2 DEF Signature, Stamp
<1>6. i \in Indexes
  BY <1>1, <1>2, <1>3, <1>4 DEF Indexes, Signature, Stamp, Slots
<1>7. Matches(i)
  BY <1>1, <1>3, <1>5 DEF Matches, Held, Slots, IInv, Building
<1>8. Stamped(i)
  <2>1. i.stamp[version] # Absent /\ i.artifacts[<<version, at>>] # Absent
    BY <1>1, <1>3, <1>5 DEF Slots
  <2>2. ASSUME NEW v \in Versions \ {version}
        PROVE  /\ i.stamp[v] = old.stamp[v]
               /\ \A t \in Triples : i.artifacts[<<v, t>>] = old.artifacts[<<v, t>>]
    BY <1>1, <1>3, <1>5 DEF Slots
  <2>3. ASSUME NEW v \in Versions
        PROVE  i.stamp[v] # Absent <=> \E t \in Triples : i.artifacts[<<v, t>>] # Absent
    <3>1. CASE v = version
      BY <1>1, <2>1, <3>1
    <3>2. CASE v # version
      BY <1>3, <2>2, <3>2
    <3> QED BY <3>1, <3>2
  <2> QED BY <2>3 DEF Stamped
<1> QED BY <1>5, <1>6, <1>7, <1>8

(* A run that is over holds nothing. *)
LEMMA OverTypes ==
    ASSUME IInv, Over, UNCHANGED <<archives, remote, index, registry>>
    PROVE  IInv'
  BY DEF IInv, Over, TypeOK, ArchivesMatch, SignatureFresh, Building, Pending, Readable

(* A downloaded index is one, of a release with artifacts, and signed as it is. *)
LEMMA DownloadedIsIndex ==
    ASSUME NEW d \in Downloads
    PROVE  LET i == Downloaded(d) IN
           /\ i \in Indexes /\ Stamped(i) /\ i.signed
           /\ Releases(i) = {i.stable}
<1> DEFINE v == Source[d[1]].version
           i == Downloaded(d)
<1>1. d[1] \in Sources /\ d[2] \in SUBSET Triples /\ d[2] # {} /\ d[1] # Absent /\ v \in Versions
  BY DownloadsAssumption, AbsentAssumption DEF Versions
<1>2. /\ i.artifacts = [a \in Versions \X Triples |-> IF a \in {v} \X d[2] THEN d[1] ELSE Absent]
      /\ i.stamp = [w \in Versions |-> IF w = v THEN d[1] ELSE Absent]
      /\ i.stable = v /\ i.signed = TRUE
  BY DEF Downloaded
<1>3. i \in Indexes
  BY <1>1 DEF Downloaded, Indexes
<1> HIDE DEF i, v
<1>4. Stamped(i)
  <2>1. \A w \in Versions, t \in Triples : i.artifacts[<<w, t>>] # Absent <=> w = v /\ t \in d[2]
    BY <1>1, <1>2
  <2>2. \A w \in Versions : i.stamp[w] # Absent <=> w = v
    BY <1>1, <1>2
  <2> QED BY <1>1, <2>1, <2>2 DEF Stamped
<1>5. Releases(i) = {i.stable}
  BY <1>1, <1>2 DEF Releases
<1> QED BY <1>2, <1>3, <1>4, <1>5 DEF i

LEMMA InitIInv == Init => IInv
<1> SUFFICES ASSUME Init PROVE IInv
  OBVIOUS
<1>0. NoArtifacts.artifacts \in [Versions \X Triples -> Sources \cup {Absent}]
      /\ \A a \in Versions \X Triples : NoArtifacts.artifacts[a] = Absent
  BY DEF NoArtifacts
<1>1. CASE index = NoIndex
  BY <1>0, <1>1 DEF Init, IInv, TypeOK, ArchivesMatch, SignatureFresh, Building, Pending, Readable,
         Unreadable
<1>2. ASSUME NEW d \in Downloads, index = Downloaded(d), index # NoIndex PROVE IInv
  <2>1. index \in Indexes /\ Stamped(index)
    BY <1>2, DownloadedIsIndex
  <2>2. remote = index.artifacts /\ remote \in [Versions \X Triples -> Sources \cup {Absent}]
    BY <1>2, <2>1 DEF Init, Indexes
  <2>3. TypeOK
    BY <1>0, <2>1, <2>2 DEF Init, TypeOK, Stamped
  <2>4. ArchivesMatch
    BY <1>0, <2>2 DEF Init, ArchivesMatch
  <2> QED BY <2>3, <2>4 DEF Init, IInv, SignatureFresh, Building, Pending
<1> QED BY <1>1, <1>2 DEF Init

-----------------------------------------------------------------------------
LEMMA StartStep ==
    ASSUME IInv, NEW s \in Sources, NEW ts \in SUBSET Triples, Start(s, ts)
    PROVE  IInv'
  BY AbsentAssumption DEF Start, IInv, TypeOK, ArchivesMatch, SignatureFresh, Building,
     Pending, Readable

LEMMA SkipStep ==
    ASSUME IInv, NEW t \in Triples, Skip(t) PROVE IInv'
  BY DEF Skip, IInv, TypeOK, ArchivesMatch, SignatureFresh, Building, Pending, Readable

LEMMA BuildStep ==
    ASSUME IInv, NEW t \in Triples, Build(t) PROVE IInv'
<1>1. cur \in Sources /\ version \in Versions /\ <<version, t>> \in Slots
  BY VersionIsVersion DEF Build, IInv, Slots
<1>2. version' = version
  BY DEF Build, version
<1>3. TypeOK'
  BY <1>1, AbsentAssumption DEF Build, IInv, TypeOK, Readable, Slots
<1>4. ArchivesMatch'
  <2> SUFFICES ASSUME Readable(index), NEW a \in Slots, index.artifacts[a] # Absent
               PROVE  Held(a, index.artifacts[a])'
    BY DEF Build, ArchivesMatch, Held, Readable, Slots
  <2>1. a # <<version, t>>
    BY DEF Build, Published
  <2> QED BY <2>1 DEF Build, IInv, TypeOK, ArchivesMatch, Held, Slots
<1>5. SignatureFresh' /\ Building' /\ Pending'
  BY <1>2 DEF Build, IInv, SignatureFresh, Building, Pending, Published, Readable
<1> QED BY <1>3, <1>4, <1>5 DEF IInv

LEMMA WriteArchiveStep == ASSUME IInv, WriteArchive PROVE IInv'
<1>1. /\ cur \in Sources /\ version \in Versions
      /\ at \in Triples /\ <<version, at>> \in Slots
  BY VersionIsVersion DEF WriteArchive, IInv, TypeOK, Slots
<1>2. version' = version
  BY DEF WriteArchive, version
<1>3. TypeOK'
  BY <1>1 DEF WriteArchive, IInv, TypeOK, Readable, Slots
<1>4. ArchivesMatch'
  <2> SUFFICES ASSUME Readable(index), NEW a \in Slots, index.artifacts[a] # Absent
               PROVE  Held(a, index.artifacts[a])'
    BY DEF WriteArchive, ArchivesMatch, Held, Readable, Slots
  <2>1. a # <<version, at>>
    BY DEF WriteArchive, IInv, Building, Published
  <2> QED BY <2>1 DEF WriteArchive, IInv, TypeOK, ArchivesMatch, Held, Slots
<1>5. SignatureFresh' /\ Building' /\ Pending'
  BY <1>1, <1>2 DEF WriteArchive, IInv, TypeOK, SignatureFresh, Building, Pending,
                    Published, Readable, Slots
<1> QED BY <1>3, <1>4, <1>5 DEF IInv

LEMMA MergeStep == ASSUME IInv, Merge PROVE IInv'
<1>1. CASE Conflict
  BY <1>1, OverTypes DEF Merge
<1>2. CASE ~Conflict
  <2>1. idx' \in Indexes /\ Matches(idx') /\ Stamped(idx') /\ ~idx'.signed
    BY <1>2, MergesMatch DEF Merge
  <2>2. Matches(idx)' /\ Stamped(idx)'
    BY <1>2, <2>1 DEF Merge, Matches, Held, Stamped
  <2>3. Pending'
    BY <2>1, <2>2 DEF Pending
  <2>4. index' = Torn /\ ~Readable(index)' /\ pc' = "write"
    BY <1>2 DEF Merge, Readable, Unreadable
  <2>5. TypeOK'
    BY <1>2, <2>1, <2>4 DEF Merge, IInv, TypeOK, Unreadable
  <2>6. ArchivesMatch' /\ SignatureFresh' /\ Building'
    BY <2>4 DEF ArchivesMatch, SignatureFresh, Building
  <2> QED BY <2>3, <2>5, <2>6 DEF IInv
<1> QED BY <1>1, <1>2

LEMMA WriteIndexStep == ASSUME IInv, WriteIndex PROVE IInv'
<1>1. idx \in Indexes /\ Matches(idx) /\ Stamped(idx) /\ ~idx.signed /\ index' = idx
  BY DEF WriteIndex, IInv, Pending
<1>2. TypeOK'
  BY <1>1, AbsentAssumption DEF WriteIndex, IInv, TypeOK, Stamped
<1>3. ArchivesMatch' /\ SignatureFresh'
  BY <1>1 DEF WriteIndex, ArchivesMatch, SignatureFresh, Matches, Held, Slots
<1>4. Building' /\ Pending'
  BY DEF WriteIndex, Building, Pending
<1> QED BY <1>2, <1>3, <1>4 DEF IInv

LEMMA SignStep == ASSUME IInv, SignAndServe PROVE IInv'
<1>1. index \in Indexes
  BY DEF SignAndServe, IInv, TypeOK, Readable
<1>2. /\ index' \in Indexes /\ registry' = index'
      /\ index'.artifacts = index.artifacts /\ index'.stamp = index.stamp
  BY <1>1 DEF SignAndServe, Indexes
<1>3. TypeOK'
  BY <1>2 DEF SignAndServe, IInv, TypeOK
<1>4. ArchivesMatch' /\ SignatureFresh'
  BY <1>2 DEF SignAndServe, IInv, ArchivesMatch, SignatureFresh
<1>5. Building' /\ Pending'
  BY DEF SignAndServe, Building, Pending
<1> QED BY <1>3, <1>4, <1>5 DEF IInv

LEMMA StepIInv == ASSUME IInv, [Next]_vars PROVE IInv'
<1>1. CASE UNCHANGED vars
  BY <1>1 DEF vars, IInv, TypeOK, ArchivesMatch, SignatureFresh, Building, Pending,
              Readable, Published, version, Matches, Held, Stamped
<1>2. CASE WriteMeta \/ Stop
  BY <1>2, OverTypes DEF WriteMeta, Stop
<1> QED BY <1>1, <1>2, StartStep, SkipStep, BuildStep, WriteArchiveStep, MergeStep,
           WriteIndexStep, SignStep DEF Next

(* Every variable keeps its type, and a release is in the index exactly when an
   artifact of it is, for any sources, versions and triples. *)
THEOREM TypeCorrect == Spec => []TypeOK
<1>1. IInv => TypeOK
  BY DEF IInv
<1> QED BY <1>1, InitIInv, StepIInv, PTL DEF Spec

(* A checksum in the index has its archive, whole, on disk: however often runs
   die, start again or build an edited source. *)
THEOREM ChecksumsHaveArchives == Spec => []ArchivesMatch
<1>1. IInv => ArchivesMatch
  BY DEF IInv
<1> QED BY <1>1, InitIInv, StepIInv, PTL DEF Spec

(* mergeIndex's refusal (modtool.go:258-266) is never met while runs take turns:
   an artifact that is published is skipped before it is built. *)
THEOREM NoConflict == Spec => [](pc = "merge" => ~Conflict)
<1>1. IInv => (pc = "merge" => ~Conflict)
  BY DEF IInv, Building, Conflict
<1> QED BY <1>1, InitIInv, StepIInv, PTL DEF Spec

(* No signature outlives the content it covers. *)
THEOREM SignaturesAreFresh == Spec => []SignatureFresh
<1>1. IInv => SignatureFresh
  BY DEF IInv
<1> QED BY <1>1, InitIInv, StepIInv, PTL DEF Spec

-----------------------------------------------------------------------------
(***************************************************************************)
(* The order of versions.  CompareVersions is an order where every segment *)
(* is a number; a version with another segment can be newer than one that  *)
(* is newer than it.                                                       *)
(***************************************************************************)
Dotted(v) == v \in Seq(Segments) /\ \A n \in 1..Len(v) : IsNumber(v[n])

Ordered ==
    \A s \in Sources :
        /\ Dotted(Source[s].version)
        /\ Source[s].doze # NoDoze => Dotted(Source[s].doze)

(* A missing segment is below every number. *)
Key(v, n) == IF n <= Len(v) THEN Number[v[n]] + 1 ELSE 0

Above(v, w) ==
    \E n \in Nat \ {0} :
        Key(v, n) > Key(w, n) /\ \A m \in 1..(n - 1) : Key(v, m) = Key(w, m)

LEMMA KeyType ==
    ASSUME NEW v, Dotted(v), NEW n \in Nat \ {0}
    PROVE  /\ Key(v, n) \in Nat
           /\ Key(v, n) > 0 => n <= Len(v)
<1>1. CASE n <= Len(v)
  <2>1. n \in 1..Len(v) /\ v[n] \in Segments
    BY <1>1 DEF Dotted
  <2>2. Number[v[n]] \in Nat
    BY <2>1, SegmentAssumption DEF Dotted, IsNumber
  <2> QED BY <1>1, <2>2 DEF Key
<1>2. CASE ~(n <= Len(v))
  BY <1>2 DEF Key
<1> QED BY <1>1, <1>2

(* Segment by segment, newer is a greater key. *)
LEMMA SegmentKey ==
    ASSUME NEW v, Dotted(v), NEW w, Dotted(w), NEW n \in Nat \ {0}
    PROVE  SegmentNewer(Segment(v, n), Segment(w, n)) <=> Key(v, n) > Key(w, n)
<1>0. Len(v) \in Nat /\ Len(w) \in Nat
  BY DEF Dotted
<1>1. ASSUME NEW u, Dotted(u), n <= Len(u)
      PROVE  /\ Segment(u, n) \in Segments /\ IsNumber(Segment(u, n))
             /\ Number[Segment(u, n)] \in Nat /\ Key(u, n) = Number[Segment(u, n)] + 1
             /\ Rank[Segment(u, n)] > Rank[NoSegment]
  <2>1. n \in 1..Len(u) /\ Segment(u, n) = u[n] /\ u[n] \in Segments
    BY <1>1 DEF Segment, Dotted
  <2>2. IsNumber(u[n]) /\ u[n] # NoSegment
    BY <1>1, <2>1, SegmentAssumption DEF Dotted, IsNumber
  <2>3. Rank[u[n]] > Rank[NoSegment]
    <3>1. Rank[u[n]] \in Nat /\ Rank[NoSegment] \in Nat /\ Rank[u[n]] # Rank[NoSegment]
      BY <2>1, <2>2, SegmentAssumption
    <3>2. Rank[NoSegment] <= Rank[u[n]]
      BY <2>1, SegmentAssumption
    <3> QED BY <3>1, <3>2
  <2>4. Number[u[n]] \in Nat
    BY <2>1, <2>2, SegmentAssumption DEF IsNumber
  <2> QED BY <1>1, <2>1, <2>2, <2>3, <2>4 DEF Key
<1>2. ASSUME NEW u, ~(n <= Len(u))
      PROVE  Segment(u, n) = NoSegment /\ ~IsNumber(NoSegment) /\ Key(u, n) = 0
  BY <1>2, SegmentAssumption DEF Segment, IsNumber, Key
<1>3. Rank[NoSegment] \in Nat
  BY SegmentAssumption
<1>4. CASE n <= Len(v) /\ n <= Len(w)
  BY <1>1, <1>4 DEF SegmentNewer
<1>5. CASE n <= Len(v) /\ ~(n <= Len(w))
  BY <1>1, <1>2, <1>5 DEF SegmentNewer
<1>6. CASE ~(n <= Len(v)) /\ n <= Len(w)
  <2>1. Rank[Segment(w, n)] \in Nat
    BY <1>1, <1>6, SegmentAssumption
  <2> QED BY <1>1, <1>2, <1>3, <1>6, <2>1 DEF SegmentNewer
<1>7. CASE ~(n <= Len(v)) /\ ~(n <= Len(w))
  BY <1>2, <1>3, <1>7 DEF SegmentNewer
<1> QED BY <1>4, <1>5, <1>6, <1>7

LEMMA NewerIsAbove ==
    ASSUME NEW v, Dotted(v), NEW w, Dotted(w)
    PROVE  Newer(v, w) <=> Above(v, w)
<1> DEFINE Greater(n) == SegmentNewer(Segment(v, n), Segment(w, n))
           Less(n) == SegmentNewer(Segment(w, n), Segment(v, n))
           First(n) == Greater(n) /\ \A m \in 1..(n - 1) : ~(Greater(m) \/ Less(m))
           FirstKey(n) == /\ Key(v, n) > Key(w, n)
                          /\ \A m \in 1..(n - 1) : Key(v, m) = Key(w, m)
<1>1. Newer(v, w) <=> \E n \in 1..(Len(v) + Len(w)) : First(n)
  BY DEF Newer
<1>2. ASSUME NEW n \in Nat \ {0}
      PROVE  /\ Greater(n) <=> Key(v, n) > Key(w, n)
             /\ ~(Greater(n) \/ Less(n)) <=> Key(v, n) = Key(w, n)
  <2>1. Key(v, n) \in Nat /\ Key(w, n) \in Nat
    BY KeyType
  <2>2. Greater(n) <=> Key(v, n) > Key(w, n)
    BY SegmentKey
  <2>3. Less(n) <=> Key(w, n) > Key(v, n)
    BY SegmentKey
  <2> QED BY <2>1, <2>2, <2>3
<1> HIDE DEF Greater, Less
<1>3. ASSUME NEW n \in Nat \ {0} PROVE First(n) <=> FirstKey(n)
  <2>1. \A m \in 1..(n - 1) : m \in Nat \ {0}
    OBVIOUS
  <2> QED BY <1>2, <2>1
<1>4. ASSUME NEW n \in Nat \ {0}, FirstKey(n) PROVE n \in 1..(Len(v) + Len(w))
  <2>1. Key(v, n) > 0
    BY <1>4, KeyType
  <2>2. n <= Len(v) /\ Len(v) \in Nat /\ Len(w) \in Nat
    BY <2>1, KeyType DEF Dotted
  <2> QED BY <2>2
<1>5. Above(v, w) <=> \E n \in Nat \ {0} : FirstKey(n)
  BY DEF Above
<1>6. \A n \in 1..(Len(v) + Len(w)) : n \in Nat \ {0}
  BY DEF Dotted
<1> HIDE DEF First, FirstKey
<1> QED BY <1>1, <1>3, <1>4, <1>5, <1>6

LEMMA NewerIrreflexive == ASSUME NEW v, Dotted(v) PROVE ~Newer(v, v)
<1>1. \A n \in Nat \ {0} : Key(v, n) \in Nat
  BY KeyType
<1> QED BY <1>1, NewerIsAbove DEF Above

LEMMA NewerTransitive ==
    ASSUME NEW u, Dotted(u), NEW v, Dotted(v), NEW w, Dotted(w), Newer(u, v), Newer(v, w)
    PROVE  Newer(u, w)
<1>1. \A n \in Nat \ {0} : Key(u, n) \in Nat /\ Key(v, n) \in Nat /\ Key(w, n) \in Nat
  BY KeyType
<1>2. PICK i \in Nat \ {0} :
        Key(u, i) > Key(v, i) /\ \A m \in 1..(i - 1) : Key(u, m) = Key(v, m)
  BY NewerIsAbove DEF Above
<1>3. PICK j \in Nat \ {0} :
        Key(v, j) > Key(w, j) /\ \A m \in 1..(j - 1) : Key(v, m) = Key(w, m)
  BY NewerIsAbove DEF Above
<1>4. CASE i <= j
  <2>1. Key(u, i) > Key(w, i)
    <3>1. CASE i = j
      BY <1>1, <1>2, <1>3, <3>1
    <3>2. CASE i < j
      <4>1. i \in 1..(j - 1)
        BY <3>2
      <4> QED BY <1>1, <1>2, <1>3, <4>1
    <3> QED BY <1>4, <3>1, <3>2
  <2>2. \A m \in 1..(i - 1) : Key(u, m) = Key(w, m)
    <3>1. \A m \in 1..(i - 1) : m \in 1..(j - 1)
      BY <1>4
    <3> QED BY <1>2, <1>3, <3>1
  <2> QED BY <2>1, <2>2, NewerIsAbove DEF Above
<1>5. CASE j < i
  <2>1. j \in 1..(i - 1)
    BY <1>5
  <2>2. Key(u, j) > Key(w, j)
    BY <1>1, <1>2, <1>3, <2>1
  <2>3. \A m \in 1..(j - 1) : Key(u, m) = Key(w, m)
    <3>1. \A m \in 1..(j - 1) : m \in 1..(i - 1)
      BY <1>5
    <3> QED BY <1>2, <1>3, <3>1
  <2> QED BY <2>2, <2>3, NewerIsAbove DEF Above
<1> QED BY <1>4, <1>5

-----------------------------------------------------------------------------
(***************************************************************************)
(* Newest and Oldest of a finite set of versions exist, and the loop of    *)
(* mergeIndex finds the newest.  Neither is an induction the provers could *)
(* do: the least counterexample comes from the library's theorem that      *)
(* strict inclusion of finite sets is well-founded.                        *)
(***************************************************************************)
LEMMA LeastNat ==
    ASSUME NEW T \in SUBSET Nat, T # {}
    PROVE  \E m \in T : \A k \in T : m <= k
<1> DEFINE F == {0..n : n \in T}
<1>1. F \subseteq FiniteSubsetsOf(Nat)
  <2> SUFFICES ASSUME NEW n \in T PROVE 0..n \in FiniteSubsetsOf(Nat)
    OBVIOUS
  <2>1. IsFiniteSet(0..n)
    BY FS_Interval
  <2>2. 0..n \subseteq Nat
    OBVIOUS
  <2> QED BY <2>1, <2>2 DEF FiniteSubsetsOf
<1>2. F # {}
  OBVIOUS
<1> HIDE DEF F
<1>3. PICK X \in F : \A Y \in F : <<Y, X>> \notin StrictSubsetOrdering(Nat)
  BY <1>1, <1>2, FS_StrictSubsetOrderingWellFounded, WFMin
<1>4. PICK m \in T : X = 0..m
  BY DEF F
<1>5. ASSUME NEW k \in T, k < m PROVE FALSE
  <2>1. 0..k \in F /\ X \subseteq Nat
    BY <1>4 DEF F
  <2>2. 0..k \subseteq X /\ m \in X /\ m \notin 0..k /\ 0..k \subseteq Nat
    BY <1>4, <1>5
  <2>3. <<0..k, X>> \in StrictSubsetOrdering(Nat)
    BY <2>1, <2>2 DEF StrictSubsetOrdering
  <2> QED BY <1>3, <2>1, <2>3
<1> QED BY <1>5

LEMMA ExtremesExist ==
    ASSUME NEW S, IsFiniteSet(S), S # {}, \A v \in S : Dotted(v)
    PROVE  /\ Newest(S) \in S /\ \A w \in S : ~Newer(w, Newest(S))
           /\ Oldest(S) \in S /\ \A w \in S : ~Newer(Oldest(S), w)
<1> DEFINE Up(v) == {w \in S : Newer(w, v)}
           Down(v) == {w \in S : Newer(v, w)}
<1>1. \A v \in S : v \notin Up(v) /\ v \notin Down(v)
  BY NewerIrreflexive
<1>2. ASSUME NEW v \in S, NEW w \in S
      PROVE  /\ w \in Up(v) => Up(w) \subseteq Up(v)
             /\ w \in Down(v) => Down(w) \subseteq Down(v)
  BY NewerTransitive
<1> DEFINE Ups == {Up(v) : v \in S}
           Downs == {Down(v) : v \in S}
<1>3. \A v \in S : Up(v) \in FiniteSubsetsOf(S) /\ Down(v) \in FiniteSubsetsOf(S)
  BY FS_Subset DEF FiniteSubsetsOf
<1>4. /\ Ups \subseteq FiniteSubsetsOf(S) /\ Ups # {}
      /\ Downs \subseteq FiniteSubsetsOf(S) /\ Downs # {}
  BY <1>3
<1>5. \E v \in S : \A w \in S : ~Newer(w, v)
  <2> HIDE DEF Ups
  <2>1. PICK X \in Ups : \A Y \in Ups : <<Y, X>> \notin StrictSubsetOrdering(S)
    BY <1>4, FS_StrictSubsetOrderingWellFounded, WFMin
  <2>2. PICK v \in S : X = Up(v)
    BY DEF Ups
  <2>3. ASSUME NEW w \in S, Newer(w, v) PROVE FALSE
    <3>1. Up(w) \subseteq Up(v) /\ w \in Up(v) /\ w \notin Up(w)
      BY <1>1, <1>2, <2>3
    <3>2. <<Up(w), X>> \in StrictSubsetOrdering(S)
      BY <2>2, <3>1 DEF StrictSubsetOrdering
    <3> QED BY <2>1, <3>2 DEF Ups
  <2> QED BY <2>3
<1>6. \E v \in S : \A w \in S : ~Newer(v, w)
  <2> HIDE DEF Downs
  <2>1. PICK X \in Downs : \A Y \in Downs : <<Y, X>> \notin StrictSubsetOrdering(S)
    BY <1>4, FS_StrictSubsetOrderingWellFounded, WFMin
  <2>2. PICK v \in S : X = Down(v)
    BY DEF Downs
  <2>3. ASSUME NEW w \in S, Newer(v, w) PROVE FALSE
    <3>1. Down(w) \subseteq Down(v) /\ w \in Down(v) /\ w \notin Down(w)
      BY <1>1, <1>2, <2>3
    <3>2. <<Down(w), X>> \in StrictSubsetOrdering(S)
      BY <2>2, <3>1 DEF StrictSubsetOrdering
    <3> QED BY <2>1, <3>2 DEF Downs
  <2> QED BY <2>3
<1> QED BY <1>5, <1>6 DEF Newest, Oldest

(* Every version was the version of a source. *)
LEMMA VersionsOrdered ==
    ASSUME Ordered
    PROVE  IsFiniteSet(Versions) /\ \A v \in Versions : Dotted(v)
<1> DEFINE f == [s \in Sources |-> Source[s].version]
<1>1. f \in Surjection(Sources, Versions)
  BY DEF Surjection, Versions
<1>2. IsFiniteSet(Versions)
  BY <1>1, FS_Surjection, SourceAssumption
<1> QED BY <1>2 DEF Ordered, Versions

(* The loop over the releases ends with the highest, in any order. *)
LEMMA HeadsHighest ==
    ASSUME Ordered, NEW S \in SUBSET Versions, NEW start \in S, NEW h \in Heads(start, S)
    PROVE  h \in S /\ \A v \in S : ~Newer(v, h)
<1> DEFINE N == Cardinality(S)
           Orders == {o \in [1..N -> S] : \A v \in S : \E n \in 1..N : o[n] = v}
<1>1. N \in Nat /\ S \cup {start} = S
  BY VersionsOrdered, FS_Subset, FS_CardinalityType
<1>2. h \in S
  BY <1>1 DEF Heads
<1>3. PICK o \in Orders, head \in [0..N -> S \cup {start}] :
          /\ head[0] = start /\ head[N] = h
          /\ \A n \in 1..N :
                head[n] = IF Newer(o[n], head[n - 1]) THEN o[n] ELSE head[n - 1]
  BY DEF Heads
<1>4. /\ \A n \in 1..N : o[n] \in S
      /\ \A n \in 0..N : head[n] \in S
      /\ \A v \in S : \E n \in 1..N : o[n] = v
  BY <1>1, <1>3
<1> HIDE DEF N, Orders
<1> DEFINE Passed(n) == \A m \in 1..n : ~Newer(o[m], head[n])
           Bad == {n \in 0..N : ~Passed(n)}
<1>5. ASSUME Bad # {} PROVE FALSE
  <2>1. PICK n \in Bad : \A k \in Bad : n <= k
    <3>1. Bad \in SUBSET Nat
      BY <1>1
    <3> HIDE DEF Bad
    <3> QED BY <1>5, <3>1, LeastNat
  <2>2. n \in 1..N /\ n - 1 \in 0..N
    BY <1>1
  <2>3. Passed(n - 1)
    <3>1. n - 1 \notin Bad
      BY <2>1, <2>2
    <3> QED BY <2>2, <3>1
  <2>4. PICK m \in 1..n : Newer(o[m], head[n])
    BY <2>1
  <2>5. /\ o[m] \in S /\ o[n] \in S /\ head[n - 1] \in S
        /\ Dotted(o[m]) /\ Dotted(o[n]) /\ Dotted(head[n - 1])
    <3>1. m \in 1..N
      BY <1>1, <2>2
    <3>2. \A v \in S : Dotted(v)
      BY VersionsOrdered
    <3> QED BY <1>4, <2>2, <3>1, <3>2
  <2>6. CASE Newer(o[n], head[n - 1])
    <3>1. head[n] = o[n]
      BY <1>3, <2>2, <2>6
    <3>2. m # n
      BY <2>4, <2>5, <3>1, NewerIrreflexive
    <3>3. ~Newer(o[m], head[n - 1])
      BY <1>1, <2>2, <2>3, <3>2
    <3> QED BY <2>4, <2>5, <2>6, <3>1, <3>3, NewerTransitive
  <2>7. CASE ~Newer(o[n], head[n - 1])
    <3>1. head[n] = head[n - 1]
      BY <1>3, <2>2, <2>7
    <3>2. m # n
      BY <2>4, <2>7, <3>1
    <3> QED BY <1>1, <2>2, <2>3, <2>4, <3>1, <3>2
  <2> QED BY <2>6, <2>7
<1>6. Passed(N)
  BY <1>1, <1>5
<1> QED BY <1>2, <1>3, <1>4, <1>6

-----------------------------------------------------------------------------
(***************************************************************************)
(* The stable channel and the selection, where every segment of a version  *)
(* is a number.                                                            *)
(***************************************************************************)
HeadIsHighest(i) ==
    /\ i.stable \in Releases(i)
    /\ \A v \in Releases(i) : ~Newer(v, i.stable)

(* What is about to be written heads its releases too. *)
StableInv == IInv /\ StableIsHighest /\ (pc = "write" => HeadIsHighest(idx))

LEMMA MergesHeaded ==
    ASSUME Ordered, IInv, pc = "merge", NEW i \in Merges
    PROVE  HeadIsHighest(i)
<1> DEFINE old == IF Readable(index) THEN index ELSE NoArtifacts
           stamp == Stamp(old.stamp, version)
           S == {v \in Versions : stamp[v] # Absent}
<1>1. cur \in Sources /\ version \in Versions /\ cur # Absent
  BY VersionIsVersion, AbsentAssumption DEF IInv, TypeOK
<1>2. PICK head \in Heads(version, S) :
        i = [artifacts |-> [old.artifacts EXCEPT ![<<version, at>>] = cur],
             stamp |-> stamp, stable |-> head, signed |-> Signature]
  BY DEF Merges
<1>3. i.stamp = stamp /\ i.stable = head /\ Releases(i) = S
  BY <1>2 DEF Releases
<1>4. version \in S
  <2>1. old.stamp \in [Versions -> Sources \cup {Absent}]
    <3>1. CASE Readable(index)
      <4>1. index \in Indexes
        BY <3>1 DEF IInv, TypeOK, Readable
      <4> QED BY <3>1, <4>1 DEF Indexes
    <3>2. CASE ~Readable(index)
      BY <3>2 DEF NoArtifacts
    <3> QED BY <3>1, <3>2
  <2> HIDE DEF old
  <2> QED BY <1>1, <2>1 DEF Stamp
<1> HIDE DEF S
<1>5. S \in SUBSET Versions
  BY DEF S
<1> QED BY <1>2, <1>3, <1>4, <1>5, HeadsHighest DEF HeadIsHighest

LEMMA InitStableInv == ASSUME Ordered PROVE Init => StableInv
<1> SUFFICES ASSUME Init PROVE StableInv
  OBVIOUS
<1>1. CASE index = NoIndex
  BY <1>1, InitIInv DEF Init, StableInv, StableIsHighest, Readable, Unreadable
<1>2. ASSUME NEW d \in Downloads, index = Downloaded(d) PROVE StableInv
  <2>1. Releases(index) = {index.stable} /\ index.stable \in Versions
    BY <1>2, DownloadedIsIndex DEF Indexes
  <2>2. Dotted(index.stable)
    BY <2>1 DEF Ordered, Versions
  <2> QED BY <2>1, <2>2, InitIInv, NewerIrreflexive DEF Init, StableInv, StableIsHighest
<1> QED BY <1>1, <1>2 DEF Init

LEMMA StepStableInv ==
    ASSUME Ordered, StableInv, [Next]_vars
    PROVE  StableInv'
<1>1. IInv /\ IInv' /\ StableIsHighest
  BY StepIInv DEF StableInv
<1>2. StableIsHighest <=> (Readable(index) => HeadIsHighest(index))
  BY DEF StableIsHighest, HeadIsHighest
<1>3. StableIsHighest' <=> (Readable(index) => HeadIsHighest(index))'
  BY DEF StableIsHighest, HeadIsHighest
<1>4. CASE UNCHANGED <<index, idx>> /\ (pc' = "write" => pc = "write")
  BY <1>1, <1>4 DEF StableInv, StableIsHighest, HeadIsHighest, Readable, Releases
<1>5. CASE UNCHANGED index /\ pc' # "write"
  BY <1>1, <1>5 DEF StableInv, StableIsHighest, Readable, Releases
<1>6. CASE Merge /\ ~Conflict
  <2>1. HeadIsHighest(idx')
    BY <1>1, <1>6, MergesHeaded DEF Merge
  <2>2. HeadIsHighest(idx)'
    BY <2>1 DEF HeadIsHighest, Releases
  <2>3. ~Readable(index)'
    BY <1>6 DEF Merge, Readable, Unreadable
  <2> QED BY <1>1, <2>2, <2>3 DEF StableInv, StableIsHighest
<1>7. CASE WriteIndex
  BY <1>1, <1>7 DEF WriteIndex, StableInv, StableIsHighest, HeadIsHighest, Releases
<1>8. CASE SignAndServe
  <2>1. index \in Indexes
    BY <1>1, <1>8 DEF SignAndServe, IInv, TypeOK, Readable
  <2>2. index'.stamp = index.stamp /\ index'.stable = index.stable
    BY <1>8, <2>1 DEF SignAndServe, Indexes
  <2> QED BY <1>1, <1>8, <2>2 DEF SignAndServe, StableInv, StableIsHighest, Readable, Releases
<1>9. CASE Merge /\ Conflict
  BY <1>5, <1>9 DEF Merge, Over
<1>10. CASE UNCHANGED vars
  BY <1>4, <1>10 DEF vars
<1>11. ASSUME NEW s \in Sources, NEW ts \in SUBSET Triples, Start(s, ts) PROVE StableInv'
  BY <1>5, <1>11 DEF Start
<1>12. ASSUME NEW t \in Triples, Skip(t) \/ Build(t) PROVE StableInv'
  BY <1>4, <1>12 DEF Skip, Build
<1>13. CASE WriteArchive \/ WriteMeta \/ Stop
  BY <1>5, <1>13 DEF WriteArchive, WriteMeta, Stop, Over
<1> QED BY <1>6, <1>7, <1>8, <1>9, <1>10, <1>11, <1>12, <1>13 DEF Next

(* channels.stable of the index on disk is a release and no release is newer,
   for any sources whose versions are numbers, wherever runs end and whatever
   order the map gives the releases. *)
THEOREM StableIsRight ==
    ASSUME Ordered PROVE Spec => []StableIsHighest
<1>1. StableInv => StableIsHighest
  BY DEF StableInv
<1>2. StableInv /\ [Next]_vars => StableInv'
  BY StepStableInv
<1> QED BY <1>1, <1>2, InitStableInv, PTL DEF Spec

-----------------------------------------------------------------------------
Candidates(i, S, protocol, majors) ==
    {v \in S : Release(i, v).protocol = protocol /\ Supports(Release(i, v), majors)}

(* Select finds a release exactly if there is a candidate: stable if it is one,
   or else one that no candidate is newer than. *)
LEMMA SelectFinds ==
    ASSUME Ordered, NEW i, NEW S \in SUBSET Versions, NEW protocol, NEW majors,
           NEW C, C = Candidates(i, S, protocol, majors),
           NEW r, r = Select(i, S, protocol, majors)
    PROVE  /\ C = {} => r.kind \in {"releases", "protocol", "engines"}
           /\ C # {} => /\ r.kind = "release" /\ r.version \in C
                        /\ \/ r.version = i.stable
                           \/ i.stable \notin C /\ \A v \in C : ~Newer(v, r.version)
<1> DEFINE P == {v \in S : Release(i, v).protocol = protocol}
           K == {v \in P : Supports(Release(i, v), majors)}
<1>1. K = C /\ K \subseteq P /\ P \subseteq S
  BY DEF Candidates
<1>2. r = CASE S = {} -> NotFound("releases")
            [] S # {} /\ P = {} -> NotFound("protocol")
            [] P # {} /\ K = {} -> NotFound("engines")
            [] K # {} -> Found(IF HeadServes(i.stable, K) THEN i.stable ELSE Newest(K))
  BY DEF Select
<1> HIDE DEF K, P
<1>3. CASE C = {}
  <2>1. r \in {NotFound("releases"), NotFound("protocol"), NotFound("engines")}
    BY <1>1, <1>2, <1>3
  <2> QED BY <1>3, <2>1 DEF NotFound
<1>4. CASE C # {}
  <2>1. r = Found(IF i.stable \in C THEN i.stable ELSE Newest(C))
    BY <1>1, <1>2, <1>4 DEF HeadServes
  <2>2. Newest(C) \in C /\ \A w \in C : ~Newer(w, Newest(C))
    BY <1>1, <1>4, VersionsOrdered, ExtremesExist, FS_Subset
  <2> QED BY <1>4, <2>1, <2>2 DEF Found
<1> QED BY <1>3, <1>4

(* A development build is not too old for any release. *)
Fitting(i, host) ==
    {v \in Releases(i) : ~(IsDozeVersion(host.doze) /\ TooNew(i, v, host.doze))}

(* The candidates SelectFor leaves are the releases this doze can run. *)
LEMMA SelectForFinds ==
    ASSUME Ordered, NEW i \in Indexes, NEW host \in [protocol : Nat, doze : Seq(Segments)],
           NEW majors,
           NEW S, S = Fitting(i, host),
           NEW C, C = Candidates(i, S, host.protocol, majors)
    PROVE  LET found == SelectFor(i, host, majors)
           IN /\ C # {} => found = Select(i, S, host.protocol, majors)
              /\ C = {} => /\ found.kind # "release"
                           /\ found.kind = "doze" =>
                                /\ IsDozeVersion(host.doze)
                                /\ \E v \in Releases(i) :
                                      /\ TooNew(i, v, host.doze)
                                      /\ Helpful(i, v, host, majors)
                                      /\ found.need = Release(i, v).doze
<1> DEFINE tooNew == {v \in Releases(i) : TooNew(i, v, host.doze)}
           needs == {Release(i, v).doze : v \in {w \in tooNew : Helpful(i, w, host, majors)}}
           fits == Select(i, Releases(i) \ tooNew, host.protocol, majors)
           found == SelectFor(i, host, majors)
<1>1. found = CASE ~IsDozeVersion(host.doze) ->
                     Select(i, Releases(i), host.protocol, majors)
                [] IsDozeVersion(host.doze) /\ fits.kind # "release" /\ needs # {} ->
                     NeedsDoze(Oldest(needs))
                [] OTHER -> fits
  BY DEF SelectFor
<1>2. Releases(i) \subseteq Versions /\ S \subseteq Versions
  BY DEF Releases, Fitting
<1> DEFINE r == Select(i, S, host.protocol, majors)
<1>3. /\ C = {} => r.kind \in {"releases", "protocol", "engines"}
      /\ C # {} => r.kind = "release"
  BY <1>2, SelectFinds
<1>4. ~IsDozeVersion(host.doze) => S = Releases(i)
  BY DEF Releases, Fitting
<1>5. IsDozeVersion(host.doze) => S = Releases(i) \ tooNew
  BY DEF Fitting
<1>6. IsDozeVersion(host.doze) => fits = r
  BY <1>5
<1>7. needs # {} => \E v \in Releases(i) :
          TooNew(i, v, host.doze) /\ Helpful(i, v, host, majors)
          /\ Oldest(needs) = Release(i, v).doze
  <2>1. needs \subseteq {Source[s].doze : s \in Sources}
    BY DEF Release, Releases, Indexes
  <2>2. \A d \in needs : Dotted(d)
    BY DEF Ordered, Release, Releases, Indexes, TooNew
  <2>3. IsFiniteSet(needs)
    <3> DEFINE D == {Source[s].doze : s \in Sources}
               f == [s \in Sources |-> Source[s].doze]
    <3>1. f \in Surjection(Sources, D)
      BY DEF Surjection
    <3>2. IsFiniteSet(D)
      BY <3>1, FS_Surjection, SourceAssumption
    <3> HIDE DEF needs
    <3> QED BY <2>1, <3>2, FS_Subset
  <2> HIDE DEF needs
  <2>4. needs # {} => Oldest(needs) \in needs
    BY <2>2, <2>3, ExtremesExist
  <2> QED BY <2>4 DEF needs
<1> HIDE DEF needs, fits, found, tooNew, r
<1>8. CASE ~IsDozeVersion(host.doze)
  <2>1. found = r
    BY <1>1, <1>4, <1>8 DEF r
  <2> QED BY <1>3, <2>1 DEF found, r
<1>9. CASE IsDozeVersion(host.doze)
  <2>1. CASE C # {}
    <3>1. found = r
      BY <1>1, <1>3, <1>6, <1>9, <2>1
    <3> QED BY <2>1, <3>1 DEF found, r
  <2>2. CASE C = {}
    <3>1. CASE needs = {}
      <4>1. found = r
        BY <1>1, <1>3, <1>6, <1>9, <2>2, <3>1
      <4> QED BY <1>3, <2>2, <4>1 DEF found, r
    <3>2. CASE needs # {}
      <4>1. found = NeedsDoze(Oldest(needs))
        BY <1>1, <1>3, <1>6, <1>9, <2>2, <3>2
      <4>2. found.kind = "doze" /\ found.need = Oldest(needs)
        BY <4>1 DEF NeedsDoze
      <4> QED BY <1>7, <1>9, <2>2, <3>2, <4>2 DEF found
    <3> QED BY <3>1, <3>2
  <2> QED BY <2>1, <2>2
<1> QED BY <1>8, <1>9

LEMMA TypedServes ==
    ASSUME Ordered, TypeOK PROVE SelectServes
<1> SUFFICES ASSUME registry # NoIndex, NEW host \in Hosts, NEW majors \in Majors
             PROVE  LET found == SelectFor(registry, host, majors)
                        runs == Runs(host, majors)
                        again == SelectFor(registry, [host EXCEPT !.doze = found.need], majors)
                    IN /\ IF runs = {} THEN found.kind # "release"
                          ELSE /\ found.kind = "release" /\ found.version \in runs
                               /\ \/ found.version = registry.stable
                                  \/ registry.stable \notin runs
                                     /\ \A v \in runs : ~Newer(v, found.version)
                       /\ found.kind = "doze" => again.kind = "release"
  BY DEF SelectServes, SelectsRunnable, UpgradeHelps
<1>1. registry \in Indexes /\ host \in [protocol : Nat, doze : Seq(Segments)]
  BY HostAssumption DEF TypeOK
<1> DEFINE C(h) == Candidates(registry, Fitting(registry, h), h.protocol, majors)
           found == SelectFor(registry, host, majors)
           again == [host EXCEPT !.doze = found.need]
<1>2. C(host) = Runs(host, majors)
  BY DEF Candidates, Runs, Fitting
<1>3. Fitting(registry, host) \subseteq Versions /\ Fitting(registry, again) \subseteq Versions
  BY DEF Releases, Fitting
<1>4. CASE C(host) # {}
  <2>1. found = Select(registry, Fitting(registry, host), host.protocol, majors)
    BY <1>1, <1>4, SelectForFinds
  <2>2. /\ found.kind = "release" /\ found.version \in C(host)
        /\ \/ found.version = registry.stable
           \/ registry.stable \notin C(host) /\ \A v \in C(host) : ~Newer(v, found.version)
    BY <1>3, <1>4, <2>1, SelectFinds
  <2> QED BY <1>2, <1>4, <2>2
<1>5. CASE C(host) = {}
  <2>1. /\ found.kind # "release"
        /\ found.kind = "doze" =>
              /\ IsDozeVersion(host.doze)
              /\ \E v \in Releases(registry) :
                    /\ TooNew(registry, v, host.doze) /\ Helpful(registry, v, host, majors)
                    /\ found.need = Release(registry, v).doze
    BY <1>1, <1>5, SelectForFinds
  <2>2. ASSUME found.kind = "doze" PROVE SelectFor(registry, again, majors).kind = "release"
    <3>1. PICK v \in Releases(registry) :
            /\ TooNew(registry, v, host.doze) /\ Helpful(registry, v, host, majors)
            /\ found.need = Release(registry, v).doze
      BY <2>1, <2>2
    <3>2. Dotted(found.need)
      BY <1>1, <3>1 DEF TooNew, Release, Releases, Indexes, Ordered
    <3>3. /\ again \in [protocol : Nat, doze : Seq(Segments)]
          /\ again.protocol = host.protocol /\ again.doze = found.need
      BY <1>1, <3>2 DEF Dotted
    <3>4. v \in C(again)
      <4>1. ~TooNew(registry, v, again.doze)
        BY <3>1, <3>2, <3>3, NewerIrreflexive DEF TooNew
      <4> QED BY <3>1, <3>3, <4>1 DEF Fitting, Candidates, Helpful
    <3>5. SelectFor(registry, again, majors) = Select(registry, Fitting(registry, again), again.protocol, majors)
      BY <1>1, <3>3, <3>4, SelectForFinds
    <3> QED BY <1>3, <3>4, <3>5, SelectFinds
  <2> QED BY <1>2, <1>5, <2>1, <2>2
<1> QED BY <1>4, <1>5

(* From whatever index the registry serves, every doze gets the release it
   should run, or an answer that leads to one. *)
THEOREM SelectionServes ==
    ASSUME Ordered PROVE Spec => []SelectServes
<1>1. IInv => SelectServes
  BY TypedServes DEF IInv
<1> QED BY <1>1, InitIInv, StepIInv, PTL DEF Spec
=============================================================================
