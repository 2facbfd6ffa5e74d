---------------------------- MODULE ModuleIndex ----------------------------
(***************************************************************************)
(* A module's registry index and the choice of a release from it           *)
(* (src/modindex/modindex.go): CompareVersions, Supports, Select and       *)
(* SelectFor.                                                              *)
(*                                                                         *)
(* A version is the sequence of its dotted segments.  Of a segment the     *)
(* comparison sees the number it parses to, or none, and its place in the  *)
(* order of strings.                                                       *)
(***************************************************************************)
EXTENDS Naturals, Sequences, FiniteSets

CONSTANTS
    Segments,  \* segments of versions
    NoSegment, \* "", where the shorter of two versions has no segment
    Number,    \* the number each segment parses to, or NaN
    NaN,
    Rank,      \* the segments' places in the order of strings
    Triples,   \* platform triples
    Sources,   \* states of a module's source repository
    Source,    \* the version, protocol, engine majors and oldest doze of each
    NoDoze,    \* a release from before the field
    Absent     \* no such artifact, release or signature

ASSUME SegmentAssumption ==
    /\ NoSegment \in Segments
    /\ Number \in [Segments -> Nat \cup {NaN}]
    /\ Rank \in [Segments -> Nat]
    /\ NaN \notin Nat /\ Number[NoSegment] = NaN
    /\ \A s, t \in Segments : Rank[s] = Rank[t] => s = t
    /\ \A s \in Segments : Rank[NoSegment] <= Rank[s]

ASSUME SourceAssumption ==
    /\ IsFiniteSet(Sources)
    /\ \A s \in Sources :
          /\ Source[s].version \in Seq(Segments)
          /\ Source[s].doze \in Seq(Segments) \cup {NoDoze}

Segment(v, n) == IF n <= Len(v) THEN v[n] ELSE NoSegment

IsNumber(s) == Number[s] # NaN

(* Two segments are compared as numbers if both are, else as strings. *)
SegmentNewer(s, t) ==
    IF IsNumber(s) /\ IsNumber(t) THEN Number[s] > Number[t] ELSE Rank[s] > Rank[t]

(* CompareVersions(v, w) > 0: the first segments that differ decide. *)
Newer(v, w) ==
    LET s(n) == Segment(v, n)
        t(n) == Segment(w, n)
        Differ(n) == SegmentNewer(s(n), t(n)) \/ SegmentNewer(t(n), s(n))
    IN \E n \in 1..(Len(v) + Len(w)) :
          SegmentNewer(s(n), t(n)) /\ \A m \in 1..(n - 1) : ~Differ(m)

Newest(S) == CHOOSE v \in S : \A w \in S : ~Newer(w, v)
Oldest(S) == CHOOSE v \in S : \A w \in S : ~Newer(v, w)

IsDozeVersion(v) == v # <<>> /\ \A n \in 1..Len(v) : IsNumber(v[n])

-----------------------------------------------------------------------------
Versions == {Source[s].version : s \in Sources}

(* An index: the source each artifact was built from, the source that stamped
   each release's protocol, engines and doze, channels.stable, and what its
   signature covers. *)
Indexes ==
    [artifacts : [Versions \X Triples -> Sources \cup {Absent}],
     stamp     : [Versions -> Sources \cup {Absent}],
     stable    : Versions,
     signed    : BOOLEAN]

Releases(idx) == {v \in Versions : idx.stamp[v] # Absent}
Release(idx, v) == Source[idx.stamp[v]]

(* An empty list means the module is unversioned: no gate. *)
Supports(r, majors) == r.engines = {} \/ majors \subseteq r.engines

Found(v) == [kind |-> "release", version |-> v]
NotFound(error) == [kind |-> error]
NeedsDoze(d) == [kind |-> "doze", need |-> d]

\* the channel head is taken whatever it needs
HeadAnyway(head, candidates) == head \in Versions
(* The channel head, when it is itself a candidate. *)
HeadServes(head, candidates) == head \in candidates

(* Select, among the releases S of idx. *)
Select(idx, S, protocol, majors) ==
    LET protoOK == {v \in S : Release(idx, v).protocol = protocol}
        candidates == {v \in protoOK : Supports(Release(idx, v), majors)}
    IN CASE S = {} -> NotFound("releases")
         [] S # {} /\ protoOK = {} -> NotFound("protocol")
         [] protoOK # {} /\ candidates = {} -> NotFound("engines")
         [] candidates # {} -> Found(IF HeadServes(idx.stable, candidates)
                                     THEN idx.stable ELSE Newest(candidates))

TooNew(idx, v, doze) ==
    Release(idx, v).doze # NoDoze /\ Newer(Release(idx, v).doze, doze)

(* A release that is too new would otherwise fit. *)
Helpful(idx, v, host, majors) ==
    Release(idx, v).protocol = host.protocol /\ Supports(Release(idx, v), majors)

(* SelectFor: releases that need a newer doze are left out first. *)
SelectFor(idx, host, majors) ==
    LET tooNew == {v \in Releases(idx) : TooNew(idx, v, host.doze)}
        needs == {Release(idx, v).doze :
                     v \in {w \in tooNew : Helpful(idx, w, host, majors)}}
        fits == Select(idx, Releases(idx) \ tooNew, host.protocol, majors)
    IN CASE ~IsDozeVersion(host.doze) ->
                Select(idx, Releases(idx), host.protocol, majors)
         [] IsDozeVersion(host.doze) /\ fits.kind # "release" /\ needs # {} ->
                NeedsDoze(Oldest(needs))
         [] OTHER -> fits
=============================================================================
