----------------------------- MODULE MCPublish -----------------------------
(* Releases 0.9, 0.10 and an edit of 0.9 without a new version, whose dozes
   and protocols differ, for two platforms. *)
EXTENDS Publish

CONSTANTS zero, two, three, nine, ten, word, first, edited, new

MCNumber == [s \in Segments |->
    CASE s = zero -> 0 [] s = two -> 2 [] s = three -> 3 [] s = nine -> 9
      [] s = ten -> 10 [] OTHER -> NaN]
MCRank == [s \in Segments |->
    CASE s = NoSegment -> 0 [] s = zero -> 1 [] s = ten -> 2 [] s = two -> 3
      [] s = three -> 4 [] s = nine -> 5 [] s = word -> 6]

Described(v, p, e, d) == [version |-> v, protocol |-> p, engines |-> e, doze |-> d]
MCSource == [s \in Sources |->
    CASE s = first -> Described(<<zero, nine>>, 1, {16}, NoDoze)
      [] s = edited -> Described(<<zero, nine>>, 1, {16, 17}, <<zero, two>>)
      [] s = new -> Described(<<zero, ten>>, 1, {17}, <<zero, three>>)]

Host(p, d) == [protocol |-> p, doze |-> d]
MCHosts == {Host(1, <<zero, two>>), Host(1, <<zero, ten>>), Host(1, <<word>>), Host(2, <<zero, two>>)}
MCMajors == {{}, {16}, {17}}

MCDownloads == {<<first, {CHOOSE t \in Triples : TRUE}>>}

(* Releases 0.9, 0.10 and 0.10-rc1: the last segment of the third, which is
   no number, comes between those of the others in the order of strings. *)
PrereleaseRank == [s \in Segments |->
    CASE s = NoSegment -> 0 [] s = zero -> 1 [] s = ten -> 2 [] s = word -> 3
      [] s = two -> 4 [] s = three -> 5 [] s = nine -> 6]
PrereleaseSource == [s \in Sources |->
    Described(CASE s = first -> <<zero, nine>> [] s = edited -> <<zero, word>>
                [] s = new -> <<zero, ten>>, 1, {16}, NoDoze)]
=============================================================================
