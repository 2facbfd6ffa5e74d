----------------------------- MODULE MCResolve -----------------------------
(* Two calls of a composite that needs postgres 16 and then an extension at an
   exact version; the mirror goes from release 1 to 2, which moves the major on
   and rebuilds the extension under the same version. *)
EXTENDS Resolve, TLC

CONSTANTS pg16, ext, pg, fdb, v1, v2, e1, a1, a2, b1, b2

MCNeeds == [i \in Calls |-> <<pg16, ext>>]
(* A driver of the extension's engine that needs postgres as well. *)
MCNeedsBelow == [i \in Calls |-> <<ext, pg16>>]
MCEngineOf == [k \in Keys |-> IF k = pg16 THEN pg ELSE fdb]
MCFull == [r \in Releases |->
              [k \in Keys |-> IF k = ext THEN e1 ELSE IF r = 1 THEN v1 ELSE v2]]
MCSum == [r \in Releases |->
             [v \in Versions |->
                 CASE v = v1 -> a1 [] v = v2 -> a2 [] v = e1 -> IF r = 1 THEN b1 ELSE b2]]

CallsAlike == Permutations(Calls)
=============================================================================
