--------------------------- MODULE MCDownloadCache --------------------------
(* Archives a URL may serve: one with a single top-level directory, one with a
   file beside it, and one that is cut short. *)
EXTENDS DownloadCache

CONSTANTS first, second, cut, shop, mail, web

MCArchives == {first, second, cut}
MCHolds == [a \in Archives |-> IF a = first THEN {"tool/bin", "tool/lib"}
                               ELSE {"tool/bin", "README"}]
MCUnder == [p \in Parts |-> IF p = "README" THEN p ELSE "tool"]
MCOf == [i \in Calls |-> shop]
=============================================================================
