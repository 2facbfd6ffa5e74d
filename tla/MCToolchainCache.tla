-------------------------- MODULE MCToolchainCache -------------------------
(* Archives of a bin and a lib file: two the mirror may serve at one URL, one
   that is not signed, and one with no executables. *)
EXTENDS ToolchainCache

CONSTANTS good, other, forged, hollow

MCArchives == {good, other, forged, hollow}
MCHolds == [a \in Archives |-> IF a = hollow THEN {"lib"} ELSE {"bin", "lib"}]
=============================================================================
