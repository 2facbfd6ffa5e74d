---------------------------- MODULE ModuleTable ----------------------------
(***************************************************************************)
(* What the manager promises of module processes, whoever asks for them    *)
(* and however processes die: a process is launched only for a type that   *)
(* has none running, a driver speaks for a process of the type it was      *)
(* asked for, the running one if there is one, and never comes to speak    *)
(* for another.                                                            *)
(***************************************************************************)
CONSTANTS Callers, Types, Procs, NoProc

VARIABLES
    running,    \* the processes that run
    kind,       \* the engine type each process was launched for
    using       \* the driver each caller was handed: its type and process

TableVars == <<running, kind, using>>

Serves(t) == {p \in running : kind[p] = t}

TableInit ==
    /\ running = {}
    /\ kind \in [Procs -> Types]
    /\ using = [c \in Callers |-> NoProc]

Launch(t, p) ==
    /\ p \notin running
    /\ Serves(t) = {}
    /\ \A c \in Callers : using[c] # NoProc => using[c].proc # p
    /\ running' = running \cup {p}
    /\ kind' = [kind EXCEPT ![p] = t]
    /\ UNCHANGED using

(* A process that died since it was launched or looked up may be handed out, but
   not in the place of one that runs. *)
Hand(c, t, p) ==
    /\ using[c] = NoProc
    /\ kind[p] = t
    /\ Serves(t) \subseteq {p}
    /\ using' = [using EXCEPT ![c] = [type |-> t, proc |-> p]]
    /\ UNCHANGED <<running, kind>>

Drop(c) ==
    /\ using' = [using EXCEPT ![c] = NoProc]
    /\ UNCHANGED <<running, kind>>

(* A process dies or is killed. *)
Exit(p) ==
    /\ running' = running \ {p}
    /\ UNCHANGED <<kind, using>>

ReapAll ==
    /\ running' = {}
    /\ UNCHANGED <<kind, using>>

TableNext ==
    \/ \E t \in Types, p \in Procs : Launch(t, p)
    \/ \E c \in Callers, t \in Types, p \in Procs : Hand(c, t, p)
    \/ \E c \in Callers : Drop(c)
    \/ \E p \in Procs : Exit(p)
    \/ ReapAll

TableSpec == TableInit /\ [][TableNext]_TableVars
=============================================================================
