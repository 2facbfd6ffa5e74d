-------------------------- MODULE PluginShutdown ---------------------------
(***************************************************************************)
(* PluginManager run to the end of a daemon's life: one Close, after which *)
(* the daemon starts no call of its own.  Calls that were already past the *)
(* resolver, or waiting for the mutex, still finish.                       *)
(***************************************************************************)
EXTENDS PluginManager

VARIABLE closed    \* Close has returned

ShutdownVars == <<vars, closed>>

ShutdownInit == Init /\ closed = FALSE

Shutdown(c) == ~closed /\ Close(c) /\ closed' = TRUE

Before ==
    \/ \E c \in Callers, t \in Types : Resolve(c, t)
    \/ \E t \in Types : Reinstall(t)

Throughout ==
    \/ \E c \in Callers : Driver(c)
    \/ \E p \in Procs : Crash(p)

ShutdownNext ==
    \/ \E c \in Callers : Shutdown(c)
    \/ ~closed /\ Before /\ UNCHANGED closed
    \/ Throughout /\ UNCHANGED closed

ShutdownSpec == ShutdownInit /\ [][ShutdownNext]_ShutdownVars

(* "reaps them all on Close" (manager.go:49-52): once Close has returned and the
   last call that overlapped it has too, no module process is left running. *)
NothingOutlivesClose ==
    closed /\ (\A c \in Callers : pc[c] = "idle") => alive = {}
=============================================================================
