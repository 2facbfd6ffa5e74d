--------------------------- MODULE PluginManager ---------------------------
(***************************************************************************)
(* plugin.Manager (src/plugin/manager.go) with plugin.Host                 *)
(* (src/plugin/host.go): the daemon's table of launched module processes.  *)
(*                                                                         *)
(* Any number of goroutines call Driver (directly, or through              *)
(* engine.Lookup) and Close.  Driver asks the resolver before it takes the *)
(* manager's mutex and launches the process while it holds it; processes   *)
(* die at any time; modules are installed and removed at any time.         *)
(*                                                                         *)
(* A step made entirely under the mutex, with nothing to wait for, is one  *)
(* action whose guard is that the mutex is free.  Only Launch is held      *)
(* across steps, because it waits for the module.                          *)
(***************************************************************************)
EXTENDS Naturals

CONSTANTS
    Callers,   \* goroutines of the host
    Types,     \* engine types
    Procs,     \* process identities; one is reused once it is dead and forgotten
    NoProc,    \* a nil *Host
    Free       \* the mutex has no holder

ASSUME ProcAssumption == NoProc \notin Procs
ASSUME FreeAssumption == Free \notin Callers

VARIABLES
    installed, \* the types the resolver answers ok for
    hosts,     \* Manager.hosts
    failed,    \* the types with an entry in Manager.failed
    mu,        \* the holder of Manager.mu
    alive,     \* the processes that run
    kind,      \* the engine type each process was launched for
    pc,        \* where each caller is in Driver
    req,       \* the engine type of the caller's call
    ok,        \* the resolver's answer the caller read
    drv        \* the process the caller launches, or the driver it was given

vars == <<installed, hosts, failed, mu, alive, kind, pc, req, ok, drv>>

PCs == {"idle", "resolved", "launching", "answered", "served", "missed", "failed"}

(* The process a caller is bringing up under the mutex. *)
Launching(c) == pc[c] \in {"launching", "answered"}

(* Every variable keeps its type, and the mutex is held across steps only by a
   caller that is inside Launch: no return of Driver keeps it. *)
TypeOK ==
    /\ installed \subseteq Types
    /\ hosts \in [Types -> Procs \cup {NoProc}]
    /\ failed \subseteq Types
    /\ mu \in Callers \cup {Free}
    /\ mu # Free => Launching(mu)
    /\ alive \subseteq Procs
    /\ kind \in [Procs -> Types]
    /\ pc \in [Callers -> PCs]
    /\ req \in [Callers -> Types]
    /\ ok \in [Callers -> BOOLEAN]
    /\ drv \in [Callers -> Procs \cup {NoProc}]

(* NewManager: empty tables, nothing launched (what the processes and callers
   not yet in use carry does not matter). *)
Init ==
    /\ installed = {}
    /\ hosts = [t \in Types |-> NoProc]
    /\ failed = {}
    /\ mu = Free
    /\ alive = {}
    /\ \E t \in Types :
          kind = [p \in Procs |-> t] /\ req = [c \in Callers |-> t]
    /\ pc = [c \in Callers |-> "idle"]
    /\ ok = [c \in Callers |-> FALSE]
    /\ drv = [c \in Callers |-> NoProc]

-----------------------------------------------------------------------------
(* A process no table, caller or launch refers to any more, and not running. *)
Unused(p) ==
    /\ p \notin alive
    /\ \A t \in Types : hosts[t] # p
    /\ \A c \in Callers : drv[c] # p

(* The pieces of Driver, Launch and Close that a slip would get wrong, each
   after the slip it is checked against. *)

\* a host in the table is relaunched without asking whether it is alive
HasLiveHostUnchecked(t) == FALSE
\* the table has a host for t and its process has not exited
HasLiveHost(t) == hosts[t] \in alive

\* the mutex is not held across Launch
LockedForUnlocked(c) == Free
\* the holder of the mutex while c launches
LockedFor(c) == c

\* an error return without the unlock
UnlockOnErrorForgotten == mu
\* the deferred unlock, on Launch's error return
UnlockOnError == Free

\* the error return of Launch leaves the process running
KillOnErrorForgotten(c) == alive
\* client.Kill on each error return of Launch
KillOnError(c) == alive \ {drv[c]}

\* the failure of an earlier launch is kept after one that worked
ForgetFailureNever(t) == failed
\* delete(m.failed, engineType)
ForgetFailure(t) == failed \ {t}

\* m.hosts[engineType] = h
RecordHost(c) == [hosts EXCEPT ![req[c]] = drv[c]]

\* Close empties the table without killing
ReapHostsNoKill == alive
\* Close's h.Close() for every entry of the table
ReapHosts == alive \ {hosts[t] : t \in Types}

-----------------------------------------------------------------------------
(* Driver's first line: the resolver is asked before the mutex is taken. *)
Resolve(c, t) ==
    /\ pc[c] = "idle"
    /\ req' = [req EXCEPT ![c] = t]
    /\ ok' = [ok EXCEPT ![c] = t \in installed]
    /\ pc' = [pc EXCEPT ![c] = "resolved"]
    /\ UNCHANGED <<installed, hosts, failed, mu, alive, kind, drv>>

(* Not a plugin: the old launch failure is dropped. *)
NotInstalled(c) ==
    /\ pc[c] = "resolved"
    /\ ~ok[c]
    /\ mu = Free
    /\ failed' = ForgetFailure(req[c])
    /\ pc' = [pc EXCEPT ![c] = "missed"]
    /\ UNCHANGED <<installed, hosts, mu, alive, kind, req, ok, drv>>

(* The warm process is still running and is handed out again. *)
Warm(c) ==
    /\ pc[c] = "resolved"
    /\ ok[c]
    /\ mu = Free
    /\ HasLiveHost(req[c])
    /\ drv' = [drv EXCEPT ![c] = hosts[req[c]]]
    /\ pc' = [pc EXCEPT ![c] = "served"]
    /\ UNCHANGED <<installed, hosts, failed, mu, alive, kind, req, ok>>

(* No process, or one that exited: the entry is dropped and Launch starts a
   process under the mutex. *)
StartLaunch(c, p) ==
    /\ pc[c] = "resolved"
    /\ ok[c]
    /\ mu = Free
    /\ ~HasLiveHost(req[c])
    /\ Unused(p)
    /\ mu' = LockedFor(c)
    /\ hosts' = [hosts EXCEPT ![req[c]] = NoProc]
    /\ alive' = alive \cup {p}
    /\ kind' = [kind EXCEPT ![p] = req[c]]
    /\ drv' = [drv EXCEPT ![c] = p]
    /\ pc' = [pc EXCEPT ![c] = "launching"]
    /\ UNCHANGED <<installed, failed, req, ok>>

(* The handshake, Dispense and newPluginDriver's Type and Capabilities calls
   were answered. *)
Answered(c) ==
    /\ pc[c] = "launching"
    /\ drv[c] \in alive
    /\ pc' = [pc EXCEPT ![c] = "answered"]
    /\ UNCHANGED <<installed, hosts, failed, mu, alive, kind, req, ok, drv>>

(* Launch returned a Host: it is recorded, even if it has died meanwhile. *)
LaunchOK(c) ==
    /\ pc[c] = "answered"
    /\ failed' = ForgetFailure(req[c])
    /\ hosts' = RecordHost(c)
    /\ mu' = Free
    /\ pc' = [pc EXCEPT ![c] = "served"]
    /\ UNCHANGED <<installed, alive, kind, req, ok, drv>>

(* Launch failed at any of its steps: the process is killed and the reason kept. *)
LaunchFailed(c) ==
    /\ pc[c] = "launching"
    /\ alive' = KillOnError(c)
    /\ failed' = failed \cup {req[c]}
    /\ drv' = [drv EXCEPT ![c] = NoProc]
    /\ mu' = UnlockOnError
    /\ pc' = [pc EXCEPT ![c] = "failed"]
    /\ UNCHANGED <<installed, hosts, kind, req, ok>>

(* The caller is done with the answer. *)
Return(c) ==
    /\ pc[c] \in {"served", "missed", "failed"}
    /\ drv' = [drv EXCEPT ![c] = NoProc]
    /\ pc' = [pc EXCEPT ![c] = "idle"]
    /\ UNCHANGED <<installed, hosts, failed, mu, alive, kind, req, ok>>

(* Close: every host in the table is killed and removed. *)
Close(c) ==
    /\ pc[c] = "idle"
    /\ mu = Free
    /\ alive' = ReapHosts
    /\ hosts' = [t \in Types |-> NoProc]
    /\ UNCHANGED <<installed, failed, mu, kind, pc, req, ok, drv>>

(* A module process exits by itself. *)
Crash(p) ==
    /\ p \in alive
    /\ alive' = alive \ {p}
    /\ UNCHANGED <<installed, hosts, failed, mu, kind, pc, req, ok, drv>>

(* A module is installed or removed: what the resolver will answer changes. *)
Reinstall(t) ==
    /\ installed' = IF t \in installed THEN installed \ {t} ELSE installed \cup {t}
    /\ UNCHANGED <<hosts, failed, mu, alive, kind, pc, req, ok, drv>>

Driver(c) ==
    \/ NotInstalled(c)
    \/ Warm(c)
    \/ \E p \in Procs : StartLaunch(c, p)
    \/ Answered(c)
    \/ LaunchOK(c)
    \/ LaunchFailed(c)
    \/ Return(c)

Next ==
    \/ \E c \in Callers, t \in Types : Resolve(c, t)
    \/ \E c \in Callers : Driver(c)
    \/ \E c \in Callers : Close(c)
    \/ \E p \in Procs : Crash(p)
    \/ \E t \in Types : Reinstall(t)

Spec == Init /\ [][Next]_vars

(* Go's mutex hands itself to a waiter that has starved, so a caller that waits
   for it gets it (strong fairness); a launch ends, because go-plugin bounds the
   start and a module answers Type and Capabilities or dies. *)
Fairness ==
    \A c \in Callers :
        /\ SF_vars(NotInstalled(c) \/ Warm(c) \/ \E p \in Procs : StartLaunch(c, p))
        /\ WF_vars(Answered(c) \/ LaunchOK(c) \/ LaunchFailed(c))
        /\ WF_vars(Return(c))

FairSpec == Spec /\ Fairness

-----------------------------------------------------------------------------
(* Every process that runs is one Close can reach: it is in the table under its
   own type, or the holder of the mutex is launching it.  A launch that fails
   half-way, a crash or a Close never leaves a process nobody will reap. *)
Owned ==
    \A p \in alive :
        \/ hosts[kind[p]] = p
        \/ \E c \in Callers : mu = c /\ Launching(c) /\ drv[c] = p

(* However calls interleave with crashes, one engine type never has two
   processes running (two modules would share a data directory and sockets). *)
OnePerType == \A p, q \in alive : kind[p] = kind[q] => p = q

(* A type has a launch failure to show or a process, never both: LaunchError
   never explains the absence of a module that is running. *)
FailureMeansNoHost == \A t \in failed : hosts[t] = NoProc

(* A driver somebody still uses, whose process runs, is the one the manager
   keeps for that type: no caller works with a process the manager has lost. *)
HandedOutIsManaged ==
    \A c \in Callers :
        pc[c] = "served" /\ drv[c] \in alive => hosts[req[c]] = drv[c]

(* The manager's tables say what is so, of what failed and of what runs. *)
TablesHonest == FailureMeansNoHost /\ HandedOutIsManaged

(* When Close returns, nothing the manager ever launched is running. *)
CloseReapsAll == [][(\E c \in Callers : Close(c)) => alive' = {}]_vars

(* A process that is running is replaced by nothing but Close: every later call
   for its type reuses it. *)
WarmIsKept ==
    [][\A t \in Types :
          hosts[t] \in alive /\ hosts[t] \in alive' => hosts'[t] = hosts[t]]_vars

(* Every call of Driver returns, whatever the other callers and the processes do. *)
CallsReturn == \A c \in Callers : pc[c] = "resolved" ~> pc[c] = "idle"

-----------------------------------------------------------------------------
(* The driver a caller has been handed. *)
Using ==
    [c \in Callers |-> IF pc[c] = "served" THEN [type |-> req[c], proc |-> drv[c]] ELSE NoProc]

Table == INSTANCE ModuleTable WITH running <- alive, using <- Using

(* The manager keeps what ModuleTable promises of the processes that really run:
   no launch beside a running process of the type, no driver of another type or
   for a process that is not the running one (Driver, Launch and Close). *)
ImplementsTable == Table!TableSpec

=============================================================================
