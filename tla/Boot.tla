-------------------------------- MODULE Boot -------------------------------
(***************************************************************************)
(* The acceptance harness (src/enginetest/enginetest.go): Boot carries out *)
(* a driver's SpawnPlan (src/engine/spawn.go) against real processes and   *)
(* its cleanup ends them.  One test goroutine runs the harness; the        *)
(* processes it starts, and what they fork, live on their own beside it:   *)
(* they serve, fork, die or hang whenever they like.                       *)
(*                                                                         *)
(* A plan is its specs in the driver's order.  Of a log a spec's gate      *)
(* tells only whether the line it waits for is in it; a process prints its *)
(* line when it serves.                                                    *)
(***************************************************************************)
EXTENDS Naturals, Sequences, FiniteSets, SequencesExt

CONSTANTS
    Names,      \* names of specs; After may name one that is in no plan
    Lines,      \* lines the log_line gates wait for
    Plans,      \* the plans of the drivers
    Configs,    \* decoded configurations of the instance
    NoConfig, NoSpec

(* SpawnSpec: an optional member is a child the process forks, which shares its
   output pipe ("loud") or has redirected its own ("quiet"). *)
SpawnSpec == [after : SUBSET Names, gate : {"alive", "probe", "log_line"}, line : Lines,
              hooks : BOOLEAN, tree : BOOLEAN, member : {"none", "loud", "quiet"}]

(* The driver's plan, and whether it has a Converger. *)
SpawnPlan == [order : Seq(Names), spec : [Names -> SpawnSpec], converges : BOOLEAN]

ASSUME PlansAssumption ==
    \A p \in Plans :
        p.order \in Seq(Names) /\ IsInjective(p.order) /\ p.spec \in [Names -> SpawnSpec]
        /\ p.converges \in BOOLEAN
ASSUME ConfigAssumption == NoConfig \notin Configs /\ NoSpec \notin Names

VARIABLES
    plan,
    pc,         \* where the test goroutine is
    remaining,  \* the specs not yet ready, in the plan's order
    cur,        \* the spec being started
    ready,      \* the specs that are ready
    late,       \* the boot's deadline has passed
    cleanup,    \* t.Cleanup(b.stop) is registered
    procs,      \* b.procs and b.logs: the specs whose processes the harness knows
    conf,       \* b.inst.Spec
    applied,    \* the configuration the backend was last converged to
    fail,       \* what t.Fatalf was called for
    leader,     \* each spec's process
    member,     \* the child it forked
    signal,     \* the last signal the harness sent the process
    served,     \* history: specs whose process has served, and printed its line
    hooked      \* history: specs whose hooks have all succeeded

harness == <<pc, remaining, cur, ready, late, cleanup, procs, conf, applied, fail>>
world == <<leader, member, signal, served, hooked>>
vars == <<plan, harness, world>>

Spec(n) == plan.spec[n]
Planned == {plan.order[i] : i \in 1..Len(plan.order)}
Alive(n) == leader[n] \in {"starting", "serving"}

TypeOK ==
    /\ plan \in Plans
    /\ pc \in {"prepare", "plan", "pick", "waitReady", "probing", "hooks", "converge",
               "test", "stop", "reaping", "done"}
    /\ remaining \in Seq(Planned) /\ cur \in Planned \cup {NoSpec}
    /\ ready \subseteq Planned /\ procs \subseteq Planned
    /\ served \subseteq procs /\ hooked \subseteq procs
    /\ late \in BOOLEAN /\ cleanup \in BOOLEAN
    /\ conf \in Configs \cup {NoConfig} /\ applied \in Configs \cup {NoConfig}
    /\ fail \in {"none", "prepare", "plan", "deadlock", "start", "timeout", "hook",
                 "converge", "test"}
    /\ leader \in [Names -> {"unstarted", "starting", "serving", "exited"}]
    /\ member \in [Names -> {"none", "running", "exited"}]
    /\ signal \in [Names -> {"none", "term", "kill"}]
    /\ \A n \in Names : leader[n] = "unstarted" => member[n] = "none" /\ signal[n] = "none"

Init ==
    /\ plan \in Plans
    /\ pc = "prepare"
    /\ remaining = plan.order
    /\ cur = NoSpec /\ ready = {} /\ procs = {}
    /\ late = FALSE /\ cleanup = FALSE
    /\ conf = NoConfig /\ applied = NoConfig /\ fail = "none"
    /\ leader = [n \in Names |-> "unstarted"]
    /\ member = [n \in Names |-> "none"]
    /\ signal = [n \in Names |-> "none"]
    /\ served = {} /\ hooked = {}

-----------------------------------------------------------------------------
(* The harness. *)

Goto(from, to) == pc = from /\ pc' = to

(* t.Fatalf ends the test goroutine; the cleanups that are registered run. *)
Fatal(from, why) ==
    /\ Goto(from, IF cleanup THEN "stop" ELSE "done")
    /\ fail' = why

\* one ready dependency is enough
AnyDepReady(n) == Spec(n).after = {} \/ Spec(n).after \cap ready # {}
(* Every spec it comes after is ready. *)
depsReady(n) == Spec(n).after \subseteq ready

\* only the spec at the head is looked at
HeadStartable == IF remaining # <<>> /\ depsReady(Head(remaining)) THEN {1} ELSE {}
(* The scan of remaining skips the specs whose dependencies are not ready. *)
Startable == {i \in DOMAIN remaining : depsReady(remaining[i])}

(* startSpec appends to b.procs as soon as the process runs. *)
Remembered(n) == procs \cup {n}

(* Without the backend's BINDIR the test is skipped. *)
Skip ==
    /\ Goto("prepare", "done")
    /\ UNCHANGED <<plan, remaining, cur, ready, late, cleanup, procs, conf, applied, fail, world>>

(* BootExample's and bootBody's errors before the cleanup is registered: no
   example, parsing, decoding, resolving and provisioning. *)
PrepareFails ==
    /\ Fatal("prepare", "prepare")
    /\ UNCHANGED <<plan, remaining, cur, ready, late, cleanup, procs, conf, applied, world>>

Provisioned(c) ==
    /\ Goto("prepare", "plan")
    /\ conf' = c
    /\ cleanup' = TRUE
    /\ UNCHANGED <<plan, remaining, cur, ready, late, procs, applied, fail, world>>

(* The driver is no Spawner, or Plan fails. *)
PlanFails ==
    /\ Fatal("plan", "plan")
    /\ UNCHANGED <<plan, remaining, cur, ready, late, cleanup, procs, conf, applied, world>>

Planning ==
    /\ Goto("plan", "pick")
    /\ UNCHANGED <<plan, remaining, cur, ready, late, cleanup, procs, conf, applied, fail, world>>

(* The deadline is one for the whole plan. *)
DeadlinePasses ==
    /\ ~late
    /\ pc \in {"pick", "waitReady", "probing", "hooks"}
    /\ late' = TRUE
    /\ UNCHANGED <<plan, pc, remaining, cur, ready, cleanup, procs, conf, applied, fail, world>>

First(i) == i \in Startable /\ \A j \in Startable : i <= j

(* startSpec on the first spec of remaining that can start. *)
StartSpec ==
    /\ Goto("pick", "waitReady")
    /\ \E i \in Startable :
          /\ First(i)
          /\ cur' = remaining[i]
          /\ procs' = Remembered(remaining[i])
          /\ leader' = [leader EXCEPT ![remaining[i]] = "starting"]
    /\ UNCHANGED <<plan, remaining, ready, late, cleanup, conf, applied, fail,
                   member, signal, served, hooked>>

StartFails ==
    /\ Startable # {}
    /\ Fatal("pick", "start")
    /\ UNCHANGED <<plan, remaining, cur, ready, late, cleanup, procs, conf, applied, world>>

PlanDeadlock ==
    /\ remaining # <<>> /\ Startable = {}
    /\ Fatal("pick", "deadlock")
    /\ UNCHANGED <<plan, remaining, cur, ready, late, cleanup, procs, conf, applied, world>>

(* waitReady without a gate only sleeps: nobody looks at the process, or the
   deadline. *)
Slept ==
    /\ Goto("waitReady", "hooks")
    /\ Spec(cur).gate = "alive"
    /\ UNCHANGED <<plan, remaining, cur, ready, late, cleanup, procs, conf, applied, fail, world>>

WaitReady ==
    /\ Goto("waitReady", "probing")
    /\ Spec(cur).gate # "alive" /\ ~late
    /\ UNCHANGED <<plan, remaining, cur, ready, late, cleanup, procs, conf, applied, fail, world>>

WaitTimesOut ==
    /\ Fatal("waitReady", "timeout")
    /\ Spec(cur).gate # "alive" /\ late
    /\ UNCHANGED <<plan, remaining, cur, ready, late, cleanup, procs, conf, applied, world>>

(* Every spec's log is searched, the dead ones' too. *)
logsContain(l) == \E m \in procs \cap served : Spec(m).line = l

(* A dial, a request or a command finds the process serving; a dead process's
   line is still in its log. *)
probe(n) ==
    IF Spec(n).gate = "log_line" THEN logsContain(Spec(n).line) ELSE leader[n] = "serving"

ProbePasses ==
    /\ Goto("probing", "hooks")
    /\ probe(cur)
    /\ UNCHANGED <<plan, remaining, cur, ready, late, cleanup, procs, conf, applied, fail, world>>

(* A probe may fail for reasons of its own, and a log that is read while its
   process writes it need not show the line. *)
ProbeFails ==
    /\ Goto("probing", "waitReady")
    /\ UNCHANGED <<plan, remaining, cur, ready, late, cleanup, procs, conf, applied, fail, world>>

RunHooks ==
    /\ Goto("hooks", "pick")
    /\ hooked' = hooked \cup {cur}
    /\ ready' = ready \cup {cur}
    /\ \E i \in DOMAIN remaining : remaining[i] = cur /\ remaining' = RemoveAt(remaining, i)
    /\ UNCHANGED <<plan, cur, late, cleanup, procs, conf, applied, fail,
                   leader, member, signal, served>>

HookFails ==
    /\ Fatal("hooks", "hook")
    /\ Spec(cur).hooks
    /\ UNCHANGED <<plan, remaining, cur, ready, late, cleanup, procs, conf, applied, world>>

(* Every spec is ready.  Without a Converger the plan carried the config. *)
Spawned ==
    /\ remaining = <<>>
    /\ Goto("pick", IF plan.converges THEN "converge" ELSE "test")
    /\ applied' = IF plan.converges THEN applied ELSE conf
    /\ UNCHANGED <<plan, remaining, cur, ready, late, cleanup, procs, conf, fail, world>>

(* convergeBody, as Boot's last step and as the test's Converge(c). *)
convergeBody(from, c) ==
    /\ \/ Goto(from, "test") /\ conf' = c /\ applied' = c /\ UNCHANGED fail
       \/ Fatal(from, "converge") /\ conf' \in {conf, c} /\ UNCHANGED applied
    /\ UNCHANGED <<plan, remaining, cur, ready, late, cleanup, procs, world>>

Converge(c) ==
    \/ convergeBody("converge", conf)
    \/ plan.converges /\ convergeBody("test", c)

(* The test's own assertions, a Prune that fails, an interface that is not there. *)
TestFails ==
    /\ Fatal("test", "test")
    /\ UNCHANGED <<plan, remaining, cur, ready, late, cleanup, procs, conf, applied, world>>

TestEnds ==
    /\ Goto("test", "stop")
    /\ UNCHANGED <<plan, remaining, cur, ready, late, cleanup, procs, conf, applied, fail, world>>

-----------------------------------------------------------------------------
(* Boot.stop. *)

\* only the specs that became ready are signalled
SignalledReady(s) == [n \in Names |-> IF n \in ready THEN s ELSE signal[n]]
Signalled(s) == [n \in Names |-> IF n \in procs THEN s ELSE signal[n]]

(* SIGTERM to the group of each spec with Tree, and to each process. *)
Stop ==
    /\ Goto("stop", "reaping")
    /\ signal' = Signalled("term")
    /\ UNCHANGED <<plan, remaining, cur, ready, late, cleanup, procs, conf, applied, fail,
                   leader, member, served, hooked>>

(* cmd.Wait returns when the process is gone and nobody holds its output. *)
Waited(n) == ~Alive(n) /\ ~(member[n] = "running" /\ Spec(n).member = "loud")

Reaped ==
    /\ \A n \in procs : Waited(n)
    /\ Goto("reaping", "done")
    /\ UNCHANGED <<plan, remaining, cur, ready, late, cleanup, procs, conf, applied, fail, world>>

\* stop waits for the processes however long they take
NoGrace == FALSE
(* The select's other case: five seconds. *)
Grace == pc = "reaping"

(* SIGKILL goes to the processes, not to their groups, and is not waited for. *)
HardKill ==
    /\ Grace
    /\ Goto("reaping", "done")
    /\ signal' = Signalled("kill")
    /\ UNCHANGED <<plan, remaining, cur, ready, late, cleanup, procs, conf, applied, fail,
                   leader, member, served, hooked>>

-----------------------------------------------------------------------------
(* The processes. *)

Serve(n) ==
    /\ leader[n] = "starting" /\ signal[n] # "kill"
    /\ leader' = [leader EXCEPT ![n] = "serving"]
    /\ served' = served \cup {n}
    /\ UNCHANGED <<plan, harness, member, signal, hooked>>

Fork(n) ==
    /\ Alive(n) /\ signal[n] # "kill"
    /\ Spec(n).member # "none" /\ member[n] = "none"
    /\ member' = [member EXCEPT ![n] = "running"]
    /\ UNCHANGED <<plan, harness, leader, signal, served, hooked>>

(* A crash, an exit on SIGTERM, or SIGKILL's work. *)
Exit(n) ==
    /\ Alive(n)
    /\ leader' = [leader EXCEPT ![n] = "exited"]
    /\ UNCHANGED <<plan, harness, member, signal, served, hooked>>

MemberExit(n) ==
    /\ member[n] = "running"
    /\ member' = [member EXCEPT ![n] = "exited"]
    /\ UNCHANGED <<plan, harness, leader, signal, served, hooked>>

-----------------------------------------------------------------------------
Harness ==
    \/ Skip \/ PrepareFails \/ (\E c \in Configs : Provisioned(c))
    \/ PlanFails \/ Planning
    \/ StartSpec \/ StartFails \/ PlanDeadlock
    \/ Slept \/ WaitReady \/ WaitTimesOut \/ ProbePasses \/ ProbeFails
    \/ RunHooks \/ HookFails
    \/ Spawned \/ (\E c \in Configs : Converge(c))
    \/ Stop \/ Reaped \/ HardKill

Test == TestFails \/ TestEnds

Process(n) == Serve(n) \/ Fork(n) \/ Exit(n) \/ MemberExit(n)

Next ==
    \/ Harness
    \/ DeadlinePasses
    \/ Test
    \/ \E n \in Names : Process(n)

BootSpec == Init /\ [][Next]_vars

(* The goroutine runs and its calls of the driver and hooks return; the clock
   goes on; a process that got SIGKILL dies.  Nothing is asked of a process
   otherwise: it may never serve, and ignore SIGTERM. *)
FairSpec ==
    /\ BootSpec
    /\ WF_vars(Harness) /\ WF_vars(DeadlinePasses)
    /\ WF_vars(HardKill)
    /\ \A n \in Names : WF_vars(signal[n] = "kill" /\ Exit(n))

-----------------------------------------------------------------------------
(* What a spec's gate says of it: its process has served, or some process of the
   plan printed the line, or nothing. *)
Opened(n) ==
    CASE Spec(n).gate = "probe" -> n \in served
      [] Spec(n).gate = "log_line" -> \E m \in served : Spec(m).line = Spec(n).line
      [] OTHER -> TRUE

(* "starts each spec in dependency order, gates each on its readiness probe,
   runs any post-ready hooks" (spawn.go:11-12): whatever died or hung in the
   meantime, a process runs only if every spec it comes after is one of the
   plan's, opened its gate and had its hooks succeed. *)
GatedStart ==
    \A n \in procs : \A d \in Spec(n).after : d \in hooked /\ Opened(d)

(* A boot is refused as deadlocked only when no order could start what is left,
   and a test gets a backend only with every spec ready and the configuration
   it asked for applied; and the harness knows every process that served, and
   of none that it never started (TypeOK). *)
VerdictsRight ==
    /\ TypeOK
    /\ fail = "deadlock" =>
           \A i \in DOMAIN remaining : \E d \in Spec(remaining[i]).after :
               d \notin Planned \/ d \in {remaining[j] : j \in DOMAIN remaining}
    /\ pc = "test" => ready = Planned /\ applied = conf

(* However a boot or its test ends, no spec's process outlives it unkilled: not
   one started before a later spec failed, not one that was not ready yet. *)
NothingLeft ==
    pc = "done" => \A n \in Names : Alive(n) => signal[n] = "kill"

(* A boot gets to its test or is over, whatever its processes do, and in the end
   they are all gone: a process that never serves runs into the deadline, one
   that ignores SIGTERM, or whose child holds its output, into SIGKILL. *)
BootEnds ==
    /\ (pc \notin {"prepare", "test"}) ~> (pc \in {"test", "done"})
    /\ (pc = "done") ~> (\A n \in Names : ~Alive(n))

(* "stop terminates every spawned process (its whole group when Tree was set)"
   (enginetest.go:339). *)
StopsGroups ==
    pc = "done" => \A n \in Names :
        Spec(n).tree => member[n] # "running" \/ signal[n] = "kill"
=============================================================================
