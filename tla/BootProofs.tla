----------------------------- MODULE BootProofs ----------------------------
(***************************************************************************)
(* Theorems about Boot, for any plans and configurations, and about        *)
(* TemplateDir, for any boots and files.                                   *)
(*                                                                         *)
(* The invariant of Boot follows a spec through the plan: it is left or    *)
(* ready, and never both (Order); what is ready opened its gate and ran    *)
(* its hooks, and a process runs only if the harness knows it (Gates); and *)
(* what each place of the test goroutine may rely on (Places).             *)
(*                                                                         *)
(* None of TemplateDir's properties is inductive: that a template is whole *)
(* rests on what a boot holds when it comes to its rename (Finished), that *)
(* a clone is of one template on the template being there, and the same,   *)
(* since the boot left EnsureTemplateDir (Cloning).                        *)
(***************************************************************************)
EXTENDS Boot, TemplateDir, SequenceTheorems, TLAPS

Left == {remaining[i] : i \in DOMAIN remaining}

Order ==
    /\ \A i, j \in DOMAIN remaining : remaining[i] = remaining[j] => i = j
    /\ Left \cap ready = {}
    /\ Planned = Left \cup ready

Gates ==
    /\ \A n \in Names : n \in procs <=> leader[n] # "unstarted"
    /\ \A n \in Names : leader[n] = "serving" => n \in served
    /\ \A n \in ready : n \in hooked /\ Opened(n)
    /\ GatedStart

(* Nothing that is left could start. *)
Stuck ==
    \A i \in DOMAIN remaining : \E d \in Spec(remaining[i]).after : d \notin Planned \/ d \in Left

Places ==
    /\ ~cleanup => procs = {}
    /\ pc = "prepare" => ~cleanup
    /\ pc \notin {"prepare", "done"} => cleanup
    /\ pc \in {"waitReady", "probing", "hooks"} => cur \in Left /\ cur \in procs
    /\ pc = "hooks" => Opened(cur)
    /\ pc \in {"converge", "test"} => remaining = <<>>
    /\ pc = "test" => applied = conf
    /\ fail # "none" => pc \in {"stop", "reaping", "done"}
    /\ fail = "deadlock" => Stuck
    /\ NothingLeft

IInv == TypeOK /\ Order /\ Gates /\ Places

(* Taking one spec out of those left. *)
LEMMA RemoveAtProperties ==
    ASSUME NEW S, NEW s \in Seq(S), NEW i \in DOMAIN s
    PROVE  LET r == RemoveAt(s, i)
           IN  /\ r \in Seq(S) /\ Len(r) = Len(s) - 1
               /\ \A j \in DOMAIN r : r[j] = IF j < i THEN s[j] ELSE s[j + 1]
  <1> DEFINE a == SubSeq(s, 1, i - 1)  b == SubSeq(s, i + 1, Len(s))
  <1>1. Len(s) \in Nat /\ i \in 1 .. Len(s) /\ DOMAIN s = 1 .. Len(s)
    BY LenProperties
  <1>2. a \in Seq(S) /\ Len(a) = i - 1 /\ \A j \in 1 .. (i - 1) : a[j] = s[j]
    <2>1. \A j \in 1 .. (i - 1) : j \in 1 .. Len(s)
      BY <1>1
    <2> QED BY <1>1, <2>1, SubSeqProperties
  <1>3. b \in Seq(S) /\ Len(b) = Len(s) - i /\ \A j \in 1 .. (Len(s) - i) : b[j] = s[i + j]
    BY <1>1, SubSeqProperties
  <1>4. /\ a \o b \in Seq(S) /\ Len(a \o b) = Len(a) + Len(b)
        /\ \A j \in 1 .. (Len(a) + Len(b)) :
              (a \o b)[j] = IF j <= Len(a) THEN a[j] ELSE b[j - Len(a)]
    BY <1>2, <1>3, ConcatProperties
  <1> DEFINE r == a \o b
  <1> HIDE DEF a, b
  <1>5. r \in Seq(S) /\ Len(r) = Len(s) - 1 /\ DOMAIN r = 1 .. (Len(s) - 1)
    <2>1. Len(a) + Len(b) = Len(s) - 1
      BY <1>1, <1>2, <1>3
    <2>2. r \in Seq(S) /\ Len(r) = Len(s) - 1
      BY <1>4, <2>1
    <2>3. DOMAIN r = 1 .. Len(r)
      BY <2>2, LenProperties
    <2> QED BY <2>2, <2>3
  <1>6. ASSUME NEW j \in 1 .. (Len(s) - 1)
        PROVE  r[j] = IF j < i THEN s[j] ELSE s[j + 1]
    <2>1. r[j] = IF j <= i - 1 THEN a[j] ELSE b[j - (i - 1)]
      BY <1>1, <1>2, <1>3, <1>4
    <2>2. CASE j < i
      <3>1. j \in 1 .. (i - 1)
        BY <1>1, <2>2
      <3> QED BY <1>1, <1>2, <2>1, <2>2, <3>1
    <2>3. CASE ~(j < i)
      <3>1. j - (i - 1) \in 1 .. (Len(s) - i) /\ i + (j - (i - 1)) = j + 1 /\ ~(j <= i - 1)
        BY <1>1, <2>3
      <3>2. b[j - (i - 1)] = s[i + (j - (i - 1))]
        BY <1>3, <3>1
      <3> QED BY <2>1, <2>3, <3>1, <3>2
    <2> QED BY <2>2, <2>3
  <1> QED BY <1>5, <1>6 DEF RemoveAt, a, b

LEMMA InitIInv == Init => IInv
  <1> SUFFICES ASSUME Init PROVE IInv
    OBVIOUS
  <1>1. /\ plan.order \in Seq(Names)
        /\ \A i, j \in DOMAIN plan.order : plan.order[i] = plan.order[j] => i = j
    BY PlansAssumption DEF Init, IsInjective
  <1>2. plan.order \in Seq(Planned)
    BY <1>1, SeqDef DEF Planned
  <1>3. TypeOK
    BY <1>2 DEF Init, TypeOK
  <1>4. Order
    BY <1>1 DEF Init, Order, Left, Planned
  <1>5. Gates /\ Places
    BY DEF Init, Gates, Places, GatedStart, NothingLeft
  <1> QED BY <1>3, <1>4, <1>5 DEF IInv

LEMMA PlannedNames ==
    ASSUME TypeOK
    PROVE  /\ Planned \subseteq Names
           /\ \A n \in Names : Spec(n) \in SpawnSpec
  BY PlansAssumption DEF TypeOK, Planned, Spec

(* A gate that was opened stays so. *)
LEMMA OpenedStays ==
    ASSUME NEW n, Opened(n), UNCHANGED plan, served \subseteq served'
    PROVE  Opened(n)'
  BY DEF Opened, Spec

(* A step that only moves the test goroutine on. *)
LEMMA Quiet ==
    ASSUME IInv, UNCHANGED <<plan, remaining, cur, ready, procs, world>>,
           pc' \in {"prepare", "plan", "pick", "waitReady", "probing", "hooks", "converge",
                    "test", "stop", "reaping", "done"},
           late' \in BOOLEAN, cleanup' \in BOOLEAN,
           conf' \in Configs \cup {NoConfig}, applied' \in Configs \cup {NoConfig},
           fail' \in {"none", "prepare", "plan", "deadlock", "start", "timeout", "hook",
                      "converge", "test"}
    PROVE  /\ TypeOK' /\ Order' /\ Gates'
           /\ Left' = Left /\ Stuck' = Stuck
           /\ \A n \in Names : Alive(n)' = Alive(n)
           /\ \A n : Opened(n)' = Opened(n)
  <1>1. TypeOK'
    BY DEF IInv, TypeOK, world, Planned
  <1>2. Left' = Left /\ Planned' = Planned
    BY DEF Left, Planned
  <1>3. Order'
    BY <1>2 DEF IInv, Order
  <1>4. \A n : Opened(n)' = Opened(n)
    BY DEF Opened, Spec, world
  <1>5. Gates'
    BY <1>4 DEF IInv, Gates, GatedStart, Spec, world
  <1>6. Stuck' = Stuck
    BY <1>2 DEF Stuck, Spec
  <1>7. \A n \in Names : Alive(n)' = Alive(n)
    BY DEF Alive, world
  <1> QED BY <1>1, <1>2, <1>3, <1>4, <1>5, <1>6, <1>7

(* Where a failure goes: to the cleanup, or nothing was ever started. *)
LEMMA FatalIInv ==
    ASSUME IInv, NEW from \in {"prepare", "plan", "pick", "waitReady", "hooks", "converge", "test"},
           NEW why \in {"prepare", "plan", "deadlock", "start", "timeout", "hook",
                        "converge", "test"},
           Fatal(from, why), UNCHANGED <<plan, remaining, cur, ready, late, cleanup, procs, world>>,
           conf' \in Configs \cup {NoConfig}, applied' \in Configs \cup {NoConfig},
           why = "deadlock" => Stuck
    PROVE  IInv'
  <1>1. pc = from /\ pc' = (IF cleanup THEN "stop" ELSE "done") /\ fail' = why
    BY DEF Fatal, Goto
  <1>2. /\ TypeOK' /\ Order' /\ Gates'
        /\ Left' = Left /\ Stuck' = Stuck
        /\ \A n \in Names : Alive(n)' = Alive(n)
    BY <1>1, Quiet DEF IInv, TypeOK
  <1>3. pc' = "done" => \A n \in Names : ~Alive(n)'
    <2>1. ASSUME pc' = "done", NEW n \in Names PROVE ~Alive(n)
      <3>1. procs = {}
        BY <1>1, <2>1 DEF IInv, Places
      <3> QED BY <3>1 DEF IInv, Gates, Alive
    <2> QED BY <1>2, <2>1
  <1>4. NothingLeft'
    BY <1>3 DEF NothingLeft
  <1>5. Places'
    BY <1>1, <1>2, <1>4 DEF IInv, Places
  <1> QED BY <1>2, <1>5 DEF IInv

(* The steps of the test goroutine that start, end and signal nothing. *)
LEMMA HarnessIInv ==
    ASSUME IInv,
           \/ Skip \/ Planning \/ Slept \/ WaitReady \/ ProbePasses \/ ProbeFails
           \/ TestEnds \/ DeadlinePasses
    PROVE  IInv'
  <1>1. UNCHANGED <<plan, remaining, cur, ready, cleanup, procs, conf, applied, fail, world>>
    BY DEF Skip, Planning, Slept, WaitReady, ProbePasses, ProbeFails, TestEnds, DeadlinePasses
  <1>2. late' \in BOOLEAN
        /\ pc' \in {"prepare", "plan", "pick", "waitReady", "probing", "hooks", "converge",
                    "test", "stop", "reaping", "done"}
    BY DEF Skip, Planning, Slept, WaitReady, ProbePasses, ProbeFails, TestEnds, DeadlinePasses,
           Goto, IInv, TypeOK
  <1>3. /\ TypeOK' /\ Order' /\ Gates'
        /\ Left' = Left /\ Stuck' = Stuck
        /\ \A n \in Names : Alive(n)' = Alive(n)
        /\ \A n : Opened(n)' = Opened(n)
    BY <1>1, <1>2, Quiet DEF IInv, TypeOK
  <1>4. CASE Skip
    <2>1. pc = "prepare" /\ pc' = "done"
      BY <1>4 DEF Skip, Goto
    <2>2. \A n \in Names : ~Alive(n)
      BY <2>1 DEF IInv, Places, Gates, Alive
    <2>3. NothingLeft'
      BY <1>3, <2>2 DEF NothingLeft
    <2> QED BY <1>1, <1>3, <2>1, <2>3 DEF IInv, Places
  <1>5. CASE ProbePasses \/ Slept
    <2>1. Opened(cur)
      <3>1. cur \in procs /\ cur \in Names /\ Spec(cur).gate \in {"alive", "probe", "log_line"}
        BY <1>5, PlannedNames DEF ProbePasses, Slept, Goto, IInv, Places, TypeOK, SpawnSpec
      <3>2. CASE Spec(cur).gate = "log_line"
        BY <1>5, <3>2 DEF ProbePasses, Slept, probe, logsContain, Opened
      <3>3. CASE Spec(cur).gate = "probe"
        BY <1>5, <3>1, <3>3 DEF ProbePasses, Slept, probe, Opened, IInv, Gates
      <3>4. CASE Spec(cur).gate = "alive"
        BY <3>4 DEF Opened
      <3> QED BY <3>1, <3>2, <3>3, <3>4
    <2>2. pc \in {"probing", "waitReady"} /\ pc' = "hooks"
      BY <1>5 DEF ProbePasses, Slept, Goto
    <2>3. NothingLeft'
      BY <2>2 DEF NothingLeft
    <2> QED BY <1>1, <1>3, <2>1, <2>2, <2>3 DEF IInv, Places
  <1>6. CASE Planning \/ WaitReady \/ ProbeFails \/ TestEnds
    <2>1. \/ pc = "plan" /\ pc' = "pick"
          \/ pc \in {"waitReady", "probing"} /\ pc' \in {"waitReady", "probing"}
          \/ pc = "test" /\ pc' = "stop"
      BY <1>6 DEF Planning, WaitReady, ProbeFails, TestEnds, Goto
    <2>2. NothingLeft'
      BY <2>1 DEF NothingLeft
    <2> QED BY <1>1, <1>3, <2>1, <2>2 DEF IInv, Places
  <1>7. CASE DeadlinePasses
    <2>1. pc' = pc /\ pc # "done"
      BY <1>7 DEF DeadlinePasses
    <2>2. NothingLeft'
      BY <2>1 DEF NothingLeft
    <2> QED BY <1>1, <1>3, <2>1, <2>2 DEF IInv, Places
  <1> QED BY <1>4, <1>5, <1>6, <1>7

(* A spec starts: everything it comes after is ready. *)
LEMMA StartIInv ==
    ASSUME IInv, StartSpec
    PROVE  IInv'
  <1>1. PICK i \in Startable : /\ cur' = remaining[i]
                               /\ procs' = procs \cup {remaining[i]}
                               /\ leader' = [leader EXCEPT ![remaining[i]] = "starting"]
    BY DEF StartSpec, Remembered
  <1>2. /\ UNCHANGED <<plan, remaining, ready, late, cleanup, conf, applied, fail,
                       member, signal, served, hooked>>
        /\ pc = "pick" /\ pc' = "waitReady"
    BY DEF StartSpec, Goto
  <1> DEFINE n == remaining[i]
  <1>3. /\ i \in DOMAIN remaining /\ n \in Left /\ n \in Planned /\ n \in Names
        /\ Spec(n).after \subseteq ready /\ n \notin ready
    BY PlannedNames DEF Startable, depsReady, Left, IInv, TypeOK, Order
  <1> HIDE DEF n
  <1>4. cur' = n /\ procs' = procs \cup {n} /\ leader' = [leader EXCEPT ![n] = "starting"]
    BY <1>1 DEF n
  <1>5. leader' \in [Names -> {"unstarted", "starting", "serving", "exited"}]
        /\ leader'[n] = "starting" /\ \A m \in Names \ {n} : leader'[m] = leader[m]
    BY <1>3, <1>4 DEF IInv, TypeOK
  <1>6. TypeOK'
    <2>1. Planned' = Planned
      BY <1>2 DEF Planned
    <2>2. cur' \in Planned /\ procs' \in SUBSET Planned /\ procs \subseteq procs'
      BY <1>3, <1>4 DEF IInv, TypeOK
    <2>3. \A m \in Names : leader'[m] = "unstarted" => member[m] = "none" /\ signal[m] = "none"
      BY <1>5 DEF IInv, TypeOK
    <2> QED BY <1>2, <1>5, <2>1, <2>2, <2>3 DEF IInv, TypeOK
  <1>7. Left' = Left /\ Planned' = Planned
    BY <1>2 DEF Left, Planned
  <1>8. Order'
    BY <1>2, <1>7 DEF IInv, Order
  <1>9. \A m : Opened(m)' = Opened(m)
    BY <1>2 DEF Opened, Spec
  <1>10. Gates'
    <2>1. \A m \in Names : m \in procs' <=> leader'[m] # "unstarted"
      BY <1>4, <1>5 DEF IInv, Gates
    <2>2. \A m \in Names : leader'[m] = "serving" => m \in served'
      BY <1>2, <1>5 DEF IInv, Gates
    <2>3. \A m \in ready' : m \in hooked' /\ Opened(m)'
      BY <1>2, <1>9 DEF IInv, Gates
    <2>4. \A m \in procs' : \A d \in Spec(m).after : d \in hooked /\ Opened(d)
      BY <1>3, <1>4 DEF IInv, Gates, GatedStart
    <2>5. GatedStart'
      BY <1>2, <1>9, <2>4 DEF GatedStart, Spec
    <2> QED BY <2>1, <2>2, <2>3, <2>5 DEF Gates
  <1>11. Places'
    <2>1. NothingLeft'
      BY <1>2 DEF NothingLeft
    <2> QED BY <1>2, <1>3, <1>4, <1>7, <2>1 DEF IInv, Places
  <1> QED BY <1>6, <1>8, <1>10, <1>11 DEF IInv

(* A spec whose gate is open and whose hooks have run is ready. *)
LEMMA RunHooksIInv ==
    ASSUME IInv, RunHooks
    PROVE  IInv'
  <1>1. PICK i \in DOMAIN remaining : remaining[i] = cur /\ remaining' = RemoveAt(remaining, i)
    BY DEF RunHooks
  <1>2. /\ UNCHANGED <<plan, cur, late, cleanup, procs, conf, applied, fail,
                       leader, member, signal, served>>
        /\ pc = "hooks" /\ pc' = "pick"
        /\ hooked' = hooked \cup {cur} /\ ready' = ready \cup {cur}
    BY DEF RunHooks, Goto
  <1>3. cur \in Left /\ cur \in procs /\ Opened(cur) /\ remaining \in Seq(Planned)
    BY <1>2 DEF IInv, Places, TypeOK
  <1>4. Len(remaining) \in Nat /\ DOMAIN remaining = 1 .. Len(remaining)
    BY <1>3, LenProperties
  <1>5. /\ remaining' \in Seq(Planned) /\ Len(remaining') = Len(remaining) - 1
        /\ \A j \in DOMAIN remaining' : remaining'[j] = IF j < i THEN remaining[j] ELSE remaining[j + 1]
    BY <1>1, <1>3, RemoveAtProperties
  <1>6. DOMAIN remaining' = 1 .. (Len(remaining) - 1)
    BY <1>5, LenProperties
  <1>7. \A j, k \in DOMAIN remaining : remaining[j] = remaining[k] => j = k
    BY DEF IInv, Order
  <1>8. \A j, k \in DOMAIN remaining' : remaining'[j] = remaining'[k] => j = k
    <2>1. ASSUME NEW j \in DOMAIN remaining', NEW k \in DOMAIN remaining',
                 remaining'[j] = remaining'[k]
          PROVE  j = k
      <3>1. PICK a \in DOMAIN remaining, b \in DOMAIN remaining :
               /\ a = (IF j < i THEN j ELSE j + 1) /\ b = (IF k < i THEN k ELSE k + 1)
        BY <1>4, <1>6
      <3>2. remaining[a] = remaining[b]
        BY <1>5, <2>1, <3>1
      <3>3. a = b
        BY <1>7, <3>2
      <3> QED BY <1>4, <1>6, <3>1, <3>3
    <2> QED BY <2>1
  <1>9. Left' = Left \ {cur}
    <2>1. ASSUME NEW j \in DOMAIN remaining' PROVE remaining'[j] \in Left \ {cur}
      <3>1. PICK a \in DOMAIN remaining : a = (IF j < i THEN j ELSE j + 1)
        BY <1>4, <1>6
      <3>2. remaining'[j] = remaining[a] /\ a # i
        BY <1>4, <1>5, <1>6, <3>1
      <3> QED BY <1>1, <1>7, <3>2 DEF Left
    <2>2. ASSUME NEW a \in DOMAIN remaining, remaining[a] # cur
          PROVE  \E j \in DOMAIN remaining' : remaining'[j] = remaining[a]
      <3>1. a # i
        BY <1>1, <2>2
      <3>2. PICK j \in DOMAIN remaining' : j = (IF a < i THEN a ELSE a - 1)
        BY <1>4, <1>6, <3>1
      <3>3. a = (IF j < i THEN j ELSE j + 1)
        BY <1>4, <3>1, <3>2
      <3> QED BY <1>5, <3>3
    <2> QED BY <2>1, <2>2 DEF Left
  <1>10. cur \in Planned /\ cur \in Names /\ Planned' = Planned
    BY <1>2, <1>3, PlannedNames DEF IInv, TypeOK, Order, Planned
  <1>11. TypeOK'
    BY <1>2, <1>3, <1>5, <1>10 DEF IInv, TypeOK
  <1>12. Order'
    BY <1>2, <1>3, <1>8, <1>9, <1>10 DEF IInv, Order
  <1>13. \A m : Opened(m)' = Opened(m)
    BY <1>2 DEF Opened, Spec
  <1>14. Gates'
    BY <1>2, <1>3, <1>13 DEF IInv, Gates, GatedStart, Spec
  <1>15. Places'
    <2>1. NothingLeft'
      BY <1>2 DEF NothingLeft
    <2>2. fail = "none"
      BY <1>2 DEF IInv, Places
    <2> QED BY <1>2, <2>1, <2>2 DEF IInv, Places
  <1> QED BY <1>11, <1>12, <1>14, <1>15 DEF IInv

(* The configuration: what Boot decoded, and what the backend converged to. *)
LEMMA ConfigIInv ==
    ASSUME IInv, Spawned \/ \E c \in Configs : Provisioned(c) \/ Converge(c)
    PROVE  IInv'
  <1>1. CASE Spawned
    <2>1. /\ pc = "pick" /\ pc' \in {"converge", "test"} /\ remaining = <<>>
          /\ pc' = "test" => applied' = conf
          /\ applied' \in {applied, conf}
          /\ UNCHANGED <<plan, remaining, cur, ready, late, cleanup, procs, conf, fail, world>>
      BY <1>1 DEF Spawned, Goto, IInv, TypeOK
    <2>2. TypeOK' /\ Order' /\ Gates' /\ Stuck' = Stuck
      BY <2>1, Quiet DEF IInv, TypeOK
    <2>3. NothingLeft'
      BY <2>1 DEF NothingLeft
    <2> QED BY <2>1, <2>2, <2>3 DEF IInv, Places
  <1>2. ASSUME NEW c \in Configs, Provisioned(c) PROVE IInv'
    <2>1. /\ pc = "prepare" /\ pc' = "plan" /\ conf' = c /\ cleanup' = TRUE
          /\ UNCHANGED <<plan, remaining, cur, ready, late, procs, applied, fail, world>>
      BY <1>2 DEF Provisioned, Goto
    <2>2. TypeOK' /\ Order' /\ Gates' /\ Stuck' = Stuck
      BY <2>1, Quiet DEF IInv, TypeOK
    <2>3. NothingLeft'
      BY <2>1 DEF NothingLeft
    <2> QED BY <2>1, <2>2, <2>3 DEF IInv, Places
  <1>3. ASSUME NEW c \in Configs, Converge(c) PROVE IInv'
    <2>1. PICK from \in {"converge", "test"}, d \in Configs \cup {NoConfig} : convergeBody(from, d)
      BY <1>3 DEF Converge, IInv, TypeOK
    <2>2. CASE Fatal(from, "converge") /\ conf' \in {conf, d} /\ UNCHANGED applied
      BY <2>1, <2>2, FatalIInv DEF convergeBody, IInv, TypeOK
    <2>3. CASE Goto(from, "test") /\ conf' = d /\ applied' = d /\ UNCHANGED fail
      <3>1. /\ pc \in {"converge", "test"} /\ pc' = "test"
            /\ UNCHANGED <<plan, remaining, cur, ready, late, cleanup, procs, fail, world>>
        BY <2>1, <2>3 DEF convergeBody, Goto
      <3>2. TypeOK' /\ Order' /\ Gates' /\ Stuck' = Stuck
        BY <2>3, <3>1, Quiet DEF IInv, TypeOK
      <3>3. NothingLeft'
        BY <3>1 DEF NothingLeft
      <3> QED BY <2>3, <3>1, <3>2, <3>3 DEF IInv, Places
    <2> QED BY <2>1, <2>2, <2>3 DEF convergeBody
  <1> QED BY <1>1, <1>2, <1>3

(* Everything t.Fatalf is called for outside convergeBody. *)
LEMMA FailsIInv ==
    ASSUME IInv,
           \/ PrepareFails \/ PlanFails \/ StartFails \/ PlanDeadlock \/ WaitTimesOut
           \/ HookFails \/ TestFails
    PROVE  IInv'
  <1>1. /\ UNCHANGED <<plan, remaining, cur, ready, late, cleanup, procs, conf, applied, world>>
        /\ conf' \in Configs \cup {NoConfig} /\ applied' \in Configs \cup {NoConfig}
    BY DEF PrepareFails, PlanFails, StartFails, PlanDeadlock, WaitTimesOut, HookFails, TestFails,
           IInv, TypeOK
  <1>2. CASE PlanDeadlock
    <2>1. Stuck
      BY <1>2 DEF PlanDeadlock, Startable, depsReady, Stuck, IInv, Order
    <2> QED BY <1>1, <1>2, <2>1, FatalIInv DEF PlanDeadlock
  <1>3. CASE PrepareFails
    BY <1>1, <1>3, FatalIInv DEF PrepareFails
  <1>4. CASE PlanFails
    BY <1>1, <1>4, FatalIInv DEF PlanFails
  <1>5. CASE StartFails
    BY <1>1, <1>5, FatalIInv DEF StartFails
  <1>6. CASE WaitTimesOut
    BY <1>1, <1>6, FatalIInv DEF WaitTimesOut
  <1>7. CASE HookFails
    BY <1>1, <1>7, FatalIInv DEF HookFails
  <1>8. CASE TestFails
    BY <1>1, <1>8, FatalIInv DEF TestFails
  <1> QED BY <1>2, <1>3, <1>4, <1>5, <1>6, <1>7, <1>8

(* A step of stop, or of a process, that leaves the harness's own state but for
   pc as it is, loses nothing that served, and leaves no process behind. *)
LEMMA WorldIInv ==
    ASSUME IInv, UNCHANGED <<plan, remaining, cur, ready, cleanup, procs, late, conf, applied,
                             fail, hooked>>,
           \/ UNCHANGED pc
           \/ pc \in {"stop", "reaping"} /\ pc' \in {"reaping", "done"},
           served \subseteq served', served' \subseteq procs,
           leader' \in [Names -> {"unstarted", "starting", "serving", "exited"}],
           member' \in [Names -> {"none", "running", "exited"}],
           signal' \in [Names -> {"none", "term", "kill"}],
           \A n \in Names : leader'[n] = "unstarted" => member'[n] = "none" /\ signal'[n] = "none",
           \A n \in Names : leader[n] = "unstarted" <=> leader'[n] = "unstarted",
           \A n \in Names : leader'[n] = "serving" => n \in served',
           NothingLeft'
    PROVE  IInv'
  <1>1. TypeOK'
    BY DEF IInv, TypeOK, Planned
  <1>2. Left' = Left /\ Planned' = Planned /\ Stuck' = Stuck
    BY DEF Left, Planned, Stuck, Spec
  <1>3. Order'
    BY <1>2 DEF IInv, Order
  <1>4. \A n : Opened(n) => Opened(n)'
    BY OpenedStays
  <1>5. Gates'
    BY <1>4 DEF IInv, Gates, GatedStart, Spec
  <1>6. Places'
    BY <1>2, <1>4 DEF IInv, Places
  <1> QED BY <1>1, <1>3, <1>5, <1>6 DEF IInv

LEMMA StopIInv ==
    ASSUME IInv, Stop \/ Reaped \/ HardKill
    PROVE  IInv'
  <1>1. ASSUME NEW s \in {"term", "kill"}, signal' = Signalled(s)
        PROVE  /\ signal' \in [Names -> {"none", "term", "kill"}]
               /\ \A n \in Names : signal'[n] = IF n \in procs THEN s ELSE signal[n]
    BY <1>1 DEF Signalled, IInv, TypeOK
  <1>2. CASE Stop
    <2>1. /\ UNCHANGED <<plan, remaining, cur, ready, late, cleanup, procs, conf, applied, fail,
                         leader, member, served, hooked>>
          /\ pc = "stop" /\ pc' = "reaping" /\ signal' = Signalled("term")
      BY <1>2 DEF Stop, Goto
    <2>2. NothingLeft'
      BY <2>1 DEF NothingLeft
    <2> QED BY <1>1, <2>1, <2>2, WorldIInv DEF IInv, TypeOK, Gates
  <1>3. CASE Reaped
    <2>1. /\ UNCHANGED <<plan, remaining, cur, ready, late, cleanup, procs, conf, applied, fail,
                         leader, member, signal, served, hooked>>
          /\ pc = "reaping" /\ pc' = "done" /\ \A n \in procs : Waited(n)
      BY <1>3 DEF Reaped, Goto, world
    <2>2. \A n \in Names : ~Alive(n)
      BY <2>1 DEF Waited, Alive, IInv, Gates
    <2>3. NothingLeft'
      BY <2>1, <2>2 DEF NothingLeft, Alive
    <2> QED BY <2>1, <2>3, WorldIInv DEF IInv, TypeOK, Gates
  <1>4. CASE HardKill
    <2>1. /\ UNCHANGED <<plan, remaining, cur, ready, late, cleanup, procs, conf, applied, fail,
                         leader, member, served, hooked>>
          /\ pc = "reaping" /\ pc' = "done" /\ signal' = Signalled("kill")
      BY <1>4 DEF HardKill, Goto
    <2>2. NothingLeft'
      BY <1>1, <2>1 DEF NothingLeft, Alive, IInv, Gates
    <2> QED BY <1>1, <2>1, <2>2, WorldIInv DEF IInv, TypeOK, Gates
  <1> QED BY <1>2, <1>3, <1>4

(* What a process does on its own. *)
LEMMA ProcessIInv ==
    ASSUME IInv, NEW n \in Names, Process(n)
    PROVE  IInv'
  <1>1. UNCHANGED <<plan, pc, remaining, cur, ready, late, cleanup, procs, conf, applied, fail, hooked>>
    BY DEF Process, Serve, Fork, Exit, MemberExit, harness
  <1>2. CASE Serve(n)
    <2>1. /\ leader[n] = "starting" /\ leader' = [leader EXCEPT ![n] = "serving"]
          /\ served' = served \cup {n} /\ UNCHANGED <<member, signal>>
      BY <1>2 DEF Serve
    <2>2. n \in procs
      BY <2>1 DEF IInv, Gates
    <2>3. NothingLeft'
      BY <1>1, <2>1 DEF NothingLeft, Alive, IInv, Places, TypeOK
    <2> QED BY <1>1, <2>1, <2>2, <2>3, WorldIInv DEF IInv, TypeOK, Gates
  <1>3. CASE Fork(n)
    <2>1. /\ Alive(n) /\ member' = [member EXCEPT ![n] = "running"]
          /\ UNCHANGED <<leader, signal, served>>
      BY <1>3 DEF Fork
    <2>2. NothingLeft'
      BY <1>1, <2>1 DEF NothingLeft, Alive, IInv, Places
    <2> QED BY <1>1, <2>1, <2>2, WorldIInv DEF IInv, TypeOK, Gates, Alive
  <1>4. CASE Exit(n)
    <2>1. /\ Alive(n) /\ leader' = [leader EXCEPT ![n] = "exited"]
          /\ UNCHANGED <<member, signal, served>>
      BY <1>4 DEF Exit
    <2>2. NothingLeft'
      BY <1>1, <2>1 DEF NothingLeft, Alive, IInv, Places, TypeOK
    <2> QED BY <1>1, <2>1, <2>2, WorldIInv DEF IInv, TypeOK, Gates, Alive
  <1>5. CASE MemberExit(n)
    <2>1. /\ member[n] = "running" /\ member' = [member EXCEPT ![n] = "exited"]
          /\ UNCHANGED <<leader, signal, served>>
      BY <1>5 DEF MemberExit
    <2>2. NothingLeft'
      BY <1>1, <2>1 DEF NothingLeft, Alive, IInv, Places
    <2> QED BY <1>1, <2>1, <2>2, WorldIInv DEF IInv, TypeOK, Gates
  <1> QED BY <1>2, <1>3, <1>4, <1>5 DEF Process

LEMMA NextIInv == IInv /\ [Next]_vars => IInv'
  <1> SUFFICES ASSUME IInv, [Next]_vars PROVE IInv'
    OBVIOUS
  <1>1. CASE UNCHANGED vars
    <2>1. UNCHANGED <<plan, pc, remaining, cur, ready, late, cleanup, procs, conf, applied, fail,
                      leader, member, signal, served, hooked>>
      BY <1>1 DEF vars, harness, world
    <2>2. NothingLeft'
      BY <2>1 DEF NothingLeft, Alive, IInv, Places
    <2> QED BY <2>1, <2>2, WorldIInv DEF IInv, TypeOK, Gates
  <1>2. CASE Harness
    <2>1. CASE \/ Skip \/ Planning \/ Slept \/ WaitReady \/ ProbePasses \/ ProbeFails
      BY <2>1, HarnessIInv
    <2>2. CASE \/ PrepareFails \/ PlanFails \/ StartFails \/ PlanDeadlock \/ WaitTimesOut \/ HookFails
      BY <2>2, FailsIInv
    <2>3. CASE Spawned \/ \E c \in Configs : Provisioned(c) \/ Converge(c)
      BY <2>3, ConfigIInv
    <2>4. CASE Stop \/ Reaped \/ HardKill
      BY <2>4, StopIInv
    <2> QED BY <1>2, <2>1, <2>2, <2>3, <2>4, StartIInv, RunHooksIInv DEF Harness
  <1>3. CASE DeadlinePasses
    BY <1>3, HarnessIInv
  <1>4. CASE Test
    BY <1>4, HarnessIInv, FailsIInv DEF Test
  <1>5. CASE \E n \in Names : Process(n)
    BY <1>5, ProcessIInv
  <1> QED BY <1>1, <1>2, <1>3, <1>4, <1>5 DEF Next

-----------------------------------------------------------------------------
(* The invariant holds of every boot of every plan, whatever its processes do
   (spawn, enginetest.go:206, and stop, enginetest.go:330). *)
THEOREM Inductive == BootSpec => []IInv
  <1> QED BY InitIInv, NextIInv, PTL DEF BootSpec

(* A process runs only if every spec it comes after is in the plan, opened its
   gate and ran its hooks (spawn.go:11): spawn starts no other (enginetest.go:206). *)
THEOREM StartsGated == BootSpec => []GatedStart
  <1>1. IInv => GatedStart
    BY DEF IInv, Gates
  <1> QED BY <1>1, Inductive, PTL

(* A boot is called deadlocked only when nothing that is left could start, and a
   test runs on every spec ready and the configuration it asked for
   (enginetest.go:206, convergeBody). *)
THEOREM VerdictsHold == BootSpec => []VerdictsRight
  <1>1. IInv => VerdictsRight
    <2> SUFFICES ASSUME IInv PROVE VerdictsRight
      OBVIOUS
    <2>1. fail = "deadlock" => \A i \in DOMAIN remaining : \E d \in Spec(remaining[i]).after :
              d \notin Planned \/ d \in {remaining[j] : j \in DOMAIN remaining}
      BY DEF IInv, Places, Stuck, Left
    <2>2. pc = "test" => ready = Planned /\ applied = conf
      BY DEF IInv, Places, Order, Left
    <2> QED BY <2>1, <2>2 DEF VerdictsRight, IInv
  <1> QED BY <1>1, Inductive, PTL

(* Whatever ended the boot or its test, every spec's process is gone or was
   killed when stop returns (enginetest.go:330). *)
THEOREM StopLeavesNothing == BootSpec => []NothingLeft
  <1>1. IInv => NothingLeft
    BY DEF IInv, Places
  <1> QED BY <1>1, Inductive, PTL

-----------------------------------------------------------------------------
(* The template is no template yet, or one init's. *)
Template == template = Empty \/ \E w \in Boots : template = Built(w)

(* A boot past its init has all of it. *)
Finished == \A b \in Boots : at[b] \in {"recheck", "rename"} => tmp[b] = Built(b)

(* A boot that clones finds a template, and has copied of that one only. *)
Cloning ==
    /\ \A b \in Boots : at[b] \in {"remove", "copy"} => template # Empty
    /\ \A b \in Boots, w \in Boots :
           at[b] = "copy" /\ template = Built(w) => \A f \in Files : dest[b][f] \in {Absent, w}

(* os.RemoveAll removes everything: its error is ignored (template.go:30, 55), and
   cp then copies into what is left. *)
Removable == Immovable = {}

Booted ==
    Removable =>
        /\ \A b \in Boots : at[b] # "inside"
        /\ \A b \in Boots : at[b] = "booted" => \E w \in Boots : dest[b] = Built(w)

Tidy ==
    Removable => \A b \in Boots : tmp[b] # Empty => at[b] \in {"init", "recheck", "rename"}

TInv == TemplateTypeOK /\ Template /\ Finished /\ Cloning /\ Booted /\ Tidy /\ LoserServed

(* A template is ready exactly when there is one. *)
LEMMA ReadyMeansThere ==
    ASSUME TInv PROVE Ready(template) <=> template # Empty
  <1>1. CASE template = Empty
    BY <1>1, MarkerAssumption DEF Ready, Empty
  <1>2. ASSUME NEW w \in Boots, template = Built(w) PROVE Ready(template) /\ template # Empty
    BY <1>2, MarkerAssumption, AbsentAssumption DEF Ready, Built, Empty
  <1> QED BY <1>1, <1>2 DEF TInv, Template

LEMMA InitTInv == TemplateInit => TInv
  BY DEF TemplateInit, TInv, TemplateTypeOK, Template, Finished, Cloning, Booted, Tidy, LoserServed, Empty, Dirs

(* A step within EnsureTemplateDir: data directories stay, and so does a template
   that is there. *)
LEMMA EnsureStep ==
    ASSUME TInv, NEW b \in Boots,
           \/ EnsureHit(b) \/ EnsureMiss(b) \/ InitDone(b) \/ InitFailed(b)
           \/ RecheckReady(b) \/ RecheckMissing(b) \/ RenameFailed(b)
    PROVE  TInv'
  <1> USE DEF TInv, Moves
  <1>a. UNCHANGED <<template, dest>> /\ tmp' \in {tmp, TmpRemoved(b)}
    BY DEF EnsureHit, EnsureMiss, InitDone, InitFailed, RecheckReady, RecheckMissing, RenameFailed
  <1>b. /\ at' = [at EXCEPT ![b] = at'[b]]
        /\ at'[b] \notin {"copy", "inside", "booted"} /\ at[b] \notin {"copy", "booted"}
    BY DEF EnsureHit, EnsureMiss, InitDone, InitFailed, RecheckReady, RecheckMissing, RenameFailed, TemplateTypeOK
  <1>c. tmp' \in [Boots -> Dirs] /\ \A c \in Boots \ {b} : tmp'[c] = tmp[c] /\ at'[c] = at[c]
    <2>1. \A c \in Boots : tmp[c] \in Dirs /\ TmpRemoved(b)[c] \in Dirs
      BY DEF TemplateTypeOK, TmpRemoved, Dirs
    <2>2. TmpRemoved(b) \in [Boots -> Dirs] /\ \A c \in Boots \ {b} : TmpRemoved(b)[c] = tmp[c]
      BY <2>1 DEF TemplateTypeOK, TmpRemoved
    <2> QED BY <1>a, <1>b, <2>2 DEF TemplateTypeOK
  <1>1. TemplateTypeOK'
    <2>1. at' \in [Boots -> {"idle", "init", "recheck", "rename", "remove", "copy", "inside",
                            "booted", "initFailed", "installFailed", "copyFailed"}]
      BY DEF EnsureHit, EnsureMiss, InitDone, InitFailed, RecheckReady, RecheckMissing, RenameFailed,
             TemplateTypeOK
    <2> QED BY <1>a, <1>c, <2>1 DEF TemplateTypeOK
  <1>t. Tidy'
    <2> SUFFICES ASSUME Removable PROVE tmp'[b] # Empty => at'[b] \in {"init", "recheck", "rename"}
      BY <1>c DEF Tidy, Removable, Empty
    <2>1. TmpRemoved(b)[b] = Empty
      BY DEF TmpRemoved, Removable, Empty, TemplateTypeOK, Dirs
    <2> QED
      BY <2>1 DEF EnsureHit, EnsureMiss, InitDone, InitFailed, RecheckReady, RecheckMissing, RenameFailed,
             TemplateTypeOK, Tidy
  <1>2. Template'
    BY <1>a DEF Template
  <1>3. Finished'
    BY DEF EnsureHit, EnsureMiss, InitDone, InitFailed, RecheckReady, RecheckMissing, RenameFailed,
           TemplateTypeOK, TmpRemoved, Finished
  <1>4. at'[b] = "remove" => Ready(template)
    <2>1. CASE RenameFailed(b)
      BY <2>1, ReadyMeansThere DEF RenameFailed, Renames, LostRace
    <2> QED
      BY <2>1 DEF EnsureHit, EnsureMiss, InitDone, InitFailed, RecheckReady, RecheckMissing, TemplateTypeOK
  <1>5. Cloning'
    BY <1>a, <1>b, <1>4, ReadyMeansThere DEF Cloning, TemplateTypeOK
  <1>6. Booted'
    BY <1>a, <1>b DEF Booted, Removable, TemplateTypeOK
  <1>7. LoserServed'
    <2>1. CASE RenameFailed(b)
      BY <2>1, ReadyMeansThere DEF RenameFailed, Renames, LostRace, LoserServed, TemplateTypeOK
    <2> QED
      BY <2>1 DEF EnsureHit, EnsureMiss, InitDone, InitFailed, RecheckReady, RecheckMissing, TemplateTypeOK,
                  LoserServed
  <1> QED BY <1>1, <1>2, <1>3, <1>5, <1>6, <1>7, <1>t

LEMMA InitFileStep ==
    ASSUME TInv, NEW b \in Boots, NEW f \in Files, InitFile(b, f) PROVE TInv'
  BY DEF TInv, InitFile, InitWrites, TemplateTypeOK, Template, Finished, Cloning, Booted, Tidy, Removable,
         LoserServed, Empty, Dirs

(* The one step that changes the template: from nothing to what the boot built. *)
LEMMA RenameStep ==
    ASSUME TInv, NEW b \in Boots, Rename(b) PROVE TInv' /\ template = Empty /\ template' = Built(b)
  <1> USE DEF TInv, Moves, Rename
  <1>1. template = Empty /\ template' = Built(b)
    BY DEF Renames, Finished
  <1>2. template' # Empty
    BY <1>1, MarkerAssumption, AbsentAssumption DEF Built, Empty
  <1>3. TemplateTypeOK'
    BY DEF TemplateTypeOK, Empty, Dirs
  <1>4. Template' /\ Finished'
    BY <1>1 DEF Template, Finished, TemplateTypeOK
  <1>5. Cloning'
    BY <1>1, <1>2 DEF Cloning, TemplateTypeOK
  <1>6. Booted' /\ Tidy' /\ LoserServed'
    BY DEF Booted, Tidy, Removable, LoserServed, TemplateTypeOK, Empty
  <1> QED BY <1>1, <1>3, <1>4, <1>5, <1>6

LEMMA RemoveStep ==
    ASSUME TInv, NEW b \in Boots,
           Removed(b) \/ CopyFailed(b) \/ Again(b) \/ \E f \in Files : RemoveFile(b, f)
    PROVE  TInv'
  <1> USE DEF TInv, Moves
  <1>1. CASE Removed(b)
    <2>1. Removable => dest[b] = Empty
      BY <1>1 DEF Removed, Removable, TemplateTypeOK, Dirs, Empty
    <2>2. Booted'
      BY <1>1, <2>1 DEF Removed, TemplateTypeOK, Booted, Removable, Empty
    <2> QED
      BY <1>1, <2>2 DEF Removed, TemplateTypeOK, Template, Finished, Cloning, Tidy, Removable, LoserServed, Empty
  <1>2. CASE CopyFailed(b)
    BY <1>2 DEF CopyFailed, TemplateTypeOK, Template, Finished, Cloning, Booted, Tidy, Removable, LoserServed
  <1>3. CASE Again(b)
    BY <1>3 DEF Again, TemplateTypeOK, Template, Finished, Cloning, Booted, Tidy, Removable, LoserServed,
                Empty, Dirs
  <1>4. ASSUME NEW f \in Files, RemoveFile(b, f) PROVE TInv'
    BY <1>4 DEF RemoveFile, TemplateTypeOK, Template, Finished, Cloning, Booted, Tidy, Removable, LoserServed,
                Dirs, Empty
  <1> QED BY <1>1, <1>2, <1>3, <1>4

LEMMA CopyFileStep ==
    ASSUME TInv, NEW b \in Boots, NEW f \in Files, CopyFile(b, f) PROVE TInv'
  <1> USE DEF TInv, CopyFile
  <1>1. TemplateTypeOK' /\ Template' /\ Finished' /\ Booted' /\ Tidy' /\ LoserServed'
    BY DEF TemplateTypeOK, Template, Finished, Booted, Tidy, Removable, LoserServed, Dirs, Empty
  <1>2. \A w \in Boots : template = Built(w) => template[f] = w
    BY DEF Built
  <1>3. Cloning'
    BY <1>2 DEF Cloning, TemplateTypeOK, Dirs
  <1> QED BY <1>1, <1>3

(* A clone is over when every file of the template is there; so it is the template. *)
LEMMA CopiedStep ==
    ASSUME TInv, NEW b \in Boots, Copied(b) PROVE TInv'
  <1> USE DEF TInv, Moves, Copied
  <1>1. ASSUME at[b] = "copy" PROVE \E w \in Boots : dest[b] = Built(w)
    <2>1. PICK w \in Boots : template = Built(w)
      BY <1>1 DEF Cloning, Template
    <2>2. \A f \in Files : template[f] # Absent /\ dest[b][f] = w
      BY <1>1, <2>1, AbsentAssumption DEF Built, Cloning
    <2> QED BY <2>2 DEF Built, TemplateTypeOK, Dirs
  <1>2. Booted'
    BY <1>1 DEF Booted, Removable, TemplateTypeOK
  <1>3. TemplateTypeOK' /\ Template' /\ Finished' /\ Cloning' /\ Tidy' /\ LoserServed'
    BY DEF TemplateTypeOK, Template, Finished, Cloning, Tidy, Removable, LoserServed, Empty
  <1> QED BY <1>2, <1>3

(* Every step of a boot keeps the invariant, and changes the template only from
   nothing. *)
LEMMA StepTInv ==
    ASSUME TInv, [TemplateNext]_templateVars PROVE TInv' /\ (template # Empty => template' = template)
  <1>1. CASE UNCHANGED templateVars
    BY <1>1 DEF templateVars, TInv, TemplateTypeOK, Template, Finished, Cloning, Booted, Tidy, Removable,
                LoserServed, Empty
  <1>2. ASSUME NEW b \in Boots, Rename(b) PROVE TInv' /\ (template # Empty => template' = template)
    BY <1>2, RenameStep
  <1>3. ASSUME NEW b \in Boots,
               \/ EnsureHit(b) \/ EnsureMiss(b) \/ InitDone(b) \/ InitFailed(b)
               \/ RecheckReady(b) \/ RecheckMissing(b) \/ RenameFailed(b)
        PROVE TInv' /\ template' = template
    <2>1. template' = template
      BY <1>3 DEF EnsureHit, EnsureMiss, InitDone, InitFailed, RecheckReady, RecheckMissing, RenameFailed
    <2> QED BY <1>3, <2>1, EnsureStep
  <1>4. ASSUME NEW b \in Boots,
               Removed(b) \/ CopyFailed(b) \/ Again(b) \/ \E f \in Files : RemoveFile(b, f)
        PROVE TInv' /\ template' = template
    <2>1. template' = template
      BY <1>4 DEF Removed, CopyFailed, Again, RemoveFile
    <2> QED BY <1>4, <2>1, RemoveStep
  <1>5. ASSUME NEW b \in Boots, NEW f \in Files, InitFile(b, f) \/ CopyFile(b, f)
        PROVE TInv' /\ template' = template
    BY <1>5, InitFileStep, CopyFileStep DEF InitFile, InitWrites, CopyFile
  <1>6. ASSUME NEW b \in Boots, Copied(b) PROVE TInv' /\ template' = template
    BY <1>6, CopiedStep DEF Copied
  <1> QED BY <1>1, <1>2, <1>3, <1>4, <1>5, <1>6 DEF TemplateNext

-----------------------------------------------------------------------------
(* The invariant of EnsureTemplateDir and CloneTemplateDir (template.go:18-69):
   what a boot may rely on at each place of either, whatever the others do. *)
THEOREM TemplateInductive == TemplateSpec => []TInv
  <1>1. TInv /\ [TemplateNext]_templateVars => TInv'
    BY StepTInv
  <1> QED BY InitTInv, <1>1, PTL DEF TemplateSpec

(* No boot observes a half-built template (template.go:15-17), and while removals
   succeed none runs on a mix of two. *)
THEOREM TemplatesWhole == ASSUME Removable PROVE TemplateSpec => []TemplateWhole
  <1>1. TInv => TemplateWhole
    BY ReadyMeansThere DEF TInv, Template, Booted, Tidy, TemplateWhole
  <1> QED BY <1>1, TemplateInductive, PTL

(* Losing the rename is never an error (template.go:39-44). *)
THEOREM LosersServed == TemplateSpec => []LoserServed
  BY TemplateInductive, PTL DEF TInv

(* A template, once installed, is the one every later boot clones. *)
THEOREM TemplatesKept == TemplateSpec => TemplateKept
  <1>1. TInv /\ [TemplateNext]_templateVars => [template # Empty => template' = template]_templateVars
    BY StepTInv
  <1> QED BY <1>1, TemplateInductive, PTL DEF TemplateSpec, TemplateKept
=============================================================================
