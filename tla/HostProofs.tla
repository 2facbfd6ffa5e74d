----------------------------- MODULE HostProofs -----------------------------
(***************************************************************************)
(* Theorems about the host's two long-lived parts: the table of module     *)
(* processes (PluginManager), for every set of callers, engine types and   *)
(* processes, and the handing of client connections to a plugin's wire     *)
(* filter (WireHandoff), for any number of connections.  The two share no  *)
(* variable and no lemma.                                                  *)
(*                                                                         *)
(* PluginManager.  Owned is not inductive: that the failing launch's       *)
(* process is nobody else's, and that the slot it will fill is empty, has  *)
(* to be carried along.  LaunchInv says so of the one caller inside        *)
(* Launch, KindInv that tables and callers hold processes of their own     *)
(* engine type.                                                            *)
(*                                                                         *)
(* WireHandoff.  The invariant is what each place of handle and of Handoff *)
(* says about the other end: Conversation relates the two program          *)
(* counters, the line in the side channel and the host's answer, and the   *)
(* accounting and the cancel registry follow from it.                      *)
(***************************************************************************)
EXTENDS PluginManager, WireHandoff, FiniteSetTheorems, TLAPS

(* Only the holder of the mutex is inside Launch; it has a process of its
   type, and the table's slot for that type is empty. *)
LaunchInv ==
    \A c \in Callers : Launching(c) =>
        /\ mu = c
        /\ drv[c] \in Procs
        /\ kind[drv[c]] = req[c]
        /\ hosts[req[c]] = NoProc

(* The table holds each process under the type it was launched for, and a
   served caller's driver is of the type it asked for. *)
KindInv ==
    /\ \A t \in Types : hosts[t] # NoProc => kind[hosts[t]] = t
    /\ \A c \in Callers :
          pc[c] = "served" => drv[c] \in Procs /\ kind[drv[c]] = req[c]

IInv == TypeOK /\ LaunchInv /\ KindInv /\ Owned /\ FailureMeansNoHost /\ HandedOutIsManaged

-----------------------------------------------------------------------------
(* Nobody is inside Launch while the mutex is free. *)
LEMMA FreeMeansNoLaunch ==
    ASSUME LaunchInv, mu = Free
    PROVE  \A c \in Callers : ~Launching(c)
  BY FreeAssumption DEF LaunchInv

(* One process per type follows from ownership: the two ways of being owned
   exclude each other, and each names one process. *)
LEMMA OwnedMeansOne ==
    ASSUME TypeOK, LaunchInv, Owned
    PROVE  OnePerType
<1> SUFFICES ASSUME NEW p \in alive, NEW q \in alive, kind[p] = kind[q]
             PROVE  p = q
  BY DEF OnePerType
<1>0. p \in Procs /\ q \in Procs /\ kind[p] \in Types
  BY DEF TypeOK
<1>1. CASE hosts[kind[p]] = p
  <2>1. hosts[kind[p]] # NoProc
    BY <1>0, <1>1, ProcAssumption
  <2>2. ~ \E c \in Callers : mu = c /\ Launching(c) /\ drv[c] = q
    BY <2>1 DEF LaunchInv
  <2> QED BY <2>2, <1>1 DEF Owned
<1>2. CASE hosts[kind[p]] # p
  <2>1. PICK c \in Callers : mu = c /\ Launching(c) /\ drv[c] = p
    BY <1>2 DEF Owned
  <2>2. hosts[kind[q]] = NoProc
    BY <2>1 DEF LaunchInv
  <2>3. hosts[kind[q]] # q
    BY <2>2, <1>0, ProcAssumption
  <2>4. PICK d \in Callers : mu = d /\ Launching(d) /\ drv[d] = q
    BY <2>3 DEF Owned
  <2> QED BY <2>1, <2>4
<1> QED BY <1>1, <1>2

-----------------------------------------------------------------------------
LEMMA InitIInv == Init => IInv
<1> SUFFICES ASSUME Init PROVE IInv
  OBVIOUS
<1>1. TypeOK
  BY DEF Init, TypeOK, PCs, Launching
<1> QED
  BY <1>1 DEF Init, IInv, LaunchInv, KindInv, Owned, FailureMeansNoHost,
              HandedOutIsManaged, Launching

(* Every action keeps the inductive invariant. *)
LEMMA StepIInv == IInv /\ [Next]_vars => IInv'
<1> SUFFICES ASSUME IInv, [Next]_vars PROVE IInv'
  OBVIOUS
<1> USE ProcAssumption, FreeAssumption
<1> USE DEF IInv
<1>1. ASSUME NEW c \in Callers, NEW t \in Types, Resolve(c, t)
      PROVE  IInv'
  <2>1. TypeOK'
    BY <1>1 DEF Resolve, TypeOK, PCs, Launching
  <2>2. LaunchInv' /\ KindInv'
    BY <1>1 DEF Resolve, TypeOK, LaunchInv, KindInv, Launching
  <2>3. Owned' /\ FailureMeansNoHost' /\ HandedOutIsManaged'
    BY <1>1 DEF Resolve, TypeOK, Owned, FailureMeansNoHost, HandedOutIsManaged, Launching
  <2> QED BY <2>1, <2>2, <2>3
<1>2. ASSUME NEW c \in Callers, NotInstalled(c)
      PROVE  IInv'
  <2>1. TypeOK'
    BY <1>2 DEF NotInstalled, ForgetFailure, TypeOK, PCs, Launching
  <2>2. LaunchInv' /\ KindInv'
    BY <1>2 DEF NotInstalled, TypeOK, LaunchInv, KindInv, Launching
  <2>3. Owned' /\ FailureMeansNoHost' /\ HandedOutIsManaged'
    BY <1>2 DEF NotInstalled, ForgetFailure, TypeOK, Owned, FailureMeansNoHost,
                HandedOutIsManaged, Launching
  <2> QED BY <2>1, <2>2, <2>3
<1>3. ASSUME NEW c \in Callers, Warm(c)
      PROVE  IInv'
  <2>0. hosts[req[c]] \in Procs /\ kind[hosts[req[c]]] = req[c] /\ req[c] \in Types
    BY <1>3 DEF Warm, HasLiveHost, TypeOK, KindInv
  <2>1. TypeOK'
    BY <1>3, <2>0 DEF Warm, TypeOK, PCs, Launching
  <2>2. LaunchInv' /\ KindInv'
    BY <1>3, <2>0 DEF Warm, TypeOK, LaunchInv, KindInv, Launching
  <2>3. Owned'
    BY <1>3 DEF Warm, TypeOK, Owned, LaunchInv, Launching
  <2>4. FailureMeansNoHost' /\ HandedOutIsManaged'
    BY <1>3 DEF Warm, TypeOK, FailureMeansNoHost, HandedOutIsManaged
  <2> QED BY <2>1, <2>2, <2>3, <2>4
<1>4. ASSUME NEW c \in Callers, NEW p \in Procs, StartLaunch(c, p)
      PROVE  IInv'
  <2>0. \A d \in Callers : ~Launching(d)
    BY <1>4, FreeMeansNoLaunch DEF StartLaunch
  <2>1. TypeOK'
    BY <1>4 DEF StartLaunch, LockedFor, TypeOK, PCs, Launching
  <2>2. LaunchInv'
    BY <1>4, <2>0 DEF StartLaunch, LockedFor, TypeOK, LaunchInv, Launching
  <2>3. KindInv'
    BY <1>4 DEF StartLaunch, Unused, TypeOK, KindInv
  <2>4. Owned'
    <3> SUFFICES ASSUME NEW q \in alive'
                 PROVE  \/ hosts'[kind'[q]] = q
                        \/ \E d \in Callers : mu' = d /\ Launching(d)' /\ drv'[d] = q
      BY DEF Owned
    <3>1. CASE q = p
      BY <1>4, <3>1 DEF StartLaunch, LockedFor, TypeOK, Launching
    <3>2. CASE q # p
      <4>1. q \in alive /\ q \in Procs /\ kind'[q] = kind[q] /\ kind[q] \in Types
        BY <1>4, <3>2 DEF StartLaunch, TypeOK
      <4>2. hosts[kind[q]] = q
        BY <4>1, <2>0 DEF Owned
      <4>3. kind[q] # req[c]
        BY <4>1, <4>2, <1>4 DEF StartLaunch, HasLiveHost
      <4> QED BY <4>1, <4>2, <4>3, <1>4 DEF StartLaunch, TypeOK
    <3> QED BY <3>1, <3>2
  <2>5. FailureMeansNoHost'
    BY <1>4 DEF StartLaunch, TypeOK, FailureMeansNoHost
  <2>6. HandedOutIsManaged'
    <3> SUFFICES ASSUME NEW d \in Callers, pc'[d] = "served", drv'[d] \in alive'
                 PROVE  hosts'[req'[d]] = drv'[d]
      BY DEF HandedOutIsManaged
    <3>1. d # c /\ pc[d] = "served" /\ drv'[d] = drv[d]
      BY <1>4 DEF StartLaunch, TypeOK
    <3>2. drv[d] \in alive
      BY <1>4, <3>1 DEF StartLaunch, Unused
    <3>3. hosts[req[d]] = drv[d]
      BY <3>1, <3>2 DEF HandedOutIsManaged
    <3>4. req[d] # req[c]
      BY <3>2, <3>3, <1>4 DEF StartLaunch, HasLiveHost
    <3> QED BY <3>1, <3>3, <3>4, <1>4 DEF StartLaunch, TypeOK
  <2> QED BY <2>1, <2>2, <2>3, <2>4, <2>5, <2>6
<1>5. ASSUME NEW c \in Callers, Answered(c)
      PROVE  IInv'
  <2>1. TypeOK'
    BY <1>5 DEF Answered, TypeOK, PCs, Launching
  <2>2. LaunchInv' /\ KindInv'
    BY <1>5 DEF Answered, TypeOK, LaunchInv, KindInv, Launching
  <2>3. Owned' /\ FailureMeansNoHost' /\ HandedOutIsManaged'
    BY <1>5 DEF Answered, TypeOK, Owned, FailureMeansNoHost, HandedOutIsManaged, Launching
  <2> QED BY <2>1, <2>2, <2>3
<1>6. ASSUME NEW c \in Callers, LaunchOK(c)
      PROVE  IInv'
  <2>0. /\ mu = c
        /\ drv[c] \in Procs
        /\ kind[drv[c]] = req[c]
        /\ hosts[req[c]] = NoProc
        /\ req[c] \in Types
        /\ \A d \in Callers : Launching(d) => d = c
    BY <1>6 DEF LaunchOK, Launching, LaunchInv, TypeOK
  <2>1. TypeOK'
    BY <1>6, <2>0 DEF LaunchOK, ForgetFailure, RecordHost, TypeOK, PCs, Launching
  <2>2. LaunchInv'
    BY <1>6, <2>0 DEF LaunchOK, TypeOK, LaunchInv, Launching
  <2>3. KindInv'
    BY <1>6, <2>0 DEF LaunchOK, RecordHost, TypeOK, KindInv
  <2>4. Owned'
    <3> SUFFICES ASSUME NEW q \in alive
                 PROVE  hosts'[kind[q]] = q
      BY <1>6 DEF LaunchOK, Owned
    <3>0. q \in Procs /\ kind[q] \in Types
      BY DEF TypeOK
    <3>1. CASE hosts[kind[q]] = q
      <4>1. kind[q] # req[c]
        BY <3>1, <3>0, <2>0
      <4> QED BY <4>1, <3>0, <3>1, <1>6 DEF LaunchOK, RecordHost, TypeOK
    <3>2. CASE hosts[kind[q]] # q
      <4>1. drv[c] = q
        BY <3>2, <2>0 DEF Owned
      <4> QED BY <4>1, <2>0, <1>6 DEF LaunchOK, RecordHost, TypeOK
    <3> QED BY <3>1, <3>2
  <2>5. FailureMeansNoHost'
    BY <1>6 DEF LaunchOK, ForgetFailure, RecordHost, TypeOK, FailureMeansNoHost
  <2>6. HandedOutIsManaged'
    BY <1>6, <2>0 DEF LaunchOK, RecordHost, TypeOK, HandedOutIsManaged, KindInv
  <2> QED BY <2>1, <2>2, <2>3, <2>4, <2>5, <2>6
<1>7. ASSUME NEW c \in Callers, LaunchFailed(c)
      PROVE  IInv'
  <2>0. /\ mu = c
        /\ drv[c] \in Procs
        /\ kind[drv[c]] = req[c]
        /\ hosts[req[c]] = NoProc
        /\ req[c] \in Types
        /\ \A d \in Callers : Launching(d) => d = c
    BY <1>7 DEF LaunchFailed, Launching, LaunchInv, TypeOK
  <2>1. TypeOK'
    BY <1>7, <2>0 DEF LaunchFailed, KillOnError, UnlockOnError, TypeOK, PCs, Launching
  <2>2. LaunchInv' /\ KindInv'
    BY <1>7, <2>0 DEF LaunchFailed, TypeOK, LaunchInv, KindInv, Launching
  <2>3. Owned'
    BY <1>7, <2>0 DEF LaunchFailed, KillOnError, TypeOK, Owned
  <2>4. FailureMeansNoHost' /\ HandedOutIsManaged'
    BY <1>7, <2>0 DEF LaunchFailed, KillOnError, TypeOK, FailureMeansNoHost,
                      HandedOutIsManaged
  <2> QED BY <2>1, <2>2, <2>3, <2>4
<1>8. ASSUME NEW c \in Callers, Return(c)
      PROVE  IInv'
  <2>1. TypeOK'
    BY <1>8 DEF Return, TypeOK, PCs, Launching
  <2>2. LaunchInv' /\ KindInv'
    BY <1>8 DEF Return, TypeOK, LaunchInv, KindInv, Launching
  <2>3. Owned' /\ FailureMeansNoHost' /\ HandedOutIsManaged'
    BY <1>8 DEF Return, TypeOK, Owned, FailureMeansNoHost, HandedOutIsManaged, Launching
  <2> QED BY <2>1, <2>2, <2>3
<1>9. ASSUME NEW c \in Callers, Close(c)
      PROVE  IInv'
  <2>0. \A d \in Callers : ~Launching(d)
    BY <1>9, FreeMeansNoLaunch DEF Close
  <2>1. alive' = {}
    BY <1>9, <2>0 DEF Close, ReapHosts, Owned, TypeOK
  <2>2. TypeOK' /\ LaunchInv' /\ KindInv'
    BY <1>9, <2>0, <2>1 DEF Close, TypeOK, LaunchInv, KindInv, Launching
  <2>3. Owned' /\ FailureMeansNoHost' /\ HandedOutIsManaged'
    BY <1>9, <2>1 DEF Close, TypeOK, Owned, FailureMeansNoHost, HandedOutIsManaged
  <2> QED BY <2>2, <2>3
<1>10. ASSUME NEW p \in Procs, Crash(p)
       PROVE  IInv'
  <2>1. TypeOK' /\ LaunchInv' /\ KindInv'
    BY <1>10 DEF Crash, TypeOK, LaunchInv, KindInv, Launching
  <2>2. Owned' /\ FailureMeansNoHost' /\ HandedOutIsManaged'
    BY <1>10 DEF Crash, TypeOK, Owned, FailureMeansNoHost, HandedOutIsManaged, Launching
  <2> QED BY <2>1, <2>2
<1>11. ASSUME NEW t \in Types, Reinstall(t)
       PROVE  IInv'
  <2>1. TypeOK' /\ LaunchInv' /\ KindInv'
    BY <1>11 DEF Reinstall, TypeOK, LaunchInv, KindInv, Launching
  <2>2. Owned' /\ FailureMeansNoHost' /\ HandedOutIsManaged'
    BY <1>11 DEF Reinstall, Owned, FailureMeansNoHost, HandedOutIsManaged, Launching
  <2> QED BY <2>1, <2>2
<1>12. CASE UNCHANGED vars
  BY <1>12 DEF vars, TypeOK, LaunchInv, KindInv, Owned, FailureMeansNoHost,
               HandedOutIsManaged, Launching
<1> QED
  BY <1>1, <1>2, <1>3, <1>4, <1>5, <1>6, <1>7, <1>8, <1>9, <1>10, <1>11, <1>12
     DEF Next, Driver

(* The inductive invariant holds in every reachable state. *)
THEOREM Inductive == Spec => []IInv
  BY InitIInv, StepIInv, PTL DEF Spec

-----------------------------------------------------------------------------
(* The variables keep their types, and only a caller inside Launch keeps the
   mutex across steps. *)
THEOREM TypeCorrect == Spec => []TypeOK
<1>1. IInv => TypeOK
  BY DEF IInv
<1> QED BY <1>1, Inductive, PTL

(* No interleaving of calls, launches, failures, crashes and Close leaves a
   process running that the manager does not own. *)
THEOREM NoOrphan == Spec => []Owned
<1>1. IInv => Owned
  BY DEF IInv
<1> QED BY <1>1, Inductive, PTL

(* At most one process of an engine type runs at a time. *)
THEOREM OneProcess == Spec => []OnePerType
<1>1. IInv => OnePerType
  BY OwnedMeansOne DEF IInv
<1> QED BY <1>1, Inductive, PTL

(* A recorded launch failure and a hosted process exclude each other, and a
   driver in use whose process runs is the hosted one. *)
THEOREM TablesAgree == Spec => []TablesHonest
<1>1. IInv => TablesHonest
  BY DEF IInv, TablesHonest
<1> QED BY <1>1, Inductive, PTL

(* When Close returns nothing the manager launched is running: it waits for the
   launch that holds the mutex, and after that every process is in the table. *)
THEOREM CloseReaps == Spec => CloseReapsAll
<1>1. IInv /\ [Next]_vars => [(\E c \in Callers : Close(c)) => alive' = {}]_vars
  <2> SUFFICES ASSUME IInv, NEW c \in Callers, Close(c)
               PROVE  alive' = {}
    OBVIOUS
  <2>1. \A d \in Callers : ~Launching(d)
    BY FreeMeansNoLaunch DEF Close, IInv
  <2> QED BY <2>1 DEF Close, ReapHosts, IInv, Owned, TypeOK
<1> QED BY <1>1, Inductive, PTL DEF Spec, CloseReapsAll

(* Nothing but Close takes a running process out of the table. *)
THEOREM WarmStays == Spec => WarmIsKept
<1> DEFINE Kept == \A t \in Types :
              hosts[t] \in alive /\ hosts[t] \in alive' => hosts'[t] = hosts[t]
<1>1. IInv /\ [Next]_vars => [Kept]_vars
  <2> SUFFICES ASSUME IInv, [Next]_vars, NEW t \in Types,
                      hosts[t] \in alive, hosts[t] \in alive'
               PROVE  hosts'[t] = hosts[t]
    OBVIOUS
  <2> USE DEF IInv
  <2>1. ASSUME NEW c \in Callers, NEW p \in Procs, StartLaunch(c, p)
        PROVE  hosts'[t] = hosts[t]
    BY <2>1 DEF StartLaunch, HasLiveHost, TypeOK
  <2>2. ASSUME NEW c \in Callers, LaunchOK(c)
        PROVE  hosts'[t] = hosts[t]
    <3>1. hosts[req[c]] = NoProc /\ req[c] \in Types
      BY <2>2 DEF LaunchOK, Launching, LaunchInv, TypeOK
    <3>2. t # req[c]
      BY <3>1, ProcAssumption DEF TypeOK
    <3> QED BY <2>2, <3>2 DEF LaunchOK, RecordHost, TypeOK
  <2>3. ASSUME NEW c \in Callers, Close(c)
        PROVE  hosts'[t] = hosts[t]
    BY <2>3 DEF Close, ReapHosts
  <2>4. CASE UNCHANGED hosts
    BY <2>4
  <2> QED
    BY <2>1, <2>2, <2>3, <2>4
       DEF Next, Driver, Resolve, NotInstalled, Warm, Answered, LaunchFailed, Return,
           Crash, Reinstall, vars
<1> QED BY <1>1, Inductive, PTL DEF Spec, WarmIsKept

-----------------------------------------------------------------------------
(* PluginManager implements ModuleTable. *)

(* A step that hands nothing out and takes nothing back. *)
LEMMA SameUsing ==
    ASSUME \A d \in Callers : /\ pc'[d] = "served" <=> pc[d] = "served"
                              /\ pc[d] = "served" => req'[d] = req[d] /\ drv'[d] = drv[d]
    PROVE  Using' = Using
  BY DEF Using

(* A step of one caller, which is handed its driver or gives it back. *)
LEMMA OneUsing ==
    ASSUME NEW c \in Callers,
           \A d \in Callers \ {c} :
               pc'[d] = pc[d] /\ req'[d] = req[d] /\ drv'[d] = drv[d]
    PROVE  Using' = [Using EXCEPT ![c] = IF pc'[c] = "served"
                                         THEN [type |-> req'[c], proc |-> drv'[c]]
                                         ELSE NoProc]
  BY DEF Using

LEMMA InitTable == Init => Table!TableInit
<1> SUFFICES ASSUME Init PROVE Table!TableInit
  OBVIOUS
<1>1. alive = {} /\ kind \in [Procs -> Types] /\ \A c \in Callers : pc[c] = "idle"
  BY DEF Init
<1>2. Using = [c \in Callers |-> NoProc]
  BY <1>1 DEF Using
<1> QED BY <1>1, <1>2 DEF Table!TableInit

LEMMA StepTable == IInv /\ [Next]_vars => [Table!TableNext]_Table!TableVars
<1> SUFFICES ASSUME IInv, [Next]_vars PROVE [Table!TableNext]_Table!TableVars
  OBVIOUS
<1> USE DEF IInv
<1>1. ASSUME NEW c \in Callers, NEW t \in Types, Resolve(c, t)
      PROVE  UNCHANGED Table!TableVars
  <2>1. Using' = Using
    BY <1>1, SameUsing DEF Resolve, TypeOK
  <2> QED BY <1>1, <2>1 DEF Resolve, Table!TableVars
<1>2. ASSUME NEW c \in Callers, NotInstalled(c) \/ Answered(c)
      PROVE  UNCHANGED Table!TableVars
  <2>1. Using' = Using
    BY <1>2, SameUsing DEF NotInstalled, Answered, TypeOK
  <2> QED BY <1>2, <2>1 DEF NotInstalled, Answered, Table!TableVars
<1>3. ASSUME NEW c \in Callers, Warm(c)
      PROVE  \E t \in Types, p \in Procs : Table!Hand(c, t, p)
  <2>1. /\ req[c] \in Types /\ hosts[req[c]] \in Procs /\ kind[hosts[req[c]]] = req[c]
        /\ hosts[req[c]] \in alive
    BY <1>3, ProcAssumption DEF Warm, HasLiveHost, TypeOK, KindInv
  <2>2. Table!Serves(req[c]) \subseteq {hosts[req[c]]}
    BY <2>1, OwnedMeansOne DEF OnePerType, Table!Serves
  <2>3. Using[c] = NoProc
    BY <1>3 DEF Warm, Using
  <2>4. Using' = [Using EXCEPT ![c] = [type |-> req[c], proc |-> hosts[req[c]]]]
    <3>1. /\ pc'[c] = "served" /\ req'[c] = req[c] /\ drv'[c] = hosts[req[c]]
          /\ \A d \in Callers \ {c} :
                 pc'[d] = pc[d] /\ req'[d] = req[d] /\ drv'[d] = drv[d]
      BY <1>3 DEF Warm, TypeOK
    <3> QED BY <3>1, OneUsing
  <2> QED BY <1>3, <2>1, <2>2, <2>3, <2>4 DEF Warm, Table!Hand
<1>4. ASSUME NEW c \in Callers, NEW p \in Procs, StartLaunch(c, p)
      PROVE  \E t \in Types : Table!Launch(t, p)
  <2>1. req[c] \in Types
    BY DEF TypeOK
  <2>2. Table!Serves(req[c]) = {}
    <3> SUFFICES ASSUME NEW q \in alive, kind[q] = req[c] PROVE FALSE
      BY DEF Table!Serves
    <3>1. \A d \in Callers : ~Launching(d)
      BY <1>4, FreeMeansNoLaunch DEF StartLaunch
    <3>2. hosts[req[c]] = q
      BY <3>1 DEF Owned
    <3> QED BY <3>2, <1>4 DEF StartLaunch, HasLiveHost
  <2>3. \A d \in Callers : Using[d] # NoProc => Using[d].proc # p
    BY <1>4 DEF StartLaunch, Unused, Using
  <2>4. Using' = Using
    BY <1>4, SameUsing DEF StartLaunch, TypeOK
  <2> QED BY <1>4, <2>1, <2>2, <2>3, <2>4 DEF StartLaunch, Unused, Table!Launch
<1>5. ASSUME NEW c \in Callers, LaunchOK(c)
      PROVE  \E t \in Types, p \in Procs : Table!Hand(c, t, p)
  <2>1. /\ mu = c /\ drv[c] \in Procs /\ kind[drv[c]] = req[c] /\ req[c] \in Types
        /\ hosts[req[c]] = NoProc
    BY <1>5 DEF LaunchOK, Launching, LaunchInv, TypeOK
  <2>2. Table!Serves(req[c]) \subseteq {drv[c]}
    <3> SUFFICES ASSUME NEW q \in alive, kind[q] = req[c] PROVE q = drv[c]
      BY DEF Table!Serves
    <3>1. hosts[kind[q]] # q
      BY <2>1, ProcAssumption DEF TypeOK
    <3> QED BY <3>1, <2>1 DEF Owned
  <2>3. Using[c] = NoProc
    BY <1>5 DEF LaunchOK, Using
  <2>4. Using' = [Using EXCEPT ![c] = [type |-> req[c], proc |-> drv[c]]]
    <3>1. /\ pc'[c] = "served" /\ req'[c] = req[c] /\ drv'[c] = drv[c]
          /\ \A d \in Callers \ {c} :
                 pc'[d] = pc[d] /\ req'[d] = req[d] /\ drv'[d] = drv[d]
      BY <1>5 DEF LaunchOK, TypeOK
    <3> QED BY <3>1, OneUsing
  <2> QED BY <1>5, <2>1, <2>2, <2>3, <2>4 DEF LaunchOK, Table!Hand
<1>6. ASSUME NEW c \in Callers, LaunchFailed(c)
      PROVE  \E p \in Procs : Table!Exit(p)
  <2>1. drv[c] \in Procs
    BY <1>6 DEF LaunchFailed, Launching, LaunchInv
  <2>2. Using' = Using
    BY <1>6, SameUsing DEF LaunchFailed, TypeOK
  <2> QED BY <1>6, <2>1, <2>2 DEF LaunchFailed, KillOnError, Table!Exit
<1>7. ASSUME NEW c \in Callers, Return(c)
      PROVE  Table!Drop(c)
  <2>1. /\ pc'[c] # "served"
        /\ \A d \in Callers \ {c} :
               pc'[d] = pc[d] /\ req'[d] = req[d] /\ drv'[d] = drv[d]
    BY <1>7 DEF Return, TypeOK
  <2>2. Using' = [Using EXCEPT ![c] = NoProc]
    BY <2>1, OneUsing
  <2> QED BY <1>7, <2>2 DEF Return, Table!Drop
<1>8. ASSUME NEW c \in Callers, Close(c)
      PROVE  Table!ReapAll
  <2>1. alive' = {}
    <3>1. \A d \in Callers : ~Launching(d)
      BY <1>8, FreeMeansNoLaunch DEF Close
    <3> QED BY <1>8, <3>1 DEF Close, ReapHosts, Owned, TypeOK
  <2>2. Using' = Using
    BY <1>8 DEF Close, Using
  <2> QED BY <1>8, <2>1, <2>2 DEF Close, Table!ReapAll
<1>9. ASSUME NEW p \in Procs, Crash(p)
      PROVE  Table!Exit(p)
  BY <1>9 DEF Crash, Using, Table!Exit
<1>10. CASE (\E t \in Types : Reinstall(t)) \/ UNCHANGED vars
  BY <1>10 DEF Reinstall, vars, Using, Table!TableVars
<1> QED
  BY <1>1, <1>2, <1>3, <1>4, <1>5, <1>6, <1>7, <1>8, <1>9, <1>10
     DEF Next, Driver, Table!TableNext

(* The manager, with its two maps, its mutex and its launches in steps, is a table
   of at most one running process per type, and a driver is handed out for that
   process or, if none runs, for one that has died. *)
THEOREM ManagerImplementsTable == Spec => ImplementsTable
<1>1. Init => IInv /\ Table!TableInit
  BY InitIInv, InitTable
<1>2. IInv /\ [Next]_vars => IInv' /\ [Table!TableNext]_Table!TableVars
  BY StepIInv, StepTable
<1> QED BY <1>1, <1>2, PTL DEF Spec, ImplementsTable, Table!TableSpec

-----------------------------------------------------------------------------
(* WireHandoff. *)

HostPlaces == {"idle", "read", "boot", "splice", "done"}
PluginPlaces == {"none", "preamble", "await", "handshake", "announce", "splice", "closing", "closed"}

(* The side channel holds no line or one. *)
Line == {<<>>, <<"boot">>, <<"handled">>, <<"splice">>, <<"error">>}

Typed ==
    /\ wireSock \in {"unset", "path", ""}
    /\ up \in BOOLEAN /\ backend \in BOOLEAN
    /\ client \in [Conns -> {"open", "gone"}]
    /\ hpc \in [Conns -> HostPlaces]
    /\ res \in [Conns -> {"none", "nil", "error", "nowire"}]
    /\ ppc \in [Conns -> PluginPlaces]
    /\ toHost \in [Conns -> Line]
    /\ toPlugin \in [Conns -> {"none", "backend", "bootfail"}]
    /\ copies \in [Conns -> SUBSET {"up", "down"}]
    /\ shut \in SUBSET Conns /\ keys \in SUBSET Conns

(* What the host may find where it stands; a plugin's death only closes. *)
HostSide(c) ==
    /\ hpc[c] = "idle" => ppc[c] = "none"
    /\ hpc[c] = "boot" => ppc[c] \in {"await", "closed"} /\ toPlugin[c] = "none" /\ c \notin Cancels
    /\ hpc[c] = "splice" => ppc[c] \in {"splice", "closing", "closed"}

(* And what the plugin may. *)
PluginSide(c) ==
    /\ ppc[c] = "none" => hpc[c] \in {"idle", "done"} /\ toHost[c] = <<>> /\ toPlugin[c] = "none"
    /\ ppc[c] = "preamble" => hpc[c] = "read" /\ toHost[c] = <<>> /\ toPlugin[c] = "none"
    /\ ppc[c] = "await" => c \notin Cancels /\ (toPlugin[c] = "backend" => hpc[c] = "read" /\ toHost[c] = <<>>)
    /\ ppc[c] \in {"handshake", "announce"} => hpc[c] = "read" /\ toHost[c] = <<>>
    /\ ppc[c] = "splice" => hpc[c] = "splice" \/ toHost[c] = <<"splice">>

(* The host is there to read a line, which stands where it was written. *)
Channel(c) ==
    /\ toHost[c] # <<>> => hpc[c] = "read"
    /\ toHost[c] = <<"boot">> => ppc[c] \in {"await", "closed"} /\ toPlugin[c] = "none" /\ c \notin Cancels
    /\ toHost[c] = <<"splice">> => ppc[c] \in {"splice", "closing", "closed"}
    /\ toPlugin[c] # "none" => c \notin Cancels

Conversation == \A c \in Conns : HostSide(c) /\ PluginSide(c) /\ Channel(c)

Scoped == \A c \in keys : ppc[c] \in {"announce", "splice", "closing"}

Spliced == {c \in Conns : hpc[c] = "splice"}

(* Only finitely many connections are ever acquired. *)
Accounted == IsFiniteSet(Spliced) /\ active \in Nat /\ active = Cardinality(Spliced)

HandoffInv == Typed /\ Conversation /\ Scoped /\ Accounted

-----------------------------------------------------------------------------
(* Writing a line to an empty channel, and reading it. *)
LEMMA LineFacts ==
    /\ \A l \in {"boot", "handled", "splice", "error"} :
          /\ Append(<<>>, l) = <<l>> /\ <<l>> \in Line /\ <<l>> # <<>>
          /\ Head(<<l>>) = l /\ Tail(<<l>>) = <<>>
    /\ \A k, l \in {"boot", "handled", "splice", "error"} : <<k>> = <<l>> => k = l
    /\ \A s \in Line \ {<<>>} : \E l \in {"boot", "handled", "splice", "error"} : s = <<l>>
  BY DEF Line

LEMMA LineTypes ==
    ASSUME NEW s \in Line
    PROVE  s \in Seq({"boot", "handled", "splice", "error"}) /\ Len(s) <= 1
  <1>1. CASE s = <<>>
    BY <1>1
  <1>2. ASSUME NEW l \in {"boot", "handled", "splice", "error"}, s = <<l>>
        PROVE  s \in Seq({"boot", "handled", "splice", "error"}) /\ Len(s) <= 1
    BY <1>2
  <1> QED BY <1>1, <1>2, LineFacts

(* What the invariant says of one connection, and of the others if a step is of
   one connection only. *)
LEMMA OneConnection ==
    ASSUME HandoffInv, NEW c \in Conns,
           \A d \in Conns \ {c} : /\ hpc'[d] = hpc[d] /\ ppc'[d] = ppc[d]
                                  /\ toHost'[d] = toHost[d] /\ toPlugin'[d] = toPlugin[d],
           HostSide(c)', PluginSide(c)', Channel(c)'
    PROVE  Conversation'
  <1>1. ASSUME NEW d \in Conns \ {c} PROVE HostSide(d)' /\ PluginSide(d)' /\ Channel(d)'
    <2>1. HostSide(d) /\ PluginSide(d) /\ Channel(d)
      BY DEF HandoffInv, Conversation
    <2> QED BY <2>1 DEF HostSide, PluginSide, Channel
  <1> QED BY <1>1 DEF Conversation

(* A step in which nobody begins or ends to be spliced. *)
LEMMA SameAccounts ==
    ASSUME HandoffInv, UNCHANGED active, Typed', \A d \in Conns : hpc'[d] = "splice" <=> hpc[d] = "splice"
    PROVE  Accounted'
  <1>1. Spliced' = Spliced
    BY DEF Spliced
  <1> QED BY <1>1 DEF HandoffInv, Accounted

LEMMA InitHandoffInv == HandoffInit => HandoffInv
  <1> SUFFICES ASSUME HandoffInit PROVE HandoffInv
    OBVIOUS
  <1>1. Typed
    BY DEF HandoffInit, Typed, HostPlaces, PluginPlaces, Line
  <1>2. Conversation
    BY DEF HandoffInit, Conversation, HostSide, PluginSide, Channel
  <1>3. Scoped
    BY DEF HandoffInit, Scoped
  <1>4. Spliced = {}
    BY DEF HandoffInit, Spliced
  <1>5. Accounted
    BY <1>4, FS_EmptySet DEF HandoffInit, Accounted
  <1> QED BY <1>1, <1>2, <1>3, <1>5 DEF HandoffInv

-----------------------------------------------------------------------------
(* The steps of Handoff that touch neither the accounting nor the side channel. *)
LEMMA HostHandoffInv ==
    ASSUME HandoffInv, NEW c \in Conns,
           NoWireProxy(c) \/ HandOver(c) \/ HandOverFails(c) \/ Booted(c) \/ BootFailed(c)
           \/ HostEOF(c) \/ HostReadFails(c)
    PROVE  HandoffInv'
  <1>1. HostSide(c) /\ PluginSide(c) /\ Channel(c)
    BY DEF HandoffInv, Conversation
  <1>2. /\ UNCHANGED <<active, keys, shut, copies, toHost, client, up, wireSock>>
        /\ \A d \in Conns \ {c} : hpc'[d] = hpc[d] /\ ppc'[d] = ppc[d] /\ toPlugin'[d] = toPlugin[d]
        /\ hpc[c] # "splice" /\ hpc'[c] # "splice"
    BY DEF NoWireProxy, HandOver, HandOverFails, Booted, BootFailed, HostEOF, HostReadFails, Finish, Step, plugin,
           HandoffInv, Typed
  <1>3. Typed'
    <2>1. hpc' \in [Conns -> HostPlaces] /\ res' \in [Conns -> {"none", "nil", "error", "nowire"}]
      BY DEF NoWireProxy, HandOver, HandOverFails, Booted, BootFailed, HostEOF, HostReadFails, Finish,
             HandoffInv, Typed, HostPlaces
    <2>2. ppc' \in [Conns -> PluginPlaces]
      <3>1. ppc' = ppc \/ ppc' = [ppc EXCEPT ![c] = "preamble"]
        BY DEF NoWireProxy, HandOver, HandOverFails, Booted, BootFailed, HostEOF, HostReadFails, Step, plugin
      <3> QED BY <3>1 DEF HandoffInv, Typed, PluginPlaces
    <2>3. /\ toPlugin' \in [Conns -> {"none", "backend", "bootfail"}]
          /\ backend' \in BOOLEAN
      BY DEF NoWireProxy, HandOver, HandOverFails, Booted, BootFailed, HostEOF, HostReadFails, HandoffInv, Typed
    <2> QED BY <1>2, <2>1, <2>2, <2>3 DEF HandoffInv, Typed
  <1>4. HostSide(c)' /\ PluginSide(c)' /\ Channel(c)'
    <2>1. CASE NoWireProxy(c) \/ HandOverFails(c)
      <3>1. hpc[c] = "idle" /\ hpc'[c] = "done" /\ ppc' = ppc /\ toPlugin' = toPlugin
        BY <2>1 DEF NoWireProxy, HandOverFails, Finish, plugin, HandoffInv, Typed
      <3> QED BY <1>1, <1>2, <3>1 DEF HostSide, PluginSide, Channel
    <2>2. CASE HandOver(c)
      <3>1. hpc[c] = "idle" /\ hpc'[c] = "read" /\ ppc'[c] = "preamble" /\ toPlugin' = toPlugin
        BY <2>2 DEF HandOver, Step, HandoffInv, Typed
      <3> QED BY <1>1, <1>2, <3>1 DEF HostSide, PluginSide, Channel
    <2>3. CASE Booted(c)
      <3>1. hpc[c] = "boot" /\ hpc'[c] = "read" /\ ppc' = ppc /\ toPlugin'[c] = "backend"
        BY <2>3 DEF Booted, plugin, HandoffInv, Typed
      <3> QED BY <1>1, <1>2, <3>1 DEF HostSide, PluginSide, Channel
    <2>4. CASE BootFailed(c)
      <3>1. hpc[c] = "boot" /\ hpc'[c] = "done" /\ ppc' = ppc /\ toPlugin'[c] = "bootfail"
        BY <2>4 DEF BootFailed, Finish, plugin, HandoffInv, Typed
      <3> QED BY <1>1, <1>2, <3>1 DEF HostSide, PluginSide, Channel
    <2>5. CASE HostEOF(c) \/ HostReadFails(c)
      <3>1. /\ hpc[c] = "read" /\ hpc'[c] = "done" /\ ppc' = ppc /\ toPlugin' = toPlugin
            /\ ppc[c] = "closed" /\ toHost[c] = <<>>
        BY <2>5 DEF HostEOF, HostReadFails, Finish, Closed, plugin, HandoffInv, Typed
      <3> QED BY <1>1, <1>2, <3>1 DEF HostSide, PluginSide, Channel
    <2> QED BY <2>1, <2>2, <2>3, <2>4, <2>5
  <1>5. Conversation'
    BY <1>2, <1>4, OneConnection
  <1>6. Accounted'
    BY <1>2, <1>3, SameAccounts
  <1>7. Scoped'
    <2>1. ppc[c] # "none" => ppc'[c] = ppc[c]
      BY DEF NoWireProxy, HandOver, HandOverFails, Booted, BootFailed, HostEOF, HostReadFails, Step, plugin
    <2>2. keys \subseteq Conns
      BY DEF HandoffInv, Typed
    <2> QED BY <1>2, <2>1, <2>2 DEF HandoffInv, Scoped
  <1> QED BY <1>3, <1>5, <1>6, <1>7 DEF HandoffInv

(* Handoff reads the line that is there, and the channel is empty. *)
LEMMA ReceiveFacts ==
    ASSUME HandoffInv, NEW c \in Conns, NEW l \in {"boot", "handled", "splice", "error"}, Receive(c, l)
    PROVE  /\ hpc[c] = "read" /\ toHost[c] = <<l>> /\ toHost' \in [Conns -> Line]
           /\ toHost'[c] = <<>> /\ \A d \in Conns \ {c} : toHost'[d] = toHost[d]
  <1>1. toHost[c] \in Line \ {<<>>} /\ Head(toHost[c]) = l
    BY DEF Receive, HandoffInv, Typed
  <1>2. toHost[c] = <<l>>
    BY <1>1, LineFacts
  <1>3. toHost' = [toHost EXCEPT ![c] = <<>>]
    BY <1>2, LineFacts DEF Receive
  <1> QED BY <1>2, <1>3 DEF Receive, HandoffInv, Typed, Line

LEMMA ReadHandoffInv ==
    ASSUME HandoffInv, NEW c \in Conns, HostHandled(c) \/ HostError(c) \/ HostBoot(c)
    PROVE  HandoffInv'
  <1>1. HostSide(c) /\ PluginSide(c) /\ Channel(c)
    BY DEF HandoffInv, Conversation
  <1>2. PICK l \in {"boot", "handled", "error"} :
           /\ Receive(c, l)
           /\ hpc' = [hpc EXCEPT ![c] = IF l = "boot" THEN "boot" ELSE "done"]
           /\ res' \in {res, [res EXCEPT ![c] = "nil"], [res EXCEPT ![c] = "error"]}
    BY DEF HostHandled, HostError, HostBoot, Finish
  <1>3. UNCHANGED <<wireSock, up, client, ppc, copies, shut, keys, toPlugin, active, backend>>
    BY DEF HostHandled, HostError, HostBoot, plugin
  <1>4. /\ hpc[c] = "read" /\ toHost[c] = <<l>> /\ toHost' \in [Conns -> Line]
        /\ toHost'[c] = <<>> /\ \A d \in Conns \ {c} : toHost'[d] = toHost[d]
    BY <1>2, ReceiveFacts
  <1>5. hpc'[c] = (IF l = "boot" THEN "boot" ELSE "done") /\ \A d \in Conns \ {c} : hpc'[d] = hpc[d]
    BY <1>2 DEF HandoffInv, Typed
  <1>6. Typed'
    BY <1>2, <1>3, <1>4 DEF HandoffInv, Typed, HostPlaces
  <1>7. HostSide(c)' /\ PluginSide(c)' /\ Channel(c)'
    BY <1>1, <1>3, <1>4, <1>5, LineFacts DEF HostSide, PluginSide, Channel
  <1>8. Conversation'
    BY <1>3, <1>4, <1>5, <1>7, OneConnection
  <1>9. Accounted'
    BY <1>3, <1>4, <1>5, <1>6, SameAccounts
  <1>10. Scoped'
    BY <1>3 DEF HandoffInv, Scoped
  <1> QED BY <1>6, <1>8, <1>9, <1>10 DEF HandoffInv

(* Acquire adds the connection to those spliced, Release takes it out. *)
LEMMA AcquireHandoffInv ==
    ASSUME HandoffInv, NEW c \in Conns, HostAcquire(c)
    PROVE  HandoffInv'
  <1>1. HostSide(c) /\ PluginSide(c) /\ Channel(c)
    BY DEF HandoffInv, Conversation
  <1>2. /\ UNCHANGED <<wireSock, up, client, res, ppc, copies, shut, keys, toPlugin, backend>>
        /\ Receive(c, "splice") /\ active' = active + 1 /\ hpc' = [hpc EXCEPT ![c] = "splice"]
    BY DEF HostAcquire, plugin
  <1>3. /\ hpc[c] = "read" /\ toHost[c] = <<"splice">> /\ toHost' \in [Conns -> Line]
        /\ toHost'[c] = <<>> /\ \A d \in Conns \ {c} : toHost'[d] = toHost[d]
    BY <1>2, ReceiveFacts
  <1>4. hpc'[c] = "splice" /\ \A d \in Conns \ {c} : hpc'[d] = hpc[d]
    BY <1>2 DEF HandoffInv, Typed
  <1>5. Typed'
    BY <1>2, <1>3 DEF HandoffInv, Typed, HostPlaces
  <1>6. HostSide(c)' /\ PluginSide(c)' /\ Channel(c)'
    BY <1>1, <1>2, <1>3, <1>4, LineFacts DEF HostSide, PluginSide, Channel
  <1>7. Conversation'
    BY <1>2, <1>3, <1>4, <1>6, OneConnection
  <1>8. Accounted'
    <2>1. Spliced' = Spliced \cup {c} /\ c \notin Spliced
      BY <1>3, <1>4 DEF Spliced
    <2>2. IsFiniteSet(Spliced') /\ Cardinality(Spliced') = Cardinality(Spliced) + 1
      BY <2>1, FS_AddElement DEF HandoffInv, Accounted
    <2> QED BY <1>2, <2>2 DEF HandoffInv, Accounted
  <1>9. Scoped'
    BY <1>2 DEF HandoffInv, Scoped
  <1> QED BY <1>5, <1>7, <1>8, <1>9 DEF HandoffInv

LEMMA ReleaseHandoffInv ==
    ASSUME HandoffInv, NEW c \in Conns, HostRelease(c)
    PROVE  HandoffInv'
  <1>1. HostSide(c) /\ PluginSide(c) /\ Channel(c)
    BY DEF HandoffInv, Conversation
  <1>2. /\ UNCHANGED <<wireSock, up, client, ppc, copies, shut, keys, toHost, toPlugin, backend>>
        /\ hpc[c] = "splice" /\ ppc[c] = "closed" /\ active' = active - 1
        /\ hpc' = [hpc EXCEPT ![c] = "done"] /\ res' = [res EXCEPT ![c] = "nil"]
    BY DEF HostRelease, Released, Finish, Closed, plugin
  <1>3. hpc'[c] = "done" /\ \A d \in Conns \ {c} : hpc'[d] = hpc[d]
    BY <1>2 DEF HandoffInv, Typed
  <1>4. Typed'
    BY <1>2 DEF HandoffInv, Typed, HostPlaces
  <1>5. HostSide(c)' /\ PluginSide(c)' /\ Channel(c)'
    BY <1>1, <1>2, <1>3 DEF HostSide, PluginSide, Channel
  <1>6. Conversation'
    BY <1>2, <1>3, <1>5, OneConnection
  <1>7. Accounted'
    <2>1. Spliced' = Spliced \ {c} /\ c \in Spliced
      BY <1>2, <1>3 DEF Spliced
    <2>2. IsFiniteSet(Spliced') /\ Cardinality(Spliced') = Cardinality(Spliced) - 1
      BY <2>1, FS_RemoveElement DEF HandoffInv, Accounted
    <2>3. Cardinality(Spliced') \in Nat
      BY <2>2, FS_CardinalityType
    <2> QED BY <1>2, <2>2, <2>3 DEF HandoffInv, Accounted
  <1>8. Scoped'
    BY <1>2 DEF HandoffInv, Scoped
  <1> QED BY <1>4, <1>6, <1>7, <1>8 DEF HandoffInv

-----------------------------------------------------------------------------
(* A step of handle: it leaves the host where it is, and a line it writes finds
   the channel empty. *)
LEMMA HandleHandoffInv ==
    ASSUME HandoffInv, NEW c \in Conns,
           UNCHANGED <<wireSock, up, client, hpc, res, toPlugin, active, backend>>,
           NEW to \in PluginPlaces, ppc' = [ppc EXCEPT ![c] = to],
           toHost' = toHost \/ \E l \in {"boot", "handled", "splice", "error"} :
                                  toHost[c] = <<>> /\ Send(c, l),
           copies' \in [Conns -> SUBSET {"up", "down"}],
           shut' \in SUBSET Conns, keys' \in SUBSET (keys \cup {c}),
           c \in keys' => to \in {"announce", "splice", "closing"},
           HostSide(c)', PluginSide(c)', Channel(c)'
    PROVE  HandoffInv'
  <1>1. toHost' \in [Conns -> Line] /\ \A d \in Conns \ {c} : toHost'[d] = toHost[d]
    <2>1. ASSUME NEW l \in {"boot", "handled", "splice", "error"}, toHost[c] = <<>>, Send(c, l)
          PROVE  toHost' = [toHost EXCEPT ![c] = <<l>>] /\ <<l>> \in Line
      BY <2>1, LineFacts DEF Send
    <2>2. toHost \in [Conns -> Line]
      BY DEF HandoffInv, Typed
    <2>3. CASE toHost' = toHost
      BY <2>2, <2>3
    <2>4. ASSUME NEW l \in {"boot", "handled", "splice", "error"}, toHost[c] = <<>>, Send(c, l)
          PROVE  toHost' \in [Conns -> Line] /\ \A d \in Conns \ {c} : toHost'[d] = toHost[d]
      BY <2>1, <2>2, <2>4
    <2> QED BY <2>3, <2>4
  <1>2. ppc'[c] = to /\ \A d \in Conns \ {c} : ppc'[d] = ppc[d]
    BY DEF HandoffInv, Typed
  <1>3. Typed'
    BY <1>1 DEF HandoffInv, Typed
  <1>4. Conversation'
    BY <1>1, <1>2, OneConnection
  <1>5. Accounted'
    BY <1>3, SameAccounts
  <1>6. Scoped'
    BY <1>2 DEF HandoffInv, Typed, Scoped
  <1> QED BY <1>3, <1>4, <1>5, <1>6 DEF HandoffInv

(* The steps of handle that write nothing. *)
LEMMA SilentHandoffInv ==
    ASSUME HandoffInv, NEW c \in Conns,
           \/ NotReceived(c) \/ DialBackend(c) \/ NoBackend(c) \/ SpliceEnds(c) \/ HandleReturns(c)
           \/ \E ready \in BOOLEAN : Handshake(c, ready)
           \/ \E dir \in {"up", "down"} : CopyEnds(c, dir)
    PROVE  HandoffInv'
  <1>1. HostSide(c) /\ PluginSide(c) /\ Channel(c)
    BY DEF HandoffInv, Conversation
  <1>2. UNCHANGED <<wireSock, up, client, hpc, res, toHost, toPlugin, active, backend>>
    BY DEF NotReceived, DialBackend, NoBackend, SpliceEnds, HandleReturns, Handshake, CopyEnds
  <1>3. keys \in SUBSET Conns /\ shut \in SUBSET Conns
        /\ copies \in [Conns -> SUBSET {"up", "down"}] /\ ppc \in [Conns -> PluginPlaces]
    BY DEF HandoffInv, Typed
  <1>4. CASE DialBackend(c)
    <2>1. /\ ppc[c] = "await" /\ ppc' = [ppc EXCEPT ![c] = "handshake"] /\ toPlugin[c] = "backend"
          /\ UNCHANGED <<copies, shut, keys>>
      BY <1>4 DEF DialBackend, Step, After
    <2>2. ppc'[c] = "handshake" /\ c \notin keys
      BY <1>3, <2>1 DEF HandoffInv, Scoped
    <2>3. HostSide(c)' /\ PluginSide(c)' /\ Channel(c)'
      BY <1>1, <1>2, <2>1, <2>2, LineFacts DEF HostSide, PluginSide, Channel
    <2> QED BY <1>2, <1>3, <2>1, <2>2, <2>3, HandleHandoffInv DEF PluginPlaces
  <1>5. CASE NoBackend(c)
    <2>1. /\ ppc[c] = "await" /\ ppc' = [ppc EXCEPT ![c] = "closing"]
          /\ toPlugin[c] = "none" => hpc[c] = "done"
          /\ UNCHANGED <<copies, shut, keys>>
      BY <1>5 DEF NoBackend, HostClosed, Step
    <2>2. ppc'[c] = "closing"
      BY <1>3, <2>1
    <2>3. HostSide(c)' /\ PluginSide(c)' /\ Channel(c)'
      BY <1>1, <1>2, <2>1, <2>2, LineFacts DEF HostSide, PluginSide, Channel
    <2> QED BY <1>2, <1>3, <2>1, <2>2, <2>3, HandleHandoffInv DEF PluginPlaces
  <1>6. ASSUME NEW ready \in BOOLEAN, Handshake(c, ready) PROVE HandoffInv'
    <2>1. PICK to \in {"announce", "closing"} :
             /\ ppc[c] = "handshake" /\ ppc' = [ppc EXCEPT ![c] = to]
             /\ keys' \in {keys, keys \cup {c}} /\ UNCHANGED <<copies, shut>>
      BY <1>6 DEF Handshake, Step, After
    <2>2. ppc'[c] = to
      BY <1>3, <2>1
    <2>3. HostSide(c)' /\ PluginSide(c)' /\ Channel(c)'
      BY <1>1, <1>2, <2>1, <2>2, LineFacts DEF HostSide, PluginSide, Channel
    <2> QED BY <1>2, <1>3, <2>1, <2>2, <2>3, HandleHandoffInv DEF PluginPlaces
  <1>7. ASSUME NEW dir \in {"up", "down"}, CopyEnds(c, dir) PROVE HandoffInv'
    <2>1. /\ ppc[c] = "splice" /\ ppc' = ppc /\ keys' = keys /\ shut' = shut \cup {c}
          /\ copies' = [copies EXCEPT ![c] = @ \ {dir}]
      BY <1>7 DEF CopyEnds, CloseBoth
    <2>2. ppc' = [ppc EXCEPT ![c] = "splice"] /\ ppc'[c] = "splice"
      BY <1>3, <2>1
    <2>3. HostSide(c)' /\ PluginSide(c)' /\ Channel(c)'
      BY <1>1, <1>2, <2>1 DEF HostSide, PluginSide, Channel
    <2> QED BY <1>2, <1>3, <2>1, <2>2, <2>3, HandleHandoffInv DEF PluginPlaces
  <1>8. CASE SpliceEnds(c)
    <2>1. /\ ppc[c] = "splice" /\ ppc' = [ppc EXCEPT ![c] = "closing"]
          /\ UNCHANGED <<copies, shut, keys>>
      BY <1>8 DEF SpliceEnds, Step
    <2>2. ppc'[c] = "closing"
      BY <1>3, <2>1
    <2>3. HostSide(c)' /\ PluginSide(c)' /\ Channel(c)'
      BY <1>1, <1>2, <2>1, <2>2, LineFacts DEF HostSide, PluginSide, Channel
    <2> QED BY <1>2, <1>3, <2>1, <2>2, <2>3, HandleHandoffInv DEF PluginPlaces
  <1>9. CASE HandleReturns(c)
    <2>1. /\ ppc[c] = "closing" /\ ppc' = [ppc EXCEPT ![c] = "closed"] /\ keys' = keys \ {c}
          /\ UNCHANGED <<copies, shut>>
      BY <1>9 DEF HandleReturns, Step, Cleanup
    <2>2. ppc'[c] = "closed"
      BY <1>3, <2>1
    <2>3. HostSide(c)' /\ PluginSide(c)' /\ Channel(c)'
      BY <1>1, <1>2, <2>1, <2>2, LineFacts DEF HostSide, PluginSide, Channel
    <2> QED BY <1>2, <1>3, <2>1, <2>2, <2>3, HandleHandoffInv DEF PluginPlaces
  <1>10. CASE NotReceived(c)
    <2>1. /\ ppc[c] = "preamble" /\ ppc' = [ppc EXCEPT ![c] = "closing"]
          /\ UNCHANGED <<copies, shut, keys>>
      BY <1>10 DEF NotReceived, Step
    <2>2. ppc'[c] = "closing"
      BY <1>3, <2>1
    <2>3. HostSide(c)' /\ PluginSide(c)' /\ Channel(c)'
      BY <1>1, <1>2, <2>1, <2>2, LineFacts DEF HostSide, PluginSide, Channel
    <2> QED BY <1>2, <1>3, <2>1, <2>2, <2>3, HandleHandoffInv DEF PluginPlaces
  <1> QED BY <1>4, <1>5, <1>6, <1>7, <1>8, <1>9, <1>10

(* The lines handle writes. *)
LEMMA WriteHandoffInv ==
    ASSUME HandoffInv, NEW c \in Conns,
           PreambleHandled(c) \/ PreambleFailed(c) \/ PreambleDone(c) \/ Announce(c)
    PROVE  HandoffInv'
  <1>1. HostSide(c) /\ PluginSide(c) /\ Channel(c)
    BY DEF HandoffInv, Conversation
  <1>2. UNCHANGED <<wireSock, up, client, hpc, res, toPlugin, active, backend>>
    BY DEF PreambleHandled, PreambleFailed, PreambleDone, Announce
  <1>3. keys \in SUBSET Conns /\ shut \in SUBSET Conns /\ toHost \in [Conns -> Line]
        /\ copies \in [Conns -> SUBSET {"up", "down"}] /\ ppc \in [Conns -> PluginPlaces]
    BY DEF HandoffInv, Typed
  <1>4. ASSUME NEW l \in {"boot", "handled", "splice", "error"}, toHost[c] = <<>>, Send(c, l)
        PROVE  toHost'[c] = <<l>>
    BY <1>3, <1>4, LineFacts DEF Send
  <1>5. CASE PreambleHandled(c) \/ PreambleFailed(c)
    <2>1. PICK l \in {"handled", "error"} :
             /\ ppc[c] = "preamble" /\ ppc' = [ppc EXCEPT ![c] = "closing"] /\ Send(c, l)
             /\ UNCHANGED <<copies, shut, keys>>
      BY <1>5 DEF PreambleHandled, PreambleFailed, Step
    <2>2. ppc'[c] = "closing" /\ toHost[c] = <<>> /\ toHost'[c] = <<l>>
      BY <1>1, <1>3, <1>4, <2>1 DEF PluginSide
    <2>3. HostSide(c)' /\ PluginSide(c)' /\ Channel(c)'
      BY <1>1, <1>2, <2>1, <2>2, LineFacts DEF HostSide, PluginSide, Channel
    <2> QED BY <1>2, <1>3, <2>1, <2>2, <2>3, HandleHandoffInv DEF PluginPlaces
  <1>6. CASE PreambleDone(c)
    <2>1. /\ ppc[c] = "preamble" /\ ppc' = [ppc EXCEPT ![c] = "await"] /\ Send(c, "boot")
          /\ UNCHANGED <<copies, shut, keys>> /\ c \notin Cancels
      BY <1>6 DEF PreambleDone, Step, Handled
    <2>2. ppc'[c] = "await" /\ toHost[c] = <<>> /\ toHost'[c] = <<"boot">> /\ c \notin keys
      BY <1>1, <1>3, <1>4, <2>1 DEF PluginSide, HandoffInv, Scoped
    <2>3. HostSide(c)' /\ PluginSide(c)' /\ Channel(c)'
      BY <1>1, <1>2, <2>1, <2>2, LineFacts DEF HostSide, PluginSide, Channel
    <2> QED BY <1>2, <1>3, <2>1, <2>2, <2>3, HandleHandoffInv DEF PluginPlaces
  <1>7. CASE Announce(c)
    <2>1. /\ ppc[c] = "announce" /\ ppc' = [ppc EXCEPT ![c] = "splice"] /\ Send(c, "splice")
          /\ UNCHANGED <<shut, keys>> /\ copies' = [copies EXCEPT ![c] = {"up", "down"}]
      BY <1>7 DEF Announce, Announced, Step, After
    <2>2. ppc'[c] = "splice" /\ toHost[c] = <<>> /\ toHost'[c] = <<"splice">>
      BY <1>1, <1>3, <1>4, <2>1 DEF PluginSide
    <2>3. HostSide(c)' /\ PluginSide(c)' /\ Channel(c)'
      BY <1>1, <1>2, <2>1, <2>2, LineFacts DEF HostSide, PluginSide, Channel
    <2> QED BY <1>2, <1>3, <2>1, <2>2, <2>3, HandleHandoffInv DEF PluginPlaces
  <1> QED BY <1>5, <1>6, <1>7

(* What neither side controls. *)
LEMMA AroundHandoffInv ==
    ASSUME HandoffInv,
           WireAddr \/ PluginDies \/ BackendStops \/ (\E c \in Conns : ClientGoes(c))
           \/ UNCHANGED handoffVars
    PROVE  HandoffInv'
  <1>1. CASE PluginDies
    <2>1. /\ UNCHANGED <<wireSock, client, hpc, res, toHost, toPlugin, shut, active, backend>>
          /\ up' = FALSE /\ keys' = {} /\ copies' = [c \in Conns |-> {}]
          /\ \A c \in Conns : ppc'[c] = IF ppc[c] = "none" THEN "none" ELSE "closed"
          /\ ppc' \in [Conns -> PluginPlaces]
      BY <1>1 DEF PluginDies, PluginPlaces
    <2>2. Typed'
      BY <2>1 DEF HandoffInv, Typed
    <2>3. Conversation'
      <3>1. ASSUME NEW c \in Conns PROVE HostSide(c)' /\ PluginSide(c)' /\ Channel(c)'
        <4>1. HostSide(c) /\ PluginSide(c) /\ Channel(c)
          BY DEF HandoffInv, Conversation
        <4> QED BY <2>1, <4>1 DEF HostSide, PluginSide, Channel
      <3> QED BY <3>1 DEF Conversation
    <2>4. Accounted'
      BY <2>1, <2>2, SameAccounts
    <2> QED BY <2>1, <2>2, <2>3, <2>4 DEF HandoffInv, Scoped
  <1>2. CASE WireAddr \/ BackendStops \/ (\E c \in Conns : ClientGoes(c)) \/ UNCHANGED handoffVars
    <2>1. UNCHANGED <<hpc, ppc, toHost, toPlugin, keys, active>>
      BY <1>2 DEF WireAddr, BackendStops, ClientGoes, handoffVars, plugin
    <2>2. Typed'
      BY <1>2 DEF WireAddr, BackendStops, ClientGoes, handoffVars, plugin, HandoffInv, Typed
    <2>3. Conversation'
      BY <2>1 DEF HandoffInv, Conversation, HostSide, PluginSide, Channel
    <2>4. Accounted'
      BY <2>1, <2>2, SameAccounts
    <2> QED BY <2>1, <2>2, <2>3, <2>4 DEF HandoffInv, Scoped
  <1> QED BY <1>1, <1>2

LEMMA NextHandoffInv == HandoffInv /\ [HandoffNext]_handoffVars => HandoffInv'
  <1> SUFFICES ASSUME HandoffInv, [HandoffNext]_handoffVars PROVE HandoffInv'
    OBVIOUS
  <1>1. ASSUME NEW c \in Conns, HostStep(c) PROVE HandoffInv'
    BY <1>1, HostHandoffInv, ReadHandoffInv, AcquireHandoffInv, ReleaseHandoffInv DEF HostStep
  <1>2. ASSUME NEW c \in Conns, PluginStep(c) PROVE HandoffInv'
    BY <1>2, SilentHandoffInv, WriteHandoffInv DEF PluginStep
  <1> QED BY <1>1, <1>2, AroundHandoffInv DEF HandoffNext

-----------------------------------------------------------------------------
(* Where either end of a connection stands says where the other one may, and what
   is between them (Handoff, wire.go:27; handle, wireserver.go:89). *)
THEOREM HandoffInductive == HandoffSpec => []HandoffInv
  <1> QED BY InitHandoffInv, NextHandoffInv, PTL DEF HandoffSpec

(* However connections, the plugin's death and the backend's end interleave, the
   idle accounting counts the connections acquired and not released: Acquire and
   the deferred Release of Handoff (wire.go:27) pair up. *)
THEOREM AccountsBalance == HandoffSpec => []Balanced
  <1>1. HandoffInv => Balanced
    <2> SUFFICES ASSUME HandoffInv PROVE Balanced
      OBVIOUS
    <2>1. toHost \in [Conns -> Line]
      BY DEF HandoffInv, Typed
    <2>2. \A c \in Conns : /\ toHost[c] \in Seq({"boot", "handled", "splice", "error"})
                            /\ Len(toHost[c]) <= 1
      BY <2>1, LineTypes
    <2>3. toHost \in [Conns -> Seq({"boot", "handled", "splice", "error"})]
      BY <2>1, <2>2
    <2> QED BY <2>2, <2>3 DEF HandoffInv, Typed, Accounted, Spliced, Balanced, HandoffTypeOK, HostPlaces, PluginPlaces
  <1> QED BY <1>1, HandoffInductive, PTL

(* The backend is busy only with connections whose handshake was ready, and each of
   those is counted or about to be: handle announces after the handshake and
   before it splices (wireserver.go:89). *)
THEOREM OnlyReadyAccounted == HandoffSpec => []AccountedIsReady
  <1>1. HandoffInv => AccountedIsReady
    <2> SUFFICES ASSUME HandoffInv, NEW c \in Conns
                 PROVE  /\ hpc[c] = "splice" => ppc[c] \in {"splice", "closing", "closed"}
                        /\ "splice" \in {toHost[c][n] : n \in 1..Len(toHost[c])} =>
                              ppc[c] \in {"splice", "closing", "closed"}
                        /\ ppc[c] = "splice" => hpc[c] = "splice" \/ toHost[c] = <<"splice">>
      BY DEF AccountedIsReady
    <2>1. HostSide(c) /\ PluginSide(c) /\ Channel(c) /\ toHost[c] \in Line
      BY DEF HandoffInv, Conversation, Typed
    <2>2. ASSUME "splice" \in {toHost[c][n] : n \in 1..Len(toHost[c])} PROVE toHost[c] = <<"splice">>
      <3>1. PICK n \in 1..Len(toHost[c]) : toHost[c][n] = "splice"
        BY <2>2
      <3>2. toHost[c] # <<>>
        BY <3>1
      <3>3. PICK l \in {"boot", "handled", "splice", "error"} : toHost[c] = <<l>>
        BY <2>1, <3>2, LineFacts
      <3> QED BY <3>1, <3>3
    <2> QED BY <2>1, <2>2 DEF HostSide, PluginSide, Channel
  <1> QED BY <1>1, HandoffInductive, PTL

(* A cancel key is registered only between its connection's handshake and the end
   of handle, whose deferred cleanup takes it out, and a cancel request boots no
   backend (wireserver.go:89). *)
THEOREM KeysAreScoped == HandoffSpec => []KeysScoped
  <1>1. HandoffInv => KeysScoped
    BY CancelAssumption DEF HandoffInv, Scoped, Conversation, HostSide, Channel, KeysScoped
  <1> QED BY <1>1, HandoffInductive, PTL

=============================================================================
