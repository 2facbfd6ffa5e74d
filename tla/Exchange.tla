------------------------------ MODULE Exchange -----------------------------
(***************************************************************************)
(* What a host and a module tell each other about one instance: the module *)
(* author's test of the instance's network (src/enginetest/network.go),    *)
(* the host that asks for the network, judges it, sets it up and grants it *)
(* (src/plugin/adapter.go, server.go; what it does with the answer is the  *)
(* host's own), and the calls that then carry the granted instance to the  *)
(* module and an answer back.                                              *)
(*                                                                         *)
(* Every value crosses as a message (WireValues), and the two sides share  *)
(* nothing else.  An older host grants nothing and never asks.             *)
(***************************************************************************)
EXTENDS Networks, FiniteSets

CONSTANTS
    Instances,   \* the host's instance, before a grant
    Modules,     \* modules: whether one implements Networked, what its Network returns
                 \* when a process first calls it, and from then on
    Values,      \* for each kind, values a call may carry
    Zone,        \* what follows an instance's name in its host: ".<stack>.doze"
    MaxAsks      \* bound on how often the host asks

ASSUME AsksAssumption == MaxAsks \in Nat

VARIABLES
    inst,      \* the host's instance
    module,    \* the module: networked, first, later
    checked,   \* CheckNetwork in the author's test: "no", "passed" or "failed"
    asked,     \* how often the host asked
    network,   \* pluginDriver.Network's answer
    verdict,   \* what the host made of it: "none", "taken" or "refused"
    served,    \* the network it serves
    heard,     \* the Reporter heard of an answer that never came
    seen,      \* the instance as the module last saw it
    pc,        \* where the host's call is
    kind, value, wire, got  \* what crossed last: its kind, sent, sent as, arrived

crossing == <<kind, value, wire, got>>
vars == <<inst, module, checked, asked, network, verdict, served, heard, seen, pc,
          crossing>>

-----------------------------------------------------------------------------
(* The kinds of values a call carries: those of Resolve, and those of a call
   about an instance. *)
ResolveKinds == {"platform", "locks", "toolchain"}
CallKinds == {"toolchain", "endpoint", "objects", "plan", "restart", "actions",
              "resources", "console"}
Kinds == {"none", "instance", "network"} \cup ResolveKinds \cup CallKinds

ToProto(k, v) ==
    CASE k = "instance" -> instanceToProto(v)
      [] k = "network" -> networkToProto(v)
      [] k = "platform" -> platformToProto(v)
      [] k = "locks" -> lockEntriesToProto(v)
      [] k = "toolchain" -> toolchainToProto(v)
      [] k = "endpoint" -> endpointToProto(v)
      [] k = "objects" -> objectsToProto(v)
      [] k = "plan" -> planToProto(v)
      [] k = "restart" -> restartToProto(v)
      [] k = "actions" -> actionsToProto(v)
      [] k = "resources" -> resourcesToProto(v)
      [] k = "console" -> consoleSpecToProto(v)
      [] OTHER -> Nil

FromProto(k, m) ==
    CASE k = "instance" -> instanceFromProto(m)
      [] k = "network" -> networkFromProto(m)
      [] k = "platform" -> platformFromProto(m)
      [] k = "locks" -> lockEntriesFromProto(m)
      [] k = "toolchain" -> toolchainFromProto(m)
      [] k = "endpoint" -> endpointFromProto(m)
      [] k = "objects" -> objectsFromProto(m)
      [] k = "plan" -> planFromProto(m)
      [] k = "restart" -> restartFromProto(m)
      [] k = "actions" -> actionsFromProto(m)
      [] k = "resources" -> resourcesFromProto(m)
      [] k = "console" -> consoleSpecFromProto(m)
      [] OTHER -> Nil

(* The values of a kind: any, or those the wire carries as they are. *)
Held(k, w) ==
    CASE k = "instance" -> Instance(w)
      [] k = "network" -> Network(w)
      [] k = "platform" -> Platform
      [] k = "locks" -> Slice(w, LockEntry(w))
      [] k = "toolchain" -> Toolchain(w)
      [] k = "endpoint" -> Endpoint
      [] k = "objects" -> Slice(w, Object)
      [] k = "plan" -> SpawnPlan(w)
      [] k = "restart" -> RestartSpec(w)
      [] k = "actions" -> Slice(w, Action)
      [] k = "resources" -> Slice(w, Resource(w))
      [] k = "console" -> ConsoleSpec(w)
      [] OTHER -> {Nil}

Carried(k) == Held(k, TRUE)

Messages(k) ==
    CASE k = "instance" -> InstanceMsg
      [] k = "network" -> NetworkMsg
      [] k = "platform" -> PlatformMsg
      [] k = "locks" -> Repeated(LockEntryMsg)
      [] k = "toolchain" -> ToolchainMsg
      [] k = "endpoint" -> EndpointMsg
      [] k = "objects" -> Repeated(ObjectMsg)
      [] k = "plan" -> SpawnPlanMsg
      [] k = "restart" -> RestartSpecMsg
      [] k = "actions" -> Repeated(ActionMsg)
      [] k = "resources" -> Repeated(ResourceMsg)
      [] k = "console" -> ConsoleSpecMsg
      [] OTHER -> {Nil}

ASSUME InstancesAssumption ==
    \A i \in Instances : i \in Instance(FALSE) /\ i.Grant = ZeroGrant

ASSUME ModulesAssumption ==
    /\ Modules \subseteq [networked : BOOLEAN, first : Network(FALSE), later : Network(FALSE)]
    /\ MainListener \in Keys
    /\ \A md \in Modules : \A n \in {md.first, md.later} : \A i \in DOMAIN All(n.Listeners) :
           isLabel(n.Listeners[i].Name) => n.Listeners[i].Name \in Keys

ASSUME ValuesAssumption ==
    /\ Zone \in String
    /\ \A k \in ResolveKinds \cup CallKinds : Values[k] \subseteq Held(k, FALSE)

(* What a value means to the other side: a configuration held as bytes is the
   configuration. *)
Meaning(k, v) == IF k = "instance" THEN [v EXCEPT !.Spec = SpecBytes(v.Spec)] ELSE v

Cross(k, v) ==
    /\ kind' = k /\ value' = v
    /\ wire' = ToProto(k, v)
    /\ got' = FromProto(k, wire')

-----------------------------------------------------------------------------
(* Whatever is sent is a message of its kind, with its integers in 32 bits,
   and whatever arrives can be sent on as it is (conv.go). *)
TypeOK ==
    /\ inst.Grant \in Grant(TRUE)
    /\ module \in Modules
    /\ checked \in {"no", "passed", "failed"}
    /\ asked \in 0 .. MaxAsks
    /\ network \in Network(TRUE)
    /\ verdict \in {"none", "taken", "refused"}
    /\ served \in {Nil} \cup Network(TRUE)
    /\ heard \in BOOLEAN
    /\ seen \in {Nil} \cup Instance(TRUE)
    /\ pc \in {"idle", "asked", "judging", "called"}
    /\ kind \in Kinds
    /\ wire \in Messages(kind)
    /\ got \in Carried(kind)

NoNetwork == [Listeners |-> Nil]

Init ==
    /\ inst \in Instances
    /\ module \in Modules
    /\ checked = "no" /\ asked = 0 /\ network = NoNetwork /\ verdict = "none"
    /\ served = Nil /\ heard = FALSE /\ seen = Nil /\ pc = "idle"
    /\ kind = "none" /\ value = Nil /\ wire = Nil /\ got = Nil

\* one look at the network is enough
networkProblemsOnce == ~ module.networked \/ ValidateNetwork(module.first)
(* networkProblems finds none: the network is valid and the same twice. *)
networkProblems ==
    IF module.networked THEN ValidateNetwork(module.first) /\ module.later = module.first
                 ELSE ValidateNetwork(DefaultNetwork)

(* CheckNetwork, in a test of the module. *)
Check ==
    /\ checked = "no"
    /\ checked' = IF networkProblems THEN "passed" ELSE "failed"
    /\ UNCHANGED <<inst, module, asked, network, verdict, served, heard, seen, pc,
                   crossing>>

(* pluginDriver.Network asks nothing of a module that does not advertise the
   capability, nor with an instance it cannot encode: the network is empty. *)
AskNothing ==
    /\ pc = "idle" /\ asked < MaxAsks
    /\ ~ module.networked \/ ~ Encodes(inst)
    /\ network' = NoNetwork /\ pc' = "judging" /\ asked' = asked + 1
    /\ UNCHANGED <<inst, module, checked, verdict, served, heard, seen, crossing>>

Ask ==
    /\ pc = "idle" /\ asked < MaxAsks
    /\ module.networked /\ Encodes(inst) /\ Known(SpecBytes(inst.Spec))
    /\ Cross("instance", inst)
    /\ seen' = got'
    /\ pc' = "asked" /\ asked' = asked + 1
    /\ UNCHANGED <<inst, module, checked, network, verdict, served, heard>>

(* The module dies, or cannot decode the instance: the failure is reported and
   the network is empty. *)
AskFails ==
    /\ \/ pc = "asked" /\ UNCHANGED asked
       \/ /\ pc = "idle" /\ asked < MaxAsks /\ module.networked /\ Encodes(inst)
          /\ asked' = asked + 1
    /\ network' = NoNetwork /\ heard' = TRUE /\ pc' = "judging"
    /\ UNCHANGED <<inst, module, checked, verdict, served, seen, crossing>>

(* engineServer.Network, and what the host gets of it.  A later question may go
   to a process that was started anew. *)
Answer ==
    /\ pc = "asked"
    /\ \E n \in {module.first} \cup (IF asked = 1 THEN {} ELSE {module.later}) : Cross("network", n)
    /\ network' = got'
    /\ pc' = "judging"
    /\ UNCHANGED <<inst, module, checked, asked, verdict, served, heard, seen>>

(* The network the host reads an answer as. *)
Read(n) == IF n.Listeners = Nil THEN DefaultNetwork ELSE n

(* The host refuses an invalid network, and a listener on the declared port. *)
Taken(n) ==
    /\ ValidateNetwork(n)
    /\ \A i \in DOMAIN n.Listeners :
           n.Listeners[i].Name # MainListener => n.Listeners[i].Port # inst.Port

HostName == inst.Name \o Zone

(* The grant made for a network, with names or without: an address and a backend
   of its own for every listener.  The listener's name stands for its port in
   the address. *)
Socket(name) == <<".">> \o name

HostsFor(l, named) ==
    IF named /\ l.Routes # Nil
    THEN [j \in DOMAIN l.Routes |-> RouteHost(l.Routes[j], HostName)] ELSE Nil

GrantedFor(l, named) ==
    [Addr |-> (IF named THEN HostName ELSE <<>>) \o <<".">> \o l.Name,
     URL |-> IF HostsFor(l, named) = Nil THEN <<>> ELSE HostsFor(l, named)[1],
     Hosts |-> HostsFor(l, named), Backend |-> Socket(l.Name)]

GrantFor(n, named) ==
    LET ls == n.Listeners
        Place(name) == {i \in DOMAIN ls : ls[i].Name = name}
    IN  [Host |-> IF named THEN HostName ELSE <<>>,
         Listeners |-> [name \in Keys |->
             IF Place(name) = {} THEN Nil
             ELSE GrantedFor(ls[CHOOSE i \in Place(name) : TRUE], named)]]

(* What a host may grant for a network it takes.  One that gives no names grants
   addresses alone (network.go:219), or nothing at all (types.go:134). *)
Grants(n) == {GrantFor(n, TRUE), GrantFor(n, FALSE), ZeroGrant}

Judge ==
    /\ pc = "judging"
    /\ pc' = "idle"
    /\ \/ /\ Taken(Read(network))
          /\ verdict' = "taken" /\ served' = Read(network)
          /\ \E g \in Grants(Read(network)) : inst' = [inst EXCEPT !.Grant = g]
       \/ /\ ~ Taken(Read(network))
          /\ verdict' = "refused" /\ served' = Nil
          /\ inst' = [inst EXCEPT !.Grant = ZeroGrant]
    /\ UNCHANGED <<module, checked, asked, network, heard, seen, crossing>>

(* A call about the instance, with its arguments and its answer, until the host
   goes on to the next. *)
Call ==
    /\ pc = "idle"
    /\ Encodes(inst) /\ Known(SpecBytes(inst.Spec))
    /\ Cross("instance", inst)
    /\ seen' = got' /\ pc' = "called"
    /\ UNCHANGED <<inst, module, checked, asked, network, verdict, served, heard>>

Carry(k, v) ==
    /\ \/ pc = "called" /\ k \in CallKinds
       \/ pc = "idle" /\ k \in ResolveKinds
    /\ Cross(k, v)
    /\ pc' = "idle"
    /\ UNCHANGED <<inst, module, checked, asked, network, verdict, served, heard, seen>>

Next ==
    \/ Check \/ AskNothing \/ Ask \/ AskFails \/ Answer \/ Judge \/ Call
    \/ \E k \in ResolveKinds \cup CallKinds : \E v \in Values[k] : Carry(k, v)

Spec == Init /\ [][Next]_vars

-----------------------------------------------------------------------------
(* A value the wire can carry arrives as it was sent: no conversion of conv.go
   forgets a field, in either direction.  Another is sent as a message of its
   kind all the same, and arrives as a value the wire can carry (TypeOK). *)
ArrivesIntact ==
    /\ TypeOK
    /\ Meaning(kind, value) \in Carried(kind) => got = Meaning(kind, value)

SameNetwork(n, m) ==
    LET Plain(ls) == [i \in DOMAIN ls |-> [ls[i] EXCEPT !.Routes = All(@)]]
    IN  Plain(All(n.Listeners)) = Plain(All(m.Listeners))

(* A network that passed CheckNetwork is the one the host serves, unless the
   answer never came, and the host refuses it only for the declared port
   (enginetest/network.go:11, network.go ValidateNetwork). *)
CheckedIsTaken ==
    checked = "passed" /\ module.networked /\ pc # "judging" =>
        /\ verdict = "taken" => SameNetwork(served, module.first) \/ network = NoNetwork
        /\ verdict = "refused" =>
               \E i \in DOMAIN All(module.first.Listeners) : module.first.Listeners[i].Port = inst.Port

(* A request reaches one listener: no two listeners of an instance got the same
   public port, and no host is given twice (network.go RouteHost). *)
HostsApart ==
    /\ served # Nil =>
          LET ls == served.Listeners
              PublicPort(l) == IF l.Name = MainListener THEN inst.Port ELSE l.Port
          IN  \A i, k \in DOMAIN ls : i # k => PublicPort(ls[i]) # PublicPort(ls[k])
    /\ LET g == inst.Grant
           HostsAt(name) == IF Granted(g, name) THEN All(g.Listeners[name].Hosts) ELSE <<>>
       IN  \A a, b \in Keys :
              \A j \in DOMAIN HostsAt(a), m \in DOMAIN HostsAt(b) :
                 <<a, j>> # <<b, m>> => HostsAt(a)[j] # HostsAt(b)[m]

(* Where the host forwards the connections of a listener: without a grant only
   the main listener's, to the endpoint's backend. *)
Forwards(name) ==
    IF inst.Grant = ZeroGrant THEN IF name = MainListener THEN inst.Endpoint.Backend ELSE Nil
    ELSE IF \E i \in DOMAIN served.Listeners : served.Listeners[i].Name = name
         THEN Socket(name) ELSE Nil

(* Where a module that is shown an instance listens for a listener. *)
Listens(i, name) ==
    IF Backend(i.Grant, name) = Nil /\ name = MainListener THEN i.Endpoint.Backend
    ELSE Backend(i.Grant, name)

(* The module listens where the host forwards, whatever the host granted: at the
   backends of the network that is served now, or at the endpoint's when it
   granted nothing; and the name and addresses it gives out are the host's. *)
BackendsMeet ==
    pc \in {"asked", "called"} =>
        /\ Named(seen.Grant) = Named(inst.Grant)
        /\ \A name \in Keys : /\ Listens(seen, name) = Forwards(name)
                              /\ Addr(seen.Grant, name) = Addr(inst.Grant, name)
=============================================================================
