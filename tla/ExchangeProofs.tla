--------------------------- MODULE ExchangeProofs ---------------------------
(***************************************************************************)
(* Theorems about Exchange, for any instances, modules, values and         *)
(* strings, and any width of an integer.                                   *)
(*                                                                         *)
(* First the conversions of conv.go, type by type: Arrives says of a value *)
(* that what is sent of it is a message, that what arrives of it the wire  *)
(* can carry, and that it is the value itself if the wire can carry that.  *)
(* A type's lemma rests on those of its fields, and those of slices and    *)
(* maps on the lemmas about any slice and any map.  Then the networks: a   *)
(* valid one arrives valid, two routes name two hosts, and a grant has a   *)
(* place for each listener.  The invariant then carries along which answer *)
(* the host's network is, what the verdict was about, which network the    *)
(* grant was made for, and that the module sees the instance as it is.     *)
(***************************************************************************)
EXTENDS Exchange, SequenceTheorems, TLAPS

(* A value, its message, and what arrives of it. *)
Arrives(v, t, u, M, T) == t \in M /\ u \in T /\ (v \in T => u = v)

(* A network as it arrives. *)
Arrived(n) == networkFromProto(networkToProto(n))

(* The listeners of a network, if labels, are keys of a grant. *)
Keyed(n) == \A i \in DOMAIN All(n.Listeners) :
                isLabel(n.Listeners[i].Name) => n.Listeners[i].Name \in Keys

(* What crossed last arrived as it was sent, if the wire can carry it. *)
AsSent == Meaning(kind, value) \in Carried(kind) => got = Meaning(kind, value)

(* The host's answer is one of the module's, or none. *)
Answered == network \in {NoNetwork, Arrived(module.first), Arrived(module.later)}

(* Between two questions the verdict is the one on the last answer. *)
Judged ==
    pc # "judging" => /\ verdict = "taken" => served = Read(network)
                      /\ verdict = "refused" => ~ Taken(Read(network))

(* The grant is the one for the network that is served. *)
Granting ==
    /\ served = Nil => inst.Grant = ZeroGrant
    /\ served # Nil => /\ Taken(served) /\ Keyed(served)
                       /\ inst.Grant \in Grants(served)

(* Until the call is over the module sees the instance as it is. *)
Seen ==
    pc \in {"asked", "called"} => /\ Known(SpecBytes(inst.Spec))
                                 /\ seen = instanceFromProto(instanceToProto(inst))

Tested == checked = "passed" => networkProblems

IInv ==
    TypeOK /\ inst \in Instance(FALSE) /\ AsSent /\ Answered /\ Judged /\ Granting /\ Seen /\ Tested

-----------------------------------------------------------------------------
(* Integers, slices and maps. *)

LEMMA Int32Facts ==
    ASSUME NEW n \in Int
    PROVE  int32(n) \in Int32 /\ (n \in Int32 => int32(n) = n)
<1>1. Half \in Int /\ Half > 0 /\ 2 * Half \in Int /\ 2 * Half > 0
  BY WidthAssumption
<1> DEFINE m == 2 * Half
           r == (n + Half) % m
<1>2. r \in 0..(m - 1)
  BY <1>1
<1>3. int32(n) \in Int32
  BY <1>1, <1>2 DEF int32, Int32
<1>4. ASSUME n \in Int32 PROVE int32(n) = n
  <2>1. n + Half \in 0..(m - 1)
    BY <1>1, <1>4 DEF Int32
  <2>2. r = n + Half
    BY <1>1, <2>1
  <2> QED BY <1>1, <2>2 DEF int32
<1> QED BY <1>3, <1>4

LEMMA IntegerFacts ==
    ASSUME NEW n \in Integer(FALSE)
    PROVE  int32(n) \in Int32 /\ (n \in Integer(TRUE) => int32(n) = n)
  BY Int32Facts DEF Integer

LEMMA FieldFacts ==
    ASSUME NEW S, NEW s \in Slice(FALSE, S)
    PROVE  /\ Field(s) \in Repeated(S)
           /\ s \in Repeated(S) => Field(s) = s
           /\ Field(s) # Nil => Field(s) = s /\ s \in Seq(S)
  BY DEF Slice, Repeated, Field

LEMMA MapFacts ==
    ASSUME NEW S, NEW m \in Map(FALSE, S)
    PROVE  /\ MapField(m) \in Mapped(S)
           /\ m \in Mapped(S) => MapField(m) = m
  BY DEF Map, Mapped, MapField

(* A sequence that is converted element by element, and back. *)
LEMMA SequenceCrosses ==
    ASSUME NEW S, NEW T, NEW M, NEW s \in Seq(S) \ {<<>>}, NEW t, NEW u,
           t = [i \in DOMAIN s |-> t[i]], u = [i \in DOMAIN s |-> u[i]],
           \A i \in DOMAIN s : s[i] \in S => Arrives(s[i], t[i], u[i], M, T)
    PROVE  Arrives(s, t, u, Seq(M) \ {<<>>}, Seq(T) \ {<<>>})
<1>1. DOMAIN s = 1..Len(s) /\ Len(s) \in Nat /\ Len(s) # 0
  BY EmptySeq
<1>2. \A i \in DOMAIN s : s[i] \in S
  BY <1>1, ElementOfSeq
<1>3. \A i \in 1..Len(s) : t[i] \in M /\ u[i] \in T /\ (s[i] \in T => u[i] = s[i])
  BY <1>1, <1>2 DEF Arrives
<1>4. t \in [1..Len(s) -> M] /\ u \in [1..Len(s) -> T]
  BY <1>1, <1>3
<1>5. t \in Seq(M) /\ u \in Seq(T)
  BY <1>1, <1>4, SeqDef
<1>6. 1 \in DOMAIN t /\ 1 \in DOMAIN u
  BY <1>1, <1>4
<1>7. t # <<>> /\ u # <<>>
  BY <1>6, EmptySeq
<1>8. ASSUME s \in Seq(T) PROVE u = s
  <2>1. s \in [1..Len(s) -> T]
    BY <1>1, <1>8
  <2> QED BY <1>3, <1>4, <2>1
<1> QED BY <1>5, <1>7, <1>8 DEF Arrives

(* A slice that is converted element by element, and back. *)
LEMMA SliceCrosses ==
    ASSUME NEW S, NEW T, NEW M, Nil \notin Seq(M),
           NEW s \in Slice(FALSE, S), NEW t, NEW u,
           Field(s) = Nil => t = Nil,
           t = Nil => u = Nil,
           Field(s) # Nil => t = [i \in DOMAIN s |-> t[i]],
           t # Nil => u = [i \in DOMAIN s |-> u[i]],
           \A i \in DOMAIN s :
               Field(s) # Nil /\ s[i] \in S =>
                   t[i] \in M /\ (t # Nil => Arrives(s[i], t[i], u[i], M, T))
    PROVE  Arrives(s, t, u, Repeated(M), Repeated(T))
<1>1. CASE Field(s) = Nil
  <2>1. s \in Repeated(T) => s = Nil
    BY <1>1 DEF Field, Repeated
  <2> QED BY <1>1, <2>1 DEF Repeated, Arrives
<1>2. CASE Field(s) # Nil
  <2>1. s \in Seq(S) \ {<<>>} /\ s # Nil
    BY <1>2 DEF Field, Slice
  <2>2. t # Nil
    <3>1. DOMAIN s = 1..Len(s) /\ Len(s) \in Nat /\ \A i \in DOMAIN s : s[i] \in S
      BY <2>1, ElementOfSeq
    <3>2. t \in [1..Len(s) -> M]
      BY <1>2, <3>1
    <3>3. t \in Seq(M)
      BY <3>1, <3>2, SeqDef
    <3> QED BY <3>3
  <2>3. \A i \in DOMAIN s : s[i] \in S => Arrives(s[i], t[i], u[i], M, T)
    BY <1>2, <2>2
  <2>4. t = [i \in DOMAIN s |-> t[i]] /\ u = [i \in DOMAIN s |-> u[i]]
    BY <1>2, <2>2
  <2>5. Arrives(s, t, u, Seq(M) \ {<<>>}, Seq(T) \ {<<>>})
    BY <2>1, <2>3, <2>4, SequenceCrosses
  <2> QED BY <2>1, <2>5 DEF Repeated, Arrives
<1> QED BY <1>1, <1>2

(* A map that is converted entry by entry, and back. *)
LEMMA MapCrosses ==
    ASSUME NEW S, NEW T, NEW M, Nil \notin M, Nil \notin T, Nil \notin [Keys -> {Nil} \cup M],
           NEW m \in Map(FALSE, S), NEW t, NEW u,
           MapField(m) = Nil => t = Nil,
           t = Nil => u = Nil,
           MapField(m) # Nil => t = [k \in Keys |-> t[k]],
           t # Nil => u = [k \in Keys |-> u[k]],
           \A k \in Keys :
               MapField(m) # Nil =>
                   /\ IF m[k] = Nil THEN t[k] = Nil ELSE m[k] \in S => t[k] \in M
                   /\ t # Nil => IF m[k] = Nil THEN u[k] = Nil
                                 ELSE m[k] \in S => Arrives(m[k], t[k], u[k], M, T)
    PROVE  Arrives(m, t, u, Mapped(M), Mapped(T))
<1>1. CASE MapField(m) = Nil
  <2>1. m \in Mapped(T) => m = Nil
    BY <1>1 DEF MapField, Mapped
  <2> QED BY <1>1, <2>1 DEF Mapped, Arrives
<1>2. CASE MapField(m) # Nil
  <2>1. m \in [Keys -> {Nil} \cup S] /\ m # NoEntries /\ m # Nil
    BY <1>2 DEF MapField, Map
  <2>2. PICK k \in Keys : m[k] # Nil
    BY <2>1 DEF NoEntries
  <2>3. t \in [Keys -> {Nil} \cup M] /\ t # NoEntries /\ t # Nil
    BY <1>2, <2>1, <2>2 DEF NoEntries
  <2>4. u \in [Keys -> {Nil} \cup T] /\ u # NoEntries
    BY <1>2, <2>1, <2>2, <2>3 DEF NoEntries, Arrives
  <2>5. m \in Mapped(T) => u = m
    BY <1>2, <2>1, <2>3, <2>4 DEF Mapped, Arrives
  <2> QED BY <2>3, <2>4, <2>5 DEF Mapped, Arrives
<1> QED BY <1>1, <1>2

LEMMA ListenerCrosses ==
    ASSUME NEW l \in Listener(FALSE)
    PROVE  Arrives(l, listenerToProto(l), listenerFromProto(listenerToProto(l)),
                   ListenerMsg, Listener(TRUE))
<1>1. l.Port \in Integer(FALSE) /\ l.Routes \in Slice(FALSE, String)
  BY DEF Listener
<1>2. int32(l.Port) \in Int32 /\ Field(l.Routes) \in Repeated(String)
  BY <1>1, IntegerFacts, FieldFacts
<1>3. l \in Listener(TRUE) => int32(l.Port) = l.Port /\ Field(l.Routes) = l.Routes
  BY <1>1, IntegerFacts, FieldFacts DEF Listener, Integer, Slice
<1> QED BY <1>2, <1>3
           DEF Listener, listenerToProto, listenerFromProto, ListenerMsg, Integer, Slice, Arrives

LEMMA ObjectCrosses ==
    ASSUME NEW o \in Object
    PROVE  Arrives(o, objectToProto(o), objectFromProto(objectToProto(o)),
                   ObjectMsg, Object)
  BY DEF Object, objectToProto, objectFromProto, ObjectMsg, Arrives

LEMMA ActionCrosses ==
    ASSUME NEW a \in Action
    PROVE  Arrives(a, actionToProto(a), actionFromProto(actionToProto(a)),
                   ActionMsg, Action)
  BY DEF Action, actionToProto, actionFromProto, ActionMsg, Arrives

LEMMA ResourceCrosses ==
    ASSUME NEW r \in Resource(FALSE)
    PROVE  Arrives(r, resourceToProto(r), resourceFromProto(resourceToProto(r)),
                   ResourceMsg, Resource(TRUE))
<1>1. r.Info \in Map(FALSE, String)
  BY DEF Resource
<1>2. MapField(r.Info) \in Mapped(String)
  BY <1>1, MapFacts
<1>3. r \in Resource(TRUE) => MapField(r.Info) = r.Info
  BY <1>1, MapFacts DEF Resource, Map
<1> QED BY <1>2, <1>3
           DEF Resource, resourceToProto, resourceFromProto, ResourceMsg, Map, Arrives

LEMMA ColumnCrosses ==
    ASSUME NEW c \in Column
    PROVE  Arrives(c, columnToProto(c), columnFromProto(columnToProto(c)),
                   ColumnMsg, Column)
  BY DEF Column, columnToProto, columnFromProto, ColumnMsg, Arrives

LEMMA NodeCrosses ==
    ASSUME NEW n \in Node(FALSE)
    PROVE  Arrives(n, nodeToProto(n), nodeFromProto(nodeToProto(n)),
                   NodeMsg, Node(TRUE))
<1>1. n.Weight \in Integer(FALSE) /\ n.Actions \in Slice(FALSE, String)
  BY DEF Node
<1>2. int32(n.Weight) \in Int32 /\ Field(n.Actions) \in Repeated(String)
  BY <1>1, IntegerFacts, FieldFacts
<1>3. n \in Node(TRUE) => int32(n.Weight) = n.Weight /\ Field(n.Actions) = n.Actions
  BY <1>1, IntegerFacts, FieldFacts DEF Node, Integer, Slice
<1> QED BY <1>2, <1>3 DEF Node, nodeToProto, nodeFromProto, NodeMsg, Integer, Slice, Arrives

LEMMA PlatformCrosses ==
    ASSUME NEW p \in Platform
    PROVE  Arrives(p, platformToProto(p), platformFromProto(platformToProto(p)),
                   PlatformMsg, Platform)
<1>1. platformToProto(p) \in PlatformMsg
  BY DEF Platform, platformToProto, PlatformMsg
<1> QED BY <1>1, NilAssumption
           DEF Platform, platformToProto, platformFromProto, PlatformMsg, Arrives

LEMMA EndpointCrosses ==
    ASSUME NEW e \in Endpoint
    PROVE  Arrives(e, endpointToProto(e), endpointFromProto(endpointToProto(e)),
                   EndpointMsg, Endpoint)
<1>1. endpointToProto(e) \in EndpointMsg
  BY DEF Endpoint, endpointToProto, EndpointMsg
<1> QED BY <1>1, NilAssumption
           DEF Endpoint, endpointToProto, endpointFromProto, EndpointMsg, Arrives

LEMMA DepCrosses ==
    ASSUME NEW d \in Dep
    PROVE  Arrives(d, depToProto(d), depFromProto(depToProto(d)),
                   DepMsg, Dep)
  BY DEF Dep, depToProto, depFromProto, DepMsg, Arrives

LEMMA ToolchainCrosses ==
    ASSUME NEW t \in Toolchain(FALSE)
    PROVE  Arrives(t, toolchainToProto(t), toolchainFromProto(toolchainToProto(t)),
                   ToolchainMsg, Toolchain(TRUE))
<1>1. t.Tools \in Map(FALSE, String)
  BY DEF Toolchain
<1>2. MapField(t.Tools) \in Mapped(String)
  BY <1>1, MapFacts
<1>3. t \in Toolchain(TRUE) => MapField(t.Tools) = t.Tools
  BY <1>1, MapFacts DEF Toolchain, Map
<1>4. toolchainToProto(t) \in ToolchainMsg
  BY <1>2 DEF Toolchain, toolchainToProto, ToolchainMsg
<1> QED BY <1>2, <1>3, <1>4, NilAssumption
           DEF Toolchain, toolchainToProto, toolchainFromProto, ToolchainMsg, Map, Arrives

LEMMA PinCrosses ==
    ASSUME NEW p \in Pin(FALSE)
    PROVE  Arrives(p, pinToProto(p), pinFromProto(pinToProto(p)),
                   PinMsg, Pin(TRUE))
<1>1. p.Hashes \in Map(FALSE, String)
  BY DEF Pin
<1>2. MapField(p.Hashes) \in Mapped(String)
  BY <1>1, MapFacts
<1>3. p \in Pin(TRUE) => MapField(p.Hashes) = p.Hashes
  BY <1>1, MapFacts DEF Pin, Map
<1>4. pinToProto(p) \in PinMsg
  BY <1>2 DEF Pin, pinToProto, PinMsg
<1> QED BY <1>2, <1>3, <1>4, NilAssumption
           DEF Pin, pinToProto, pinFromProto, PinMsg, Map, Arrives

LEMMA GrantedCrosses ==
    ASSUME NEW l \in GrantedListener(FALSE)
    PROVE  Arrives(l, grantedToProto(l), grantedFromProto(grantedToProto(l)),
                   GrantedListenerMsg, GrantedListener(TRUE))
<1>1. l.Hosts \in Slice(FALSE, String)
  BY DEF GrantedListener
<1>2. Field(l.Hosts) \in Repeated(String)
  BY <1>1, FieldFacts
<1>3. l \in GrantedListener(TRUE) => Field(l.Hosts) = l.Hosts
  BY <1>1, FieldFacts DEF GrantedListener, Slice
<1> QED BY <1>2, <1>3
           DEF GrantedListener, grantedToProto, grantedFromProto, GrantedListenerMsg, Slice, Arrives

LEMMA RestartCrosses ==
    ASSUME NEW r \in RestartSpec(FALSE)
    PROVE  Arrives(r, restartToProto(r), restartFromProto(restartToProto(r)),
                   RestartSpecMsg, RestartSpec(TRUE))
<1>1. r.MaxRetries \in Integer(FALSE)
  BY DEF RestartSpec
<1>2. int32(r.MaxRetries) \in Int32
  BY <1>1, IntegerFacts
<1>3. r \in RestartSpec(TRUE) => int32(r.MaxRetries) = r.MaxRetries
  BY <1>1, IntegerFacts DEF RestartSpec, Integer
<1>4. restartToProto(r) \in RestartSpecMsg
  BY <1>2 DEF RestartSpec, restartToProto, RestartSpecMsg, Integer
<1>5. restartToProto(r) # Nil
  BY <1>4, NilAssumption
<1> QED BY <1>2, <1>3, <1>4, <1>5
           DEF RestartSpec, restartToProto, restartFromProto, RestartSpecMsg, Integer, Arrives

LEMMA ListenersCross ==
    ASSUME NEW s \in Slice(FALSE, Listener(FALSE)),
           NEW t, t = Each(listenerToProto, Field(s)), NEW u, u = Each(listenerFromProto, t)
    PROVE  Arrives(s, t, u, Repeated(ListenerMsg), Repeated(Listener(TRUE)))
<1> DEFINE S == Listener(FALSE)
           T == Listener(TRUE)
<1>1. /\ (Field(s) = Nil => t = Nil) /\ (t = Nil => u = Nil)
      /\ Field(s) # Nil => t = [i \in DOMAIN s |-> listenerToProto(s[i])]
      /\ t # Nil => u = [i \in DOMAIN s |-> listenerFromProto(listenerToProto(s[i]))]
  BY FieldFacts DEF Each
<1>2. ASSUME NEW i \in DOMAIN s, s[i] \in Listener(FALSE)
      PROVE  Arrives(s[i], listenerToProto(s[i]), listenerFromProto(listenerToProto(s[i])),
                     ListenerMsg, Listener(TRUE))
  BY <1>2, ListenerCrosses
<1>3. ASSUME NEW i \in DOMAIN s, Field(s) # Nil, s[i] \in S
      PROVE  t[i] \in ListenerMsg /\ (t # Nil => Arrives(s[i], t[i], u[i], ListenerMsg, T))
  BY <1>1, <1>2, <1>3 DEF Arrives
<1>4. s \in Slice(FALSE, S) /\ Nil \notin Seq(ListenerMsg)
  BY NilAssumption
<1> HIDE DEF S, T
<1>5. Arrives(s, t, u, Repeated(ListenerMsg), Repeated(T))
  BY <1>1, <1>3, <1>4, SliceCrosses
<1> QED BY <1>5 DEF T

LEMMA ObjectsCross ==
    ASSUME NEW s \in Slice(FALSE, Object),
           NEW t, t = Each(objectToProto, Field(s)), NEW u, u = Each(objectFromProto, t)
    PROVE  Arrives(s, t, u, Repeated(ObjectMsg), Repeated(Object))
<1> DEFINE T == Object
<1>1. /\ (Field(s) = Nil => t = Nil) /\ (t = Nil => u = Nil)
      /\ Field(s) # Nil => t = [i \in DOMAIN s |-> objectToProto(s[i])]
      /\ t # Nil => u = [i \in DOMAIN s |-> objectFromProto(objectToProto(s[i]))]
  BY FieldFacts DEF Each
<1>2. ASSUME NEW i \in DOMAIN s, Field(s) # Nil, s[i] \in T
      PROVE  t[i] \in ObjectMsg /\ (t # Nil => Arrives(s[i], t[i], u[i], ObjectMsg, T))
  BY <1>1, <1>2, ObjectCrosses DEF Arrives
<1>3. s \in Slice(FALSE, T) /\ Nil \notin Seq(ObjectMsg)
  BY NilAssumption
<1> HIDE DEF T
<1>4. Arrives(s, t, u, Repeated(ObjectMsg), Repeated(T))
  BY <1>1, <1>2, <1>3, SliceCrosses
<1> QED BY <1>4 DEF T

LEMMA ActionsCross ==
    ASSUME NEW s \in Slice(FALSE, Action),
           NEW t, t = Each(actionToProto, Field(s)), NEW u, u = Each(actionFromProto, t)
    PROVE  Arrives(s, t, u, Repeated(ActionMsg), Repeated(Action))
<1> DEFINE T == Action
<1>1. /\ (Field(s) = Nil => t = Nil) /\ (t = Nil => u = Nil)
      /\ Field(s) # Nil => t = [i \in DOMAIN s |-> actionToProto(s[i])]
      /\ t # Nil => u = [i \in DOMAIN s |-> actionFromProto(actionToProto(s[i]))]
  BY FieldFacts DEF Each
<1>2. ASSUME NEW i \in DOMAIN s, Field(s) # Nil, s[i] \in T
      PROVE  t[i] \in ActionMsg /\ (t # Nil => Arrives(s[i], t[i], u[i], ActionMsg, T))
  BY <1>1, <1>2, ActionCrosses DEF Arrives
<1>3. s \in Slice(FALSE, T) /\ Nil \notin Seq(ActionMsg)
  BY NilAssumption
<1> HIDE DEF T
<1>4. Arrives(s, t, u, Repeated(ActionMsg), Repeated(T))
  BY <1>1, <1>2, <1>3, SliceCrosses
<1> QED BY <1>4 DEF T

LEMMA ResourcesCross ==
    ASSUME NEW s \in Slice(FALSE, Resource(FALSE)),
           NEW t, t = Each(resourceToProto, Field(s)), NEW u, u = Each(resourceFromProto, t)
    PROVE  Arrives(s, t, u, Repeated(ResourceMsg), Repeated(Resource(TRUE)))
<1> DEFINE S == Resource(FALSE)
           T == Resource(TRUE)
<1>1. /\ (Field(s) = Nil => t = Nil) /\ (t = Nil => u = Nil)
      /\ Field(s) # Nil => t = [i \in DOMAIN s |-> resourceToProto(s[i])]
      /\ t # Nil => u = [i \in DOMAIN s |-> resourceFromProto(resourceToProto(s[i]))]
  BY FieldFacts DEF Each
<1>2. ASSUME NEW i \in DOMAIN s, s[i] \in Resource(FALSE)
      PROVE  Arrives(s[i], resourceToProto(s[i]), resourceFromProto(resourceToProto(s[i])),
                     ResourceMsg, Resource(TRUE))
  BY <1>2, ResourceCrosses
<1>3. ASSUME NEW i \in DOMAIN s, Field(s) # Nil, s[i] \in S
      PROVE  t[i] \in ResourceMsg /\ (t # Nil => Arrives(s[i], t[i], u[i], ResourceMsg, T))
  BY <1>1, <1>2, <1>3 DEF Arrives
<1>4. s \in Slice(FALSE, S) /\ Nil \notin Seq(ResourceMsg)
  BY NilAssumption
<1> HIDE DEF S, T
<1>5. Arrives(s, t, u, Repeated(ResourceMsg), Repeated(T))
  BY <1>1, <1>3, <1>4, SliceCrosses
<1> QED BY <1>5 DEF T

LEMMA ColumnsCross ==
    ASSUME NEW s \in Slice(FALSE, Column),
           NEW t, t = Each(columnToProto, Field(s)), NEW u, u = Each(columnFromProto, t)
    PROVE  Arrives(s, t, u, Repeated(ColumnMsg), Repeated(Column))
<1> DEFINE T == Column
<1>1. /\ (Field(s) = Nil => t = Nil) /\ (t = Nil => u = Nil)
      /\ Field(s) # Nil => t = [i \in DOMAIN s |-> columnToProto(s[i])]
      /\ t # Nil => u = [i \in DOMAIN s |-> columnFromProto(columnToProto(s[i]))]
  BY FieldFacts DEF Each
<1>2. ASSUME NEW i \in DOMAIN s, Field(s) # Nil, s[i] \in T
      PROVE  t[i] \in ColumnMsg /\ (t # Nil => Arrives(s[i], t[i], u[i], ColumnMsg, T))
  BY <1>1, <1>2, ColumnCrosses DEF Arrives
<1>3. s \in Slice(FALSE, T) /\ Nil \notin Seq(ColumnMsg)
  BY NilAssumption
<1> HIDE DEF T
<1>4. Arrives(s, t, u, Repeated(ColumnMsg), Repeated(T))
  BY <1>1, <1>2, <1>3, SliceCrosses
<1> QED BY <1>4 DEF T

LEMMA NodesCross ==
    ASSUME NEW s \in Slice(FALSE, Node(FALSE)),
           NEW t, t = Each(nodeToProto, Field(s)), NEW u, u = Each(nodeFromProto, t)
    PROVE  Arrives(s, t, u, Repeated(NodeMsg), Repeated(Node(TRUE)))
<1> DEFINE S == Node(FALSE)
           T == Node(TRUE)
<1>1. /\ (Field(s) = Nil => t = Nil) /\ (t = Nil => u = Nil)
      /\ Field(s) # Nil => t = [i \in DOMAIN s |-> nodeToProto(s[i])]
      /\ t # Nil => u = [i \in DOMAIN s |-> nodeFromProto(nodeToProto(s[i]))]
  BY FieldFacts DEF Each
<1>2. ASSUME NEW i \in DOMAIN s, s[i] \in Node(FALSE)
      PROVE  Arrives(s[i], nodeToProto(s[i]), nodeFromProto(nodeToProto(s[i])),
                     NodeMsg, Node(TRUE))
  BY <1>2, NodeCrosses
<1>3. ASSUME NEW i \in DOMAIN s, Field(s) # Nil, s[i] \in S
      PROVE  t[i] \in NodeMsg /\ (t # Nil => Arrives(s[i], t[i], u[i], NodeMsg, T))
  BY <1>1, <1>2, <1>3 DEF Arrives
<1>4. s \in Slice(FALSE, S) /\ Nil \notin Seq(NodeMsg)
  BY NilAssumption
<1> HIDE DEF S, T
<1>5. Arrives(s, t, u, Repeated(NodeMsg), Repeated(T))
  BY <1>1, <1>3, <1>4, SliceCrosses
<1> QED BY <1>5 DEF T

LEMMA LockEntryCrosses ==
    ASSUME NEW e \in LockEntry(FALSE)
    PROVE  Arrives(e, lockEntryToProto(e), lockEntryFromProto(lockEntryToProto(e)),
                   LockEntryMsg, LockEntry(TRUE))
<1>1. e.Pin \in Pin(FALSE)
  BY DEF LockEntry
<1>2. Arrives(e.Pin, pinToProto(e.Pin), pinFromProto(pinToProto(e.Pin)), PinMsg, Pin(TRUE))
  BY <1>1, PinCrosses
<1> QED BY <1>2 DEF LockEntry, lockEntryToProto, lockEntryFromProto, LockEntryMsg, Arrives

LEMMA LockEntriesCross ==
    ASSUME NEW s \in Slice(FALSE, LockEntry(FALSE)),
           NEW t, t = Each(lockEntryToProto, Field(s)), NEW u, u = Each(lockEntryFromProto, t)
    PROVE  Arrives(s, t, u, Repeated(LockEntryMsg), Repeated(LockEntry(TRUE)))
<1> DEFINE S == LockEntry(FALSE)
           T == LockEntry(TRUE)
<1>1. /\ (Field(s) = Nil => t = Nil) /\ (t = Nil => u = Nil)
      /\ Field(s) # Nil => t = [i \in DOMAIN s |-> lockEntryToProto(s[i])]
      /\ t # Nil => u = [i \in DOMAIN s |-> lockEntryFromProto(lockEntryToProto(s[i]))]
  BY FieldFacts DEF Each
<1>2. ASSUME NEW i \in DOMAIN s, s[i] \in LockEntry(FALSE)
      PROVE  Arrives(s[i], lockEntryToProto(s[i]), lockEntryFromProto(lockEntryToProto(s[i])),
                     LockEntryMsg, LockEntry(TRUE))
  BY <1>2, LockEntryCrosses
<1>3. ASSUME NEW i \in DOMAIN s, Field(s) # Nil, s[i] \in S
      PROVE  t[i] \in LockEntryMsg /\ (t # Nil => Arrives(s[i], t[i], u[i], LockEntryMsg, T))
  BY <1>1, <1>2, <1>3 DEF Arrives
<1>4. s \in Slice(FALSE, S) /\ Nil \notin Seq(LockEntryMsg)
  BY NilAssumption
<1> HIDE DEF S, T
<1>5. Arrives(s, t, u, Repeated(LockEntryMsg), Repeated(T))
  BY <1>1, <1>3, <1>4, SliceCrosses
<1> QED BY <1>5 DEF T

LEMMA ReadyCrosses ==
    ASSUME NEW r \in {Nil} \cup Ready(FALSE)
    PROVE  Arrives(r, readyToProto(r), readyFromProto(readyToProto(r)),
                   {Nil} \cup ReadyMsg, {Nil} \cup Ready(TRUE))
<1>1. CASE r = Nil
  BY <1>1 DEF readyToProto, readyFromProto, Arrives
<1>2. CASE r # Nil
  <2>1. r \in Ready(FALSE) /\ r.Retries \in Integer(FALSE)
    BY <1>2 DEF Ready
  <2>2. int32(r.Retries) \in Int32 /\ (r \in Ready(TRUE) => int32(r.Retries) = r.Retries)
    BY <2>1, IntegerFacts DEF Ready
  <2>3. readyToProto(r) \in ReadyMsg
    BY <1>2, <2>1, <2>2 DEF Ready, readyToProto, ReadyMsg
  <2>4. Nil \notin ReadyMsg
    BY NilAssumption
  <2> QED BY <1>2, <2>1, <2>2, <2>3, <2>4
             DEF Ready, readyToProto, readyFromProto, Integer, Arrives
<1> QED BY <1>1, <1>2

LEMMA SpawnSpecCrosses ==
    ASSUME NEW s \in SpawnSpec(FALSE)
    PROVE  Arrives(s, specToProto(s), specFromProto(specToProto(s)),
                   SpawnSpecMsg, SpawnSpec(TRUE))
<1>1. s.Ready \in {Nil} \cup Ready(FALSE)
      /\ \A l \in {s.Args, s.Env, s.After, s.Hooks} : l \in Slice(FALSE, String)
  BY DEF SpawnSpec
<1>2. Arrives(s.Ready, readyToProto(s.Ready), readyFromProto(readyToProto(s.Ready)),
              {Nil} \cup ReadyMsg, {Nil} \cup Ready(TRUE))
  BY <1>1, ReadyCrosses
<1>3. \A l \in {s.Args, s.Env, s.After, s.Hooks} :
         Field(l) \in Repeated(String) /\ (l \in Repeated(String) => Field(l) = l)
  BY <1>1, FieldFacts
<1> QED BY <1>2, <1>3
        DEF SpawnSpec, specToProto, specFromProto, SpawnSpecMsg, Slice, Arrives

LEMMA SpecsCross ==
    ASSUME NEW s \in Slice(FALSE, SpawnSpec(FALSE)),
           NEW t, t = Each(specToProto, Field(s)), NEW u, u = Each(specFromProto, t)
    PROVE  Arrives(s, t, u, Repeated(SpawnSpecMsg), Repeated(SpawnSpec(TRUE)))
<1> DEFINE S == SpawnSpec(FALSE)
           T == SpawnSpec(TRUE)
<1>1. /\ (Field(s) = Nil => t = Nil) /\ (t = Nil => u = Nil)
      /\ Field(s) # Nil => t = [i \in DOMAIN s |-> specToProto(s[i])]
      /\ t # Nil => u = [i \in DOMAIN s |-> specFromProto(specToProto(s[i]))]
  BY FieldFacts DEF Each
<1>2. ASSUME NEW i \in DOMAIN s, s[i] \in SpawnSpec(FALSE)
      PROVE  Arrives(s[i], specToProto(s[i]), specFromProto(specToProto(s[i])),
                     SpawnSpecMsg, SpawnSpec(TRUE))
  BY <1>2, SpawnSpecCrosses
<1>3. ASSUME NEW i \in DOMAIN s, Field(s) # Nil, s[i] \in S
      PROVE  t[i] \in SpawnSpecMsg /\ (t # Nil => Arrives(s[i], t[i], u[i], SpawnSpecMsg, T))
  BY <1>1, <1>2, <1>3 DEF Arrives
<1>4. s \in Slice(FALSE, S) /\ Nil \notin Seq(SpawnSpecMsg)
  BY NilAssumption
<1> HIDE DEF S, T
<1>5. Arrives(s, t, u, Repeated(SpawnSpecMsg), Repeated(T))
  BY <1>1, <1>3, <1>4, SliceCrosses
<1> QED BY <1>5 DEF T

LEMMA PanelCrosses ==
    ASSUME NEW p \in Panel(FALSE)
    PROVE  Arrives(p, panelToProto(p), panelFromProto(panelToProto(p)),
                   PanelMsg, Panel(TRUE))
<1> DEFINE t == Each(columnToProto, Field(p.Columns))
           u == Each(columnFromProto, t)
<1>1. p.Columns \in Slice(FALSE, Column)
  BY DEF Panel
<1>2. Arrives(p.Columns, t, u, Repeated(ColumnMsg), Repeated(Column))
  BY <1>1, ColumnsCross
<1>3. panelToProto(p).Columns = t /\ panelFromProto(panelToProto(p)).Columns = u
  BY DEF panelToProto, panelFromProto
<1> HIDE DEF t, u
<1> QED BY <1>2, <1>3
        DEF Panel, panelToProto, panelFromProto, PanelMsg, Slice, Arrives

LEMMA PanelsCross ==
    ASSUME NEW s \in Slice(FALSE, Panel(FALSE)),
           NEW t, t = Each(panelToProto, Field(s)), NEW u, u = Each(panelFromProto, t)
    PROVE  Arrives(s, t, u, Repeated(PanelMsg), Repeated(Panel(TRUE)))
<1> DEFINE S == Panel(FALSE)
           T == Panel(TRUE)
<1>1. /\ (Field(s) = Nil => t = Nil) /\ (t = Nil => u = Nil)
      /\ Field(s) # Nil => t = [i \in DOMAIN s |-> panelToProto(s[i])]
      /\ t # Nil => u = [i \in DOMAIN s |-> panelFromProto(panelToProto(s[i]))]
  BY FieldFacts DEF Each
<1>2. ASSUME NEW i \in DOMAIN s, s[i] \in Panel(FALSE)
      PROVE  Arrives(s[i], panelToProto(s[i]), panelFromProto(panelToProto(s[i])),
                     PanelMsg, Panel(TRUE))
  BY <1>2, PanelCrosses
<1>3. ASSUME NEW i \in DOMAIN s, Field(s) # Nil, s[i] \in S
      PROVE  t[i] \in PanelMsg /\ (t # Nil => Arrives(s[i], t[i], u[i], PanelMsg, T))
  BY <1>1, <1>2, <1>3 DEF Arrives
<1>4. s \in Slice(FALSE, S) /\ Nil \notin Seq(PanelMsg)
  BY NilAssumption
<1> HIDE DEF S, T
<1>5. Arrives(s, t, u, Repeated(PanelMsg), Repeated(T))
  BY <1>1, <1>3, <1>4, SliceCrosses
<1> QED BY <1>5 DEF T

LEMMA LayoutCrosses ==
    ASSUME NEW s \in Layout(FALSE),
           NEW t, t = Each(nodeToProto, s), NEW u, u = Each(nodeFromProto, t)
    PROVE  Arrives(s, t, u, Seq(NodeMsg) \ {<<>>}, Layout(TRUE))
<1>1. s \in Seq(Node(FALSE)) \ {<<>>} /\ s # Nil
  BY NilAssumption DEF Layout
<1>2. t = [i \in DOMAIN s |-> nodeToProto(s[i])]
  BY <1>1 DEF Each
<1>3. \A i \in DOMAIN s : s[i] \in Node(FALSE)
  <2> DEFINE N == Node(FALSE)
  <2>1. s \in Seq(N)
    BY <1>1
  <2> HIDE DEF N
  <2>2. \A i \in DOMAIN s : s[i] \in N
    BY <2>1
  <2> QED BY <2>2 DEF N
<1>4. ASSUME NEW i \in DOMAIN s
      PROVE  Arrives(s[i], nodeToProto(s[i]), nodeFromProto(nodeToProto(s[i])),
                     NodeMsg, Node(TRUE))
  BY <1>3, <1>4, NodeCrosses
<1>5. t # Nil
  <2>1. \A i \in DOMAIN s : t[i] \in NodeMsg
    BY <1>2, <1>4 DEF Arrives
  <2>2. t \in [1..Len(s) -> NodeMsg] /\ Len(s) \in Nat
    BY <1>1, <1>2, <2>1
  <2>3. t \in Seq(NodeMsg)
    BY <2>2, SeqDef
  <2> QED BY <2>3, NilAssumption
<1>6. u = [i \in DOMAIN s |-> nodeFromProto(nodeToProto(s[i]))]
  BY <1>2, <1>5 DEF Each
<1>7. \A i \in DOMAIN s : s[i] \in Node(FALSE) => Arrives(s[i], t[i], u[i], NodeMsg, Node(TRUE))
  BY <1>2, <1>4, <1>6
<1>8. t = [i \in DOMAIN s |-> t[i]] /\ u = [i \in DOMAIN s |-> u[i]]
  BY <1>2, <1>6
<1>9. Arrives(s, t, u, Seq(NodeMsg) \ {<<>>}, Seq(Node(TRUE)) \ {<<>>})
  BY <1>1, <1>7, <1>8, SequenceCrosses
<1> QED BY <1>9 DEF Layout

LEMMA TabCrosses ==
    ASSUME NEW b \in Tab(FALSE)
    PROVE  Arrives(b, tabToProto(b), tabFromProto(tabToProto(b)), TabMsg, Tab(TRUE))
<1> DEFINE t == Each(nodeToProto, b.Body)
           u == Each(nodeFromProto, t)
<1>1. Arrives(b.Body, t, u, Seq(NodeMsg) \ {<<>>}, Layout(TRUE))
  BY LayoutCrosses DEF Tab
<1>2. tabToProto(b).Body = t /\ tabFromProto(tabToProto(b)).Body = u
  BY DEF tabToProto, tabFromProto
<1> HIDE DEF t, u
<1> QED BY <1>1, <1>2 DEF Tab, tabToProto, tabFromProto, TabMsg, Repeated, Arrives

LEMMA ExtensionCrosses ==
    ASSUME NEW e \in Extension(FALSE)
    PROVE  Arrives(e, extensionToProto(e), extensionFromProto(extensionToProto(e)),
                   ExtensionMsg, Extension(TRUE))
<1> DEFINE t == Each(nodeToProto, e.Node)
           u == Each(nodeFromProto, t)
<1>1. Arrives(e.Node, t, u, Seq(NodeMsg) \ {<<>>}, Layout(TRUE))
  BY LayoutCrosses DEF Extension
<1>2. extensionToProto(e).Node = t /\ extensionFromProto(extensionToProto(e)).Node = u
  BY DEF extensionToProto, extensionFromProto
<1> HIDE DEF t, u
<1> QED BY <1>1, <1>2
        DEF Extension, extensionToProto, extensionFromProto, ExtensionMsg, Repeated, Arrives

LEMMA TabsCross ==
    ASSUME NEW s \in Slice(FALSE, Tab(FALSE)),
           NEW t, t = Each(tabToProto, Field(s)), NEW u, u = Each(tabFromProto, t)
    PROVE  Arrives(s, t, u, Repeated(TabMsg), Repeated(Tab(TRUE)))
<1> DEFINE S == Tab(FALSE)
           T == Tab(TRUE)
<1>1. /\ (Field(s) = Nil => t = Nil) /\ (t = Nil => u = Nil)
      /\ Field(s) # Nil => t = [i \in DOMAIN s |-> tabToProto(s[i])]
      /\ t # Nil => u = [i \in DOMAIN s |-> tabFromProto(tabToProto(s[i]))]
  BY FieldFacts DEF Each
<1>2. ASSUME NEW i \in DOMAIN s, s[i] \in Tab(FALSE)
      PROVE  Arrives(s[i], tabToProto(s[i]), tabFromProto(tabToProto(s[i])), TabMsg, Tab(TRUE))
  BY <1>2, TabCrosses
<1>3. ASSUME NEW i \in DOMAIN s, Field(s) # Nil, s[i] \in S
      PROVE  t[i] \in TabMsg /\ (t # Nil => Arrives(s[i], t[i], u[i], TabMsg, T))
  BY <1>1, <1>2, <1>3 DEF Arrives
<1>4. s \in Slice(FALSE, S) /\ Nil \notin Seq(TabMsg)
  BY NilAssumption
<1> HIDE DEF S, T
<1>5. Arrives(s, t, u, Repeated(TabMsg), Repeated(T))
  BY <1>1, <1>3, <1>4, SliceCrosses
<1> QED BY <1>5 DEF T

LEMMA ExtensionsCross ==
    ASSUME NEW s \in Slice(FALSE, Extension(FALSE)),
           NEW t, t = Each(extensionToProto, Field(s)), NEW u, u = Each(extensionFromProto, t)
    PROVE  Arrives(s, t, u, Repeated(ExtensionMsg), Repeated(Extension(TRUE)))
<1> DEFINE S == Extension(FALSE)
           T == Extension(TRUE)
<1>1. /\ (Field(s) = Nil => t = Nil) /\ (t = Nil => u = Nil)
      /\ Field(s) # Nil => t = [i \in DOMAIN s |-> extensionToProto(s[i])]
      /\ t # Nil => u = [i \in DOMAIN s |-> extensionFromProto(extensionToProto(s[i]))]
  BY FieldFacts DEF Each
<1>2. ASSUME NEW i \in DOMAIN s, s[i] \in Extension(FALSE)
      PROVE  Arrives(s[i], extensionToProto(s[i]), extensionFromProto(extensionToProto(s[i])),
                     ExtensionMsg, Extension(TRUE))
  BY <1>2, ExtensionCrosses
<1>3. ASSUME NEW i \in DOMAIN s, Field(s) # Nil, s[i] \in S
      PROVE  t[i] \in ExtensionMsg /\ (t # Nil => Arrives(s[i], t[i], u[i], ExtensionMsg, T))
  BY <1>1, <1>2, <1>3 DEF Arrives
<1>4. s \in Slice(FALSE, S) /\ Nil \notin Seq(ExtensionMsg)
  BY NilAssumption
<1> HIDE DEF S, T
<1>5. Arrives(s, t, u, Repeated(ExtensionMsg), Repeated(T))
  BY <1>1, <1>3, <1>4, SliceCrosses
<1> QED BY <1>5 DEF T

LEMMA GrantedMapCrosses ==
    ASSUME NEW m \in Map(FALSE, GrantedListener(FALSE)),
           NEW t, t = Entries(grantedToProto, MapField(m)),
           NEW u, u = Entries(grantedFromProto, t)
    PROVE  Arrives(m, t, u, Mapped(GrantedListenerMsg), Mapped(GrantedListener(TRUE)))
<1> DEFINE S == GrantedListener(FALSE)
           T == GrantedListener(TRUE)
           M == GrantedListenerMsg
<1>1. (MapField(m) = Nil => t = Nil) /\ (t = Nil => u = Nil)
  BY DEF Entries
<1>2. MapField(m) # Nil =>
         m # Nil /\ t = [k \in Keys |-> IF m[k] = Nil THEN Nil ELSE grantedToProto(m[k])]
  BY NilAssumption DEF Entries, MapField
<1>3. t # Nil => u = [k \in Keys |-> IF t[k] = Nil THEN Nil ELSE grantedFromProto(t[k])]
  BY DEF Entries
<1>4. ASSUME NEW k \in Keys, m[k] \in GrantedListener(FALSE)
      PROVE  Arrives(m[k], grantedToProto(m[k]), grantedFromProto(grantedToProto(m[k])),
                     GrantedListenerMsg, GrantedListener(TRUE))
  BY <1>4, GrantedCrosses
<1>5. Nil \notin M /\ Nil \notin T /\ m \in Map(FALSE, S)
  BY NilAssumption
<1>6. Nil \notin [Keys -> {Nil} \cup M]
  BY NilAssumption
<1>7. ASSUME NEW k \in Keys, MapField(m) # Nil
      PROVE  /\ IF m[k] = Nil THEN t[k] = Nil ELSE m[k] \in S => t[k] \in M
             /\ t # Nil => IF m[k] = Nil THEN u[k] = Nil
                           ELSE m[k] \in S => Arrives(m[k], t[k], u[k], M, T)
  <2>1. CASE m[k] = Nil
    BY <1>2, <1>3, <1>7, <2>1
  <2>2. CASE m[k] # Nil
    <3>1. t[k] = grantedToProto(m[k])
      BY <1>2, <1>7, <2>2
    <3>2. t # Nil /\ t[k] # Nil => u[k] = grantedFromProto(grantedToProto(m[k]))
      BY <1>3, <3>1
    <3> QED BY <1>4, <1>5, <2>2, <3>1, <3>2 DEF Arrives
  <2> QED BY <2>1, <2>2
<1>8. MapField(m) # Nil => t = [k \in Keys |-> t[k]]
  BY <1>2
<1>9. t # Nil => u = [k \in Keys |-> u[k]]
  BY <1>3
<1> HIDE DEF S, T, M
<1>10. Arrives(m, t, u, Mapped(M), Mapped(T))
  BY <1>1, <1>5, <1>6, <1>7, <1>8, <1>9, MapCrosses
<1> QED BY <1>10 DEF T, M

LEMMA DepMapCrosses ==
    ASSUME NEW m \in Map(FALSE, Dep),
           NEW t, t = Entries(depToProto, MapField(m)),
           NEW u, u = IF t = Nil THEN NoEntries ELSE Entries(depFromProto, t)
    PROVE  Arrives(m, t, u, Mapped(DepMsg), [Keys -> {Nil} \cup Dep])
<1>1. CASE MapField(m) = Nil
  <2>1. t = Nil /\ u = NoEntries
    BY <1>1 DEF Entries
  <2>2. m \in [Keys -> {Nil} \cup Dep] => m = NoEntries
    BY <1>1, NilAssumption DEF MapField
  <2> QED BY <2>1, <2>2 DEF Mapped, NoEntries, Arrives
<1>2. CASE MapField(m) # Nil
  <2>1. m \in [Keys -> {Nil} \cup Dep] /\ m # NoEntries
    BY <1>2 DEF MapField, Map
  <2>2. t = [k \in Keys |-> IF m[k] = Nil THEN Nil ELSE depToProto(m[k])]
    BY <1>2, <2>1 DEF Entries, MapField
  <2>3. PICK k \in Keys : m[k] # Nil
    BY <2>1 DEF NoEntries
  <2>4. \A j \in Keys : m[j] # Nil =>
           depToProto(m[j]) \in DepMsg /\ depFromProto(depToProto(m[j])) = m[j]
    BY <2>1, DepCrosses DEF Arrives
  <2>5. Nil \notin DepMsg /\ Nil \notin [Keys -> {Nil} \cup DepMsg]
    BY NilAssumption
  <2>6. t \in [Keys -> {Nil} \cup DepMsg] /\ t # NoEntries /\ t # Nil
    BY <2>2, <2>3, <2>4, <2>5 DEF NoEntries
  <2>7. u = [j \in Keys |-> IF t[j] = Nil THEN Nil ELSE depFromProto(t[j])]
    BY <2>6 DEF Entries
  <2>8. \A j \in Keys : u[j] = m[j]
    BY <2>2, <2>4, <2>5, <2>7
  <2>9. u = m
    BY <2>1, <2>7, <2>8
  <2> QED BY <2>1, <2>6, <2>9 DEF Mapped, Arrives
<1> QED BY <1>1, <1>2

LEMMA GrantCrosses ==
    ASSUME NEW g \in Grant(FALSE)
    PROVE  Arrives(g, grantToProto(g), grantFromProto(grantToProto(g)),
                   {Nil} \cup GrantMsg, Grant(TRUE))
<1> DEFINE t == Entries(grantedToProto, MapField(g.Listeners))
           u == Entries(grantedFromProto, t)
<1>1. g.Listeners \in Map(FALSE, GrantedListener(FALSE)) /\ g.Host \in String
  BY DEF Grant
<1>2. Arrives(g.Listeners, t, u, Mapped(GrantedListenerMsg), Mapped(GrantedListener(TRUE)))
  BY <1>1, GrantedMapCrosses
<1>3. MapField(g.Listeners) = Nil => t = Nil /\ u = Nil
  BY DEF Entries
<1>4. CASE g.Host = <<>> /\ MapField(g.Listeners) = Nil
  <2>1. grantToProto(g) = Nil /\ grantFromProto(grantToProto(g)) = ZeroGrant
    BY <1>4 DEF grantToProto, grantFromProto
  <2>2. ZeroGrant \in Grant(TRUE)
    BY <1>1, <1>4 DEF ZeroGrant, Grant, Map, Mapped
  <2>3. g \in Grant(TRUE) => g = ZeroGrant
    BY <1>2, <1>3, <1>4 DEF Grant, ZeroGrant, Map, Arrives
  <2> QED BY <2>1, <2>2, <2>3 DEF Arrives
<1>5. CASE ~ (g.Host = <<>> /\ MapField(g.Listeners) = Nil)
  <2>1. grantToProto(g) = [Host |-> g.Host, Listeners |-> t]
    BY <1>5 DEF grantToProto
  <2> HIDE DEF t
  <2>2. grantToProto(g) \in GrantMsg
    BY <1>1, <1>2, <2>1 DEF GrantMsg, Arrives
  <2>3. Nil \notin GrantMsg
    BY NilAssumption
  <2>4. grantFromProto(grantToProto(g)) = [Host |-> g.Host, Listeners |-> u]
    BY <2>1, <2>2, <2>3 DEF grantFromProto
  <2> DEFINE L == Mapped(GrantedListener(TRUE))
  <2>5. Grant(TRUE) = [Host : String, Listeners : L]
    BY DEF Grant, Map
  <2>6. u \in L /\ (g \in Grant(TRUE) => u = g.Listeners)
    BY <1>2 DEF Grant, Map, Arrives
  <2>7. g = [Host |-> g.Host, Listeners |-> g.Listeners]
    BY DEF Grant
  <2> HIDE DEF u, L
  <2> QED BY <1>1, <2>2, <2>4, <2>5, <2>6, <2>7 DEF Arrives
<1> QED BY <1>4, <1>5

LEMMA NetworkCrosses ==
    ASSUME NEW n \in Network(FALSE)
    PROVE  Arrives(n, networkToProto(n), networkFromProto(networkToProto(n)),
                   NetworkMsg, Network(TRUE))
<1> DEFINE t == Each(listenerToProto, Field(n.Listeners))
           u == Each(listenerFromProto, t)
           L == Repeated(Listener(TRUE))
<1>1. Arrives(n.Listeners, t, u, Repeated(ListenerMsg), L)
  BY ListenersCross DEF Network
<1>2. networkToProto(n) = [Listeners |-> t]
      /\ networkFromProto(networkToProto(n)) = [Listeners |-> u]
  BY DEF networkToProto, networkFromProto
<1>3. Network(TRUE) = [Listeners : L] /\ n = [Listeners |-> n.Listeners]
  BY DEF Network, Slice
<1> HIDE DEF t, u, L
<1>4. networkToProto(n) \in NetworkMsg
  BY <1>1, <1>2 DEF NetworkMsg, Arrives
<1>5. networkFromProto(networkToProto(n)) \in Network(TRUE)
  BY <1>1, <1>2, <1>3 DEF Arrives
<1>6. n \in Network(TRUE) => u = n.Listeners
  BY <1>1 DEF L, Network, Slice, Arrives
<1> QED BY <1>2, <1>3, <1>4, <1>5, <1>6 DEF Arrives

LEMMA PlanCrosses ==
    ASSUME NEW n \in SpawnPlan(FALSE)
    PROVE  Arrives(n, planToProto(n), planFromProto(planToProto(n)),
                   SpawnPlanMsg, SpawnPlan(TRUE))
<1> DEFINE t == Each(specToProto, Field(n.Specs))
           u == Each(specFromProto, t)
           L == Repeated(SpawnSpec(TRUE))
<1>1. Arrives(n.Specs, t, u, Repeated(SpawnSpecMsg), L)
  BY SpecsCross DEF SpawnPlan
<1>2. planToProto(n) = [Specs |-> t] /\ planFromProto(planToProto(n)) = [Specs |-> u]
  <2>1. planToProto(n) \in SpawnPlanMsg
    BY <1>1 DEF planToProto, SpawnPlanMsg, Arrives
  <2>2. planToProto(n) # Nil
    BY <2>1, NilAssumption
  <2> QED BY <2>2 DEF planToProto, planFromProto
<1>3. SpawnPlan(TRUE) = [Specs : L] /\ n = [Specs |-> n.Specs]
  BY DEF SpawnPlan, Slice
<1> HIDE DEF t, u, L
<1>4. planToProto(n) \in SpawnPlanMsg
  BY <1>1, <1>2 DEF SpawnPlanMsg, Arrives
<1>5. planFromProto(planToProto(n)) \in SpawnPlan(TRUE)
  BY <1>1, <1>2, <1>3 DEF Arrives
<1>6. n \in SpawnPlan(TRUE) => u = n.Specs
  BY <1>1 DEF L, SpawnPlan, Slice, Arrives
<1> QED BY <1>2, <1>3, <1>4, <1>5, <1>6 DEF Arrives

LEMMA ConsoleCrosses ==
    ASSUME NEW s \in ConsoleSpec(FALSE)
    PROVE  Arrives(s, consoleSpecToProto(s), consoleSpecFromProto(consoleSpecToProto(s)),
                   ConsoleSpecMsg, ConsoleSpec(TRUE))
<1> DEFINE p == Each(panelToProto, Field(s.Panels))
           q == Each(panelFromProto, p)
           t == Each(tabToProto, Field(s.Tabs))
           u == Each(tabFromProto, t)
           e == Each(extensionToProto, Field(s.Extend))
           f == Each(extensionFromProto, e)
           P == Repeated(Panel(TRUE))
           T == Repeated(Tab(TRUE))
           E == Repeated(Extension(TRUE))
<1>1. Arrives(s.Panels, p, q, Repeated(PanelMsg), P)
  BY PanelsCross DEF ConsoleSpec
<1>2. Arrives(s.Tabs, t, u, Repeated(TabMsg), T)
  BY TabsCross DEF ConsoleSpec
<1>3. Arrives(s.Extend, e, f, Repeated(ExtensionMsg), E)
  BY ExtensionsCross DEF ConsoleSpec
<1>4. /\ consoleSpecToProto(s) = [Front |-> s.Front, WebUrl |-> s.WebURL, Panels |-> p,
                                  Tabs |-> t, Extend |-> e]
      /\ consoleSpecFromProto(consoleSpecToProto(s)) =
            [Front |-> s.Front, WebURL |-> s.WebURL, Panels |-> q, Tabs |-> u, Extend |-> f]
  <2>1. consoleSpecToProto(s) \in ConsoleSpecMsg
    BY <1>1, <1>2, <1>3 DEF consoleSpecToProto, ConsoleSpecMsg, ConsoleSpec, Arrives
  <2>2. consoleSpecToProto(s) # Nil
    BY <2>1, NilAssumption
  <2> QED BY <2>2 DEF consoleSpecToProto, consoleSpecFromProto
<1>5. ConsoleSpec(TRUE) = [Front : String, WebURL : String, Panels : P, Tabs : T, Extend : E]
  BY DEF ConsoleSpec, Slice
<1>6. /\ s.Front \in String /\ s.WebURL \in String
      /\ s = [Front |-> s.Front, WebURL |-> s.WebURL, Panels |-> s.Panels, Tabs |-> s.Tabs,
              Extend |-> s.Extend]
  BY DEF ConsoleSpec
<1> HIDE DEF p, q, t, u, e, f, P, T, E
<1>7. consoleSpecToProto(s) \in ConsoleSpecMsg
  BY <1>1, <1>2, <1>3, <1>4, <1>6 DEF ConsoleSpecMsg, Arrives
<1>8. consoleSpecFromProto(consoleSpecToProto(s)) \in ConsoleSpec(TRUE)
  BY <1>1, <1>2, <1>3, <1>4, <1>5, <1>6 DEF Arrives
<1>9. s \in ConsoleSpec(TRUE) => s.Panels \in P /\ s.Tabs \in T /\ s.Extend \in E
  BY DEF P, T, E, ConsoleSpec, Slice
<1>10. s \in ConsoleSpec(TRUE) => q = s.Panels /\ u = s.Tabs /\ f = s.Extend
  BY <1>1, <1>2, <1>3, <1>9 DEF Arrives
<1> QED BY <1>4, <1>6, <1>7, <1>8, <1>10 DEF Arrives

(* The values an instance consists of, and what becomes of each. *)
LEMMA InstanceCrosses ==
    ASSUME NEW v \in Instance(FALSE), Known(SpecBytes(v.Spec))
    PROVE  LET m == [v EXCEPT !.Spec = SpecBytes(v.Spec)]
           IN  Arrives(m, instanceToProto(v), instanceFromProto(instanceToProto(v)),
                       InstanceMsg, Instance(TRUE))
<1> DEFINE m == [v EXCEPT !.Spec = SpecBytes(v.Spec)]
           d == Entries(depToProto, MapField(v.Deps))
           e == IF d = Nil THEN NoEntries ELSE Entries(depFromProto, d)
           D == [Keys -> {Nil} \cup Dep]
           tc == toolchainFromProto(toolchainToProto(v.Toolchain))
           gr == grantFromProto(grantToProto(v.Grant))
           en == endpointFromProto(endpointToProto(v.Endpoint))
           p == instanceToProto(v)
           q == instanceFromProto(p)
<1>1. Arrives(v.Deps, d, e, Mapped(DepMsg), D)
  <2>1. v.Deps \in Map(FALSE, Dep)
    BY DEF Instance, Map
  <2> QED BY <2>1, DepMapCrosses
<1>2. Arrives(v.Toolchain, toolchainToProto(v.Toolchain), tc, ToolchainMsg, Toolchain(TRUE))
  BY ToolchainCrosses DEF Instance
<1>3. Arrives(v.Grant, grantToProto(v.Grant), gr, {Nil} \cup GrantMsg, Grant(TRUE))
  BY GrantCrosses DEF Instance
<1>4. Arrives(v.Endpoint, endpointToProto(v.Endpoint), en, EndpointMsg, Endpoint)
  BY EndpointCrosses DEF Instance
<1>5. int32(v.Port) \in Int32 /\ (v.Port \in Int32 => int32(v.Port) = v.Port)
  <2>1. v.Port \in Integer(FALSE)
    BY DEF Instance
  <2> QED BY <2>1, IntegerFacts DEF Integer
<1>6. SpecBytes(v.Spec) \in {Nil} \cup Registered /\ Registered \subseteq Configs
  BY ConfigsAssumption DEF Known
<1>7. p = [Name |-> v.Name, Type |-> v.Type, Version |-> v.Version, DataDir |-> v.DataDir,
           SocketDir |-> v.SocketDir, Port |-> int32(v.Port),
           Endpoint |-> endpointToProto(v.Endpoint), Spec |-> SpecBytes(v.Spec), Deps |-> d,
           Toolchain |-> toolchainToProto(v.Toolchain), Grant |-> grantToProto(v.Grant)]
  BY DEF instanceToProto
<1> HIDE DEF d
<1>8. q = [Name |-> v.Name, Type |-> v.Type, Version |-> v.Version, DataDir |-> v.DataDir,
           SocketDir |-> v.SocketDir, Port |-> int32(v.Port), Endpoint |-> en,
           Spec |-> SpecBytes(v.Spec), Deps |-> e, Toolchain |-> tc, Grant |-> gr]
  <2>1. v.Name \in String /\ v.Type \in String /\ v.Version \in String
        /\ v.DataDir \in String /\ v.SocketDir \in String
    BY DEF Instance
  <2>2. p \in InstanceMsg
    <3> HIDE DEF p
    <3> QED BY <1>1, <1>2, <1>3, <1>4, <1>5, <1>6, <1>7, <2>1 DEF InstanceMsg, Arrives
  <2>3. p # Nil
    BY <2>2, NilAssumption
  <2>4. q = [Name |-> p.Name, Type |-> p.Type, Version |-> p.Version, DataDir |-> p.DataDir,
             SocketDir |-> p.SocketDir, Port |-> p.Port, Endpoint |-> endpointFromProto(p.Endpoint),
             Spec |-> p.Spec,
             Deps |-> IF p.Deps = Nil THEN NoEntries ELSE Entries(depFromProto, p.Deps),
             Toolchain |-> toolchainFromProto(p.Toolchain), Grant |-> grantFromProto(p.Grant)]
    BY <2>3 DEF instanceFromProto
  <2> HIDE DEF p, q
  <2> QED BY <1>7, <2>4
<1>9. v = [Name |-> v.Name, Type |-> v.Type, Version |-> v.Version, DataDir |-> v.DataDir,
           SocketDir |-> v.SocketDir, Port |-> v.Port, Endpoint |-> v.Endpoint,
           Spec |-> v.Spec, Deps |-> v.Deps, Toolchain |-> v.Toolchain, Grant |-> v.Grant]
      /\ \A x \in {v.Name, v.Type, v.Version, v.DataDir, v.SocketDir} : x \in String
  BY DEF Instance
<1>10. m = [Name |-> v.Name, Type |-> v.Type, Version |-> v.Version, DataDir |-> v.DataDir,
            SocketDir |-> v.SocketDir, Port |-> v.Port, Endpoint |-> v.Endpoint,
            Spec |-> SpecBytes(v.Spec), Deps |-> v.Deps, Toolchain |-> v.Toolchain,
            Grant |-> v.Grant]
  BY <1>9
<1>11. Instance(TRUE) =
          [Name : String, Type : String, Version : String, DataDir : String,
           SocketDir : String, Port : Int32, Endpoint : Endpoint,
           Spec : {Nil} \cup Registered, Deps : D, Toolchain : Toolchain(TRUE),
           Grant : Grant(TRUE)]
  BY DEF Instance, Integer
<1>15. v.Deps \in D /\ v.Port \in Int32 /\ v.Toolchain \in Toolchain(TRUE) /\ v.Grant \in Grant(TRUE)
       => e = v.Deps /\ tc = v.Toolchain /\ gr = v.Grant
  BY <1>1, <1>2, <1>3 DEF Arrives
<1>16. ASSUME m \in Instance(TRUE)
       PROVE  v.Deps \in D /\ v.Port \in Int32 /\ v.Toolchain \in Toolchain(TRUE) /\ v.Grant \in Grant(TRUE)
  <2>1. m.Deps = v.Deps /\ m.Port = v.Port /\ m.Toolchain = v.Toolchain /\ m.Grant = v.Grant
    BY <1>10
  <2> HIDE DEF m
  <2>2. m.Deps \in D /\ m.Port \in Int32 /\ m.Toolchain \in Toolchain(TRUE) /\ m.Grant \in Grant(TRUE)
    BY <1>16 DEF D, Instance, Integer
  <2> QED BY <2>1, <2>2
<1>17. en = v.Endpoint
  BY <1>4, <1>9 DEF Instance, Arrives
<1> HIDE DEF e, D, tc, gr, en
<1>12. p \in InstanceMsg
  BY <1>1, <1>2, <1>3, <1>4, <1>5, <1>6, <1>7, <1>9 DEF InstanceMsg, Arrives
<1>13. q \in Instance(TRUE)
  BY <1>1, <1>2, <1>3, <1>4, <1>5, <1>6, <1>8, <1>9, <1>11 DEF Arrives
<1>14. m \in Instance(TRUE) => q = m
  BY <1>5, <1>8, <1>10, <1>15, <1>16, <1>17
<1> QED BY <1>12, <1>13, <1>14 DEF Arrives

LEMMA KindCrosses ==
    ASSUME NEW k \in {"network"} \cup ResolveKinds \cup CallKinds, NEW v \in Held(k, FALSE)
    PROVE  Arrives(v, ToProto(k, v), FromProto(k, ToProto(k, v)), Messages(k), Carried(k))
<1>1. CASE k = "network"
  <2>1. v \in Network(FALSE) /\ ToProto(k, v) = networkToProto(v)
        /\ FromProto(k, networkToProto(v)) = networkFromProto(networkToProto(v))
        /\ Messages(k) = NetworkMsg /\ Carried(k) = Network(TRUE)
    BY <1>1 DEF Held, Carried, ToProto, FromProto, Messages
  <2> QED BY <2>1, NetworkCrosses
<1>2. CASE k = "platform"
  <2>1. v \in Platform /\ ToProto(k, v) = platformToProto(v)
        /\ FromProto(k, platformToProto(v)) = platformFromProto(platformToProto(v))
        /\ Messages(k) = PlatformMsg /\ Carried(k) = Platform
    BY <1>2 DEF Held, Carried, ToProto, FromProto, Messages
  <2> QED BY <2>1, PlatformCrosses
<1>3. CASE k = "toolchain"
  <2>1. v \in Toolchain(FALSE) /\ ToProto(k, v) = toolchainToProto(v)
        /\ FromProto(k, toolchainToProto(v)) = toolchainFromProto(toolchainToProto(v))
        /\ Messages(k) = ToolchainMsg /\ Carried(k) = Toolchain(TRUE)
    BY <1>3 DEF Held, Carried, ToProto, FromProto, Messages
  <2> QED BY <2>1, ToolchainCrosses
<1>4. CASE k = "endpoint"
  <2>1. v \in Endpoint /\ ToProto(k, v) = endpointToProto(v)
        /\ FromProto(k, endpointToProto(v)) = endpointFromProto(endpointToProto(v))
        /\ Messages(k) = EndpointMsg /\ Carried(k) = Endpoint
    BY <1>4 DEF Held, Carried, ToProto, FromProto, Messages
  <2> QED BY <2>1, EndpointCrosses
<1>5. CASE k = "plan"
  <2>1. v \in SpawnPlan(FALSE) /\ ToProto(k, v) = planToProto(v)
        /\ FromProto(k, planToProto(v)) = planFromProto(planToProto(v))
        /\ Messages(k) = SpawnPlanMsg /\ Carried(k) = SpawnPlan(TRUE)
    BY <1>5 DEF Held, Carried, ToProto, FromProto, Messages
  <2> QED BY <2>1, PlanCrosses
<1>6. CASE k = "restart"
  <2>1. v \in RestartSpec(FALSE) /\ ToProto(k, v) = restartToProto(v)
        /\ FromProto(k, restartToProto(v)) = restartFromProto(restartToProto(v))
        /\ Messages(k) = RestartSpecMsg /\ Carried(k) = RestartSpec(TRUE)
    BY <1>6 DEF Held, Carried, ToProto, FromProto, Messages
  <2> QED BY <2>1, RestartCrosses
<1>7. CASE k = "console"
  <2>1. v \in ConsoleSpec(FALSE) /\ ToProto(k, v) = consoleSpecToProto(v)
        /\ FromProto(k, consoleSpecToProto(v)) = consoleSpecFromProto(consoleSpecToProto(v))
        /\ Messages(k) = ConsoleSpecMsg /\ Carried(k) = ConsoleSpec(TRUE)
    BY <1>7 DEF Held, Carried, ToProto, FromProto, Messages
  <2> QED BY <2>1, ConsoleCrosses
<1>8. CASE k = "locks"
  <2>1. v \in Slice(FALSE, LockEntry(FALSE)) /\ ToProto(k, v) = Each(lockEntryToProto, Field(v))
        /\ FromProto(k, ToProto(k, v)) = Each(lockEntryFromProto, ToProto(k, v))
        /\ Messages(k) = Repeated(LockEntryMsg) /\ Carried(k) = Repeated(LockEntry(TRUE))
    BY <1>8
       DEF Held, Carried, ToProto, FromProto, Messages, Slice, lockEntriesToProto, lockEntriesFromProto
  <2> QED BY <2>1, LockEntriesCross
<1>9. CASE k = "objects"
  <2>1. v \in Slice(FALSE, Object) /\ ToProto(k, v) = Each(objectToProto, Field(v))
        /\ FromProto(k, ToProto(k, v)) = Each(objectFromProto, ToProto(k, v))
        /\ Messages(k) = Repeated(ObjectMsg) /\ Carried(k) = Repeated(Object)
    BY <1>9
       DEF Held, Carried, ToProto, FromProto, Messages, Slice, objectsToProto, objectsFromProto
  <2> QED BY <2>1, ObjectsCross
<1>10. CASE k = "actions"
  <2>1. v \in Slice(FALSE, Action) /\ ToProto(k, v) = Each(actionToProto, Field(v))
        /\ FromProto(k, ToProto(k, v)) = Each(actionFromProto, ToProto(k, v))
        /\ Messages(k) = Repeated(ActionMsg) /\ Carried(k) = Repeated(Action)
    BY <1>10
       DEF Held, Carried, ToProto, FromProto, Messages, Slice, actionsToProto, actionsFromProto
  <2> QED BY <2>1, ActionsCross
<1>11. CASE k = "resources"
  <2>1. v \in Slice(FALSE, Resource(FALSE)) /\ ToProto(k, v) = Each(resourceToProto, Field(v))
        /\ FromProto(k, ToProto(k, v)) = Each(resourceFromProto, ToProto(k, v))
        /\ Messages(k) = Repeated(ResourceMsg) /\ Carried(k) = Repeated(Resource(TRUE))
    BY <1>11
       DEF Held, Carried, ToProto, FromProto, Messages, Slice, resourcesToProto, resourcesFromProto
  <2> QED BY <2>1, ResourcesCross
<1> QED BY <1>1, <1>2, <1>3, <1>4, <1>5, <1>6, <1>7, <1>8, <1>9, <1>10, <1>11
           DEF ResolveKinds, CallKinds

-----------------------------------------------------------------------------
(* The networks. *)

(* The main listener, which every network that may be served has. *)
LEMMA ValidHasListeners ==
    ASSUME NEW n, ValidateNetwork(n)
    PROVE  n.Listeners # Nil /\ All(n.Listeners) = n.Listeners
<1>1. PICK i \in DOMAIN All(n.Listeners) : TRUE
  BY DEF ValidateNetwork
<1>2. n.Listeners # Nil
  BY <1>1, EmptySeq DEF All
<1> QED BY <1>2 DEF All

LEMMA DefaultIsTaken ==
    DefaultNetwork \in Network(TRUE) /\ DefaultNetwork.Listeners # Nil /\ Taken(DefaultNetwork)
<1> DEFINE l == [Name |-> MainListener, Port |-> 0, Protocol |-> TCP, Routes |-> Nil]
           ls == DefaultNetwork.Listeners
<1>1. ls = <<l>> /\ DOMAIN ls = {1} /\ ls[1] = l
  BY DEF DefaultNetwork
<1>2. l \in Listener(TRUE)
  BY WidthAssumption, MainAssumption, ProtocolAssumption
     DEF Listener, Integer, Slice, Repeated, Int32
<1>3. ls \in Seq(Listener(TRUE)) /\ ls # <<>>
  <2> DEFINE K == Listener(TRUE)
  <2>1. l \in K
    BY <1>2
  <2> HIDE DEF K
  <2>2. ls \in Seq(K) /\ ls # <<>>
    BY <1>1, <2>1
  <2> QED BY <2>2 DEF K
<1>4. ls # Nil
  BY <1>3, NilAssumption
<1>5. DefaultNetwork \in Network(TRUE)
  BY <1>3 DEF DefaultNetwork, Network, Slice, Repeated
<1>6. All(ls) = ls
  BY <1>4 DEF All
<1> HIDE DEF ls
<1>7. ValidListener(l)
  BY MainAssumption, ProtocolAssumption, EmptySeq DEF ValidListener, Declared, All
<1>8. RoutesDiffer(ls)
  BY <1>1, EmptySeq DEF RoutesDiffer, All
<1>9. NamesDiffer(ls) /\ PortsDiffer(ls)
  BY <1>1 DEF NamesDiffer, PortsDiffer
<1>10. ValidateNetwork(DefaultNetwork)
  BY <1>1, <1>6, <1>7, <1>8, <1>9 DEF ValidateNetwork, ls
<1>11. Taken(DefaultNetwork)
  BY <1>1, <1>10 DEF Taken, ls
<1> QED BY <1>4, <1>5, <1>11 DEF ls

(* What becomes of the listeners of a network. *)
LEMMA ArrivedListeners ==
    ASSUME NEW n \in Network(FALSE)
    PROVE  /\ All(n.Listeners) = <<>> => Arrived(n).Listeners = Nil
           /\ All(n.Listeners) # <<>> =>
                 /\ n.Listeners # Nil /\ Arrived(n).Listeners # Nil
                 /\ Arrived(n).Listeners =
                       [i \in DOMAIN n.Listeners |->
                           listenerFromProto(listenerToProto(n.Listeners[i]))]
                 /\ \A i \in DOMAIN n.Listeners : n.Listeners[i] \in Listener(FALSE)
<1> DEFINE s == n.Listeners
           t == Each(listenerToProto, Field(s))
           u == Each(listenerFromProto, t)
           L == Listener(FALSE)
<1>1. Arrived(n).Listeners = u
  BY DEF Arrived, networkToProto, networkFromProto
<1>2. Arrives(s, t, u, Repeated(ListenerMsg), Repeated(Listener(TRUE)))
  BY ListenersCross DEF Network
<1>3. CASE All(s) = <<>>
  <2>1. Field(s) = Nil
    BY <1>3 DEF All, Field
  <2> QED BY <1>1, <1>3, <2>1 DEF Each
<1>4. CASE All(s) # <<>>
  <2>1. s # Nil /\ s # <<>> /\ Field(s) = s
    BY <1>4 DEF All, Field
  <2>2. t = [i \in DOMAIN s |-> listenerToProto(s[i])]
    BY <2>1 DEF Each
  <2>3. s \in Seq(L)
    BY <2>1 DEF Network, Slice
  <2> HIDE DEF L
  <2>4. DOMAIN s = 1..Len(s) /\ Len(s) \in Nat /\ \A i \in DOMAIN s : s[i] \in L
    BY <2>3
  <2>5. \A i \in DOMAIN s : listenerToProto(s[i]) \in ListenerMsg
    BY <2>4, ListenerCrosses DEF L, Arrives
  <2>6. t \in [1..Len(s) -> ListenerMsg]
    BY <2>2, <2>4, <2>5
  <2>7. t \in Seq(ListenerMsg)
    BY <2>4, <2>6, SeqDef
  <2>8. t # Nil
    BY <2>7, NilAssumption
  <2>9. u = [i \in DOMAIN s |-> listenerFromProto(listenerToProto(s[i]))]
    BY <2>2, <2>8 DEF Each
  <2>10. u # Nil
    <3>1. \A i \in DOMAIN s : listenerFromProto(listenerToProto(s[i])) \in Listener(TRUE)
      BY <2>4, ListenerCrosses DEF L, Arrives
    <3> DEFINE K == Listener(TRUE)
    <3>2. Nil \notin Seq(K)
      BY NilAssumption
    <3> HIDE DEF K, u
    <3>3. u \in [1..Len(s) -> K]
      BY <2>4, <2>9, <3>1 DEF K
    <3>4. u \in Seq(K)
      BY <2>4, <3>3, SeqDef
    <3> QED BY <3>2, <3>4
  <2> QED BY <1>1, <1>4, <2>1, <2>4, <2>9, <2>10 DEF L
<1> QED BY <1>3, <1>4

(* A valid network arrives valid, listener for listener: a port in range fits
   32 bits, and routes left out are as good as none. *)
LEMMA ValidArrives ==
    ASSUME NEW n \in Network(FALSE), ValidateNetwork(n)
    PROVE  /\ ValidateNetwork(Arrived(n))
           /\ Arrived(n).Listeners # Nil
           /\ DOMAIN Arrived(n).Listeners = DOMAIN n.Listeners
           /\ \A i \in DOMAIN n.Listeners :
                 /\ Arrived(n).Listeners[i].Name = n.Listeners[i].Name
                 /\ Arrived(n).Listeners[i].Port = n.Listeners[i].Port
           /\ SameNetwork(Arrived(n), n)
<1> DEFINE ls == n.Listeners
           ms == Arrived(n).Listeners
<1>1. ls # Nil /\ All(ls) = ls /\ All(ls) # <<>>
  <2>1. ls # Nil /\ All(ls) = ls
    BY ValidHasListeners
  <2>2. \E i \in DOMAIN All(ls) : TRUE
    BY DEF ValidateNetwork
  <2> QED BY <2>1, <2>2, EmptySeq
<1>2. ms # Nil /\ ms = [i \in DOMAIN ls |-> listenerFromProto(listenerToProto(ls[i]))]
      /\ \A i \in DOMAIN ls : ls[i] \in Listener(FALSE)
  BY <1>1, ArrivedListeners
<1>3. \A i \in DOMAIN ls : ValidListener(ls[i])
  BY <1>1 DEF ValidateNetwork
<1> HIDE DEF ls, ms
<1>4. ASSUME NEW i \in DOMAIN ls
      PROVE  /\ ms[i] = [ls[i] EXCEPT !.Routes = Field(@)]
             /\ ms[i].Name = ls[i].Name /\ ms[i].Port = ls[i].Port
             /\ ms[i].Protocol = ls[i].Protocol /\ ms[i].Routes = Field(ls[i].Routes)
  <2>1. ls[i] \in Listener(FALSE) /\ ls[i].Port \in Integer(FALSE)
    BY <1>2 DEF Listener
  <2>2. ls[i].Port \in Int32
    BY <1>3, WidthAssumption, PortAssumption DEF ValidListener, Declared, Int32
  <2>3. int32(ls[i].Port) = ls[i].Port
    BY <2>1, <2>2, IntegerFacts DEF Integer
  <2>4. ms[i] = listenerFromProto(listenerToProto(ls[i]))
    BY <1>2
  <2> QED BY <2>1, <2>3, <2>4 DEF listenerToProto, listenerFromProto, Listener
<1>5. DOMAIN ms = DOMAIN ls /\ All(ms) = ms
  BY <1>2 DEF All
<1>6. \A i \in DOMAIN ls : All(ms[i].Routes) = All(ls[i].Routes)
  BY <1>4, EmptySeq DEF All, Field
<1>7. \A i \in DOMAIN ls :
         /\ Declared(ms[i]) = Declared(ls[i])
         /\ \A j \in DOMAIN All(ls[i].Routes) : ms[i].Routes[j] = ls[i].Routes[j]
  <2>1. \A i \in DOMAIN ls : Declared(ms[i]) = Declared(ls[i])
    BY <1>4 DEF Declared
  <2>2. ASSUME NEW i \in DOMAIN ls, NEW j \in DOMAIN All(ls[i].Routes)
        PROVE  ms[i].Routes[j] = ls[i].Routes[j]
    <3>1. All(ls[i].Routes) # <<>>
      BY EmptySeq
    <3> QED BY <1>4, <3>1 DEF All, Field
  <2> QED BY <2>1, <2>2
<1>8. \A i \in DOMAIN ms : ValidListener(ms[i])
  BY <1>3, <1>4, <1>5, <1>6, <1>7 DEF ValidListener
<1>9. NamesDiffer(ms) /\ PortsDiffer(ms) /\ RoutesDiffer(ms)
  <2>1. NamesDiffer(ls) /\ PortsDiffer(ls) /\ RoutesDiffer(ls)
    BY <1>1 DEF ValidateNetwork, ls
  <2>2. NamesDiffer(ms)
    BY <1>4, <1>5, <2>1 DEF NamesDiffer
  <2>3. PortsDiffer(ms)
    BY <1>4, <1>5, <1>7, <2>1 DEF PortsDiffer
  <2>4. RoutesDiffer(ms)
    BY <1>5, <1>6, <1>7, <2>1 DEF RoutesDiffer
  <2> QED BY <2>2, <2>3, <2>4
<1>10. \E i \in DOMAIN ms : ms[i].Name = MainListener
  <2>1. \E i \in DOMAIN ls : ls[i].Name = MainListener
    BY <1>1 DEF ValidateNetwork, ls
  <2> QED BY <1>4, <1>5, <2>1
<1>11. ValidateNetwork(Arrived(n))
  BY <1>5, <1>8, <1>9, <1>10 DEF ValidateNetwork, ms
<1>12. SameNetwork(Arrived(n), n)
  <2>1. \A i \in DOMAIN ls : [ms[i] EXCEPT !.Routes = All(@)] = [ls[i] EXCEPT !.Routes = All(@)]
    BY <1>2, <1>4, <1>6 DEF Listener
  <2>2. All(Arrived(n).Listeners) = ms /\ All(n.Listeners) = ls
    BY <1>1, <1>5 DEF ms, ls
  <2> QED BY <1>5, <2>1, <2>2 DEF SameNetwork
<1> QED BY <1>2, <1>4, <1>5, <1>11, <1>12 DEF ls, ms

LEMMA RouteHostInString ==
    ASSUME NEW r \in String, NEW h \in String
    PROVE  RouteHost(r, h) \in String
<1>1. Prefix(r) \in String
  <2>1. Len(r) \in Nat
    OBVIOUS
  <2>2. CASE Len(r) = 0
    <3>1. Prefix(r) = <<>>
      BY <2>2 DEF Prefix
    <3> QED BY <3>1 DEF String
  <2>3. CASE Len(r) # 0
    BY <2>1, <2>3, SubSeqProperties DEF Prefix, String
  <2> QED BY <2>2, <2>3
<1>2. parseRoute(r).part \in String
  BY <1>1 DEF parseRoute, String
<1>3. "." \in Char
  BY CharAssumption
<1>4. <<".">> \in String /\ <<>> \in String
  BY <1>3 DEF String
<1>5. parseRoute(r).part \o <<".">> \in String
  BY <1>2, <1>4, ConcatProperties DEF String
<1>6. parseRoute(r).part \o <<".">> \o h \in String
  BY <1>5, ConcatProperties DEF String
<1>7. parseRoute(r).part \o h \in String
  BY <1>2, ConcatProperties DEF String
<1> QED BY <1>4, <1>6, <1>7 DEF RouteHost

(* What a route puts before the instance's host. *)
Front(r) ==
    IF r = RouteSelf THEN <<>> ELSE IF Ends(r) THEN Prefix(r) ELSE r \o <<".">>

LEMMA RouteFront ==
    ASSUME NEW r \in String, NEW h \in String, parseRoute(r).kind # "bad"
    PROVE  /\ RouteHost(r, h) = Front(r) \o h
           /\ Front(r) \in String
           /\ r # RouteSelf => IF Ends(r) THEN labelChars(Prefix(r)) ELSE isLabel(r)
<1>1. "." \in Char /\ <<".">> \in String /\ <<>> \in String
  BY CharAssumption DEF String
<1>2. CASE r = RouteSelf
  <2>1. RouteHost(r, h) = h /\ Front(r) = <<>>
    BY <1>2 DEF RouteHost, parseRoute, Front
  <2>2. <<>> \o h = h
    BY ConcatEmptySeq DEF String
  <2> QED BY <1>1, <1>2, <2>1, <2>2
<1>3. CASE r # RouteSelf /\ Ends(r)
  <2>1. labelChars(Prefix(r)) /\ RouteHost(r, h) = Prefix(r) \o h
    BY <1>3 DEF RouteHost, parseRoute
  <2>2. r \in Seq(Char) /\ Len(r) \in Nat /\ \A i \in 1..(Len(r) - 1) : r[i] \in Char
    BY DEF String
  <2>3. Prefix(r) \in String
    BY <2>2, SubSeqProperties DEF Prefix, String
  <2> QED BY <1>3, <2>1, <2>3 DEF Front
<1>4. CASE r # RouteSelf /\ ~ Ends(r)
  <2>1. isLabel(r) /\ RouteHost(r, h) = r \o <<".">> \o h
    BY <1>4 DEF RouteHost, parseRoute
  <2>2. r \o <<".">> \in String
    BY <1>1, ConcatProperties DEF String
  <2> QED BY <1>4, <2>1, <2>2 DEF Front
<1> QED BY <1>2, <1>3, <1>4

(* No label holds a dot: the front of a sibling is none of a child. *)
LEMMA ChildIsNoSibling ==
    ASSUME NEW r \in String, NEW q \in String, labelChars(Prefix(q)), Prefix(q) = r \o <<".">>
    PROVE  FALSE
<1>1. "." \in Char /\ <<".">> \in String /\ Len(<<".">>) = 1 /\ <<".">>[1] = "."
  BY CharAssumption DEF String
<1>2. Len(r) \in Nat
  BY DEF String
<1> DEFINE p == r \o <<".">>
           n == Len(r) + 1
<1>3. p \in Seq(Char) /\ Len(p) = n /\ p[n] = "."
  BY <1>1, <1>2, ConcatProperties DEF String
<1>4. n \in DOMAIN p
  BY <1>2, <1>3
<1>5. p[n] \in Alnum \cup {"-"}
  BY <1>4 DEF labelChars
<1> QED BY <1>3, <1>5, CharAssumption

(* Two routes of a valid network never name the same host. *)
LEMMA RouteHostInjective ==
    ASSUME NEW r \in String, NEW q \in String, NEW h \in String,
           parseRoute(r).kind # "bad", parseRoute(q).kind # "bad",
           RouteHost(r, h) = RouteHost(q, h)
    PROVE  r = q
<1>1. /\ Front(r) \in String /\ Front(q) \in String
      /\ r # RouteSelf => IF Ends(r) THEN labelChars(Prefix(r)) ELSE isLabel(r)
      /\ q # RouteSelf => IF Ends(q) THEN labelChars(Prefix(q)) ELSE isLabel(q)
      /\ Front(r) \o h = Front(q) \o h
  <2>1. /\ RouteHost(r, h) = Front(r) \o h /\ Front(r) \in String
        /\ r # RouteSelf => IF Ends(r) THEN labelChars(Prefix(r)) ELSE isLabel(r)
    BY RouteFront
  <2>2. /\ RouteHost(q, h) = Front(q) \o h /\ Front(q) \in String
        /\ q # RouteSelf => IF Ends(q) THEN labelChars(Prefix(q)) ELSE isLabel(q)
    BY RouteFront
  <2> QED BY <2>1, <2>2
<1>2. Front(r) = Front(q)
  BY <1>1, ConcatSimplifications DEF String
<1>3. ASSUME NEW a \in String, Ends(a)
      PROVE  a = Prefix(a) \o <<"@">>
  <2>1. a \in Seq(Char) /\ Len(a) \in Nat \ {0} /\ a[Len(a)] = "@"
    BY <1>3, EmptySeq DEF Ends, String
  <2>2. SubSeq(a, 1, Len(a)) = SubSeq(a, 1, Len(a) - 1) \o <<a[Len(a)]>>
    BY <2>1, SubSeqRecursiveSecond
  <2>3. SubSeq(a, 1, Len(a)) = a
    BY <2>1, SubSeqFull
  <2> QED BY <2>1, <2>2, <2>3 DEF Prefix
<1>4. ASSUME NEW a \in String, labelChars(Prefix(a))
      PROVE  Prefix(a) # <<>>
  BY <1>4 DEF labelChars
<1>5. ASSUME NEW a \in String
      PROVE  a \o <<".">> # <<>>
  <2>1. <<".">> \in String
    BY CharAssumption DEF String
  <2> QED BY <2>1, ConcatSimplifications DEF String
<1>6. CASE r = RouteSelf /\ q # RouteSelf
  BY <1>1, <1>2, <1>4, <1>5, <1>6 DEF Front
<1>7. CASE r # RouteSelf /\ q = RouteSelf
  BY <1>1, <1>2, <1>4, <1>5, <1>7 DEF Front
<1>8. CASE r # RouteSelf /\ q # RouteSelf
  <2>1. CASE Ends(r) /\ Ends(q)
    BY <1>2, <1>3, <1>8, <2>1 DEF Front
  <2>2. CASE ~ Ends(r) /\ ~ Ends(q)
    <3>1. r \o <<".">> = q \o <<".">>
      BY <1>2, <1>8, <2>2 DEF Front
    <3>2. <<".">> \in String
      BY CharAssumption DEF String
    <3> QED BY <3>1, <3>2, ConcatSimplifications DEF String
  <2>3. CASE Ends(r) /\ ~ Ends(q)
    <3>1. Prefix(r) = q \o <<".">> /\ labelChars(Prefix(r))
      BY <1>1, <1>2, <1>8, <2>3 DEF Front
    <3> QED BY <3>1, ChildIsNoSibling
  <2>4. CASE ~ Ends(r) /\ Ends(q)
    <3>1. Prefix(q) = r \o <<".">> /\ labelChars(Prefix(q))
      BY <1>1, <1>2, <1>8, <2>4 DEF Front
    <3> QED BY <3>1, ChildIsNoSibling
  <2> QED BY <2>1, <2>2, <2>3, <2>4
<1> QED BY <1>6, <1>7, <1>8

LEMMA TakenFacts ==
    ASSUME NEW n \in Network(TRUE), Taken(n), Keyed(n)
    PROVE  /\ n.Listeners \in Seq(Listener(TRUE)) \ {<<>>} /\ n.Listeners # Nil
           /\ NamesDiffer(n.Listeners) /\ PortsDiffer(n.Listeners) /\ RoutesDiffer(n.Listeners)
           /\ \A i \in DOMAIN n.Listeners :
                 /\ n.Listeners[i] \in Listener(TRUE) /\ ValidListener(n.Listeners[i])
                 /\ n.Listeners[i].Name \in Keys
           /\ \E i \in DOMAIN n.Listeners : n.Listeners[i].Name = MainListener
<1> DEFINE K == Listener(TRUE)
           ls == n.Listeners
<1>1. ls # Nil /\ All(ls) = ls /\ ValidateNetwork(n)
  BY ValidHasListeners DEF Taken
<1>2. ls \in Seq(K) \ {<<>>}
  BY <1>1 DEF Network, Slice, Repeated
<1>3. \A i \in DOMAIN ls : ls[i] \in K
  <2> HIDE DEF K, ls
  <2> QED BY <1>2
<1>4. \A i \in DOMAIN ls : ValidListener(ls[i]) /\ ls[i].Name \in Keys
  BY <1>1 DEF ValidateNetwork, ValidListener, Keyed
<1>5. /\ NamesDiffer(ls) /\ PortsDiffer(ls) /\ RoutesDiffer(ls)
      /\ \E i \in DOMAIN ls : ls[i].Name = MainListener
  BY <1>1 DEF ValidateNetwork
<1> QED BY <1>1, <1>2, <1>3, <1>4, <1>5

LEMMA GrantedForFacts ==
    ASSUME inst.Name \in String, NEW l \in Listener(TRUE), NEW named \in BOOLEAN
    PROVE  /\ GrantedFor(l, named) \in GrantedListener(TRUE)
           /\ GrantedFor(l, named).Backend \notin {<<>>, Nil}
<1>1. "." \in Char /\ <<".">> \in String /\ <<>> \in String
  BY CharAssumption DEF String
<1>2. HostName \in String
  BY ValuesAssumption, ConcatProperties DEF HostName, String
<1>3. l.Name \in String /\ l.Routes \in Repeated(String)
  BY DEF Listener, Slice
<1>4. HostsFor(l, named) \in Repeated(String)
  <2>1. CASE named /\ l.Routes # Nil
    <3> DEFINE s == l.Routes
               t == [j \in DOMAIN s |-> RouteHost(s[j], HostName)]
    <3>1. s \in Seq(String) \ {<<>>}
      BY <1>3, <2>1 DEF Repeated
    <3> HIDE DEF s
    <3>2. DOMAIN s = 1..Len(s) /\ Len(s) \in Nat \ {0}
      BY <3>1, EmptySeq
    <3>3. \A j \in 1..Len(s) : s[j] \in String
      BY <3>1, ElementOfSeq
    <3>4. \A j \in 1..Len(s) : RouteHost(s[j], HostName) \in String
      BY <1>2, <3>3, RouteHostInString
    <3>5. t \in [1..Len(s) -> String]
      BY <3>2, <3>4
    <3>6. t \in Seq(String)
      BY <3>2, <3>5, SeqDef
    <3>7. t # <<>>
      BY <3>2, EmptySeq
    <3> QED BY <2>1, <3>6, <3>7 DEF HostsFor, Repeated, s
  <2>2. CASE ~ (named /\ l.Routes # Nil)
    BY <2>2 DEF HostsFor, Repeated
  <2> QED BY <2>1, <2>2
<1>5. Socket(l.Name) \in String /\ Socket(l.Name) # <<>>
  BY <1>1, <1>3, ConcatProperties, ConcatSimplifications DEF String, Socket
<1>6. (IF named THEN HostName ELSE <<>>) \o <<".">> \o l.Name \in String
  <2>1. (IF named THEN HostName ELSE <<>>) \o <<".">> \in String
    BY <1>1, <1>2, ConcatProperties DEF String
  <2> QED BY <1>3, <2>1, ConcatProperties DEF String
<1>7. (IF HostsFor(l, named) = Nil THEN <<>> ELSE HostsFor(l, named)[1]) \in String
  <2>1. CASE HostsFor(l, named) = Nil
    BY <1>1, <2>1
  <2>2. CASE HostsFor(l, named) # Nil
    <3> DEFINE s == HostsFor(l, named)
    <3>1. s \in Seq(String) \ {<<>>}
      BY <1>4, <2>2 DEF Repeated
    <3> HIDE DEF s
    <3>2. Len(s) \in Nat \ {0}
      BY <3>1, EmptySeq
    <3>3. s[1] \in String
      BY <3>1, <3>2, ElementOfSeq
    <3> QED BY <2>2, <3>3 DEF s
  <2> QED BY <2>1, <2>2
<1>8. Nil \notin String
  BY NilAssumption
<1> QED BY <1>4, <1>5, <1>6, <1>7, <1>8 DEF GrantedFor, GrantedListener, Slice

(* Every listener is granted a place of its own. *)
LEMMA GrantForFacts ==
    ASSUME inst.Name \in String, NEW n \in Network(TRUE), Taken(n), Keyed(n), NEW named \in BOOLEAN
    PROVE  /\ GrantFor(n, named) \in Grant(TRUE)
           /\ GrantFor(n, named).Listeners # Nil
           /\ \A i \in DOMAIN n.Listeners :
                 GrantFor(n, named).Listeners[n.Listeners[i].Name] = GrantedFor(n.Listeners[i], named)
           /\ \A k \in Keys : (\A i \in DOMAIN n.Listeners : n.Listeners[i].Name # k) =>
                 GrantFor(n, named).Listeners[k] = Nil
<1> DEFINE ls == n.Listeners
           g == GrantFor(n, named).Listeners
           Place(name) == {i \in DOMAIN ls : ls[i].Name = name}
           GL == GrantedListener(TRUE)
<1>1. /\ NamesDiffer(ls)
      /\ \A i \in DOMAIN ls : ls[i] \in Listener(TRUE) /\ ls[i].Name \in Keys
      /\ \E i \in DOMAIN ls : ls[i].Name = MainListener
  BY TakenFacts
<1>2. g = [k \in Keys |-> IF Place(k) = {} THEN Nil
                          ELSE GrantedFor(ls[CHOOSE i \in Place(k) : TRUE], named)]
  BY DEF GrantFor
<1>3. GrantFor(n, named) = [Host |-> IF named THEN HostName ELSE <<>>, Listeners |-> g]
  BY DEF GrantFor
<1> HIDE DEF g, ls
<1>4. ASSUME NEW i \in DOMAIN ls
      PROVE  g[ls[i].Name] = GrantedFor(ls[i], named)
  <2>1. Place(ls[i].Name) = {i}
    BY <1>1 DEF NamesDiffer
  <2>2. (CHOOSE j \in Place(ls[i].Name) : TRUE) = i
    BY <2>1
  <2> QED BY <1>1, <1>2, <2>1, <2>2
<1>5. ASSUME NEW k \in Keys, \A i \in DOMAIN ls : ls[i].Name # k
      PROVE  g[k] = Nil
  <2>1. Place(k) = {}
    BY <1>5
  <2> QED BY <1>2, <2>1
<1>6. \A i \in DOMAIN ls : GrantedFor(ls[i], named) \in GL
  BY <1>1, GrantedForFacts
<1>7. Nil \notin GL /\ Nil \notin [Keys -> {Nil} \cup GL]
  BY NilAssumption
<1> HIDE DEF GL, Place
<1>8. \A k \in Keys : g[k] \in {Nil} \cup GL
  <2> TAKE k \in Keys
  <2>1. CASE \A i \in DOMAIN ls : ls[i].Name # k
    BY <1>5, <2>1
  <2>2. CASE \E i \in DOMAIN ls : ls[i].Name = k
    BY <1>4, <1>6, <2>2
  <2> QED BY <2>1, <2>2
<1>9. g \in [Keys -> {Nil} \cup GL]
  BY <1>2, <1>8
<1>10. g # NoEntries
  BY <1>1, <1>4, <1>6, <1>7 DEF NoEntries
<1>11. HostName \in String /\ <<>> \in String
  BY ValuesAssumption, ConcatProperties DEF HostName, String
<1>12. g \in Mapped(GL) /\ g # Nil
  BY <1>7, <1>9, <1>10 DEF Mapped
<1>13. GrantFor(n, named) \in Grant(TRUE)
  <2>1. Grant(TRUE) = [Host : String, Listeners : Mapped(GL)]
    BY DEF Grant, Map, GL
  <2> QED BY <1>3, <1>11, <1>12, <2>1
<1> QED BY <1>4, <1>5, <1>12, <1>13 DEF g, ls

(* The hosts of a listener come from its routes. *)
LEMMA HostsComeFromRoutes ==
    ASSUME NEW l \in Listener(TRUE), ValidListener(l), NEW named \in BOOLEAN,
           NEW j \in DOMAIN All(HostsFor(l, named))
    PROVE  /\ j \in DOMAIN All(l.Routes)
           /\ All(HostsFor(l, named))[j] = RouteHost(l.Routes[j], HostName)
           /\ l.Routes[j] \in String /\ parseRoute(l.Routes[j]).kind # "bad"
<1>1. All(HostsFor(l, named)) # <<>>
  BY EmptySeq
<1>2. named /\ l.Routes # Nil
  BY <1>1 DEF All, HostsFor
<1>3. All(HostsFor(l, named)) = [i \in DOMAIN l.Routes |-> RouteHost(l.Routes[i], HostName)]
  BY <1>1, <1>2 DEF All, HostsFor
<1>4. j \in DOMAIN l.Routes /\ All(l.Routes) = l.Routes
  BY <1>2, <1>3 DEF All
<1>5. l.Routes \in Seq(String)
  BY <1>2 DEF Listener, Slice, Repeated
<1>6. l.Routes[j] \in String
  BY <1>4, <1>5, ElementOfSeq
<1> QED BY <1>3, <1>4, <1>6 DEF ValidListener

(* The declared port is not another listener's (Taken). *)
LEMMA PortsApart ==
    ASSUME served \in Network(TRUE), Taken(served), Keyed(served)
    PROVE  LET ls == served.Listeners
               PublicPort(l) == IF l.Name = MainListener THEN inst.Port ELSE l.Port
           IN  \A i, k \in DOMAIN ls : i # k => PublicPort(ls[i]) # PublicPort(ls[k])
<1> DEFINE ls == served.Listeners
           PublicPort(l) == IF l.Name = MainListener THEN inst.Port ELSE l.Port
<1>1. NamesDiffer(ls) /\ PortsDiffer(ls)
  BY TakenFacts
<1>2. \A i \in DOMAIN ls : ls[i].Name # MainListener => ls[i].Port # inst.Port
  BY DEF Taken
<1> HIDE DEF ls
<1>3. ASSUME NEW i \in DOMAIN ls, NEW k \in DOMAIN ls, i # k
      PROVE  PublicPort(ls[i]) # PublicPort(ls[k])
  <2>1. ls[i].Name # ls[k].Name
    BY <1>1, <1>3 DEF NamesDiffer
  <2>2. ls[i].Port # ls[k].Port \/ ls[i].Name = MainListener \/ ls[k].Name = MainListener
    BY <1>1, <1>3 DEF PortsDiffer, Declared
  <2> QED BY <1>2, <2>1, <2>2
<1> QED BY <1>3 DEF ls

LEMMA GrantedApart ==
    ASSUME inst.Name \in String, served \in Network(TRUE), Taken(served), Keyed(served),
           NEW named \in BOOLEAN, inst.Grant = GrantFor(served, named)
    PROVE  HostsApart
<1> DEFINE ls == served.Listeners
           g == inst.Grant
           HostsAt(name) == IF Granted(g, name) THEN All(g.Listeners[name].Hosts) ELSE <<>>
           PublicPort(l) == IF l.Name = MainListener THEN inst.Port ELSE l.Port
<1>1. /\ RoutesDiffer(ls)
      /\ \A i \in DOMAIN ls : ls[i] \in Listener(TRUE) /\ ValidListener(ls[i])
  BY TakenFacts
<1>2. \A i, k \in DOMAIN ls : i # k => PublicPort(ls[i]) # PublicPort(ls[k])
  BY PortsApart
<1>3. /\ g.Listeners # Nil
      /\ \A i \in DOMAIN ls : g.Listeners[ls[i].Name] = GrantedFor(ls[i], named)
      /\ \A k \in Keys : (\A i \in DOMAIN ls : ls[i].Name # k) => g.Listeners[k] = Nil
  <2> DEFINE gr == GrantFor(served, named)
  <2>1. /\ gr.Listeners # Nil
        /\ \A i \in DOMAIN ls : gr.Listeners[ls[i].Name] = GrantedFor(ls[i], named)
        /\ \A k \in Keys : (\A i \in DOMAIN ls : ls[i].Name # k) => gr.Listeners[k] = Nil
    BY GrantForFacts
  <2>2. g = gr
    OBVIOUS
  <2> HIDE DEF gr, g
  <2> QED BY <2>1, <2>2
<1>4. \A i \in DOMAIN ls : GrantedFor(ls[i], named) # Nil
                          /\ GrantedFor(ls[i], named).Hosts = HostsFor(ls[i], named)
  <2>1. \A i \in DOMAIN ls : GrantedFor(ls[i], named) \in GrantedListener(TRUE)
    BY <1>1, GrantedForFacts
  <2>2. Nil \notin GrantedListener(TRUE)
    BY NilAssumption
  <2> QED BY <2>1, <2>2 DEF GrantedFor
<1> HIDE DEF ls, g
<1>6. ASSUME NEW a \in Keys, NEW j \in DOMAIN HostsAt(a)
      PROVE  \E i \in DOMAIN ls :
                /\ ls[i].Name = a /\ j \in DOMAIN All(ls[i].Routes)
                /\ HostsAt(a)[j] = RouteHost(ls[i].Routes[j], HostName)
                /\ ls[i].Routes[j] \in String /\ parseRoute(ls[i].Routes[j]).kind # "bad"
  <2>1. HostsAt(a) # <<>>
    BY <1>6, EmptySeq
  <2>2. g.Listeners[a] # Nil /\ HostsAt(a) = All(g.Listeners[a].Hosts)
    BY <2>1 DEF Granted
  <2>3. PICK i \in DOMAIN ls : ls[i].Name = a
    BY <1>3, <2>2
  <2>4. HostsAt(a) = All(HostsFor(ls[i], named))
    BY <1>3, <1>4, <2>2, <2>3
  <2>5. j \in DOMAIN All(HostsFor(ls[i], named))
    BY <1>6, <2>4
  <2>6. /\ j \in DOMAIN All(ls[i].Routes)
        /\ All(HostsFor(ls[i], named))[j] = RouteHost(ls[i].Routes[j], HostName)
        /\ ls[i].Routes[j] \in String /\ parseRoute(ls[i].Routes[j]).kind # "bad"
    BY <1>1, <2>5, HostsComeFromRoutes
  <2> HIDE DEF HostsAt
  <2> QED BY <2>3, <2>4, <2>6
<1>7. HostName \in String
  BY ValuesAssumption, ConcatProperties DEF HostName, String
<1>8. ASSUME NEW a \in Keys, NEW b \in Keys, NEW j \in DOMAIN HostsAt(a), NEW m \in DOMAIN HostsAt(b),
             <<a, j>> # <<b, m>>
      PROVE  HostsAt(a)[j] # HostsAt(b)[m]
  <2> HIDE DEF HostsAt
  <2>1. PICK i \in DOMAIN ls :
           /\ ls[i].Name = a /\ j \in DOMAIN All(ls[i].Routes)
           /\ HostsAt(a)[j] = RouteHost(ls[i].Routes[j], HostName)
           /\ ls[i].Routes[j] \in String /\ parseRoute(ls[i].Routes[j]).kind # "bad"
    BY <1>6
  <2>2. PICK k \in DOMAIN ls :
           /\ ls[k].Name = b /\ m \in DOMAIN All(ls[k].Routes)
           /\ HostsAt(b)[m] = RouteHost(ls[k].Routes[m], HostName)
           /\ ls[k].Routes[m] \in String /\ parseRoute(ls[k].Routes[m]).kind # "bad"
    BY <1>6
  <2>3. <<i, j>> # <<k, m>>
    BY <1>8, <2>1, <2>2
  <2>4. ls[i].Routes[j] # ls[k].Routes[m]
    BY <1>1, <2>1, <2>2, <2>3 DEF RoutesDiffer
  <2>5. RouteHost(ls[i].Routes[j], HostName) # RouteHost(ls[k].Routes[m], HostName)
    BY <1>7, <2>1, <2>2, <2>4, RouteHostInjective
  <2> QED BY <2>1, <2>2, <2>5
<1> QED BY <1>2, <1>8 DEF HostsApart, ls, g

-----------------------------------------------------------------------------
(* The invariant. *)

LEMMA GrantingKept ==
    ASSUME Granting, UNCHANGED <<inst, served>>
    PROVE  Granting'
<1>1. (Taken(served))' = Taken(served) /\ (Keyed(served))' = Keyed(served)
  BY DEF Taken, Keyed
<1>2. Grants(served)' = Grants(served)
  BY DEF Grants, GrantFor, GrantedFor, HostsFor, HostName
<1> QED BY <1>1, <1>2 DEF Granting

LEMMA JudgedKept ==
    ASSUME Judged, UNCHANGED <<inst, network, verdict, served>>, pc # "judging" \/ pc' = "judging"
    PROVE  Judged'
  BY DEF Judged, Taken, Read

LEMMA InstanceCross ==
    ASSUME inst \in Instance(FALSE), Known(SpecBytes(inst.Spec)), Cross("instance", inst)
    PROVE  /\ kind' \in Kinds /\ wire' \in Messages(kind') /\ got' \in Carried(kind')
           /\ got' = instanceFromProto(instanceToProto(inst)) /\ got' \in Instance(TRUE)
           /\ AsSent'
<1>1. /\ kind' = "instance" /\ value' = inst /\ wire' = instanceToProto(inst)
      /\ got' = instanceFromProto(instanceToProto(inst))
  BY DEF Cross, ToProto, FromProto
<1>2. /\ Meaning("instance", inst) = [inst EXCEPT !.Spec = SpecBytes(inst.Spec)]
      /\ Messages("instance") = InstanceMsg /\ Carried("instance") = Instance(TRUE)
  BY DEF Meaning, Messages, Carried, Held
<1>3. Arrives(Meaning("instance", inst), wire', got', InstanceMsg, Instance(TRUE))
  BY <1>1, <1>2, InstanceCrosses
<1>4. AsSent'
  BY <1>1, <1>2, <1>3 DEF AsSent, Arrives
<1> QED BY <1>1, <1>2, <1>3, <1>4 DEF Kinds, Arrives

LEMMA ValueCross ==
    ASSUME NEW k \in {"network"} \cup ResolveKinds \cup CallKinds, NEW v \in Held(k, FALSE), Cross(k, v)
    PROVE  /\ kind' \in Kinds /\ wire' \in Messages(kind') /\ got' \in Carried(kind')
           /\ got' = FromProto(k, ToProto(k, v))
           /\ AsSent'
<1>1. kind' = k /\ value' = v /\ wire' = ToProto(k, v) /\ got' = FromProto(k, ToProto(k, v))
  BY DEF Cross
<1>2. k # "instance" /\ k \in Kinds
  BY DEF Kinds, ResolveKinds, CallKinds
<1>3. Arrives(v, wire', got', Messages(k), Carried(k))
  BY <1>1, KindCrosses
<1>4. Meaning(kind', value') = v
  BY <1>1, <1>2 DEF Meaning
<1> QED BY <1>1, <1>2, <1>3, <1>4 DEF AsSent, Arrives

LEMMA ReadAnswer ==
    ASSUME network \in Network(TRUE), module \in Modules, Answered
    PROVE  Read(network) \in Network(TRUE) /\ Keyed(Read(network))
<1>1. CASE network.Listeners = Nil
  <2>1. Read(network) = DefaultNetwork
    BY <1>1 DEF Read
  <2>2. Keyed(DefaultNetwork)
    BY ModulesAssumption, DefaultIsTaken DEF Keyed, All, DefaultNetwork
  <2> QED BY <2>1, <2>2, DefaultIsTaken
<1>2. CASE network.Listeners # Nil
  <2>1. Read(network) = network
    BY <1>2 DEF Read
  <2>2. PICK n \in {module.first, module.later} : network = Arrived(n)
    BY <1>2 DEF Answered, NoNetwork
  <2>3. n \in Network(FALSE) /\ Keyed(n)
    BY <2>2, ModulesAssumption DEF Keyed
  <2>4. All(n.Listeners) = n.Listeners /\ n.Listeners # Nil
        /\ network.Listeners = [i \in DOMAIN n.Listeners |->
                                   listenerFromProto(listenerToProto(n.Listeners[i]))]
    BY <1>2, <2>2, <2>3, ArrivedListeners DEF All
  <2>5. \A i \in DOMAIN n.Listeners : network.Listeners[i].Name = n.Listeners[i].Name
    BY <2>4 DEF listenerFromProto, listenerToProto
  <2>6. All(network.Listeners) = network.Listeners /\ DOMAIN network.Listeners = DOMAIN n.Listeners
    BY <1>2, <2>4 DEF All
  <2>7. Keyed(network)
    BY <2>3, <2>4, <2>5, <2>6 DEF Keyed
  <2> QED BY <2>1, <2>7
<1> QED BY <1>1, <1>2

LEMMA InitIInv == Init => IInv
<1> SUFFICES ASSUME Init PROVE IInv
  OBVIOUS
<1>1. inst \in Instance(FALSE) /\ inst.Grant = ZeroGrant
  BY InstancesAssumption DEF Init
<1>2. ZeroGrant \in Grant(TRUE)
  BY DEF ZeroGrant, Grant, Map, Mapped, String
<1>3. NoNetwork \in Network(TRUE)
  BY DEF NoNetwork, Network, Slice, Repeated
<1>4. kind = "none" /\ wire \in Messages(kind) /\ got \in Carried(kind)
      /\ Carried("none") = {Nil} /\ got = Nil /\ value = Nil
  BY DEF Init, Messages, Carried, Held
<1>5. TypeOK
  <2>1. inst.Grant \in Grant(TRUE) /\ network \in Network(TRUE) /\ module \in Modules
    BY <1>1, <1>2, <1>3 DEF Init
  <2>2. asked \in 0 .. MaxAsks
    BY AsksAssumption DEF Init
  <2>3. served = Nil /\ seen = Nil /\ checked = "no" /\ verdict = "none" /\ heard = FALSE
        /\ pc = "idle" /\ kind \in Kinds
    BY DEF Init, Kinds
  <2> QED BY <1>4, <2>1, <2>2, <2>3 DEF TypeOK
<1>6. AsSent /\ Answered /\ Judged /\ Granting /\ Seen /\ Tested
  BY <1>1, <1>4 DEF Init, AsSent, Meaning, Answered, Judged, Granting, Seen, Tested
<1> QED BY <1>1, <1>5, <1>6 DEF IInv

(* Every conjunct that a step leaves alone. *)
LEMMA CrossingKept ==
    ASSUME TypeOK, AsSent, UNCHANGED crossing
    PROVE  kind' \in Kinds /\ wire' \in Messages(kind') /\ got' \in Carried(kind') /\ AsSent'
<1>1. kind' = kind /\ value' = value /\ wire' = wire /\ got' = got
  BY DEF crossing
<1> QED BY <1>1 DEF TypeOK, AsSent

LEMMA ZeroGrantTyped == ZeroGrant \in Grant(TRUE)
  BY DEF ZeroGrant, Grant, Map, Mapped, String

LEMMA GrantPut ==
    ASSUME NEW i \in Instance(FALSE), NEW g \in Grant(TRUE)
    PROVE  LET j == [i EXCEPT !.Grant = g]
           IN  /\ j \in Instance(FALSE) /\ j.Grant = g
               /\ j.Port = i.Port /\ j.Name = i.Name
<1>1. Mapped(GrantedListener(TRUE)) \subseteq Map(FALSE, GrantedListener(FALSE))
  <2>1. GrantedListener(TRUE) \subseteq GrantedListener(FALSE)
    BY DEF GrantedListener, Slice, Repeated
  <2> QED BY <2>1 DEF Mapped, Map
<1>2. g \in Grant(FALSE)
  BY <1>1 DEF Grant, Map
<1> QED BY <1>2 DEF Instance

LEMMA NextIInv == IInv /\ [Next]_vars => IInv'
<1> SUFFICES ASSUME IInv, [Next]_vars PROVE IInv'
  OBVIOUS
<1> USE DEF IInv
<1>1. CASE UNCHANGED vars
  <2>1. UNCHANGED <<inst, module, checked, asked, network, verdict, served, heard, seen, pc>>
        /\ UNCHANGED crossing
    BY <1>1 DEF vars
  <2>2. kind' \in Kinds /\ wire' \in Messages(kind') /\ got' \in Carried(kind') /\ AsSent'
    BY <2>1, CrossingKept
  <2>3. Granting' /\ Judged'
    BY <2>1, GrantingKept, JudgedKept DEF Judged
  <2>4. TypeOK'
    BY <2>1, <2>2 DEF TypeOK
  <2>5. Answered' /\ Seen' /\ Tested'
    BY <2>1 DEF Answered, Seen, Tested, networkProblems
  <2> QED BY <2>1, <2>2, <2>3, <2>4, <2>5
<1>2. CASE Check
  <2>1. UNCHANGED <<inst, module, asked, network, verdict, served, heard, seen, pc>>
        /\ UNCHANGED crossing /\ checked' = IF networkProblems THEN "passed" ELSE "failed"
    BY <1>2 DEF Check
  <2>2. kind' \in Kinds /\ wire' \in Messages(kind') /\ got' \in Carried(kind') /\ AsSent'
    BY <2>1, CrossingKept
  <2>3. Granting' /\ Judged'
    BY <2>1, GrantingKept, JudgedKept DEF Judged
  <2>4. TypeOK'
    BY <2>1, <2>2 DEF TypeOK
  <2>5. Answered' /\ Seen' /\ Tested'
    BY <2>1 DEF Answered, Seen, Tested, networkProblems
  <2> QED BY <2>1, <2>2, <2>3, <2>4, <2>5
<1>3. CASE AskNothing
  <2>1. /\ UNCHANGED <<inst, module, checked, verdict, served, heard, seen>> /\ UNCHANGED crossing
        /\ asked < MaxAsks /\ asked' = asked + 1 /\ network' = NoNetwork /\ pc' = "judging"
    BY <1>3 DEF AskNothing
  <2>2. kind' \in Kinds /\ wire' \in Messages(kind') /\ got' \in Carried(kind') /\ AsSent'
    BY <2>1, CrossingKept
  <2>3. Granting'
    BY <2>1, GrantingKept
  <2>4. network' \in Network(TRUE)
    BY <2>1 DEF NoNetwork, Network, Slice, Repeated
  <2>5. asked' \in 0 .. MaxAsks
    BY <2>1, AsksAssumption DEF TypeOK
  <2>6. TypeOK'
    BY <2>1, <2>2, <2>4, <2>5 DEF TypeOK
  <2>7. Answered' /\ Judged' /\ Seen' /\ Tested'
    BY <2>1 DEF Answered, Judged, Seen, Tested, networkProblems
  <2> QED BY <2>1, <2>2, <2>3, <2>6, <2>7
<1>4. CASE Ask
  <2>1. /\ UNCHANGED <<inst, module, checked, network, verdict, served, heard>>
        /\ asked < MaxAsks /\ asked' = asked + 1 /\ pc = "idle" /\ pc' = "asked" /\ seen' = got'
        /\ Known(SpecBytes(inst.Spec)) /\ Cross("instance", inst)
    BY <1>4 DEF Ask
  <2>2. /\ kind' \in Kinds /\ wire' \in Messages(kind') /\ got' \in Carried(kind') /\ AsSent'
        /\ got' = instanceFromProto(instanceToProto(inst)) /\ got' \in Instance(TRUE)
    BY <2>1, InstanceCross
  <2>3. Granting' /\ Judged'
    BY <2>1, GrantingKept, JudgedKept
  <2>4. asked' \in 0 .. MaxAsks
    BY <2>1, AsksAssumption DEF TypeOK
  <2>5. TypeOK'
    BY <2>1, <2>2, <2>4 DEF TypeOK
  <2>6. Answered' /\ Seen' /\ Tested'
    BY <2>1, <2>2 DEF Answered, Seen, Tested, networkProblems
  <2> QED BY <2>1, <2>2, <2>3, <2>5, <2>6
<1>5. CASE AskFails
  <2>1. /\ UNCHANGED <<inst, module, checked, verdict, served, seen>> /\ UNCHANGED crossing
        /\ asked' = asked \/ (asked < MaxAsks /\ asked' = asked + 1)
        /\ network' = NoNetwork /\ pc' = "judging" /\ heard' = TRUE
    BY <1>5 DEF AskFails
  <2>2. kind' \in Kinds /\ wire' \in Messages(kind') /\ got' \in Carried(kind') /\ AsSent'
    BY <2>1, CrossingKept
  <2>3. Granting'
    BY <2>1, GrantingKept
  <2>4. network' \in Network(TRUE)
    BY <2>1 DEF NoNetwork, Network, Slice, Repeated
  <2>5. asked' \in 0 .. MaxAsks
    BY <2>1, AsksAssumption DEF TypeOK
  <2>6. TypeOK'
    BY <2>1, <2>2, <2>4, <2>5 DEF TypeOK
  <2>7. Answered' /\ Judged' /\ Seen' /\ Tested'
    BY <2>1 DEF Answered, Judged, Seen, Tested, networkProblems
  <2> QED BY <2>1, <2>2, <2>3, <2>6, <2>7
<1>6. CASE Answer
  <2>1. /\ UNCHANGED <<inst, module, checked, asked, verdict, served, heard, seen>>
        /\ network' = got' /\ pc' = "judging"
    BY <1>6 DEF Answer
  <2>2. PICK n \in {module.first, module.later} : Cross("network", n)
    BY <1>6 DEF Answer
  <2>3. n \in Held("network", FALSE)
    BY ModulesAssumption DEF Held, TypeOK
  <2>4. /\ kind' \in Kinds /\ wire' \in Messages(kind') /\ got' \in Carried(kind') /\ AsSent'
        /\ got' = FromProto("network", ToProto("network", n))
    BY <2>2, <2>3, ValueCross
  <2>5. kind' = "network" /\ got' \in Network(TRUE) /\ got' = Arrived(n)
    BY <2>2, <2>4 DEF Cross, Carried, Held, Arrived, FromProto, ToProto
  <2>6. Granting'
    BY <2>1, GrantingKept
  <2>7. TypeOK'
    BY <2>1, <2>4, <2>5 DEF TypeOK
  <2>8. Answered'
    BY <2>1, <2>2, <2>5 DEF Answered
  <2>9. Judged' /\ Seen' /\ Tested'
    BY <2>1 DEF Judged, Seen, Tested, networkProblems
  <2> QED BY <2>1, <2>4, <2>6, <2>7, <2>8, <2>9
<1>7. CASE Judge
  <2>1. /\ UNCHANGED <<module, checked, asked, network, heard, seen>> /\ UNCHANGED crossing
        /\ pc = "judging" /\ pc' = "idle"
    BY <1>7 DEF Judge
  <2>2. kind' \in Kinds /\ wire' \in Messages(kind') /\ got' \in Carried(kind') /\ AsSent'
    BY <2>1, CrossingKept
  <2>3. Answered' /\ Seen' /\ Tested'
    BY <2>1 DEF Answered, Seen, Tested, networkProblems
  <2>4. Read(network) \in Network(TRUE) /\ Keyed(Read(network))
    BY ReadAnswer DEF TypeOK
  <2>5. inst.Name \in String
    BY DEF Instance
  <2>6. CASE Taken(Read(network))
    <3> DEFINE n == Read(network)
    <3>1. verdict' = "taken" /\ served' = n
      BY <1>7, <2>6 DEF Judge
    <3>2. PICK g \in Grants(n) : inst' = [inst EXCEPT !.Grant = g]
      BY <1>7, <2>6 DEF Judge
    <3>3. g \in Grant(TRUE)
      BY <2>4, <2>5, <2>6, GrantForFacts, ZeroGrantTyped DEF Grants
    <3>4. /\ inst' \in Instance(FALSE) /\ inst'.Grant = g
          /\ inst'.Port = inst.Port /\ inst'.Name = inst.Name
      BY <3>2, <3>3, GrantPut
    <3>5. n # Nil
      BY <2>4, NilAssumption
    <3>6. TypeOK'
      BY <2>1, <2>2, <2>4, <3>1, <3>3, <3>4 DEF TypeOK
    <3>7. Taken(served)' /\ Keyed(served)'
      BY <2>4, <2>6, <3>1, <3>4 DEF Taken, Keyed
    <3>8. Grants(served)' = Grants(n)
      <4>1. HostName' = HostName
        BY <3>4 DEF HostName
      <4>2. served' = n
        BY <3>1
      <4> HIDE DEF n
      <4>3. /\ GrantFor(served, TRUE)' = GrantFor(n, TRUE)
            /\ GrantFor(served, FALSE)' = GrantFor(n, FALSE)
        BY <4>1, <4>2 DEF GrantFor, GrantedFor, HostsFor
      <4> QED BY <4>3 DEF Grants
    <3>9. Granting'
      BY <3>1, <3>2, <3>4, <3>5, <3>7, <3>8 DEF Granting
    <3>10. Judged'
      BY <2>1, <3>1 DEF Judged, Read
    <3> QED BY <2>2, <2>3, <3>4, <3>6, <3>9, <3>10
  <2>7. CASE ~ Taken(Read(network))
    <3>1. verdict' = "refused" /\ served' = Nil /\ inst' = [inst EXCEPT !.Grant = ZeroGrant]
      BY <1>7, <2>7 DEF Judge
    <3>2. ZeroGrant \in Grant(TRUE)
      BY ZeroGrantTyped
    <3>3. /\ inst' \in Instance(FALSE) /\ inst'.Grant = ZeroGrant
          /\ inst'.Port = inst.Port
      BY <3>1, <3>2, GrantPut
    <3>4. TypeOK'
      BY <2>1, <2>2, <3>1, <3>2, <3>3 DEF TypeOK
    <3>5. Granting'
      BY <3>1, <3>3 DEF Granting
    <3>6. Judged'
      BY <2>1, <2>7, <3>1, <3>3 DEF Judged, Taken, Read
    <3> QED BY <2>2, <2>3, <3>3, <3>4, <3>5, <3>6
  <2> QED BY <2>6, <2>7
<1>8. CASE Call
  <2>1. /\ UNCHANGED <<inst, module, checked, asked, network, verdict, served, heard>>
        /\ pc = "idle" /\ pc' = "called" /\ seen' = got'
        /\ Known(SpecBytes(inst.Spec)) /\ Cross("instance", inst)
    BY <1>8 DEF Call
  <2>2. /\ kind' \in Kinds /\ wire' \in Messages(kind') /\ got' \in Carried(kind') /\ AsSent'
        /\ got' = instanceFromProto(instanceToProto(inst)) /\ got' \in Instance(TRUE)
    BY <2>1, InstanceCross
  <2>3. Granting' /\ Judged'
    BY <2>1, GrantingKept, JudgedKept
  <2>4. TypeOK'
    BY <2>1, <2>2 DEF TypeOK
  <2>5. Answered' /\ Seen' /\ Tested'
    BY <2>1, <2>2 DEF Answered, Seen, Tested, networkProblems
  <2> QED BY <2>1, <2>2, <2>3, <2>4, <2>5
<1>9. CASE \E k \in ResolveKinds \cup CallKinds : \E v \in Values[k] : Carry(k, v)
  <2>1. PICK k \in ResolveKinds \cup CallKinds : \E v \in Values[k] : Carry(k, v)
    BY <1>9
  <2>2. PICK v \in Values[k] : Carry(k, v)
    BY <2>1
  <2>3. /\ UNCHANGED <<inst, module, checked, asked, network, verdict, served, heard, seen>>
        /\ pc \in {"called", "idle"} /\ pc' = "idle" /\ Cross(k, v)
    BY <2>2 DEF Carry
  <2>4. v \in Held(k, FALSE)
    BY ValuesAssumption
  <2>5. kind' \in Kinds /\ wire' \in Messages(kind') /\ got' \in Carried(kind') /\ AsSent'
    BY <2>3, <2>4, ValueCross
  <2>6. Granting' /\ Judged'
    BY <2>3, GrantingKept, JudgedKept
  <2>7. TypeOK'
    BY <2>3, <2>5 DEF TypeOK
  <2>8. Answered' /\ Seen' /\ Tested'
    BY <2>3 DEF Answered, Seen, Tested, networkProblems
  <2> QED BY <2>3, <2>5, <2>6, <2>7, <2>8
<1> QED BY <1>1, <1>2, <1>3, <1>4, <1>5, <1>6, <1>7, <1>8, <1>9 DEF Next

(* The module listens where the host forwards, for each thing a host may grant. *)
LEMMA MeetLemma == IInv => BackendsMeet
<1> SUFFICES ASSUME IInv, pc \in {"asked", "called"}
             PROVE  /\ seen.Grant = inst.Grant
                    /\ \A name \in Keys : Listens(seen, name) = Forwards(name)
  BY DEF BackendsMeet
<1>1. seen.Grant = inst.Grant /\ seen.Endpoint = inst.Endpoint
  <2>1. inst.Grant \in Grant(TRUE) /\ inst.Grant \in Grant(FALSE) /\ inst.Endpoint \in Endpoint
    BY DEF IInv, TypeOK, Instance
  <2>2. /\ seen.Grant = grantFromProto(grantToProto(inst.Grant))
        /\ seen.Endpoint = endpointFromProto(endpointToProto(inst.Endpoint))
    <3>1. Known(SpecBytes(inst.Spec)) /\ inst \in Instance(FALSE)
      BY DEF IInv, Seen
    <3>2. instanceToProto(inst) \in InstanceMsg
      BY <3>1, InstanceCrosses DEF Arrives
    <3>3. instanceToProto(inst) # Nil
      BY <3>2, NilAssumption
    <3> QED BY <3>3 DEF IInv, Seen, instanceFromProto, instanceToProto
  <2> QED BY <2>1, <2>2, GrantCrosses, EndpointCrosses DEF Arrives
<1>2. \A name \in Keys :
         Listens(seen, name) = IF Backend(inst.Grant, name) = Nil /\ name = MainListener
                               THEN inst.Endpoint.Backend ELSE Backend(inst.Grant, name)
  BY <1>1 DEF Listens
<1>3. CASE inst.Grant = ZeroGrant
  <2>1. \A name \in Keys : Backend(inst.Grant, name) = Nil
    BY <1>3 DEF Backend, Granted, ZeroGrant
  <2> QED BY <1>1, <1>2, <1>3, <2>1 DEF Forwards
<1>4. CASE inst.Grant # ZeroGrant
  <2>1. served # Nil
    BY <1>4 DEF IInv, Granting
  <2>2. served \in Network(TRUE) /\ Taken(served) /\ Keyed(served) /\ inst.Name \in String
    BY <2>1 DEF IInv, TypeOK, Granting, Instance
  <2>3. PICK named \in BOOLEAN : inst.Grant = GrantFor(served, named)
    BY <1>4, <2>1 DEF IInv, Granting, Grants
  <2> DEFINE g == GrantFor(served, named)
             ls == served.Listeners
  <2>4. /\ g.Listeners # Nil
        /\ \A i \in DOMAIN ls : g.Listeners[ls[i].Name] = GrantedFor(ls[i], named)
        /\ \A k \in Keys : (\A i \in DOMAIN ls : ls[i].Name # k) => g.Listeners[k] = Nil
    BY <2>2, GrantForFacts
  <2>5. /\ \A i \in DOMAIN ls : ls[i] \in Listener(TRUE) /\ ls[i].Name \in Keys
        /\ \E i \in DOMAIN ls : ls[i].Name = MainListener
    BY <2>2, TakenFacts
  <2>6. ASSUME NEW i \in DOMAIN ls
        PROVE  LET l == GrantedFor(ls[i], named)
               IN  l # Nil /\ l.Backend = Socket(ls[i].Name) /\ l.Backend \notin {<<>>, Nil}
    <3>1. /\ GrantedFor(ls[i], named) \in GrantedListener(TRUE)
          /\ GrantedFor(ls[i], named).Backend \notin {<<>>, Nil}
      BY <2>2, <2>5, GrantedForFacts
    <3>2. Nil \notin GrantedListener(TRUE)
      BY NilAssumption
    <3> QED BY <3>1, <3>2 DEF GrantedFor
  <2>7. inst.Grant = g
    BY <2>3
  <2> HIDE DEF g
  <2>8. ASSUME NEW name \in Keys
        PROVE  Listens(seen, name) = Forwards(name)
    <3>1. CASE \E i \in DOMAIN ls : ls[i].Name = name
      <4>1. Backend(g, name) = Socket(name) /\ Socket(name) # Nil
        BY <2>4, <2>6, <3>1 DEF Backend, Granted
      <4> QED BY <1>2, <1>4, <2>7, <3>1, <4>1 DEF Forwards
    <3>2. CASE \A i \in DOMAIN ls : ls[i].Name # name
      <4>1. Backend(g, name) = Nil
        BY <2>4, <3>2 DEF Backend, Granted
      <4>2. name # MainListener
        BY <2>5, <3>2
      <4> QED BY <1>2, <1>4, <2>7, <3>2, <4>1, <4>2 DEF Forwards
    <3> QED BY <3>1, <3>2
  <2> QED BY <1>1, <2>8
<1> QED BY <1>3, <1>4

LEMMA CheckedLemma == IInv => CheckedIsTaken
<1> SUFFICES ASSUME IInv, checked = "passed", module.networked, pc # "judging"
             PROVE  /\ verdict = "taken" => SameNetwork(served, module.first) \/ network = NoNetwork
                    /\ verdict = "refused" =>
                          \E i \in DOMAIN All(module.first.Listeners) :
                              module.first.Listeners[i].Port = inst.Port
  BY DEF CheckedIsTaken
<1> DEFINE n == module.first
<1>1. n \in Network(FALSE) /\ ValidateNetwork(n) /\ module.later = n
  BY ModulesAssumption DEF IInv, TypeOK, Tested, networkProblems
<1>2. /\ verdict = "taken" => served = Read(network)
      /\ verdict = "refused" => ~ Taken(Read(network))
  BY DEF IInv, Judged
<1>3. CASE network = NoNetwork
  <2>1. Read(network) = DefaultNetwork
    BY <1>3 DEF NoNetwork, Read
  <2> QED BY <1>2, <1>3, <2>1, DefaultIsTaken
<1>4. CASE network # NoNetwork
  <2>1. network = Arrived(n)
    BY <1>1, <1>4 DEF IInv, Answered
  <2> HIDE DEF n
  <2>2. /\ ValidateNetwork(Arrived(n)) /\ Arrived(n).Listeners # Nil
        /\ DOMAIN Arrived(n).Listeners = DOMAIN n.Listeners
        /\ \A i \in DOMAIN n.Listeners : Arrived(n).Listeners[i].Port = n.Listeners[i].Port
        /\ SameNetwork(Arrived(n), n)
    BY <1>1, ValidArrives
  <2>3. Read(network) = Arrived(n)
    BY <2>1, <2>2 DEF Read
  <2>4. All(n.Listeners) = n.Listeners
    BY <1>1, ValidHasListeners
  <2>5. ~ Taken(Arrived(n)) => \E i \in DOMAIN n.Listeners : n.Listeners[i].Port = inst.Port
    BY <2>2 DEF Taken
  <2> QED BY <1>2, <2>2, <2>3, <2>4, <2>5 DEF n
<1> QED BY <1>3, <1>4

LEMMA ApartLemma == IInv => HostsApart
<1> SUFFICES ASSUME IInv PROVE HostsApart
  OBVIOUS
<1>1. CASE inst.Grant = ZeroGrant
  <2>1. \A name \in Keys : ~ Granted(inst.Grant, name)
    BY <1>1 DEF Granted, ZeroGrant
  <2>2. served # Nil => served \in Network(TRUE) /\ Taken(served) /\ Keyed(served)
    BY DEF IInv, TypeOK, Granting
  <2>3. served # Nil =>
           LET ls == served.Listeners
               PublicPort(l) == IF l.Name = MainListener THEN inst.Port ELSE l.Port
           IN  \A i, k \in DOMAIN ls : i # k => PublicPort(ls[i]) # PublicPort(ls[k])
    BY <2>2, PortsApart
  <2> QED BY <2>1, <2>3, EmptySeq DEF HostsApart
<1>2. CASE inst.Grant # ZeroGrant
  <2>1. served # Nil
    BY <1>2 DEF IInv, Granting
  <2>2. served \in Network(TRUE) /\ Taken(served) /\ Keyed(served) /\ inst.Name \in String
    BY <2>1 DEF IInv, TypeOK, Granting, Instance
  <2>3. PICK named \in BOOLEAN : inst.Grant = GrantFor(served, named)
    BY <1>2, <2>1 DEF IInv, Granting, Grants
  <2> QED BY <2>2, <2>3, GrantedApart
<1> QED BY <1>1, <1>2

-----------------------------------------------------------------------------
(* Every state is typed, the verdict is about the last answer, the grant is for the
   network that is served and the module sees the instance as it is, however
   questions, failures and calls follow one another (adapter.go, server.go). *)
THEOREM Inductive == Spec => []IInv
  BY InitIInv, NextIInv, PTL DEF Spec

(* No conversion of conv.go forgets a field or an element, for any value of any of
   the kinds: whatever the wire can carry arrives as it was sent, and everything
   else is sent as a message of its kind and arrives as one the wire can carry. *)
THEOREM ValuesArrive == Spec => []ArrivesIntact
<1>1. IInv => ArrivesIntact
  BY DEF IInv, AsSent, ArrivesIntact
<1> QED BY <1>1, Inductive, PTL

(* What CheckNetwork passed (enginetest/network.go:11) the host serves, unless the
   answer never came, and refuses only over the declared port: the conversion to
   32 bits and the slices that come back nil change no valid network. *)
THEOREM PassedIsTaken == Spec => []CheckedIsTaken
  BY CheckedLemma, Inductive, PTL

(* Two listeners of an instance never share a port, nor two routes a host: the
   rules of ValidateNetwork suffice for what RouteHost makes of the routes
   (engine/network.go). *)
THEOREM HostsStayApart == Spec => []HostsApart
  BY ApartLemma, Inductive, PTL

(* The module listens where the host forwards, for every network, name and endpoint
   and whether the host granted names, addresses alone or nothing, and it gives out
   the host's name and addresses (grantToProto, conv.go:118). *)
THEOREM BackendsAgree == Spec => []BackendsMeet
  BY MeetLemma, Inductive, PTL
=============================================================================
