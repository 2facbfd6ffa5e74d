----------------------------- MODULE WireValues ----------------------------
(***************************************************************************)
(* What host and module send each other: the values of the engine package  *)
(* (src/engine/types.go, spawn.go, console.go, admin.go), the messages of  *)
(* src/plugin/proto/engine.proto that carry them, and the conversions      *)
(* between the two (src/plugin/conv.go).                                   *)
(*                                                                         *)
(* A slice is Nil or a sequence, a nil pointer is Nil, and a map is Nil or *)
(* a function from all the Keys, Nil at those it has no entry for.  The    *)
(* engine's values are the ones the wire can carry as they are: see        *)
(* Repeated and Mapped.  Gob bytes are the value they encode; a duration   *)
(* is an integer, whose 64 bits cross whole.                               *)
(***************************************************************************)
EXTENDS Integers, Sequences

CONSTANTS
    Nil,
    Half,        \* 2^31: an int32 is in -Half .. Half - 1
    Char,        \* characters of the strings
    Keys,        \* keys of the maps
    RestartNo,   \* the restart policy "no"
    Configs,     \* decoded configurations of instances
    Registered   \* those whose Go type gob knows, on both sides

ASSUME RestartAssumption == RestartNo \in Seq(Char)
ASSUME WidthAssumption == Half \in Nat \ {0}
ASSUME KeysAssumption == Keys \subseteq Seq(Char)
ASSUME ConfigsAssumption == Registered \subseteq Configs /\ Nil \notin Configs

String == Seq(Char)

Int32 == -Half .. (Half - 1)

(* int32(n): the low 32 bits, read as signed. *)
int32(n) == ((n + Half) % (2 * Half)) - Half

(* A repeated field or a map as it arrives: protobuf sends no field at all for
   an empty one, and none leaves the Go field nil. *)
NoEntries == [k \in Keys |-> Nil]
Repeated(S) == {Nil} \cup (Seq(S) \ {<<>>})
Mapped(S) == {Nil} \cup ([Keys -> {Nil} \cup S] \ {NoEntries})

Field(s) == IF s = <<>> THEN Nil ELSE s
MapField(m) == IF m = NoEntries THEN Nil ELSE m

(* A loop that converts every element of a slice, or every entry of a map. *)
Each(Convert(_), s) == IF s = Nil THEN Nil ELSE [i \in DOMAIN s |-> Convert(s[i])]
Entries(Convert(_), m) ==
    IF m = Nil THEN Nil
    ELSE [k \in Keys |-> IF m[k] = Nil THEN Nil ELSE Convert(m[k])]

-----------------------------------------------------------------------------
(* The engine's values: all that the code may hold (w = FALSE), and those that
   the wire carries as they are (w = TRUE). *)

Integer(w) == IF w THEN Int32 ELSE Int
Slice(w, S) == IF w THEN Repeated(S) ELSE {Nil} \cup Seq(S)
Map(w, S) == IF w THEN Mapped(S) ELSE {Nil} \cup [Keys -> {Nil} \cup S]

Platform == [OS : String, Arch : String, Triple : String]

Toolchain(w) == [Engine : String, Full : String, BinDir : String, Tools : Map(w, String)]

Pin(w) == [Resolved : String, Source : String, Hashes : Map(w, String)]

LockEntry(w) == [Engine : String, Spec : String, Pin : Pin(w)]

Endpoint == [UnixSocket : String, TCPAddr : String, Backend : String]

Dep == [Name : String, Engine : String, SocketDir : String, Backend : String, URL : String]

Object == [Kind : String, Name : String, Hash : String]

Listener(w) == [Name : String, Port : Integer(w), Protocol : String,
                Routes : Slice(w, String)]

Network(w) == [Listeners : Slice(w, Listener(w))]

GrantedListener(w) == [Addr : String, URL : String, Hosts : Slice(w, String),
                       Backend : String]

(* A map of no listeners arrives nil. *)
Grant(w) == [Host : String, Listeners : Map(w, GrantedListener(w))]

(* RawSpec: a configuration the host only has the bytes of, perhaps none. *)
RawSpec == [Bytes : {Nil} \cup Configs]

(* The wire carries the configuration itself.  Deps is never nil once it has
   crossed. *)
Instance(w) == [Name : String, Type : String, Version : String, DataDir : String,
                SocketDir : String, Port : Integer(w), Endpoint : Endpoint,
                Spec : {Nil} \cup (IF w THEN Registered ELSE Configs \cup RawSpec),
                Deps : (IF w THEN {} ELSE {Nil}) \cup [Keys -> {Nil} \cup Dep],
                Toolchain : Toolchain(w), Grant : Grant(w)]

Ready(w) == [Kind : String, Target : String, Interval : Int, Timeout : Int,
             Retries : Integer(w)]

SpawnSpec(w) == [Name : String, Dir : String, Bin : String, Args : Slice(w, String),
                 Env : Slice(w, String), Tree : BOOLEAN, After : Slice(w, String),
                 Ready : {Nil} \cup Ready(w), Hooks : Slice(w, String)]

SpawnPlan(w) == [Specs : Slice(w, SpawnSpec(w))]

RestartSpec(w) == [Policy : String, Backoff : Int, MaxRetries : Integer(w)]

Action == [ID : String, Label : String, Kind : String, Destructive : BOOLEAN,
           InputHint : String]

Resource(w) == [Kind : String, Name : String, Status : String, Info : Map(w, String)]

Column == [Key : String, Title : String, Align : String, Role : String]

Panel(w) == [ID : String, Title : String, Kind : String, Source : String,
             Columns : Slice(w, Column), Select : String]

(* A layout is its nodes in order, each before its children, with their depth. *)
Node(w) == [Depth : Nat, Kind : String, ID : String, Title : String, Weight : Integer(w),
            Panel : String, From : String, Text : String, Actions : Slice(w, String)]

Layout(w) == Seq(Node(w)) \ {<<>>}

Tab(w) == [ID : String, Title : String, Body : Layout(w)]

Extension(w) == [After : String, Node : Layout(w)]

ConsoleSpec(w) == [Front : String, WebURL : String, Panels : Slice(w, Panel(w)),
                   Tabs : Slice(w, Tab(w)), Extend : Slice(w, Extension(w))]

-----------------------------------------------------------------------------
(* The messages. *)

PlatformMsg == [Os : String, Arch : String, Triple : String]

ToolchainMsg == [Engine : String, Full : String, BinDir : String, Tools : Mapped(String)]

PinMsg == [Resolved : String, Source : String, Hashes : Mapped(String)]

LockEntryMsg == [Engine : String, Spec : String, Pin : {Nil} \cup PinMsg]

EndpointMsg == [UnixSocket : String, TcpAddr : String, Backend : String]

DepMsg == [Name : String, Engine : String, SocketDir : String, Backend : String,
           Url : String]

ObjectMsg == [Kind : String, Name : String, Hash : String]

ListenerMsg == [Name : String, Port : Int32, Protocol : String, Routes : Repeated(String)]

NetworkMsg == [Listeners : Repeated(ListenerMsg)]

GrantedListenerMsg == [Addr : String, Url : String, Hosts : Repeated(String),
                       Backend : String]

GrantMsg == [Host : String, Listeners : Mapped(GrantedListenerMsg)]

InstanceMsg == [Name : String, Type : String, Version : String, DataDir : String,
                SocketDir : String, Port : Int32, Endpoint : {Nil} \cup EndpointMsg,
                Spec : {Nil} \cup Configs, Deps : Mapped(DepMsg),
                Toolchain : {Nil} \cup ToolchainMsg, Grant : {Nil} \cup GrantMsg]

ReadyMsg == [Kind : String, Target : String, IntervalNs : Int, TimeoutNs : Int,
             Retries : Int32]

SpawnSpecMsg == [Name : String, Dir : String, Bin : String, Args : Repeated(String),
                 Env : Repeated(String), Tree : BOOLEAN, After : Repeated(String),
                 Ready : {Nil} \cup ReadyMsg, Hooks : Repeated(String)]

SpawnPlanMsg == [Specs : Repeated(SpawnSpecMsg)]

RestartSpecMsg == [Policy : String, BackoffNs : Int, MaxRetries : Int32]

ActionMsg == [Id : String, Label : String, Kind : String, Destructive : BOOLEAN,
              InputHint : String]

ResourceMsg == [Kind : String, Name : String, Status : String, Info : Mapped(String)]

ColumnMsg == [Key : String, Title : String, Align : String, Role : String]

PanelMsg == [Id : String, Title : String, Kind : String, Source : String,
             Columns : Repeated(ColumnMsg), Select : String]

NodeMsg == [Depth : Nat, Kind : String, Id : String, Title : String, Weight : Int32,
            Panel : String, From : String, Text : String, Actions : Repeated(String)]

TabMsg == [Id : String, Title : String, Body : Repeated(NodeMsg)]

ExtensionMsg == [After : String, Node : Repeated(NodeMsg)]

ConsoleSpecMsg == [Front : String, WebUrl : String, Panels : Repeated(PanelMsg),
                   Tabs : Repeated(TabMsg), Extend : Repeated(ExtensionMsg)]

(* Nil, Go's nil pointer, slice or map, is no message, no value and no slice or
   map of either: an absent field is told apart from every present one. *)
ASSUME NilAssumption ==
    /\ Nil \notin PlatformMsg \cup ToolchainMsg \cup PinMsg \cup EndpointMsg \cup DepMsg
           \cup GrantedListenerMsg \cup GrantMsg \cup ReadyMsg \cup Dep \cup GrantedListener(TRUE)
           \cup Network(TRUE) \cup InstanceMsg \cup SpawnPlanMsg \cup RestartSpecMsg
           \cup ConsoleSpecMsg
    /\ Nil \notin [Keys -> {Nil} \cup DepMsg] \cup [Keys -> {Nil} \cup GrantedListenerMsg]
           \cup [Keys -> {Nil} \cup Dep] \cup [Keys -> {Nil} \cup GrantedListener(TRUE)]
    /\ Nil \notin Seq(ListenerMsg) \cup Seq(LockEntryMsg) \cup Seq(ObjectMsg)
           \cup Seq(SpawnSpecMsg) \cup Seq(ActionMsg) \cup Seq(ResourceMsg) \cup Seq(ColumnMsg)
           \cup Seq(PanelMsg) \cup Seq(NodeMsg) \cup Seq(TabMsg) \cup Seq(ExtensionMsg)
           \cup Seq(Node(FALSE)) \cup Seq(Listener(TRUE)) \cup String

-----------------------------------------------------------------------------
(* The conversions. *)

platformToProto(p) == [Os |-> p.OS, Arch |-> p.Arch, Triple |-> p.Triple]
platformFromProto(p) ==
    IF p = Nil THEN [OS |-> <<>>, Arch |-> <<>>, Triple |-> <<>>]
    ELSE [OS |-> p.Os, Arch |-> p.Arch, Triple |-> p.Triple]

toolchainToProto(t) ==
    [Engine |-> t.Engine, Full |-> t.Full, BinDir |-> t.BinDir, Tools |-> MapField(t.Tools)]
toolchainFromProto(t) ==
    IF t = Nil THEN [Engine |-> <<>>, Full |-> <<>>, BinDir |-> <<>>, Tools |-> Nil]
    ELSE [Engine |-> t.Engine, Full |-> t.Full, BinDir |-> t.BinDir, Tools |-> t.Tools]

pinToProto(p) == [Resolved |-> p.Resolved, Source |-> p.Source, Hashes |-> MapField(p.Hashes)]
pinFromProto(p) ==
    IF p = Nil THEN [Resolved |-> <<>>, Source |-> <<>>, Hashes |-> Nil]
    ELSE [Resolved |-> p.Resolved, Source |-> p.Source, Hashes |-> p.Hashes]

lockEntryToProto(e) == [Engine |-> e.Engine, Spec |-> e.Spec, Pin |-> pinToProto(e.Pin)]
lockEntryFromProto(e) == [Engine |-> e.Engine, Spec |-> e.Spec, Pin |-> pinFromProto(e.Pin)]
lockEntriesToProto(es) == Each(lockEntryToProto, Field(es))
lockEntriesFromProto(es) == Each(lockEntryFromProto, es)

endpointToProto(e) ==
    [UnixSocket |-> e.UnixSocket, TcpAddr |-> e.TCPAddr, Backend |-> e.Backend]
endpointFromProto(e) ==
    IF e = Nil THEN [UnixSocket |-> <<>>, TCPAddr |-> <<>>, Backend |-> <<>>]
    ELSE [UnixSocket |-> e.UnixSocket, TCPAddr |-> e.TcpAddr, Backend |-> e.Backend]

listenerToProto(l) ==
    [Name |-> l.Name, Port |-> int32(l.Port), Protocol |-> l.Protocol,
     Routes |-> Field(l.Routes)]
listenerFromProto(l) ==
    [Name |-> l.Name, Port |-> l.Port, Protocol |-> l.Protocol, Routes |-> l.Routes]
networkToProto(n) == [Listeners |-> Each(listenerToProto, Field(n.Listeners))]
networkFromProto(p) == [Listeners |-> Each(listenerFromProto, p.Listeners)]

ZeroGrant == [Host |-> <<>>, Listeners |-> Nil]

grantedToProto(l) ==
    [Addr |-> l.Addr, Url |-> l.URL, Hosts |-> Field(l.Hosts), Backend |-> l.Backend]
grantedFromProto(l) ==
    [Addr |-> l.Addr, URL |-> l.Url, Hosts |-> l.Hosts, Backend |-> l.Backend]
\* nothing is sent for an instance without a name
grantToProtoNamed(g) ==
    IF g.Host = <<>> THEN Nil
    ELSE [Host |-> g.Host, Listeners |-> Entries(grantedToProto, MapField(g.Listeners))]
(* Nil when there is neither a name nor a listener. *)
grantToProto(g) ==
    IF g.Host = <<>> /\ MapField(g.Listeners) = Nil THEN Nil
    ELSE [Host |-> g.Host, Listeners |-> Entries(grantedToProto, MapField(g.Listeners))]
grantFromProto(p) ==
    IF p = Nil THEN ZeroGrant
    ELSE [Host |-> p.Host, Listeners |-> Entries(grantedFromProto, p.Listeners)]

(* encodeSpec and decodeSpec fail on a type gob does not know; nil is no bytes. *)
Known(spec) == spec \in {Nil} \cup Registered
SpecBytes(spec) == IF spec \in RawSpec THEN spec.Bytes ELSE spec

(* instanceToProto succeeds: it encodes an in-tree value, and ships bytes as they are. *)
Encodes(inst) == inst.Spec \in RawSpec \/ Known(inst.Spec)

depToProto(d) == [Name |-> d.Name, Engine |-> d.Engine, SocketDir |-> d.SocketDir,
                  Backend |-> d.Backend, Url |-> d.URL]
depFromProto(d) == [Name |-> d.Name, Engine |-> d.Engine, SocketDir |-> d.SocketDir,
                    Backend |-> d.Backend, URL |-> d.Url]

instanceToProto(inst) ==
    [Name |-> inst.Name, Type |-> inst.Type, Version |-> inst.Version,
     DataDir |-> inst.DataDir, SocketDir |-> inst.SocketDir, Port |-> int32(inst.Port),
     Endpoint |-> endpointToProto(inst.Endpoint), Spec |-> SpecBytes(inst.Spec),
     Deps |-> Entries(depToProto, MapField(inst.Deps)),
     Toolchain |-> toolchainToProto(inst.Toolchain), Grant |-> grantToProto(inst.Grant)]

(* instanceFromProto, of a message whose spec decodes. *)
instanceFromProto(p) ==
    IF p = Nil
    THEN [Name |-> <<>>, Type |-> <<>>, Version |-> <<>>, DataDir |-> <<>>, SocketDir |-> <<>>,
          Port |-> 0, Endpoint |-> endpointFromProto(Nil), Spec |-> Nil, Deps |-> Nil,
          Toolchain |-> toolchainFromProto(Nil), Grant |-> ZeroGrant]
    ELSE [Name |-> p.Name, Type |-> p.Type, Version |-> p.Version,
          DataDir |-> p.DataDir, SocketDir |-> p.SocketDir, Port |-> p.Port,
          Endpoint |-> endpointFromProto(p.Endpoint), Spec |-> p.Spec,
          Deps |-> IF p.Deps = Nil THEN NoEntries ELSE Entries(depFromProto, p.Deps),
          Toolchain |-> toolchainFromProto(p.Toolchain), Grant |-> grantFromProto(p.Grant)]

readyToProto(r) ==
    IF r = Nil THEN Nil
    ELSE [Kind |-> r.Kind, Target |-> r.Target, IntervalNs |-> r.Interval,
          TimeoutNs |-> r.Timeout, Retries |-> int32(r.Retries)]
readyFromProto(r) ==
    IF r = Nil THEN Nil
    ELSE [Kind |-> r.Kind, Target |-> r.Target, Interval |-> r.IntervalNs,
          Timeout |-> r.TimeoutNs, Retries |-> r.Retries]

specToProto(s) ==
    [Name |-> s.Name, Dir |-> s.Dir, Bin |-> s.Bin, Args |-> Field(s.Args),
     Env |-> Field(s.Env), Tree |-> s.Tree, After |-> Field(s.After),
     Ready |-> readyToProto(s.Ready), Hooks |-> Field(s.Hooks)]
specFromProto(s) ==
    [Name |-> s.Name, Dir |-> s.Dir, Bin |-> s.Bin, Args |-> s.Args,
     Env |-> s.Env, Tree |-> s.Tree, After |-> s.After,
     Ready |-> readyFromProto(s.Ready), Hooks |-> s.Hooks]
planToProto(plan) == [Specs |-> Each(specToProto, Field(plan.Specs))]
planFromProto(p) == [Specs |-> IF p = Nil THEN Nil ELSE Each(specFromProto, p.Specs)]

objectToProto(o) == [Kind |-> o.Kind, Name |-> o.Name, Hash |-> o.Hash]
objectFromProto(o) == [Kind |-> o.Kind, Name |-> o.Name, Hash |-> o.Hash]
objectsToProto(objs) == Each(objectToProto, Field(objs))
objectsFromProto(ps) == Each(objectFromProto, ps)

restartToProto(r) ==
    [Policy |-> r.Policy, BackoffNs |-> r.Backoff, MaxRetries |-> int32(r.MaxRetries)]
restartFromProto(r) ==
    IF r = Nil THEN [Policy |-> RestartNo, Backoff |-> 0, MaxRetries |-> 0]
    ELSE [Policy |-> r.Policy, Backoff |-> r.BackoffNs, MaxRetries |-> r.MaxRetries]

actionToProto(a) == [Id |-> a.ID, Label |-> a.Label, Kind |-> a.Kind,
                     Destructive |-> a.Destructive, InputHint |-> a.InputHint]
actionFromProto(p) == [ID |-> p.Id, Label |-> p.Label, Kind |-> p.Kind,
                       Destructive |-> p.Destructive, InputHint |-> p.InputHint]
actionsToProto(as) == Each(actionToProto, Field(as))
actionsFromProto(ps) == Each(actionFromProto, ps)

resourceToProto(r) == [Kind |-> r.Kind, Name |-> r.Name, Status |-> r.Status,
                       Info |-> MapField(r.Info)]
resourceFromProto(p) == [Kind |-> p.Kind, Name |-> p.Name, Status |-> p.Status,
                         Info |-> p.Info]
resourcesToProto(rs) == Each(resourceToProto, Field(rs))
resourcesFromProto(ps) == Each(resourceFromProto, ps)

columnToProto(c) ==
    [Key |-> c.Key, Title |-> c.Title, Align |-> c.Align, Role |-> c.Role]
columnFromProto(c) ==
    [Key |-> c.Key, Title |-> c.Title, Align |-> c.Align, Role |-> c.Role]
panelToProto(p) ==
    [Id |-> p.ID, Title |-> p.Title, Kind |-> p.Kind, Source |-> p.Source,
     Columns |-> Each(columnToProto, Field(p.Columns)), Select |-> p.Select]
panelFromProto(p) ==
    [ID |-> p.Id, Title |-> p.Title, Kind |-> p.Kind, Source |-> p.Source,
     Columns |-> Each(columnFromProto, p.Columns), Select |-> p.Select]

\* the weight is forgotten
nodeToProtoEven(n) ==
    [Depth |-> n.Depth, Kind |-> n.Kind, Id |-> n.ID, Title |-> n.Title, Weight |-> 0,
     Panel |-> n.Panel, From |-> n.From, Text |-> n.Text, Actions |-> Field(n.Actions)]
nodeToProto(n) ==
    [Depth |-> n.Depth, Kind |-> n.Kind, Id |-> n.ID, Title |-> n.Title,
     Weight |-> int32(n.Weight), Panel |-> n.Panel, From |-> n.From, Text |-> n.Text,
     Actions |-> Field(n.Actions)]
nodeFromProto(n) ==
    [Depth |-> n.Depth, Kind |-> n.Kind, ID |-> n.Id, Title |-> n.Title,
     Weight |-> n.Weight, Panel |-> n.Panel, From |-> n.From, Text |-> n.Text,
     Actions |-> n.Actions]

tabToProto(t) == [Id |-> t.ID, Title |-> t.Title, Body |-> Each(nodeToProto, t.Body)]
tabFromProto(t) == [ID |-> t.Id, Title |-> t.Title, Body |-> Each(nodeFromProto, t.Body)]
extensionToProto(e) == [After |-> e.After, Node |-> Each(nodeToProto, e.Node)]
extensionFromProto(e) == [After |-> e.After, Node |-> Each(nodeFromProto, e.Node)]
consoleSpecToProto(s) ==
    [Front |-> s.Front, WebUrl |-> s.WebURL, Panels |-> Each(panelToProto, Field(s.Panels)),
     Tabs |-> Each(tabToProto, Field(s.Tabs)),
     Extend |-> Each(extensionToProto, Field(s.Extend))]
consoleSpecFromProto(s) ==
    IF s = Nil
    THEN [Front |-> <<>>, WebURL |-> <<>>, Panels |-> Nil, Tabs |-> Nil, Extend |-> Nil]
    ELSE [Front |-> s.Front, WebURL |-> s.WebUrl, Panels |-> Each(panelFromProto, s.Panels),
          Tabs |-> Each(tabFromProto, s.Tabs), Extend |-> Each(extensionFromProto, s.Extend)]
=============================================================================
