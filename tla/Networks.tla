------------------------------ MODULE Networks -----------------------------
(***************************************************************************)
(* The network vocabulary of src/engine/network.go: what an instance       *)
(* serves, the names its routes ask for, which networks are valid, and     *)
(* what a grant tells a module.  Strings are sequences of characters, of   *)
(* which only the kind counts: a letter or digit, "-", "." or "@".         *)
(***************************************************************************)
EXTENDS WireValues

CONSTANTS
    Alnum,        \* lower-case letters and digits
    MaxLabel,     \* 63, the longest DNS label
    MaxPort,      \* 65535
    MainListener, \* the name of the listener every instance has
    TCP, HTTP     \* the protocols

ASSUME CharAssumption ==
    Alnum \cup {"-", ".", "@"} \subseteq Char /\ Alnum \cap {"-", ".", "@"} = {}
ASSUME PortAssumption == MaxPort \in Nat /\ MaxPort < Half
ASSUME ProtocolAssumption == {TCP, HTTP} \subseteq String /\ TCP # HTTP

labelChars(s) == s # <<>> /\ \A i \in DOMAIN s : s[i] \in Alnum \cup {"-"}

isLabel(s) ==
    /\ labelChars(s) /\ Len(s) <= MaxLabel
    /\ s[1] # "-" /\ s[Len(s)] # "-"

ASSUME MainAssumption == MainListener \in String /\ isLabel(MainListener)

RouteSelf == <<"@">>

Ends(route) == route # <<>> /\ route[Len(route)] = "@"
Prefix(route) == SubSeq(route, 1, Len(route) - 1)

(* The shape of a route, with its label or its prefix. *)
parseRoute(route) ==
    IF route = RouteSelf THEN [kind |-> "self", part |-> <<>>]
    ELSE IF Ends(route)
         THEN IF labelChars(Prefix(route)) THEN [kind |-> "sibling", part |-> Prefix(route)]
              ELSE [kind |-> "bad", part |-> <<>>]
    ELSE IF isLabel(route) THEN [kind |-> "child", part |-> route]
    ELSE [kind |-> "bad", part |-> <<>>]

(* RouteHost: the host a route names, given the instance's; none for a bad one. *)
RouteHost(route, host) ==
    LET r == parseRoute(route)
    IN  CASE r.kind = "self" -> host
          [] r.kind = "child" -> r.part \o <<".">> \o host
          [] r.kind = "sibling" -> r.part \o host
          [] OTHER -> <<>>

(* What a loop over a slice goes over. *)
All(s) == IF s = Nil THEN <<>> ELSE s

DefaultNetwork ==
    [Listeners |-> <<[Name |-> MainListener, Port |-> 0, Protocol |-> TCP, Routes |-> Nil]>>]

(* The main listener's port is the host's to put. *)
Declared(l) == l.Name = MainListener /\ l.Port = 0

ValidListener(l) ==
    /\ isLabel(l.Name)
    /\ Declared(l) \/ l.Port \in 1 .. MaxPort
    /\ l.Protocol \in {TCP, HTTP}
    /\ l.Protocol = TCP => All(l.Routes) = <<>>
    /\ \A j \in DOMAIN All(l.Routes) : parseRoute(l.Routes[j]).kind # "bad"

NamesDiffer(ls) ==
    \A i, k \in DOMAIN ls : i # k => ls[i].Name # ls[k].Name

PortsDiffer(ls) ==
    \A i, k \in DOMAIN ls :
        i # k => ls[i].Port # ls[k].Port \/ Declared(ls[i]) \/ Declared(ls[k])

RoutesDiffer(ls) ==
    \A i, k \in DOMAIN ls :
        \A j \in DOMAIN All(ls[i].Routes), m \in DOMAIN All(ls[k].Routes) :
            <<i, j>> # <<k, m>> => ls[i].Routes[j] # ls[k].Routes[m]

\* each listener's routes are compared with its own only
ValidateNetworkApart(n) ==
    LET ls == All(n.Listeners)
    IN  /\ \A i \in DOMAIN ls : ValidListener(ls[i]) /\ RoutesDiffer(<<ls[i]>>)
        /\ NamesDiffer(ls) /\ PortsDiffer(ls)
        /\ \E i \in DOMAIN ls : ls[i].Name = MainListener
(* ValidateNetwork: the network has no problem. *)
ValidateNetwork(n) ==
    LET ls == All(n.Listeners)
    IN  /\ \A i \in DOMAIN ls : ValidListener(ls[i])
        /\ NamesDiffer(ls) /\ PortsDiffer(ls) /\ RoutesDiffer(ls)
        /\ \E i \in DOMAIN ls : ls[i].Name = MainListener

(* What a grant tells the module: whether the instance has a name, and what a
   listener got; Nil for a listener without one. *)
Named(g) == g.Host # <<>>

Granted(g, name) == g.Listeners # Nil /\ g.Listeners[name] # Nil

Backend(g, name) ==
    IF Granted(g, name) /\ g.Listeners[name].Backend # <<>>
    THEN g.Listeners[name].Backend ELSE Nil

Addr(g, name) ==
    IF Granted(g, name) /\ g.Listeners[name].Addr # <<>> THEN g.Listeners[name].Addr ELSE Nil
=============================================================================
