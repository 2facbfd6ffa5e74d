----------------------------- MODULE MCExchange ----------------------------
(* One instance of a module and its host; strings of a few characters and
   integers of four bits. *)
EXTENDS Exchange, TLC

CONSTANTS c1, c2

\* strings
S(x) == <<x>>
M == S("m")   A == S("a")   B == S("b")

mcChar == {"m", "a", "b", "d", "-", ".", "@"}
mcAlnum == {"m", "a", "b", "d"}
mcKeys == {M, A, B, <<"a", "-", "b">>}
Of(f) == [k \in mcKeys |-> IF k \in DOMAIN f THEN f[k] ELSE Nil]
mcMain == M
mcTCP == <<"a", "d">>
mcHTTP == <<"b", "d">>
mcZone == <<".", "d">>
mcRestartNo == B
mcConfigs == {c1, c2}
mcRegistered == {c1}

Tc(tools) == [Engine |-> A, Full |-> B, BinDir |-> <<".">>, Tools |-> tools]
Ep == [UnixSocket |-> A, TCPAddr |-> <<>>, Backend |-> B]
D1 == [Name |-> B, Engine |-> A, SocketDir |-> <<>>, Backend |-> A, URL |-> B]

I(port, spec, deps, tc) ==
    [Name |-> A, Type |-> B, Version |-> <<"d", ".", "d">>, DataDir |-> <<>>,
     SocketDir |-> B, Port |-> port, Endpoint |-> Ep, Spec |-> spec, Deps |-> deps,
     Toolchain |-> tc, Grant |-> ZeroGrant]

\* with a dependency and tools; nil and empty maps, and a port past 32 bits; without a
\* configuration; with one the module cannot decode, and one that cannot be encoded
mcInstances ==
    {I(3, [Bytes |-> c1], Of(B :> D1), Tc(Of(A :> B))), I(19, c1, Nil, Tc(Of(<<>>))),
     I(3, [Bytes |-> Nil], Of(<<>>), Tc(Nil)), I(0, [Bytes |-> c2], Of(<<>>), Tc(Nil)),
     I(3, c2, Of(<<>>), Tc(Nil))}

L(name, port, protocol, routes) ==
    [Name |-> name, Port |-> port, Protocol |-> protocol, Routes |-> routes]
N(ls) == [Listeners |-> ls]
Main == L(M, 0, mcTCP, Nil)
Self == S("@")
Child == A
Sibling == <<"a", "@">>

mcAnswers ==
    {\* valid: one port, named children and siblings, a port of its own
     N(<<Main>>), N(<<Main, L(A, 4, mcHTTP, <<Self, Child>>)>>),
     N(<<L(M, 0, mcHTTP, <<Self, Sibling>>), L(B, 5, mcHTTP, <<Child>>)>>),
     N(<<L(M, 4, mcTCP, <<>>), L(<<"a", "-">> \o B, 5, mcTCP, Nil)>>),
     \* on the declared port
     N(<<Main, L(A, 3, mcHTTP, Nil)>>),
     \* nothing, no main, two of one name, two on one port
     N(Nil), N(<<L(A, 4, mcTCP, Nil)>>), N(<<Main, L(M, 4, mcTCP, Nil)>>),
     N(<<Main, L(A, 4, mcTCP, Nil), L(B, 4, mcTCP, Nil)>>),
     \* ports out of range, one of them past 32 bits
     N(<<Main, L(A, 6, mcTCP, Nil)>>), N(<<Main, L(A, 20, mcTCP, Nil)>>),
     N(<<Main, L(A, 0, mcTCP, Nil)>>),
     \* no label, an unknown protocol, routes on tcp
     N(<<Main, L(<<"-", "a">>, 4, mcTCP, Nil)>>),
     N(<<Main, L(A, 4, B, Nil)>>), N(<<L(M, 0, mcTCP, <<Self>>)>>),
     \* routes given twice, by one listener and by two; routes of no shape
     N(<<L(M, 0, mcHTTP, <<Self, Self>>)>>),
     N(<<L(M, 0, mcHTTP, <<Child>>), L(A, 4, mcHTTP, <<Child>>)>>),
     N(<<L(M, 0, mcHTTP, <<Self \o Child>>)>>), N(<<L(M, 0, mcHTTP, <<Self \o Self>>)>>),
     N(<<L(M, 0, mcHTTP, <<<<"a", "b", "d", "m">>>>)>>), N(<<L(M, 0, mcHTTP, <<S("."), <<>>>>)>>)}

\* every answer of a pure module, a module that changes its mind, one without Networked
Two == N(<<Main, L(A, 4, mcHTTP, <<Self, Child>>)>>)
mcModules ==
    {[networked |-> TRUE, first |-> n, later |-> n] : n \in mcAnswers}
    \cup {[networked |-> TRUE, first |-> N(<<Main>>), later |-> n] :
             n \in {Two, N(Nil), N(<<L(A, 4, mcTCP, Nil)>>)}}
    \cup {[networked |-> FALSE, first |-> N(Nil), later |-> N(Nil)]}

R(retries) ==
    [Kind |-> A, Target |-> B, Interval |-> 100, Timeout |-> 0, Retries |-> retries]
P(env, after, ready, tree) ==
    [Name |-> A, Dir |-> B, Bin |-> M, Args |-> <<A, B>>, Env |-> env, Tree |-> tree,
     After |-> after, Ready |-> ready, Hooks |-> <<B>>]
Nd(depth, k, weight, actions) ==
    [Depth |-> depth, Kind |-> k, ID |-> A, Title |-> B, Weight |-> weight, Panel |-> M,
     From |-> S("d"), Text |-> <<>>, Actions |-> actions]
Tree == <<Nd(0, A, 0, Nil), Nd(1, B, 2, <<A>>), Nd(1, A, 0, Nil), Nd(2, M, 1, <<>>)>>
Leaf == <<Nd(0, B, 3, Nil)>>
Col == [Key |-> A, Title |-> B, Align |-> M, Role |-> <<>>]
Pn(cols) ==
    [ID |-> A, Title |-> B, Kind |-> M, Source |-> S("d"), Columns |-> cols, Select |-> <<>>]
Con(panels, body) ==
    [Front |-> A, WebURL |-> B, Panels |-> panels,
     Tabs |-> <<[ID |-> A, Title |-> B, Body |-> body]>>,
     Extend |-> <<[After |-> M, Node |-> body]>>]
Ac(d) == [ID |-> A, Label |-> B, Kind |-> M, Destructive |-> d, InputHint |-> <<>>]
Res(info) == [Kind |-> A, Name |-> B, Status |-> M, Info |-> info]
Lock(hashes) ==
    [Engine |-> A, Spec |-> B, Pin |-> [Resolved |-> M, Source |-> A, Hashes |-> hashes]]

mcValues ==
    [k \in ResolveKinds \cup CallKinds |->
        CASE k = "platform" -> {[OS |-> A, Arch |-> B, Triple |-> M]}
          [] k = "locks" -> {Nil, <<>>, <<Lock(Of(A :> B)), Lock(Nil)>>, <<Lock(Of(<<>>))>>}
          [] k = "toolchain" -> {Tc(Nil), Tc(Of(<<>>)), Tc(Of(A :> B @@ B :> M))}
          [] k = "endpoint" -> {Ep}
          [] k = "objects" -> {Nil, <<>>, <<[Kind |-> A, Name |-> B, Hash |-> M]>>}
          [] k = "plan" ->
                {[Specs |-> Nil], [Specs |-> <<P(Nil, Nil, Nil, TRUE)>>],
                 [Specs |-> <<P(<<>>, <<>>, R(16), FALSE)>>],
                 [Specs |-> <<P(<<A>>, Nil, R(7), FALSE), P(<<B>>, <<A>>, Nil, TRUE)>>]}
          [] k = "restart" -> {[Policy |-> A, Backoff |-> 100, MaxRetries |-> r] : r \in {-1, 0, 7, 8}}
          [] k = "actions" -> {Nil, <<Ac(TRUE), Ac(FALSE)>>}
          [] k = "resources" -> {<<>>, <<Res(Nil), Res(Of(A :> B))>>, <<Res(Of(<<>>))>>}
          [] k = "console" -> {Con(Nil, Leaf), Con(<<>>, Tree), Con(<<Pn(Nil), Pn(<<Col>>)>>, Leaf)}]
=============================================================================
