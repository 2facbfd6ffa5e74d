---------------------------- MODULE WireHandoff ----------------------------
(***************************************************************************)
(* A client connection handed to a plugin's wire filter: the host's        *)
(* Handoff (src/plugin/wire.go) and the plugin's wireServer.handle         *)
(* (src/plugin/wireserver.go), one goroutine of each per connection, and   *)
(* the side channel between them, a stream that delivers in order and ends *)
(* when its writer closes.                                                 *)
(*                                                                         *)
(* The driver's Preamble and Handshake are external and may do what        *)
(* engine.ProxyFilter allows.  The host's idle reaper is external too: it  *)
(* stops a backend that no accounted connection uses (engine/wire.go).     *)
(***************************************************************************)
EXTENDS Integers, Sequences, FiniteSets

CONSTANTS
    Conns,      \* client connections
    Cancels     \* those that open with a cancel request

ASSUME CancelAssumption == Cancels \subseteq Conns

VARIABLES
    wireSock,   \* pluginDriver.wireSock: "unset" until wireOnce ran, else "path" or ""
    up,         \* the plugin's process runs
    client,     \* each client: "open" or "gone"
    hpc,        \* Handoff: "idle", "read", "boot", "splice", "done"
    res,        \* what Handoff returned
    ppc,        \* handle: "none", "preamble", "await", "handshake", "announce",
                \*         "splice", "closing", "closed"
    toHost,     \* lines on the side channel, plugin to host
    toPlugin,   \* the host's answer to "boot"
    copies,     \* the copy loops of spliceConns that still run
    shut,       \* closeBoth was called
    keys,       \* connections with a synthetic key in the cancel registry
    active,     \* Acquire calls less Release calls
    backend     \* the backend runs

handoffVars == <<wireSock, up, client, hpc, res, ppc, toHost, toPlugin, copies, shut, keys,
          active, backend>>

plugin == <<ppc, copies, shut, keys>>

HandoffTypeOK ==
    /\ wireSock \in {"unset", "path", ""}
    /\ up \in BOOLEAN /\ backend \in BOOLEAN
    /\ client \in [Conns -> {"open", "gone"}]
    /\ hpc \in [Conns -> {"idle", "read", "boot", "splice", "done"}]
    /\ res \in [Conns -> {"none", "nil", "error", "nowire"}]
    /\ ppc \in [Conns -> {"none", "preamble", "await", "handshake", "announce",
                          "splice", "closing", "closed"}]
    /\ toHost \in [Conns -> Seq({"boot", "handled", "splice", "error"})]
    /\ \A c \in Conns : Len(toHost[c]) <= 1
    /\ toPlugin \in [Conns -> {"none", "backend", "bootfail"}]
    /\ copies \in [Conns -> SUBSET {"up", "down"}]
    /\ shut \in SUBSET Conns /\ keys \in SUBSET Conns
    /\ active \in Nat

HandoffInit ==
    /\ wireSock = "unset"
    /\ up = TRUE
    /\ client = [c \in Conns |-> "open"]
    /\ hpc = [c \in Conns |-> "idle"]
    /\ res = [c \in Conns |-> "none"]
    /\ ppc = [c \in Conns |-> "none"]
    /\ toHost = [c \in Conns |-> <<>>]
    /\ toPlugin = [c \in Conns |-> "none"]
    /\ copies = [c \in Conns |-> {}]
    /\ shut = {} /\ keys = {}
    /\ active = 0
    /\ backend = FALSE

Closed(c) == ppc[c] = "closed"
HostClosed(c) == hpc[c] = "done"
Step(c, from, to) == ppc[c] = from /\ ppc' = [ppc EXCEPT ![c] = to]
Send(c, line) == toHost' = [toHost EXCEPT ![c] = Append(@, line)]
Finish(c, r) ==
    /\ hpc' = [hpc EXCEPT ![c] = "done"]
    /\ res' = [res EXCEPT ![c] = r]

-----------------------------------------------------------------------------
\* the connection is released by nobody
ReleasedNever == active
(* host.Release when the plugin's end of the side channel closes. *)
Released == active - 1

\* the loop that ends first leaves the other one running
CloseBothForgotten(c) == shut
(* closeBoth: the first copy loop to end closes both connections. *)
CloseBoth(c) == shut \cup {c}

\* cleanup runs after a splice only
CleanupNotDeferred(c) == IF c \in shut THEN keys \ {c} ELSE keys
(* The deferred cleanup of Handshake: it runs however handle returns. *)
Cleanup(c) == keys \ {c}

(* Preamble's result: a cancel request has been served by the filter. *)
Handled(c) == c \in Cancels

\* accounting starts before the handshake
AnnouncedEarly == [await |-> "announce", announce |-> "handshake", handshake |-> "splice"]
(* The order of handle: dial the backend, handshake, announce, splice. *)
After == [await |-> "handshake", handshake |-> "announce", announce |-> "splice"]

(* "splice": core begins connection accounting. *)
Announced(c) == Send(c, "splice")

-----------------------------------------------------------------------------
\* The host: Handoff.

(* wireAddr asks the plugin once; a failed call leaves "" for good. *)
WireAddr ==
    /\ wireSock = "unset"
    /\ \E c \in Conns : hpc[c] = "idle"
    /\ wireSock' \in (IF up THEN {"path", ""} ELSE {""})
    /\ UNCHANGED <<up, client, hpc, res, plugin, toHost, toPlugin, active, backend>>

NoWireProxy(c) ==
    /\ hpc[c] = "idle"
    /\ wireSock = ""
    /\ Finish(c, "nowire")
    /\ UNCHANGED <<wireSock, up, client, plugin, toHost, toPlugin, active, backend>>

(* Dial the socket and pass the descriptor; serve accepts and starts handle. *)
HandOver(c) ==
    /\ hpc[c] = "idle"
    /\ wireSock = "path" /\ up
    /\ hpc' = [hpc EXCEPT ![c] = "read"]
    /\ Step(c, "none", "preamble")
    /\ UNCHANGED <<wireSock, up, client, res, toHost, toPlugin, copies, shut, keys,
                   active, backend>>

(* The dial or the descriptor's passing fails. *)
HandOverFails(c) ==
    /\ hpc[c] = "idle"
    /\ wireSock = "path"
    /\ Finish(c, "error")
    /\ UNCHANGED <<wireSock, up, client, plugin, toHost, toPlugin, active, backend>>

Receive(c, line) ==
    /\ hpc[c] = "read"
    /\ toHost[c] # <<>> /\ Head(toHost[c]) = line
    /\ toHost' = [toHost EXCEPT ![c] = Tail(@)]

HostHandled(c) ==
    /\ Receive(c, "handled")
    /\ Finish(c, "nil")
    /\ UNCHANGED <<wireSock, up, client, plugin, toPlugin, active, backend>>

HostError(c) ==
    /\ Receive(c, "error")
    /\ Finish(c, "error")
    /\ UNCHANGED <<wireSock, up, client, plugin, toPlugin, active, backend>>

HostBoot(c) ==
    /\ Receive(c, "boot")
    /\ hpc' = [hpc EXCEPT ![c] = "boot"]
    /\ UNCHANGED <<wireSock, up, client, res, plugin, toPlugin, active, backend>>

(* host.Boot returned the backend's endpoint. *)
Booted(c) ==
    /\ hpc[c] = "boot"
    /\ backend' = TRUE
    /\ toPlugin' = [toPlugin EXCEPT ![c] = "backend"]
    /\ hpc' = [hpc EXCEPT ![c] = "read"]
    /\ UNCHANGED <<wireSock, up, client, res, plugin, toHost, active>>

BootFailed(c) ==
    /\ hpc[c] = "boot"
    /\ toPlugin' = [toPlugin EXCEPT ![c] = "bootfail"]
    /\ Finish(c, "error")
    /\ UNCHANGED <<wireSock, up, client, plugin, toHost, active, backend>>

HostAcquire(c) ==
    /\ Receive(c, "splice")
    /\ hpc' = [hpc EXCEPT ![c] = "splice"]
    /\ active' = active + 1
    /\ UNCHANGED <<wireSock, up, client, res, plugin, toPlugin, backend>>

HostRelease(c) ==
    /\ hpc[c] = "splice"
    /\ Closed(c)
    /\ active' = Released
    /\ Finish(c, "nil")
    /\ UNCHANGED <<wireSock, up, client, plugin, toHost, toPlugin, backend>>

(* The side channel ended before a splice. *)
HostEOF(c) ==
    /\ hpc[c] = "read"
    /\ toHost[c] = <<>> /\ Closed(c)
    /\ Finish(c, "nil")
    /\ UNCHANGED <<wireSock, up, client, plugin, toHost, toPlugin, active, backend>>

(* Reading fails otherwise: the plugin closed with something unread. *)
HostReadFails(c) ==
    /\ hpc[c] = "read"
    /\ toHost[c] = <<>> /\ Closed(c)
    /\ Finish(c, "error")
    /\ UNCHANGED <<wireSock, up, client, plugin, toHost, toPlugin, active, backend>>

-----------------------------------------------------------------------------
\* The plugin: wireServer.handle.

(* recvConn got no descriptor: handle returns without a word. *)
NotReceived(c) ==
    /\ Step(c, "preamble", "closing")
    /\ UNCHANGED <<wireSock, up, client, hpc, res, toHost, toPlugin, copies, shut, keys,
                   active, backend>>

PreambleHandled(c) ==
    /\ Handled(c)
    /\ Step(c, "preamble", "closing")
    /\ Send(c, "handled")
    /\ UNCHANGED <<wireSock, up, client, hpc, res, toPlugin, copies, shut, keys,
                   active, backend>>

PreambleFailed(c) ==
    /\ Step(c, "preamble", "closing")
    /\ Send(c, "error")
    /\ UNCHANGED <<wireSock, up, client, hpc, res, toPlugin, copies, shut, keys,
                   active, backend>>

PreambleDone(c) ==
    /\ ~Handled(c)
    /\ client[c] = "open"
    /\ Step(c, "preamble", "await")
    /\ Send(c, "boot")
    /\ UNCHANGED <<wireSock, up, client, hpc, res, toPlugin, copies, shut, keys,
                   active, backend>>

(* The host's answer: dial the backend and replay the startup bytes, if it
   still runs; a failed boot, a closed side channel or a failed dial ends it. *)
DialBackend(c) ==
    /\ toPlugin[c] = "backend" /\ backend
    /\ Step(c, "await", After["await"])
    /\ UNCHANGED <<wireSock, up, client, hpc, res, toHost, toPlugin, copies, shut,
                   keys, active, backend>>

NoBackend(c) ==
    /\ \/ toPlugin[c] = "bootfail"
       \/ toPlugin[c] = "backend" /\ ~backend
       \/ toPlugin[c] = "none" /\ HostClosed(c)
    /\ Step(c, "await", "closing")
    /\ UNCHANGED <<wireSock, up, client, hpc, res, toHost, toPlugin, copies, shut,
                   keys, active, backend>>

(* The filter may have registered a synthetic cancel key, ready or not. *)
Handshake(c, ready) ==
    /\ ready => client[c] = "open" /\ backend
    /\ Step(c, "handshake", IF ready THEN After["handshake"] ELSE "closing")
    /\ keys' \in {keys, keys \cup {c}}
    /\ UNCHANGED <<wireSock, up, client, hpc, res, toHost, toPlugin, copies, shut,
                   active, backend>>

Announce(c) ==
    /\ Step(c, "announce", After["announce"])
    /\ Announced(c)
    /\ copies' = [copies EXCEPT ![c] = {"up", "down"}]
    /\ UNCHANGED <<wireSock, up, client, hpc, res, toPlugin, shut, keys, active,
                   backend>>

(* A copy loop ends when its source does, or when closeBoth closed it. *)
CopyEnds(c, dir) ==
    /\ ppc[c] = "splice" /\ dir \in copies[c]
    /\ \/ dir = "up" /\ client[c] = "gone"
       \/ dir = "down" /\ ~backend
       \/ c \in shut
    /\ copies' = [copies EXCEPT ![c] = @ \ {dir}]
    /\ shut' = CloseBoth(c)
    /\ UNCHANGED <<wireSock, up, client, hpc, res, ppc, toHost, toPlugin, keys, active,
                   backend>>

SpliceEnds(c) ==
    /\ copies[c] = {}
    /\ Step(c, "splice", "closing")
    /\ UNCHANGED <<wireSock, up, client, hpc, res, toHost, toPlugin, copies, shut, keys,
                   active, backend>>

(* handle returns: its deferred calls run, side.Close the last of them. *)
HandleReturns(c) ==
    /\ Step(c, "closing", "closed")
    /\ keys' = Cleanup(c)
    /\ UNCHANGED <<wireSock, up, client, hpc, res, toHost, toPlugin, copies, shut,
                   active, backend>>

-----------------------------------------------------------------------------
\* What neither controls.

ClientGoes(c) ==
    /\ client[c] = "open"
    /\ client' = [client EXCEPT ![c] = "gone"]
    /\ UNCHANGED <<wireSock, up, hpc, res, plugin, toHost, toPlugin, active, backend>>

(* The plugin's process dies: its sockets close, its registry is gone; what it
   had written can still be read. *)
PluginDies ==
    /\ up
    /\ up' = FALSE
    /\ ppc' = [c \in Conns |-> IF ppc[c] = "none" THEN "none" ELSE "closed"]
    /\ copies' = [c \in Conns |-> {}]
    /\ keys' = {}
    /\ UNCHANGED <<wireSock, client, hpc, res, toHost, toPlugin, shut, active, backend>>

(* The host reaps the backend when it is idle, or the backend crashes. *)
BackendStops ==
    /\ backend
    /\ backend' = FALSE
    /\ UNCHANGED <<wireSock, up, client, hpc, res, plugin, toHost, toPlugin, active>>

HostStep(c) ==
    \/ NoWireProxy(c) \/ HandOver(c) \/ HandOverFails(c)
    \/ HostHandled(c) \/ HostError(c)
    \/ HostEOF(c) \/ HostReadFails(c)
    \/ HostBoot(c) \/ Booted(c) \/ BootFailed(c)
    \/ HostAcquire(c) \/ HostRelease(c)

PluginStep(c) ==
    \/ NotReceived(c) \/ PreambleHandled(c) \/ PreambleDone(c) \/ PreambleFailed(c)
    \/ DialBackend(c) \/ NoBackend(c)
    \/ \E ready \in BOOLEAN : Handshake(c, ready)
    \/ Announce(c)
    \/ \E dir \in {"up", "down"} : CopyEnds(c, dir)
    \/ SpliceEnds(c) \/ HandleReturns(c)

HandoffNext ==
    \/ WireAddr
    \/ \E c \in Conns : HostStep(c) \/ PluginStep(c) \/ ClientGoes(c)
    \/ PluginDies \/ BackendStops

HandoffSpec == HandoffInit /\ [][HandoffNext]_handoffVars

(* Goroutines run, host.Boot returns, and the filter gives up on a client that
   is gone.  A Preamble or Handshake waiting for an open client may wait. *)
HandoffFairSpec ==
    /\ HandoffSpec
    /\ WF_handoffVars(WireAddr)
    /\ \A c \in Conns : /\ WF_handoffVars(HostStep(c))
                        /\ WF_handoffVars(client[c] = "gone" /\ PluginStep(c))

-----------------------------------------------------------------------------
(* Idle accounting counts exactly the connections Handoff has acquired and not
   yet released: no path out of Handoff, the plugin's death included, leaves a
   backend counted busy or counts one down twice; what is in the side channel
   is one line at most (HandoffTypeOK). *)
Balanced == HandoffTypeOK /\ active = Cardinality({c \in Conns : hpc[c] = "splice"})

(* The backend is counted busy only for a connection whose handshake said it
   was ready, and a connection that is spliced has been announced: the host
   counts it, or has the announcement still to read. *)
AccountedIsReady ==
    \A c \in Conns : /\ hpc[c] = "splice" => ppc[c] \in {"splice", "closing", "closed"}
                     /\ "splice" \in {toHost[c][n] : n \in 1..Len(toHost[c])} =>
                           ppc[c] \in {"splice", "closing", "closed"}
                     /\ ppc[c] = "splice" => hpc[c] = "splice" \/ toHost[c] = <<"splice">>

(* A synthetic cancel key is in the registry only while the connection it
   stands for has a backend, and the cancel request that names it is served
   without booting one. *)
KeysScoped ==
    /\ \A c \in keys : ppc[c] \in {"announce", "splice", "closing"}
    /\ \A c \in Cancels : hpc[c] # "boot" /\ toPlugin[c] = "none"

(* A Handoff ends once its client is gone, or its plugin: nothing on either
   side keeps a connection, or the backend it holds busy, alive. *)
HandoffEnds ==
    \A c \in Conns : (client[c] = "gone" \/ ~up) ~> (hpc[c] = "done")

-----------------------------------------------------------------------------
(* "brackets the spliced phase with host.Acquire/host.Release for idle
   accounting" (src/engine/wire.go:26-27): while bytes are spliced to the
   backend the connection is acquired. *)
SpliceIsAccounted ==
    \A c \in Conns : ppc[c] = "splice" => hpc[c] = "splice"

(* "An advertised capability whose RPC fails is an error naming the module"
   (src/plugin/proto/PROTOCOL.md): a plugin that serves a wire filter is not
   taken for one without because one WireAddr call failed. *)
WireFailureIsError == \A c \in Conns : res[c] # "nowire"
=============================================================================
