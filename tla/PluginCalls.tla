----------------------------- MODULE PluginCalls -----------------------------
(***************************************************************************)
(* One module driven across its process boundary: pluginDriver in the host *)
(* (src/plugin/adapter.go) and engineServer around the module's driver     *)
(* (src/plugin/server.go).  The host asks the module its type and          *)
(* capabilities, wraps the adapter so that it satisfies the interfaces it  *)
(* advertised, and calls it; a call that crosses the wire may find the     *)
(* module dead, before or after the driver did what was asked.             *)
(*                                                                         *)
(* One goroutine of the host makes the calls here: the adapter has no      *)
(* state between two calls but the console it remembers.  Tail is the call *)
(* with parts of its own (ConsoleTail).  What a call carries is left out,  *)
(* but for whether it can be encoded, and so are the answers, but for      *)
(* whether one is the module's or the empty one.                           *)
(***************************************************************************)
EXTENDS ConsoleTail, Integers

CONSTANTS
    Drivers,       \* sets of interfaces a module's driver may implement
    Budgets,       \* boot budgets a driver may ask for, in nanoseconds
    Milli,         \* nanoseconds in a millisecond
    MaxBootBudget  \* the most the host grants

ASSUME BudgetAssumption ==
    Budgets \subseteq Int /\ Milli \in Nat \ {0} /\ MaxBootBudget \in Nat

VARIABLES
    impl,     \* the interfaces the module's driver implements
    slow,     \* the boot budget it asks for; 0 without engine.SlowBooter
    driver,   \* how far newPluginDriver is
    caps,     \* pluginDriver.caps
    budget,   \* pluginDriver.bootBudget
    console,  \* the spec under consoleOnce: "unasked", "default" or "answer"
    op,       \* the host's last call
    phase,    \* where it is
    word,     \* what the driver's method did: "none", "ok" or "err"
    reply,    \* what the handler returned
    trouble,  \* why the call could not go its way
    outcome,  \* what the host got
    reported  \* the Reporter heard of it

callVars == <<op, phase, word, reply, trouble, outcome, reported>>
adapterVars == <<driver, caps, budget, console>>
vars == <<impl, slow, adapterVars, callVars, tailVars>>

-----------------------------------------------------------------------------
(* The interface of the driver each call is a method of.  "driver" is
   engine.Driver, which every driver is. *)
Needs ==
    [Provision |-> "driver", Provisioned |-> "driver", BackendSocket |-> "driver",
     ConnString |-> "driver", DecodeConfig |-> "decoder", Plan |-> "spawner",
     EnsureTemplate |-> "templater", CloneTemplate |-> "templater",
     Actions |-> "admin", Resources |-> "admin", Run |-> "admin",
     Converge |-> "converger", Objects |-> "inventory", Prune |-> "pruner",
     Attributes |-> "attributer", BackendURL |-> "backend_url",
     Supervised |-> "lifecycle", Hook |-> "hooked", CheckHealth |-> "health",
     RestartPolicy |-> "restartable", AdvertisedAddr |-> "port_binder",
     Network |-> "networked", DescribeConsole |-> "console", Tail |-> "console"]

Ops == DOMAIN Needs
Interfaces == {Needs[o] : o \in Ops} \cup {"versionless", "proxy_filter"}

ASSUME DriversAssumption == \A d \in Drivers : d \subseteq Interfaces /\ "driver" \in d

(* The calls whose Go signature has an error to return. *)
Errs == {"Provision", "DecodeConfig", "Plan", "EnsureTemplate", "CloneTemplate",
         "Resources", "Run", "Converge", "Prune", "Hook", "CheckHealth", "Tail"}

(* The calls that send the instance, whose spec is encoded first, or the
   variables of the configuration. *)
Encoding == Ops \ {"Provisioned", "BackendSocket", "EnsureTemplate", "CloneTemplate",
                   "Actions", "DescribeConsole"}

\* one assertion is missing from the list
AdvertisedForgets == impl \ {"driver", "decoder", "lifecycle"}
\* Capabilities: an id for each interface the driver satisfies; engine.Driver and
\* ConfigDecoder have none
Advertised == impl \ {"driver", "decoder"}

(* wrapCaps: whether the host finds the method on the adapter.  Converger,
   Inventory and Pruner are added as a unit, for capConverger; the console's
   methods come with the admin wrapper. *)
Satisfies(o) ==
    /\ Needs[o] = "templater" => "templater" \in caps
    /\ Needs[o] \in {"admin", "console"} => "admin" \in caps
    /\ Needs[o] \in {"converger", "inventory", "pruner"} => "converger" \in caps

(* has(cap): the methods every adapter has, and guards. *)
Gated(o) == Needs[o] \in {"attributer", "backend_url", "lifecycle", "hooked", "health",
                          "restartable", "port_binder", "networked", "console"}

(* The handlers that answer for an interface the driver lacks, instead of
   refusing with Unimplemented. *)
Answering == {"Attributes", "Supervised", "RestartPolicy", "AdvertisedAddr", "Network"}

(* Encoding failures the adapter reports rather than swallows. *)
Reporting == {"ConnString", "Attributes"}

\* a failure of the transport is no error of the call
FailedUnavailableIsNil(o) == "default"
\* what the host gets of a call that failed: its error, or the empty answer
Failed(o) == IF o \in Errs THEN "error" ELSE "default"

\* Duration.Milliseconds: the quotient, truncated toward zero
Milliseconds(d) == IF d < 0 THEN -((-d) \div Milli) ELSE d \div Milli

\* the cap is forgotten
GrantedUncapped(d) == Milliseconds(d) * Milli
(* bootBudget: the milliseconds that crossed the wire, an hour at most. *)
Granted(d) == LET b == Milliseconds(d) * Milli
              IN  IF b < MaxBootBudget THEN b ELSE MaxBootBudget

-----------------------------------------------------------------------------
PluginTypeOK ==
    /\ impl \in Drivers
    /\ slow \in Budgets
    /\ driver \in {"new", "typed", "ready", "failed"}
    /\ caps \subseteq Interfaces
    /\ budget \in Int /\ budget <= MaxBootBudget
    /\ console \in {"unasked", "default", "answer"}
    /\ op \in Ops
    /\ phase \in {"idle", "sent", "replied", "tailing", "returned"}
    /\ word \in {"none", "ok", "err"}
    /\ reply \in {"none", "default", "answer", "error"}
    /\ trouble \in {"none", "encoding", "decoding", "died"}
    /\ outcome \in {"none", "absent", "default", "answer", "error"}
    /\ reported \in BOOLEAN

(* Every variable of the adapter, of the call and of the stream keeps its
   type; the boot budget never passes an hour (adapter.go:83). *)
TypeOK == PluginTypeOK /\ TailTypeOK

(* A process just launched, which the host has asked nothing. *)
Init ==
    /\ impl \in Drivers /\ slow \in Budgets
    /\ driver = "new" /\ caps = {} /\ budget = 0 /\ console = "unasked"
    /\ op = "Provision" /\ phase = "idle" /\ word = "none" /\ reply = "none"
    /\ trouble = "none" /\ outcome = "none" /\ reported = FALSE
    /\ up = TRUE /\ NoTail

(* newPluginDriver: Type, then Capabilities; either error fails the launch. *)
AskType ==
    /\ driver = "new"
    /\ driver' = IF up THEN "typed" ELSE "failed"
    /\ UNCHANGED <<impl, slow, caps, budget, console, callVars, tailVars>>

AskCapabilities ==
    /\ driver = "typed"
    /\ IF up THEN /\ driver' = "ready" /\ caps' = Advertised /\ budget' = Granted(slow)
              ELSE /\ driver' = "failed" /\ UNCHANGED <<caps, budget>>
    /\ UNCHANGED <<impl, slow, console, callVars, tailVars>>

-----------------------------------------------------------------------------
(* The host's goroutine is free.  The bound: a tail is the last call it makes to
   a process, as a later one would find what an earlier one finds. *)
CanCall == driver = "ready" /\ phase \in {"idle", "returned"} /\ host = "none"

(* The call ends in the adapter, with nothing sent. *)
Local(o, why, what, heard) ==
    /\ CanCall
    /\ op' = o /\ phase' = "returned" /\ word' = "none" /\ reply' = "none"
    /\ trouble' = why /\ outcome' = what /\ reported' = heard
    /\ UNCHANGED <<impl, slow, adapterVars, tailVars>>

(* The host's type assertion fails. *)
Absent(o) == ~Satisfies(o) /\ Local(o, "none", "absent", FALSE)

(* The capability was not advertised: the empty answer, or Tail's error. *)
NotAdvertised(o) ==
    /\ Satisfies(o) /\ Gated(o) /\ Needs[o] \notin caps
    /\ Local(o, "none", IF o = "Tail" THEN "error" ELSE "default", FALSE)

Crosses(o) == Satisfies(o) /\ (Gated(o) => Needs[o] \in caps)

(* The spec has a type gob does not know, or a variable JSON cannot hold. *)
CannotEncode(o) ==
    /\ Crosses(o) /\ o \in Encoding
    /\ Local(o, "encoding", Failed(o), o \in Reporting)

(* consoleOnce has run. *)
Remembered ==
    /\ Crosses("DescribeConsole") /\ console # "unasked"
    /\ Local("DescribeConsole", "none", console, FALSE)

Send(o) ==
    /\ CanCall /\ Crosses(o) /\ o # "Tail"
    /\ o = "DescribeConsole" => console = "unasked"
    /\ op' = o /\ phase' = "sent" /\ word' = "none" /\ reply' = "none"
    /\ trouble' = "none" /\ outcome' = "none" /\ reported' = FALSE
    /\ UNCHANGED <<impl, slow, adapterVars, tailVars>>

-----------------------------------------------------------------------------
(* The handler in the module runs the driver's method. *)
Serve ==
    /\ phase = "sent" /\ up /\ Needs[op] \in impl
    /\ \/ word' = "ok" /\ reply' = "answer"
       \/ op \in Errs /\ word' = "err" /\ reply' = "error"
    /\ phase' = "replied"
    /\ UNCHANGED <<impl, slow, adapterVars, op, trouble, outcome, reported, tailVars>>

(* The driver has no such method: Unimplemented, or the empty answer. *)
ServeLacking ==
    /\ phase = "sent" /\ up /\ Needs[op] \notin impl
    /\ reply' = IF op \in Answering THEN "default" ELSE "error"
    /\ phase' = "replied"
    /\ UNCHANGED <<impl, slow, adapterVars, op, word, trouble, outcome, reported, tailVars>>

(* What the call carries cannot be decoded, so the driver is not asked; or what
   the driver gave cannot be encoded, or, for Attributes, read by the adapter. *)
ServeMangled ==
    /\ phase = "sent" /\ up /\ op \in Encoding /\ Needs[op] \in impl
    /\ word' = "none" \/ (op \in {"Attributes", "DecodeConfig"} /\ word' = "ok")
    /\ reply' = "error" /\ trouble' = "decoding"
    /\ phase' = "replied"
    /\ UNCHANGED <<impl, slow, adapterVars, op, outcome, reported, tailVars>>

(* consoleOnce's end, whatever came of the call. *)
Remember(what) == console' = IF op = "DescribeConsole" THEN what ELSE console

(* The reply reaches the adapter. *)
Receive ==
    /\ phase = "replied"
    /\ outcome' = IF reply = "error" THEN Failed(op) ELSE reply
    /\ reported' = (reply = "error" /\ op \notin Errs)
    /\ Remember(outcome')
    /\ phase' = "returned"
    /\ UNCHANGED <<impl, slow, driver, caps, budget, op, word, reply, trouble, tailVars>>

(* The module is dead: the call fails, done or not. *)
Lost ==
    /\ phase \in {"sent", "replied"} /\ ~up
    /\ trouble' = "died"
    /\ outcome' = Failed(op)
    /\ reported' = (op \notin Errs)
    /\ Remember(outcome')
    /\ phase' = "returned"
    /\ UNCHANGED <<impl, slow, driver, caps, budget, op, word, reply, tailVars>>

-----------------------------------------------------------------------------
(* A tail is opened, and the goroutine is in it until it returns. *)
CallTail ==
    /\ CanCall /\ Crosses("Tail")
    /\ OpenTail
    /\ op' = "Tail" /\ phase' = "tailing" /\ word' = "none" /\ reply' = "none"
    /\ trouble' = "none" /\ outcome' = "none" /\ reported' = FALSE
    /\ UNCHANGED <<impl, slow, adapterVars>>

TailReturned ==
    /\ phase = "tailing" /\ host = "over"
    /\ outcome' = IF ended = "nil" THEN "answer" ELSE "error"
    /\ phase' = "returned"
    /\ UNCHANGED <<impl, slow, adapterVars, op, word, reply, trouble, reported, tailVars>>

StreamOnly == UNCHANGED <<impl, slow, adapterVars, callVars>>

Stream == TailStep /\ StreamOnly

ModuleDies ==
    /\ up /\ up' = FALSE
    /\ TailCut
    /\ StreamOnly

(* The manager launches the module again, behind a new adapter. *)
Relaunch ==
    /\ ~up /\ phase \in {"idle", "returned"} /\ host \in {"none", "over"}
    /\ up' = TRUE /\ ForgetTail
    /\ driver' = "new" /\ caps' = {} /\ budget' = 0 /\ console' = "unasked"
    /\ phase' = "idle"
    /\ UNCHANGED <<impl, slow, op, word, reply, trouble, outcome, reported>>

Next ==
    \/ AskType \/ AskCapabilities
    \/ \E o \in Ops : Absent(o) \/ NotAdvertised(o) \/ CannotEncode(o) \/ Send(o)
    \/ Remembered \/ Serve \/ ServeLacking \/ ServeMangled \/ Receive \/ Lost
    \/ CallTail \/ TailReturned \/ Stream
    \/ ModuleDies \/ Relaunch

(* The goroutines of the stream are scheduled, a cancellation arrives, and the
   driver's Tail returns once its context is done (console.go:21-22).  Nothing
   is assumed of the host's caller: it may stop to take rows. *)
Fairness ==
    /\ WF_vars(PutRow /\ StreamOnly)
    /\ WF_vars(CtxDone /\ TailReturns /\ StreamOnly)
    /\ WF_vars(ReportDone /\ StreamOnly)
    /\ WF_vars(CloseOut /\ StreamOnly)
    /\ WF_vars(StartTail /\ StreamOnly)
    /\ WF_vars(TakeRow /\ StreamOnly)
    /\ WF_vars(EndOfRows /\ StreamOnly)
    /\ WF_vars(SendRow /\ StreamOnly)
    /\ WF_vars(hungUp /\ SendFails /\ StreamOnly)
    /\ WF_vars(DrainRow /\ StreamOnly)
    /\ WF_vars(JoinTail /\ StreamOnly)
    /\ WF_vars(HangUp /\ StreamOnly)
    /\ WF_vars(RecvFails /\ StreamOnly)
    /\ WF_vars(GiveNothing /\ StreamOnly)

Spec == Init /\ [][Next]_vars /\ Fairness

-----------------------------------------------------------------------------
(* What the SDK asks of a driver: it spawns and decodes, structure comes whole,
   and a console is built on Admin (driver.go:55-58, adapter.go:99-102,
   console.go:10). *)
WellFormed ==
    /\ {"spawner", "decoder"} \subseteq impl
    /\ impl \cap {"inventory", "pruner", "converger"} # {} =>
           {"inventory", "pruner", "converger"} \subseteq impl
    /\ "console" \in impl => "admin" \in impl

(* "The rest of the runtime treats a plugin exactly like a compiled-in engine"
   (plugin.go:4-5): a call nothing went wrong with gives the host what the
   driver said, and one the driver has no method for gives nothing, or the empty
   answer, whichever wrapper, gate and handler it went through.  The console a
   failed call left empty is asked for again only of a dead module. *)
RemoteAgrees ==
    (/\ WellFormed /\ phase = "returned" /\ trouble = "none"
     /\ op # "Tail" /\ (op = "DescribeConsole" => up))
    => IF Needs[op] \in impl
       THEN outcome = IF word = "err" THEN "error" ELSE "answer"
       ELSE outcome \in {"absent", "default"}

(* "A failure is an error, never a silent default" (PROTOCOL.md rule 4): a call
   the handler or the transport failed is an error, or an empty answer the
   Reporter heard of; and what the host takes for the driver's answer the driver
   gave. *)
FailuresSurface ==
    phase = "returned" /\ op # "Tail" =>
        /\ reply = "error" \/ trouble = "died" => outcome = "error" \/ reported
        /\ outcome = "answer" => word = "ok" \/ console = "answer"
=============================================================================
