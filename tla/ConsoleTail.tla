----------------------------- MODULE ConsoleTail -----------------------------
(***************************************************************************)
(* One stream of a module's console: pluginDriver.tail in the host         *)
(* (src/plugin/adapter.go), engineServer.Tail in the module's process      *)
(* (src/plugin/server.go), and the goroutine that runs the driver's own    *)
(* Tail (the contract of engine.Console, src/engine/console.go).           *)
(*                                                                         *)
(*   driver -- out, a channel --> handler -- the wire --> tail -- rows --> *)
(*                                                                         *)
(* The host may cancel at any time, Send may fail because the host hung up *)
(* or because a row cannot be marshalled, and the module's process may die.*)
(* A row is its number: the n-th the driver made.                          *)
(***************************************************************************)
EXTENDS Naturals, Sequences

CONSTANTS
    OutSize,   \* the buffer of out (64 in the code)
    Window,    \* rows gRPC's flow control lets be on the wire at once
    MaxRows    \* bound: rows the driver makes

ASSUME SizeAssumption == OutSize \in Nat \ {0} /\ Window \in Nat \ {0}
ASSUME RowsAssumption == MaxRows \in Nat

VARIABLES
    up,        \* the module's process runs
    producer,  \* where the goroutine that runs the driver's Tail is
    made,      \* how many rows the driver made
    said,      \* what the driver's Tail returned
    out,       \* the rows in the channel
    closed,    \* the channel is closed
    done,      \* what is in the channel done, of one place
    handler,   \* where engineServer.Tail is
    row,       \* the row the handler took from out
    stopped,   \* cancel was called on the context the driver's Tail has
    hungUp,    \* the stream's context has ended at the module's side
    wire,      \* the rows on their way to the host
    status,    \* the stream's end, as the host will read it after the rows
    host,      \* where pluginDriver.tail is
    got,       \* the row it received and has not given
    cancelled, \* the host ended the context of its call
    delivered, \* the rows the host's caller took
    ended      \* what pluginDriver.tail returned

moduleVars == <<producer, made, said, out, closed, done, handler, row, stopped, hungUp>>
hostVars == <<host, got, cancelled, delivered, ended>>
tailVars == <<up, moduleVars, wire, status, hostVars>>

Results == {"none", "nil", "err"}

TailTypeOK ==
    /\ {up, closed, stopped, hungUp, cancelled} \subseteq BOOLEAN
    /\ producer \in {"none", "run", "put", "report", "close", "over"}
    /\ handler \in {"none", "called", "range", "send", "drain", "join", "over"}
    /\ host \in {"none", "recv", "give", "over"}
    /\ {made, row, got} \subseteq 0..MaxRows
    /\ {said, done, status, ended} \subseteq Results
    /\ {out, wire, delivered} \subseteq Seq(1..MaxRows)
    /\ Len(out) <= OutSize
    /\ Len(wire) <= Window

(* No stream: neither side knows of one. *)
NoTail ==
    /\ producer = "none" /\ handler = "none" /\ host = "none"
    /\ made = 0 /\ row = 0 /\ got = 0
    /\ said = "none" /\ done = "none" /\ status = "none" /\ ended = "none"
    /\ out = <<>> /\ wire = <<>> /\ delivered = <<>>
    /\ closed = FALSE /\ stopped = FALSE /\ hungUp = FALSE /\ cancelled = FALSE

(* A new process knows of no stream, and neither does its adapter. *)
ForgetTail ==
    /\ producer' = "none" /\ handler' = "none" /\ host' = "none"
    /\ made' = 0 /\ row' = 0 /\ got' = 0
    /\ said' = "none" /\ done' = "none" /\ status' = "none" /\ ended' = "none"
    /\ out' = <<>> /\ wire' = <<>> /\ delivered' = <<>>
    /\ closed' = FALSE /\ stopped' = FALSE /\ hungUp' = FALSE /\ cancelled' = FALSE

(* The context the driver's Tail runs under is done. *)
CtxDone == hungUp \/ stopped

-----------------------------------------------------------------------------
\* every error of Recv is taken for the end of the stream
RecvResultAnyEnd(s) == "nil"
\* Recv's error: nil after cancellation or io.EOF, else userError
RecvResult(s) == IF cancelled \/ s = "nil" THEN "nil" ELSE "err"

\* a failed Send stops nothing
CancelledBySendNever == stopped
\* cancel(), called when Send fails
CancelledBySend == TRUE

-----------------------------------------------------------------------------
(* The driver's Tail, in the goroutine the handler starts. *)

MakeRow ==
    /\ producer = "run" /\ made < MaxRows
    /\ made' = made + 1
    /\ producer' = "put"
    /\ UNCHANGED <<up, said, out, closed, done, handler, row, stopped, hungUp, wire, status, hostVars>>

PutRow ==
    /\ producer = "put" /\ Len(out) < OutSize
    /\ out' = Append(out, made)
    /\ producer' = "run"
    /\ UNCHANGED <<up, made, said, closed, done, handler, row, stopped, hungUp, wire, status, hostVars>>

(* The driver's Tail returns: of its own accord, because its context is done,
   or out of a select on a full channel once its context is done. *)
TailReturns ==
    /\ producer = "run" \/ (producer = "put" /\ CtxDone)
    /\ said' \in {"nil", "err"}
    /\ producer' = "report"
    /\ UNCHANGED <<up, made, out, closed, done, handler, row, stopped, hungUp, wire, status, hostVars>>

(* done <- c.Tail(...), into its one place. *)
ReportDone ==
    /\ producer = "report" /\ done = "none"
    /\ done' = said
    /\ producer' = "close"
    /\ UNCHANGED <<up, made, said, out, closed, handler, row, stopped, hungUp, wire, status, hostVars>>

(* close(out) *)
CloseOut ==
    /\ producer = "close"
    /\ closed' = TRUE
    /\ producer' = "over"
    /\ UNCHANGED <<up, made, said, out, done, handler, row, stopped, hungUp, wire, status, hostVars>>

-----------------------------------------------------------------------------
(* engineServer.Tail: it makes the context and the channels, starts the driver,
   ranges over out, and returns what the driver did, or Send's error. *)

StartTail ==
    /\ handler = "called"
    /\ handler' = "range" /\ producer' = "run"
    /\ UNCHANGED <<up, made, said, out, closed, done, row, stopped, hungUp, wire, status, hostVars>>

(* instanceFromProto failed: nothing was started. *)
RefuseTail ==
    /\ handler = "called"
    /\ handler' = "over" /\ status' = "err"
    /\ UNCHANGED <<up, producer, made, said, out, closed, done, row, stopped, hungUp, wire, hostVars>>

TakeRow ==
    /\ handler = "range" /\ out # <<>>
    /\ row' = Head(out) /\ out' = Tail(out)
    /\ handler' = "send"
    /\ UNCHANGED <<up, producer, made, said, closed, done, stopped, hungUp, wire, status, hostVars>>

EndOfRows ==
    /\ handler \in {"range", "drain"} /\ closed /\ out = <<>>
    /\ handler' = "join"
    /\ UNCHANGED <<up, producer, made, said, out, closed, done, row, stopped, hungUp, wire, status, hostVars>>

SendRow ==
    /\ handler = "send" /\ ~hungUp /\ Len(wire) < Window
    /\ wire' = Append(wire, row) /\ row' = 0
    /\ handler' = "range"
    /\ UNCHANGED <<up, producer, made, said, out, closed, done, stopped, hungUp, status, hostVars>>

(* Send fails: the stream's context has ended, or the row has a cell that
   protobuf cannot marshal (a string that is not UTF-8).  The row stays with
   the handler, which is how it is told from the other way to the end. *)
SendFails ==
    /\ handler = "send"
    /\ stopped' = CancelledBySend
    /\ handler' = "drain"
    /\ UNCHANGED <<up, producer, made, said, out, closed, done, row, hungUp, wire, status, hostVars>>

DrainRow ==
    /\ handler = "drain" /\ out # <<>>
    /\ out' = Tail(out)
    /\ UNCHANGED <<up, producer, made, said, closed, done, handler, row, stopped, hungUp, wire, status, hostVars>>

(* <-done, and the return: Send's error if it failed, else the driver's; the
   deferred cancel. *)
JoinTail ==
    /\ handler = "join" /\ done # "none"
    /\ status' = IF row = 0 THEN done ELSE "err"
    /\ done' = "none" /\ stopped' = TRUE
    /\ handler' = "over"
    /\ UNCHANGED <<up, producer, made, said, out, closed, row, hungUp, wire, hostVars>>

(* The host's cancellation reaches the module's side of the stream. *)
HangUp ==
    /\ cancelled /\ ~hungUp /\ handler \notin {"none", "over"}
    /\ hungUp' = TRUE
    /\ UNCHANGED <<up, producer, made, said, out, closed, done, handler, row, stopped, wire, status, hostVars>>

-----------------------------------------------------------------------------
(* pluginDriver.tail in the host, and its caller. *)

OpenTail ==
    /\ host = "none"
    /\ host' = "recv"
    /\ IF up THEN handler' = "called" /\ UNCHANGED status
             ELSE status' = "err" /\ UNCHANGED handler
    /\ UNCHANGED <<up, producer, made, said, out, closed, done, row, stopped, hungUp, wire, got, cancelled, delivered, ended>>

RecvRow ==
    /\ host = "recv" /\ wire # <<>>
    /\ got' = Head(wire) /\ wire' = Tail(wire)
    /\ host' = "give"
    /\ UNCHANGED <<up, moduleVars, status, cancelled, delivered, ended>>

(* Recv fails: the stream ended and its rows are read, or the context of the
   call has ended. *)
RecvFails ==
    /\ host = "recv"
    /\ cancelled \/ (wire = <<>> /\ status # "none")
    /\ ended' = RecvResult(status)
    /\ host' = "over"
    /\ UNCHANGED <<up, moduleVars, wire, status, got, cancelled, delivered>>

GiveRow ==
    /\ host = "give"
    /\ delivered' = Append(delivered, got) /\ got' = 0
    /\ host' = "recv"
    /\ UNCHANGED <<up, moduleVars, wire, status, cancelled, ended>>

GiveNothing ==
    /\ host = "give" /\ cancelled
    /\ ended' = "nil" /\ got' = 0
    /\ host' = "over"
    /\ UNCHANGED <<up, moduleVars, wire, status, cancelled, delivered>>

CancelTail ==
    /\ host \in {"recv", "give"} /\ ~cancelled
    /\ cancelled' = TRUE
    /\ UNCHANGED <<up, moduleVars, wire, status, host, got, delivered, ended>>

-----------------------------------------------------------------------------
(* The module's process dies: its goroutines are gone, and the rows and the
   status that had not reached the host may be lost.  A stream cut short ends
   in an error. *)
TailCut ==
    /\ \E n \in 0..Len(wire) :
          /\ wire' = SubSeq(wire, 1, n)
          /\ status' \in IF host = "none" THEN {status}
                         ELSE IF n = Len(wire) /\ status # "none" THEN {status, "err"}
                         ELSE {"err"}
    /\ producer' = IF producer = "none" THEN "none" ELSE "over"
    /\ handler' = IF handler = "none" THEN "none" ELSE "over"
    /\ UNCHANGED <<made, said, out, closed, done, row, stopped, hungUp, hostVars>>

TailStep ==
    \/ MakeRow \/ PutRow \/ TailReturns \/ ReportDone \/ CloseOut
    \/ StartTail \/ RefuseTail \/ TakeRow \/ EndOfRows \/ SendRow \/ SendFails
    \/ DrainRow \/ JoinTail \/ HangUp
    \/ RecvRow \/ RecvFails \/ GiveRow \/ GiveNothing \/ CancelTail

-----------------------------------------------------------------------------
(* The rows the host's caller takes are the driver's, in order and without a
   gap, and a tail that ends without an error, uncancelled, delivered every row
   of a driver that returned none: no row and no error is lost between the three
   goroutines (server.go:553-570, adapter.go:629-641). *)
TailFaithful ==
    /\ delivered = [i \in 1..Len(delivered) |-> i]
    /\ ended = "nil" /\ ~cancelled => said = "nil" /\ Len(delivered) = made

ModuleTailOver ==
    /\ producer \in {"none", "over"}
    /\ handler \in {"none", "over"}

(* A tail the host cancels ends on both sides, and one whose Send failed ends in
   the module whatever the host does: nobody waits for good on the full channel,
   on done or on the wire (server.go:559-567). *)
TailEnds ==
    /\ cancelled ~> (host \in {"none", "over"} /\ ModuleTailOver)
    /\ handler = "drain" ~> ModuleTailOver
=============================================================================
