-------------------------- MODULE PluginCallsProofs --------------------------
(***************************************************************************)
(* Proofs about PluginCalls, and the console's stream it is composed of,   *)
(* for every set of drivers and budgets, every size of the channel and of  *)
(* the wire and any number of rows: the host hears from a module what its  *)
(* driver said, and every failure shows.                                   *)
(*                                                                         *)
(* First the stream: the rows the host has, the wire, the handler, the     *)
(* channel and the driver hold follow one another, and the driver's answer *)
(* is on its way to the status.  Then the calls.                           *)
(***************************************************************************)
EXTENDS PluginCalls, SequenceTheorems, TLAPS

(* The row the host's goroutine, the handler and the driver each hold. *)
Given == IF host = "give" THEN 1 ELSE 0
Held == IF handler = "send" THEN 1 ELSE 0
Pending == IF producer = "put" THEN 1 ELSE 0

(* The rows that left the module, for as long as the host reads. *)
Sent == Len(delivered) + Given + Len(wire)
Reading == host \in {"recv", "give"}
Whole == Reading /\ ~cancelled
Ranging == handler \in {"range", "send"}

\* no call, no stream; no handler, no driver; no row before the handler ranges
Fresh ==
    /\ host = "none" => NoTail
    /\ handler \in {"none", "called"} =>
          /\ producer = "none" /\ made = 0 /\ row = 0 /\ done = "none" /\ said = "none"
          /\ out = <<>> /\ wire = <<>> /\ delivered = <<>> /\ host # "give" /\ ~closed

\* the host's rows follow one another
HostRows ==
    /\ delivered = [i \in 1..Len(delivered) |-> i]
    /\ host = "give" => got = Len(delivered) + 1
    /\ Reading => \A i \in 1..Len(wire) : wire[i] = Len(delivered) + Given + i

\* and the module's follow the host's, until a Send fails
ModuleRows ==
    /\ handler = "range" => row = 0
    /\ handler = "drain" => row # 0
    /\ producer = "put" => made >= 1
    /\ handler = "send" => row >= 1
    /\ Reading /\ Ranging =>
          /\ handler = "send" => row = Sent + 1
          /\ \A i \in 1..Len(out) : out[i] = Sent + Held + i
          /\ ~cancelled \/ producer \in {"run", "put"} => made = Sent + Held + Len(out) + Pending
    /\ handler \in {"none", "called", "range", "send"} => ~stopped
    /\ hungUp => cancelled

\* what the driver returned is in done, or was, and then in the status
Ending ==
    /\ producer \in {"run", "put"} => said = "none"
    /\ producer = "report" => said \in {"nil", "err"}
    /\ done # "none" => done = said /\ producer \in {"close", "over"}
    /\ closed => producer = "over"
    /\ handler = "join" => closed
    /\ Whole /\ handler = "join" /\ row = 0 => made = Sent
    /\ status # "none" => handler \in {"none", "over"}
    /\ handler \in {"none", "over"} => producer \in {"none", "over"}
    /\ Whole /\ status = "nil" => said = "nil" /\ made = Sent
    /\ host # "over" => ended = "none"
    /\ host = "over" /\ ~cancelled => status # "none"

TailInv == TailTypeOK /\ Fresh /\ HostRows /\ ModuleRows /\ Ending /\ TailFaithful
-----------------------------------------------------------------------------
(* The rows 1 to n, one after the other. *)
Rows(n) == [i \in 1..n |-> i]

LEMMA NoRows == Rows(0) = <<>>
    BY DEF Rows

LEMMA NextRow == ASSUME NEW n \in Nat PROVE Append(Rows(n), n + 1) = Rows(n + 1)
<1>1. Rows(n) \in Seq(Nat) /\ Len(Rows(n)) = n /\ DOMAIN Rows(n) = 1..n
    BY DEF Rows
<1>2. Append(Rows(n), n + 1) = [i \in 1..(n + 1) |-> IF i = n + 1 THEN n + 1 ELSE Rows(n)[i]]
    BY <1>1
<1>3. \A i \in 1..(n + 1) : (IF i = n + 1 THEN n + 1 ELSE Rows(n)[i]) = i
    BY DEF Rows
<1> QED BY <1>2, <1>3 DEF Rows

LEMMA NoTailInv == NoTail /\ up \in BOOLEAN => TailInv
<1> SUFFICES ASSUME NoTail, up \in BOOLEAN PROVE TailInv
    OBVIOUS
<1>1. TailTypeOK
    <2>1. Len(out) = 0 /\ Len(wire) = 0 /\ {out, wire, delivered} \subseteq Seq(1..MaxRows)
        BY DEF NoTail
    <2>2. {made, row, got} \subseteq 0..MaxRows
        BY RowsAssumption DEF NoTail
    <2>3. {up, closed, stopped, hungUp, cancelled} \subseteq BOOLEAN
        BY DEF NoTail
    <2> QED BY <2>1, <2>2, <2>3, SizeAssumption DEF NoTail, TailTypeOK, Results
<1>2. delivered = Rows(Len(delivered))
    BY NoRows DEF NoTail
<1> QED BY <1>1, <1>2 DEF TailInv, Rows, TailTypeOK, Results, Fresh, NoTail, HostRows, ModuleRows, Ending, TailFaithful,
       Given, Held, Pending, Sent, Reading, Whole, Ranging, hostVars, moduleVars

(* One lemma for each step of the three goroutines, one part of the invariant
   after the other. *)
LEMMA MakeRowKeeps == TailInv /\ MakeRow => TailInv'
<1> SUFFICES ASSUME TailInv, MakeRow PROVE TailInv'
    OBVIOUS
<1> USE SizeAssumption, RowsAssumption DEF TailInv, MakeRow
<1>1. TailTypeOK'
    BY DEF TailTypeOK, hostVars
<1>2. Fresh'
    BY DEF Fresh, NoTail, hostVars
<1>3. HostRows'
    BY DEF HostRows, Given, Reading, hostVars
<1>4. ModuleRows'
  <2>1. made >= 0 /\ made' = made + 1 /\ made' >= 1
    BY DEF TailTypeOK
  <2>2. Sent' = Sent /\ Held' = Held /\ Pending = 0 /\ Pending' = 1
    BY DEF Sent, Held, Pending, Given, hostVars
  <2>3. Sent \in Nat /\ Held \in Nat /\ Len(out) \in Nat
    BY DEF TailTypeOK, Sent, Held, Given
  <2> QED BY <2>1, <2>2, <2>3 DEF ModuleRows, Reading, Ranging, hostVars
<1>5. Ending'
    BY DEF Ending, hostVars
<1>6. TailFaithful'
    BY DEF TailFaithful, Ending, hostVars
<1> QED BY <1>1, <1>2, <1>3, <1>4, <1>5, <1>6

LEMMA PutRowKeeps == TailInv /\ PutRow => TailInv'
<1> SUFFICES ASSUME TailInv, PutRow PROVE TailInv'
    OBVIOUS
<1> USE SizeAssumption, RowsAssumption DEF TailInv, PutRow
<1>1. TailTypeOK'
    BY DEF TailTypeOK, Results, ModuleRows, Ending, HostRows, hostVars, moduleVars
<1>2. Fresh'
    BY DEF Fresh, NoTail, hostVars
<1>3. HostRows'
    BY DEF HostRows, Given, Reading, hostVars
<1>4. ModuleRows'
  <2>1. Sent' = Sent /\ Held' = Held /\ Pending = 1 /\ Pending' = 0
    BY DEF Sent, Held, Pending, Given, hostVars
  <2>2. Sent \in Nat /\ Held \in Nat /\ made \in 1..MaxRows /\ out \in Seq(1..MaxRows)
    BY DEF TailTypeOK, Sent, Held, Given, ModuleRows
  <2>3. Len(out') = Len(out) + 1 /\ Len(out) \in Nat
        /\ \A i \in 1..Len(out') : out'[i] = IF i = Len(out) + 1 THEN made ELSE out[i]
    BY <2>2
  <2>4. ASSUME Reading, Ranging
        PROVE  /\ made = Sent + Held + Len(out) + 1
               /\ \A i \in 1..Len(out) : out[i] = Sent + Held + i
    <3>1. /\ made = Sent + Held + Len(out) + Pending
          /\ \A i \in 1..Len(out) : out[i] = Sent + Held + i
      BY <2>4 DEF ModuleRows
    <3> QED BY <2>1, <3>1
  <2>5. ASSUME Reading, Ranging, NEW i \in 1..Len(out')
        PROVE  out'[i] = Sent + Held + i
    <3>1. CASE i = Len(out) + 1
      BY <2>2, <2>3, <2>4, <2>5, <3>1
    <3>2. CASE i # Len(out) + 1
      <4>1. i \in 1..Len(out)
        BY <2>3, <3>2
      <4> QED BY <2>3, <2>4, <2>5, <3>2, <4>1
    <3> QED BY <3>1, <3>2
  <2>6. Reading /\ Ranging => made = Sent + Held + Len(out') + Pending'
    BY <2>1, <2>2, <2>3, <2>4
  <2>7. Reading' = Reading /\ Ranging' = Ranging
    BY DEF Reading, Ranging, hostVars
  <2> QED BY <2>1, <2>5, <2>6, <2>7 DEF ModuleRows, hostVars
<1>5. Ending'
    BY DEF Ending, hostVars
<1>6. TailFaithful'
    BY DEF TailFaithful, hostVars
<1> QED BY <1>1, <1>2, <1>3, <1>4, <1>5, <1>6

LEMMA TailReturnsKeeps == TailInv /\ TailReturns => TailInv'
<1> SUFFICES ASSUME TailInv, TailReturns PROVE TailInv'
    OBVIOUS
<1> USE SizeAssumption, RowsAssumption DEF TailInv, TailReturns, CtxDone
<1>1. TailTypeOK'
    BY DEF TailTypeOK, Results, hostVars
<1>2. Fresh'
    BY DEF Fresh, NoTail, hostVars
<1>3. HostRows'
    BY DEF HostRows, Given, Reading, hostVars
<1>4. ModuleRows'
    BY DEF ModuleRows, Sent, Given, Held, Pending, Reading, Ranging, hostVars, moduleVars
<1>5. Ending'
    BY DEF Ending, hostVars
<1>6. TailFaithful'
    BY DEF TailFaithful, Ending, hostVars
<1> QED BY <1>1, <1>2, <1>3, <1>4, <1>5, <1>6

LEMMA ReportDoneKeeps == TailInv /\ ReportDone => TailInv'
<1> SUFFICES ASSUME TailInv, ReportDone PROVE TailInv'
    OBVIOUS
<1> USE SizeAssumption, RowsAssumption DEF TailInv, ReportDone
<1>1. TailTypeOK'
    BY DEF TailTypeOK, hostVars
<1>2. Fresh'
    BY DEF Fresh, NoTail, hostVars
<1>3. HostRows'
    BY DEF HostRows, Given, Reading, hostVars
<1>4. ModuleRows'
    BY DEF ModuleRows, Sent, Given, Held, Pending, Reading, Ranging, hostVars, moduleVars
<1>5. Ending'
    BY DEF Ending, hostVars
<1>6. TailFaithful'
    BY DEF TailFaithful, hostVars
<1> QED BY <1>1, <1>2, <1>3, <1>4, <1>5, <1>6

LEMMA CloseOutKeeps == TailInv /\ CloseOut => TailInv'
<1> SUFFICES ASSUME TailInv, CloseOut PROVE TailInv'
    OBVIOUS
<1> USE SizeAssumption, RowsAssumption DEF TailInv, CloseOut
<1>1. TailTypeOK'
    BY DEF TailTypeOK, hostVars
<1>2. Fresh'
    BY DEF Fresh, NoTail, hostVars
<1>3. HostRows'
    BY DEF HostRows, Given, Reading, hostVars
<1>4. ModuleRows'
    BY DEF ModuleRows, Sent, Given, Held, Pending, Reading, Ranging, hostVars, moduleVars
<1>5. Ending'
    BY DEF Ending, hostVars
<1>6. TailFaithful'
    BY DEF TailFaithful, hostVars
<1> QED BY <1>1, <1>2, <1>3, <1>4, <1>5, <1>6

LEMMA StartTailKeeps == TailInv /\ StartTail => TailInv'
<1> SUFFICES ASSUME TailInv, StartTail PROVE TailInv'
    OBVIOUS
<1> USE SizeAssumption, RowsAssumption DEF TailInv, StartTail
<1>1. TailTypeOK'
    BY DEF TailTypeOK, hostVars
<1>2. Fresh'
    BY DEF Fresh, NoTail, hostVars
<1>3. HostRows'
    BY DEF HostRows, Given, Reading, hostVars
<1>4. ModuleRows'
    BY DEF ModuleRows, Sent, Given, Held, Pending, Reading, Ranging, TailTypeOK, Fresh, Ending, hostVars, moduleVars
<1>5. Ending'
    BY DEF TailTypeOK, Results, Fresh, NoTail, HostRows, ModuleRows, Ending, TailFaithful,
       Given, Held, Pending, Sent, Reading, Whole, Ranging, hostVars, moduleVars
<1>6. TailFaithful'
    BY DEF TailFaithful, hostVars
<1> QED BY <1>1, <1>2, <1>3, <1>4, <1>5, <1>6

LEMMA RefuseTailKeeps == TailInv /\ RefuseTail => TailInv'
<1> SUFFICES ASSUME TailInv, RefuseTail PROVE TailInv'
    OBVIOUS
<1> USE SizeAssumption, RowsAssumption DEF TailInv, RefuseTail
<1>1. TailTypeOK'
    BY DEF TailTypeOK, Results, hostVars
<1>2. Fresh'
    BY DEF Fresh, NoTail, hostVars
<1>3. HostRows'
    BY DEF HostRows, Given, Reading, hostVars
<1>4. ModuleRows'
    BY DEF ModuleRows, Reading, Ranging, hostVars
<1>5. Ending'
    BY DEF TailTypeOK, Results, Fresh, NoTail, HostRows, ModuleRows, Ending, TailFaithful,
       Given, Held, Pending, Sent, Reading, Whole, Ranging, hostVars, moduleVars
<1>6. TailFaithful'
    BY DEF TailFaithful, hostVars
<1> QED BY <1>1, <1>2, <1>3, <1>4, <1>5, <1>6

LEMMA TakeRowKeeps == TailInv /\ TakeRow => TailInv'
<1> SUFFICES ASSUME TailInv, TakeRow PROVE TailInv'
    OBVIOUS
<1> USE SizeAssumption, RowsAssumption DEF TailInv, TakeRow
<1>1. TailTypeOK'
    BY DEF TailTypeOK, hostVars
<1>2. Fresh'
    BY DEF Fresh, NoTail, hostVars
<1>3. HostRows'
    BY DEF HostRows, Given, Reading, hostVars
<1>4. ModuleRows'
  <2>1. Sent' = Sent /\ Held = 0 /\ Held' = 1 /\ Pending' = Pending
    BY DEF Sent, Held, Pending, Given, hostVars
  <2>2. Sent \in Nat /\ Pending \in Nat /\ made \in Nat /\ out \in Seq(1..MaxRows) /\ Len(out) >= 1
    BY DEF TailTypeOK, Sent, Pending, Given
  <2>3. /\ row' = out[1] /\ row' >= 1
        /\ Len(out') = Len(out) - 1
        /\ \A i \in 1..Len(out') : out'[i] = out[i + 1]
    BY <2>2
  <2>4. ASSUME Reading
        PROVE  /\ ~cancelled \/ producer \in {"run", "put"} => made = Sent + Len(out) + Pending
               /\ \A i \in 1..Len(out) : out[i] = Sent + i
    BY <2>1, <2>2, <2>4 DEF ModuleRows, Ranging
  <2>5. ASSUME Reading
        PROVE  /\ row' = Sent + 1
               /\ \A i \in 1..Len(out') : out'[i] = Sent + 1 + i
               /\ ~cancelled \/ producer \in {"run", "put"} => made = Sent + 1 + Len(out') + Pending
    BY <2>2, <2>3, <2>4, <2>5
  <2> QED BY <2>1, <2>3, <2>5 DEF ModuleRows, Reading, Ranging, hostVars
<1>5. Ending'
    BY DEF Ending, hostVars
<1>6. TailFaithful'
    BY DEF TailFaithful, hostVars
<1> QED BY <1>1, <1>2, <1>3, <1>4, <1>5, <1>6

LEMMA EndOfRowsKeeps == TailInv /\ EndOfRows => TailInv'
<1> SUFFICES ASSUME TailInv, EndOfRows PROVE TailInv'
    OBVIOUS
<1> USE SizeAssumption, RowsAssumption DEF TailInv, EndOfRows
<1>1. TailTypeOK'
    BY DEF TailTypeOK, hostVars
<1>2. Fresh'
    BY DEF Fresh, NoTail, hostVars
<1>3. HostRows'
    BY DEF HostRows, Given, Reading, hostVars
<1>4. ModuleRows'
    BY DEF ModuleRows, Reading, Ranging, hostVars
<1>5. Ending'
  <2>1. Sent' = Sent /\ Pending = 0 /\ Len(out) = 0 /\ Sent \in Nat
    BY DEF Sent, Pending, Given, hostVars, Ending, TailTypeOK
  <2>2. Whole /\ row = 0 => handler = "range" /\ Held = 0 /\ made = Sent + Held + Len(out) + Pending
    BY DEF Whole, Held, ModuleRows, Ranging, Reading
  <2>3. Whole /\ row = 0 => made = Sent
    BY <2>1, <2>2
  <2> QED BY <2>1, <2>3 DEF Ending, Whole, Reading, hostVars
<1>6. TailFaithful'
    BY DEF TailFaithful, hostVars
<1> QED BY <1>1, <1>2, <1>3, <1>4, <1>5, <1>6

LEMMA SendRowKeeps == TailInv /\ SendRow => TailInv'
<1> SUFFICES ASSUME TailInv, SendRow PROVE TailInv'
    OBVIOUS
<1> USE SizeAssumption, RowsAssumption DEF TailInv, SendRow
<1>1. TailTypeOK'
    BY DEF TailTypeOK, Results, ModuleRows, Ending, HostRows, hostVars, moduleVars
<1>2. Fresh'
    BY DEF Fresh, NoTail, hostVars
<1>3. HostRows'
  <2>1. wire \in Seq(1..MaxRows) /\ row \in 1..MaxRows /\ Len(delivered) \in Nat /\ Given \in Nat
    BY DEF TailTypeOK, ModuleRows, Given
  <2>2. Len(wire') = Len(wire) + 1 /\ Len(wire) \in Nat
        /\ \A i \in 1..Len(wire') : wire'[i] = IF i = Len(wire) + 1 THEN row ELSE wire[i]
    BY <2>1
  <2>3. Reading => row = Len(delivered) + Given + Len(wire) + 1
    BY DEF ModuleRows, Ranging, Sent
  <2>4. Reading => \A i \in 1..Len(wire) : wire[i] = Len(delivered) + Given + i
    BY DEF HostRows
  <2>5. ASSUME Reading, NEW i \in 1..Len(wire') PROVE wire'[i] = Len(delivered) + Given + i
    <3>1. CASE i = Len(wire) + 1
      BY <2>1, <2>2, <2>3, <2>5, <3>1
    <3>2. CASE i # Len(wire) + 1
      <4>1. i \in 1..Len(wire)
        BY <2>2, <3>2
      <4> QED BY <2>2, <2>4, <2>5, <3>2, <4>1
    <3> QED BY <3>1, <3>2
  <2> QED BY <2>5 DEF HostRows, Reading, Given, hostVars
<1>4. ModuleRows'
  <2>1. wire \in Seq(1..MaxRows) /\ row \in 1..MaxRows /\ Len(delivered) \in Nat /\ Given \in Nat
    BY DEF TailTypeOK, ModuleRows, Given
  <2>5. Len(wire') = Len(wire) + 1 /\ Len(wire) \in Nat
    BY <2>1
  <2>6. Given' = Given /\ delivered' = delivered
    BY DEF Given, hostVars
  <2>2. Sent' = Sent + 1 /\ Held = 1 /\ Held' = 0 /\ Pending' = Pending
    BY <2>1, <2>5, <2>6 DEF Sent, Held, Pending
  <2>3. Sent \in Nat /\ Pending \in Nat /\ made \in Nat /\ Len(out) \in Nat
    BY <2>1 DEF TailTypeOK, Sent, Pending
  <2> QED BY <2>2, <2>3 DEF ModuleRows, Reading, Ranging, hostVars
<1>5. Ending'
    BY DEF Ending, hostVars
<1>6. TailFaithful'
    BY DEF TailFaithful, hostVars
<1> QED BY <1>1, <1>2, <1>3, <1>4, <1>5, <1>6

LEMMA SendFailsKeeps == TailInv /\ SendFails => TailInv'
<1> SUFFICES ASSUME TailInv, SendFails PROVE TailInv'
    OBVIOUS
<1> USE SizeAssumption, RowsAssumption DEF TailInv, SendFails, CancelledBySend
<1>1. TailTypeOK'
    BY DEF TailTypeOK, hostVars
<1>2. Fresh'
    BY DEF Fresh, NoTail, hostVars
<1>3. HostRows'
    BY DEF HostRows, Given, Reading, hostVars
<1>4. ModuleRows'
    BY DEF ModuleRows, Reading, Ranging, hostVars
<1>5. Ending'
    BY DEF Ending, hostVars
<1>6. TailFaithful'
    BY DEF TailFaithful, hostVars
<1> QED BY <1>1, <1>2, <1>3, <1>4, <1>5, <1>6

LEMMA DrainRowKeeps == TailInv /\ DrainRow => TailInv'
<1> SUFFICES ASSUME TailInv, DrainRow PROVE TailInv'
    OBVIOUS
<1> USE SizeAssumption, RowsAssumption DEF TailInv, DrainRow
<1>1. TailTypeOK'
    BY DEF TailTypeOK, hostVars
<1>2. Fresh'
    BY DEF Fresh, NoTail, hostVars
<1>3. HostRows'
    BY DEF HostRows, Given, Reading, hostVars
<1>4. ModuleRows'
    BY DEF ModuleRows, Reading, Ranging, hostVars
<1>5. Ending'
    BY DEF Ending, hostVars
<1>6. TailFaithful'
    BY DEF TailFaithful, hostVars
<1> QED BY <1>1, <1>2, <1>3, <1>4, <1>5, <1>6

LEMMA JoinTailKeeps == TailInv /\ JoinTail => TailInv'
<1> SUFFICES ASSUME TailInv, JoinTail PROVE TailInv'
    OBVIOUS
<1> USE SizeAssumption, RowsAssumption DEF TailInv, JoinTail
<1>1. TailTypeOK'
    BY DEF TailTypeOK, Results, hostVars
<1>2. Fresh'
    BY DEF Fresh, NoTail, hostVars
<1>3. HostRows'
    BY DEF HostRows, Given, Reading, hostVars
<1>4. ModuleRows'
    BY DEF ModuleRows, Reading, Ranging, hostVars
<1>5. Ending'
    BY DEF Ending, Whole, Reading, Sent, Given, hostVars
<1>6. TailFaithful'
    BY DEF TailFaithful, hostVars
<1> QED BY <1>1, <1>2, <1>3, <1>4, <1>5, <1>6

LEMMA HangUpKeeps == TailInv /\ HangUp => TailInv'
<1> SUFFICES ASSUME TailInv, HangUp PROVE TailInv'
    OBVIOUS
<1> USE SizeAssumption, RowsAssumption DEF TailInv, HangUp
<1>1. TailTypeOK'
    BY DEF TailTypeOK, hostVars
<1>2. Fresh'
    BY DEF Fresh, NoTail, hostVars
<1>3. HostRows'
    BY DEF HostRows, Given, Reading, hostVars
<1>4. ModuleRows'
    BY DEF ModuleRows, Sent, Given, Held, Pending, Reading, Ranging, hostVars, moduleVars
<1>5. Ending'
    BY DEF Ending, Whole, Reading, Sent, Given, hostVars
<1>6. TailFaithful'
    BY DEF TailFaithful, hostVars
<1> QED BY <1>1, <1>2, <1>3, <1>4, <1>5, <1>6

LEMMA RecvRowKeeps == TailInv /\ RecvRow => TailInv'
<1> SUFFICES ASSUME TailInv, RecvRow PROVE TailInv'
    OBVIOUS
<1> USE SizeAssumption, RowsAssumption DEF TailInv, RecvRow
<1>1. TailTypeOK'
    BY DEF TailTypeOK, Results, hostVars, moduleVars
<1>2. Fresh'
    BY DEF Fresh, NoTail, hostVars, moduleVars
<1>3. HostRows'
    BY DEF HostRows, Given, Reading, hostVars
<1>4. ModuleRows'
    BY DEF ModuleRows, Sent, Given, Held, Pending, Reading, Ranging, hostVars, moduleVars
<1>5. Ending'
    BY DEF Ending, Whole, Reading, Sent, Given, hostVars, moduleVars
<1>6. TailFaithful'
    BY DEF TailFaithful, Ending, hostVars
<1> QED BY <1>1, <1>2, <1>3, <1>4, <1>5, <1>6

LEMMA RecvFailsKeeps == TailInv /\ RecvFails => TailInv'
<1> SUFFICES ASSUME TailInv, RecvFails PROVE TailInv'
    OBVIOUS
<1> USE SizeAssumption, RowsAssumption DEF TailInv, RecvFails, RecvResult
<1>1. TailTypeOK'
    BY DEF TailTypeOK, Results, hostVars, moduleVars
<1>2. Fresh'
    BY DEF Fresh, NoTail, hostVars, moduleVars
<1>3. HostRows'
    BY DEF HostRows, Given, Reading, hostVars
<1>4. ModuleRows'
    BY DEF ModuleRows, Sent, Given, Held, Pending, Reading, Ranging, hostVars, moduleVars
<1>5. Ending'
    BY DEF Ending, Whole, Reading, Sent, Given, hostVars, moduleVars
<1>6. TailFaithful'
    BY DEF TailTypeOK, Results, Fresh, NoTail, HostRows, ModuleRows, Ending, TailFaithful,
       Given, Held, Pending, Sent, Reading, Whole, Ranging, hostVars, moduleVars
<1> QED BY <1>1, <1>2, <1>3, <1>4, <1>5, <1>6

LEMMA GiveRowKeeps == TailInv /\ GiveRow => TailInv'
<1> SUFFICES ASSUME TailInv, GiveRow PROVE TailInv'
    OBVIOUS
<1> USE SizeAssumption, RowsAssumption DEF TailInv, GiveRow
<1>1. TailTypeOK'
    BY DEF TailTypeOK, Results, ModuleRows, Ending, HostRows, hostVars, moduleVars
<1>2. Fresh'
    BY DEF Fresh, NoTail, hostVars, moduleVars
<1>3. HostRows'
  <2>1. Given = 1 /\ Given' = 0 /\ Len(delivered) \in Nat /\ delivered \in Seq(1..MaxRows)
    BY DEF Given, TailTypeOK
  <2>2. delivered = Rows(Len(delivered)) /\ got = Len(delivered) + 1
    BY DEF HostRows, Rows
  <2>3. delivered' = Rows(Len(delivered) + 1) /\ Len(delivered') = Len(delivered) + 1
    <3> DEFINE n == Len(delivered)
    <3>1. delivered' = Append(Rows(n), n + 1)
      BY <2>2
    <3>2. n \in Nat
      BY <2>1
    <3> HIDE DEF n
    <3>3. delivered' = Rows(n + 1)
      BY <3>1, <3>2, NextRow
    <3>4. Len(Rows(n + 1)) = n + 1
      BY <3>2 DEF Rows
    <3> QED BY <3>3, <3>4 DEF n
  <2>4. \A i \in 1..Len(wire) : wire[i] = Len(delivered) + 1 + i
    BY <2>1 DEF HostRows, Reading
  <2> QED BY <2>1, <2>3, <2>4 DEF HostRows, Reading, Rows
<1>4. ModuleRows'
    BY DEF ModuleRows, Sent, Given, Held, Pending, Reading, Ranging, hostVars, moduleVars
<1>5. Ending'
    BY DEF Ending, Whole, Reading, Sent, Given, hostVars, moduleVars
<1>6. TailFaithful'
  <2>1. delivered' = [i \in 1..Len(delivered') |-> i]
    BY <1>3 DEF HostRows
  <2>2. ended' = "none"
    BY DEF Ending
  <2> QED BY <2>1, <2>2 DEF TailFaithful
<1> QED BY <1>1, <1>2, <1>3, <1>4, <1>5, <1>6

LEMMA GiveNothingKeeps == TailInv /\ GiveNothing => TailInv'
<1> SUFFICES ASSUME TailInv, GiveNothing PROVE TailInv'
    OBVIOUS
<1> USE SizeAssumption, RowsAssumption DEF TailInv, GiveNothing
<1>1. TailTypeOK'
    BY DEF TailTypeOK, Results, hostVars, moduleVars
<1>2. Fresh'
    BY DEF Fresh, NoTail, hostVars, moduleVars
<1>3. HostRows'
    BY DEF HostRows, Given, Reading, hostVars
<1>4. ModuleRows'
    BY DEF ModuleRows, Sent, Given, Held, Pending, Reading, Ranging, hostVars, moduleVars
<1>5. Ending'
    BY DEF Ending, Whole, Reading, Sent, Given, hostVars, moduleVars
<1>6. TailFaithful'
    BY DEF TailFaithful, hostVars
<1> QED BY <1>1, <1>2, <1>3, <1>4, <1>5, <1>6

LEMMA CancelTailKeeps == TailInv /\ CancelTail => TailInv'
<1> SUFFICES ASSUME TailInv, CancelTail PROVE TailInv'
    OBVIOUS
<1> USE SizeAssumption, RowsAssumption DEF TailInv, CancelTail
<1>1. TailTypeOK'
    BY DEF TailTypeOK, Results, hostVars, moduleVars
<1>2. Fresh'
    BY DEF Fresh, NoTail, hostVars, moduleVars
<1>3. HostRows'
    BY DEF HostRows, Given, Reading, hostVars
<1>4. ModuleRows'
    BY DEF ModuleRows, Sent, Given, Held, Pending, Reading, Ranging, hostVars, moduleVars
<1>5. Ending'
    BY DEF Ending, Whole, Reading, Sent, Given, hostVars, moduleVars
<1>6. TailFaithful'
    BY DEF TailFaithful, hostVars
<1> QED BY <1>1, <1>2, <1>3, <1>4, <1>5, <1>6

(* The host opens a stream: there was none. *)
LEMMA OpenTailKeeps == TailInv /\ OpenTail => TailInv'
<1> SUFFICES ASSUME TailInv, OpenTail PROVE TailInv'
    OBVIOUS
<1> USE SizeAssumption, RowsAssumption DEF TailInv, OpenTail
<1>1. NoTail
    BY DEF Fresh
<1>2. TailTypeOK'
    BY DEF TailTypeOK, Results
<1>3. delivered' = [i \in 1..Len(delivered') |-> i]
    BY DEF HostRows
<1>4. Fresh' /\ HostRows' /\ ModuleRows'
    BY <1>1, <1>3 DEF NoTail, Fresh, HostRows, ModuleRows, Given, Reading, Ranging
<1>5. Ending'
    BY <1>1 DEF NoTail, Ending, Whole, Reading
<1>6. TailFaithful'
    BY <1>1, <1>3 DEF NoTail, TailFaithful
<1> QED BY <1>2, <1>4, <1>5, <1>6

(* The module's process dies. *)
LEMMA TailCutKeeps == TailInv /\ TailCut /\ up' \in BOOLEAN => TailInv'
<1> SUFFICES ASSUME TailInv, TailCut, up' \in BOOLEAN PROVE TailInv'
    OBVIOUS
<1> USE SizeAssumption, RowsAssumption DEF TailInv, TailCut
<1>1. PICK n \in 0..Len(wire) :
          /\ wire' = SubSeq(wire, 1, n)
          /\ status' \in IF host = "none" THEN {status}
                         ELSE IF n = Len(wire) /\ status # "none" THEN {status, "err"}
                         ELSE {"err"}
    OBVIOUS
<1>2. /\ Len(wire) \in Nat /\ wire \in Seq(1..MaxRows) /\ wire' \in Seq(1..MaxRows)
      /\ Len(wire') = n /\ n <= Len(wire)
      /\ \A i \in 1..Len(wire') : wire'[i] = wire[i]
    <2>1. /\ Len(wire) \in Nat /\ wire \in Seq(1..MaxRows)
          /\ \A i \in 1..Len(wire) : wire[i] \in 1..MaxRows
        BY LenProperties, ElementOfSeq DEF TailTypeOK
    <2>2. n \in Nat /\ n <= Len(wire) /\ \A i \in 1..n : i \in 1..Len(wire)
        BY <2>1
    <2>3. /\ SubSeq(wire, 1, n) \in Seq(1..MaxRows)
          /\ Len(SubSeq(wire, 1, n)) = IF 1 <= n THEN n - 1 + 1 ELSE 0
          /\ \A i \in 1..n - 1 + 1 : SubSeq(wire, 1, n)[i] = wire[1 + i - 1]
        BY <2>1, <2>2, SubSeqProperties
    <2>4. Len(SubSeq(wire, 1, n)) = n
        BY <2>2, <2>3
    <2>5. \A i \in 1..n : SubSeq(wire, 1, n)[i] = wire[i]
        BY <2>2, <2>3
    <2> QED BY <1>1, <2>1, <2>2, <2>3, <2>4, <2>5
<1>3. n = Len(wire) => wire' = wire
    BY <1>1, <1>2
<1>4. wire = <<>> => wire' = <<>>
    BY <1>2
<1>5. TailTypeOK'
    BY <1>1, <1>2 DEF TailTypeOK, Results, hostVars
<1>6. Fresh'
    BY <1>1, <1>4 DEF Fresh, NoTail, hostVars, TailTypeOK
<1>7. HostRows'
    <2>1. Given' = Given /\ Reading' = Reading
        BY DEF Given, Reading, hostVars
    <2>2. Reading => \A i \in 1..Len(wire') : wire'[i] = Len(delivered) + Given + i
        BY <1>2 DEF HostRows
    <2> QED BY <2>1, <2>2 DEF HostRows, hostVars
<1>8. ModuleRows'
    BY DEF ModuleRows, Ranging, hostVars, TailTypeOK
<1>9. Ending'
    <2>1. Whole' = Whole /\ (wire' = wire => Sent' = Sent)
        BY DEF Whole, Reading, Sent, Given, hostVars
    <2>2. Whole' /\ status' = "nil" => said' = "nil" /\ made' = Sent'
        BY <1>1, <1>3, <2>1 DEF Ending, Whole, Reading
    <2>3. status' # "none" => handler' \in {"none", "over"}
        BY DEF TailTypeOK
    <2>4. host = "over" => status' # "none"
        BY <1>1
    <2> QED BY <2>2, <2>3, <2>4 DEF Ending, hostVars, TailTypeOK
<1>10. TailFaithful'
    BY DEF TailFaithful, hostVars
<1> QED BY <1>5, <1>6, <1>7, <1>8, <1>9, <1>10

(* A new process of the module. *)
LEMMA ForgetTailKeeps == ForgetTail /\ up' \in BOOLEAN => TailInv'
<1>1. ForgetTail => NoTail'
    BY DEF ForgetTail, NoTail
<1>2. (NoTail /\ up \in BOOLEAN => TailInv)'
    BY NoTailInv, PTL
<1> QED BY <1>1, <1>2

LEMMA TailInvStutters == TailInv /\ UNCHANGED tailVars => TailInv'
<1> SUFFICES ASSUME TailInv, UNCHANGED tailVars PROVE TailInv'
    OBVIOUS
<1> USE DEF TailInv, tailVars, moduleVars, hostVars
<1>1. TailTypeOK' /\ TailFaithful'
    BY DEF TailTypeOK, TailFaithful
<1>2. Fresh'
    BY DEF Fresh, NoTail
<1>3. Sent' = Sent /\ Held' = Held /\ Pending' = Pending /\ Given' = Given
      /\ Reading' = Reading /\ Ranging' = Ranging /\ Whole' = Whole
    BY DEF Sent, Held, Pending, Given, Reading, Ranging, Whole
<1>4. HostRows'
    BY <1>3 DEF HostRows
<1>5. ModuleRows'
    BY <1>3 DEF ModuleRows
<1>6. Ending'
    BY <1>3 DEF Ending
<1> QED BY <1>1, <1>2, <1>4, <1>5, <1>6

LEMMA TailStepKeeps == TailInv /\ TailStep => TailInv'
    BY MakeRowKeeps, PutRowKeeps, TailReturnsKeeps, ReportDoneKeeps, CloseOutKeeps, StartTailKeeps,
       RefuseTailKeeps, TakeRowKeeps, EndOfRowsKeeps, SendRowKeeps, SendFailsKeeps, DrainRowKeeps,
       JoinTailKeeps, HangUpKeeps, RecvRowKeeps, RecvFailsKeeps, GiveRowKeeps, GiveNothingKeeps,
       CancelTailKeeps DEF TailStep

-----------------------------------------------------------------------------

(* The interfaces the calls are methods of, by how the adapter offers them. *)
Always == {"driver", "decoder", "spawner"}
Wrapped == {"templater", "admin", "converger", "inventory", "pruner"}
Guarded == {"attributer", "backend_url", "lifecycle", "hooked", "health",
            "restartable", "port_binder", "networked", "console"}

(* Each call is a method every adapter has, one of a wrapper, or a guarded one,
   and the console's call has no error, no answer of its own and no instance. *)
LEMMA OpFacts ==
    /\ \A o \in Ops : Needs[o] \in Always \cup Wrapped \cup Guarded
    /\ "DescribeConsole" \in Ops /\ Needs["DescribeConsole"] = "console"
    /\ "Tail" \in Ops /\ Needs["Tail"] = "console"
    /\ "Provision" \in Ops
    BY DEF Ops, Needs, Always, Wrapped, Guarded

LEMMA SetFacts ==
    /\ "DescribeConsole" \notin Errs /\ "DescribeConsole" \notin Answering
    /\ "DescribeConsole" \notin Encoding
    BY DEF Errs, Answering, Encoding

(* A call of a well-formed driver that crosses the wire is of a method it has. *)
LEMMA CrossesMeansHas ==
    ASSUME WellFormed, "driver" \in impl, caps = Advertised, NEW o \in Ops, Crosses(o)
    PROVE  Needs[o] \in impl
    BY OpFacts DEF WellFormed, Advertised, Crosses, Satisfies, Gated, Always, Wrapped, Guarded

(* A method the host does not find, or finds guarded, the driver has not. *)
LEMMA AbsentMeansLacks ==
    ASSUME WellFormed, caps = Advertised, NEW o \in Ops,
           ~Satisfies(o) \/ (Gated(o) /\ Needs[o] \notin caps)
    PROVE  Needs[o] \notin impl
    BY OpFacts DEF WellFormed, Advertised, Satisfies, Gated, Always, Wrapped, Guarded

-----------------------------------------------------------------------------
(* What keeps a call honest on its way. *)

\* the adapter knows what the module advertised, and calls nothing before
HandshakeInv ==
    /\ impl \in Drivers
    /\ driver = "ready" => caps = Advertised
    /\ driver # "ready" => phase = "idle" /\ console = "unasked"

\* a call on the wire is one the adapter lets cross, and its reply is what the
\* driver said, or what the handler made of it
CallInv ==
    /\ op \in Ops
    /\ phase = "tailing" => op = "Tail"
    /\ phase = "sent" => reply = "none" /\ word = "none" /\ trouble = "none" /\ outcome = "none"
    /\ phase \in {"sent", "replied"} => Crosses(op) /\ op # "Tail" /\ trouble # "died"
    /\ phase = "replied" =>
          /\ reply \in {"default", "answer", "error"}
          /\ reply = "answer" => word = "ok"
          /\ trouble = "none" /\ Needs[op] \in impl =>
                reply = IF word = "err" THEN "error" ELSE "answer"
          /\ trouble = "none" /\ Needs[op] \in impl /\ word = "err" => op \in Errs
          /\ op = "DescribeConsole" /\ Needs[op] \in impl => reply = "answer"

\* the console is remembered empty only of a dead module
ConsoleInv ==
    /\ console \in {"unasked", "default", "answer"}
    /\ WellFormed /\ console = "default" => ~up

CallsInv == HandshakeInv /\ CallInv /\ ConsoleInv /\ RemoteAgrees /\ FailuresSurface

LEMMA InitCalls == Init => CallsInv
    BY OpFacts DEF Init, CallsInv, HandshakeInv, CallInv, ConsoleInv, RemoteAgrees, FailuresSurface

(* No step of the stream starts or ends the module's process. *)
LEMMA StreamKeepsProcess == TailStep => up' = up
    BY DEF TailStep, MakeRow, PutRow, TailReturns, ReportDone, CloseOut, StartTail,
       RefuseTail, TakeRow, EndOfRows, SendRow, SendFails, DrainRow, JoinTail, HangUp,
       RecvRow, RecvFails, GiveRow, GiveNothing, CancelTail

LEMMA NextCalls == CallsInv /\ [Next]_vars => CallsInv'
<1> SUFFICES ASSUME CallsInv, [Next]_vars PROVE CallsInv'
    OBVIOUS
<1> USE DEF CallsInv
<1>0. "driver" \in impl
    BY DriversAssumption DEF HandshakeInv
<1> DEFINE Kept == UNCHANGED <<impl, adapterVars, callVars, up>>
<1>k. ASSUME Kept PROVE CallsInv'
    BY <1>k DEF adapterVars, callVars, HandshakeInv, CallInv, ConsoleInv,
       RemoteAgrees, FailuresSurface, WellFormed, Advertised, Crosses, Satisfies, Gated
<1>s. ASSUME UNCHANGED impl, UNCHANGED caps
      PROVE  /\ WellFormed' = WellFormed /\ Advertised' = Advertised
             /\ \A o : Crosses(o)' = Crosses(o)
    BY <1>s DEF WellFormed, Advertised, Crosses, Satisfies, Gated
<1>1. CASE UNCHANGED vars
    BY <1>k, <1>1 DEF vars, adapterVars, callVars, tailVars
<1>2. CASE AskType
    BY <1>2 DEF AskType, callVars, tailVars, HandshakeInv, CallInv, ConsoleInv,
       RemoteAgrees, FailuresSurface, WellFormed, Advertised, Crosses, Satisfies, Gated
<1>3. CASE AskCapabilities
    BY <1>3 DEF AskCapabilities, callVars, tailVars, HandshakeInv, CallInv, ConsoleInv,
       RemoteAgrees, FailuresSurface, WellFormed, Advertised, Crosses, Satisfies, Gated
<1>l. ASSUME NEW o \in Ops, NEW why, NEW what, NEW heard, Local(o, why, what, heard),
             WellFormed /\ why = "none" /\ o # "Tail" /\ (o = "DescribeConsole" => up) =>
                 IF Needs[o] \in impl THEN what = "answer" ELSE what \in {"absent", "default"},
             what = "answer" => console = "answer",
             why # "died"
      PROVE  CallsInv'
  <2>1. HandshakeInv' /\ ConsoleInv'
    BY <1>l, <1>s DEF Local, CanCall, adapterVars, tailVars, HandshakeInv, ConsoleInv
  <2>2. CallInv'
    BY <1>l DEF Local, CallInv
  <2>3. RemoteAgrees'
    BY <1>l, <1>s DEF Local, RemoteAgrees, tailVars, adapterVars
  <2>4. FailuresSurface'
    BY <1>l DEF Local, FailuresSurface, adapterVars
  <2> QED BY <2>1, <2>2, <2>3, <2>4
<1>4. ASSUME NEW o \in Ops, Absent(o) PROVE CallsInv'
    BY <1>4, <1>l, AbsentMeansLacks DEF Absent, Local, CanCall, HandshakeInv
<1>5. ASSUME NEW o \in Ops, NotAdvertised(o) PROVE CallsInv'
    BY <1>5, <1>l, AbsentMeansLacks DEF NotAdvertised, Local, CanCall, HandshakeInv
<1>6. ASSUME NEW o \in Ops, CannotEncode(o) PROVE CallsInv'
    BY <1>6, <1>l DEF CannotEncode, Failed
<1>7. ASSUME NEW o \in Ops, Send(o) PROVE CallsInv'
  <2>1. HandshakeInv' /\ ConsoleInv'
    BY <1>7, <1>s DEF Send, CanCall, adapterVars, tailVars, HandshakeInv, ConsoleInv
  <2>2. CallInv'
    BY <1>7, <1>s DEF Send, CallInv, adapterVars
  <2>3. RemoteAgrees' /\ FailuresSurface'
    BY <1>7 DEF Send, RemoteAgrees, FailuresSurface
  <2> QED BY <2>1, <2>2, <2>3
<1>8. CASE Remembered
  <2>1. Local("DescribeConsole", "none", console, FALSE)
    BY <1>8 DEF Remembered
  <2>2. WellFormed /\ up => Needs["DescribeConsole"] \in impl /\ console = "answer"
    BY <1>0, <1>8, <2>1, CrossesMeansHas, OpFacts
       DEF Remembered, Local, CanCall, HandshakeInv, ConsoleInv
  <2> QED BY <2>1, <2>2, <1>l, OpFacts
<1>9. CASE Serve
  <2>1. HandshakeInv' /\ ConsoleInv'
    BY <1>9, <1>s DEF Serve, adapterVars, tailVars, HandshakeInv, ConsoleInv
  <2>2. CallInv'
    BY <1>9, <1>s, SetFacts DEF Serve, CallInv, adapterVars
  <2>3. RemoteAgrees' /\ FailuresSurface'
    BY <1>9 DEF Serve, RemoteAgrees, FailuresSurface
  <2> QED BY <2>1, <2>2, <2>3
<1>10. CASE ServeLacking
  <2>1. HandshakeInv' /\ ConsoleInv'
    BY <1>10, <1>s DEF ServeLacking, adapterVars, tailVars, HandshakeInv, ConsoleInv
  <2>2. CallInv'
    BY <1>10, <1>s DEF ServeLacking, CallInv, adapterVars
  <2>3. RemoteAgrees' /\ FailuresSurface'
    BY <1>10 DEF ServeLacking, RemoteAgrees, FailuresSurface
  <2> QED BY <2>1, <2>2, <2>3
<1>11. CASE ServeMangled
  <2>1. HandshakeInv' /\ ConsoleInv'
    BY <1>11, <1>s DEF ServeMangled, adapterVars, tailVars, HandshakeInv, ConsoleInv
  <2>2. CallInv'
    BY <1>11, <1>s, SetFacts DEF ServeMangled, CallInv, adapterVars
  <2>3. RemoteAgrees' /\ FailuresSurface'
    BY <1>11 DEF ServeMangled, RemoteAgrees, FailuresSurface
  <2> QED BY <2>1, <2>2, <2>3
<1>h. ASSUME phase \in {"sent", "replied"}, WellFormed PROVE Needs[op] \in impl
    BY <1>0, <1>h, CrossesMeansHas DEF HandshakeInv, CallInv
<1>12. CASE Receive
  <2>1. HandshakeInv'
    BY <1>12, <1>s DEF Receive, HandshakeInv
  <2>2. ConsoleInv'
    BY <1>12, <1>s, <1>h, SetFacts DEF Receive, Remember, ConsoleInv, CallInv, tailVars, Failed
  <2>3. CallInv'
    BY <1>12 DEF Receive, CallInv
  <2>4. RemoteAgrees'
    BY <1>12, <1>s, <1>h DEF Receive, RemoteAgrees, CallInv, Failed, tailVars
  <2>5. FailuresSurface'
    <3>1. CASE reply = "error"
      <4>1. outcome' = "error" \/ (outcome' = "default" /\ reported')
        BY <1>12, <3>1, Zenon DEF Receive, Failed
      <4> QED BY <4>1 DEF FailuresSurface
    <3>2. CASE reply # "error"
      <4>1. trouble' # "died" /\ reply' # "error" /\ outcome' = reply /\ word' = word
        BY <1>12, <3>2 DEF Receive, CallInv
      <4> QED BY <1>12, <4>1 DEF Receive, CallInv, FailuresSurface
    <3> QED BY <3>1, <3>2
  <2> QED BY <2>1, <2>2, <2>3, <2>4, <2>5
<1>13. CASE Lost
  <2>1. HandshakeInv'
    BY <1>13, <1>s DEF Lost, HandshakeInv
  <2>2. ConsoleInv'
    BY <1>13, <1>s, SetFacts DEF Lost, Remember, ConsoleInv, Failed, tailVars
  <2>3. CallInv' /\ RemoteAgrees'
    BY <1>13 DEF Lost, CallInv, RemoteAgrees
  <2>4. FailuresSurface'
    BY <1>13 DEF Lost, FailuresSurface, Failed
  <2> QED BY <2>1, <2>2, <2>3, <2>4
<1>14. CASE CallTail
  <2>1. HandshakeInv' /\ ConsoleInv'
    BY <1>14, <1>s DEF CallTail, CanCall, OpenTail, adapterVars, HandshakeInv, ConsoleInv
  <2>2. CallInv' /\ RemoteAgrees' /\ FailuresSurface'
    BY <1>14, OpFacts DEF CallTail, CallInv, RemoteAgrees, FailuresSurface
  <2> QED BY <2>1, <2>2
<1>15. CASE TailReturned
  <2>1. HandshakeInv' /\ ConsoleInv'
    BY <1>15, <1>s DEF TailReturned, adapterVars, tailVars, HandshakeInv, ConsoleInv
  <2>2. CallInv' /\ RemoteAgrees' /\ FailuresSurface'
    BY <1>15 DEF TailReturned, CallInv, RemoteAgrees, FailuresSurface
  <2> QED BY <2>1, <2>2
<1>16. CASE Stream
    BY <1>16, <1>k, StreamKeepsProcess DEF Stream, StreamOnly
<1>17. CASE ModuleDies
  <2>1. HandshakeInv' /\ ConsoleInv'
    BY <1>17, <1>s DEF ModuleDies, StreamOnly, adapterVars, callVars, HandshakeInv, ConsoleInv
  <2>2. CallInv'
    BY <1>17, <1>s DEF ModuleDies, StreamOnly, adapterVars, callVars, CallInv
  <2>3. RemoteAgrees' /\ FailuresSurface'
    BY <1>17, <1>s DEF ModuleDies, StreamOnly, adapterVars, callVars, RemoteAgrees, FailuresSurface
  <2> QED BY <2>1, <2>2, <2>3
<1>18. CASE Relaunch
    BY <1>18 DEF Relaunch, HandshakeInv, CallInv, ConsoleInv, RemoteAgrees, FailuresSurface
<1> QED
    BY <1>1, <1>2, <1>3, <1>4, <1>5, <1>6, <1>7, <1>8, <1>9, <1>10, <1>11, <1>12,
       <1>13, <1>14, <1>15, <1>16, <1>17, <1>18 DEF Next

-----------------------------------------------------------------------------
(* The stream of PluginCalls keeps its invariant: the steps of the calls leave
   it alone, but for the one that opens it, a death and a relaunch. *)
LEMMA StreamKept == TailInv /\ [Next]_vars => TailInv'
<1> SUFFICES ASSUME TailInv, [Next]_vars PROVE TailInv'
    OBVIOUS
<1>1. CASE UNCHANGED tailVars
    BY <1>1, TailInvStutters
<1>2. CASE Stream
    BY <1>2, TailStepKeeps DEF Stream
<1>3. CASE CallTail
    BY <1>3, OpenTailKeeps DEF CallTail
<1>4. CASE ModuleDies
    BY <1>4, TailCutKeeps DEF ModuleDies
<1>5. CASE Relaunch
    BY <1>5, ForgetTailKeeps DEF Relaunch
<1> QED
    BY <1>1, <1>2, <1>3, <1>4, <1>5
       DEF Next, vars, AskType, AskCapabilities, Absent, NotAdvertised, CannotEncode, Local,
           Send, Remembered, Serve, ServeLacking, ServeMangled, Receive, Lost, TailReturned

LEMMA GrantedIsCapped ==
    ASSUME NEW d \in Budgets PROVE Granted(d) \in Int /\ Granted(d) <= MaxBootBudget
<1>1. d \in Int /\ Milli \in Nat \ {0} /\ MaxBootBudget \in Nat
    BY BudgetAssumption
<1>2. \A n \in Nat : n \div Milli \in Int
    BY <1>1
<1>3. Milliseconds(d) \in Int
    BY <1>1, <1>2 DEF Milliseconds
<1> QED BY <1>1, <1>3 DEF Granted

(* The adapter and the call keep their types. *)
LEMMA PluginTypeKept == CallsInv /\ PluginTypeOK /\ [Next]_vars => PluginTypeOK'
<1> SUFFICES ASSUME CallsInv, PluginTypeOK, [Next]_vars PROVE PluginTypeOK'
    OBVIOUS
<1> USE DEF PluginTypeOK, callVars, adapterVars
<1>1. CASE UNCHANGED vars
    BY <1>1 DEF vars
<1>2. CASE AskType
    BY <1>2 DEF AskType
<1>3. CASE AskCapabilities
    <2>1. Advertised \subseteq Interfaces
        BY DriversAssumption DEF Advertised
    <2>2. budget' \in Int /\ budget' <= MaxBootBudget
        BY <1>3, GrantedIsCapped DEF AskCapabilities
    <2> QED BY <1>3, <2>1, <2>2 DEF AskCapabilities
<1>4. ASSUME NEW o \in Ops, Absent(o) \/ NotAdvertised(o) \/ CannotEncode(o) PROVE PluginTypeOK'
    <2>1. CASE Absent(o) \/ NotAdvertised(o)
        BY <2>1 DEF Absent, NotAdvertised, Local
    <2>2. CASE CannotEncode(o)
        <3>1. reported' = (o \in Reporting)
            BY <2>2, Zenon DEF CannotEncode, Local
        <3>2. reported' = TRUE \/ reported' = FALSE
            <4>1. CASE o \in Reporting
                BY <3>1, <4>1
            <4>2. CASE o \notin Reporting
                BY <3>1, <4>2
            <4> QED BY <4>1, <4>2
        <3> QED BY <2>2, <3>2 DEF CannotEncode, Local, Failed
    <2> QED BY <1>4, <2>1, <2>2
<1>5. ASSUME NEW o \in Ops, Send(o) PROVE PluginTypeOK'
    BY <1>5 DEF Send
<1>6. CASE Remembered
    BY <1>6, OpFacts DEF Remembered, Local
<1>7. CASE Serve \/ ServeLacking \/ ServeMangled
    BY <1>7 DEF Serve, ServeLacking, ServeMangled
<1>8. CASE Receive
    BY <1>8, SetFacts DEF Receive, Remember, Failed, CallsInv, CallInv
<1>9. CASE Lost
    BY <1>9, SetFacts DEF Lost, Remember, Failed
<1>10. CASE CallTail \/ TailReturned
    BY <1>10, OpFacts DEF CallTail, TailReturned
<1>11. CASE Stream \/ ModuleDies
    BY <1>11 DEF Stream, ModuleDies, StreamOnly
<1>12. CASE Relaunch
    BY <1>12, BudgetAssumption DEF Relaunch
<1> QED
    BY <1>1, <1>2, <1>3, <1>4, <1>5, <1>6, <1>7, <1>8, <1>9, <1>10, <1>11, <1>12 DEF Next

(* For every budget a driver may ask for, whatever its sign, the host grants a
   boot an hour at most; and every variable keeps its type. *)
THEOREM BudgetIsCapped == Spec => []TypeOK
<1>1. Init => PluginTypeOK
    <2>1. 0 \in Int /\ 0 <= MaxBootBudget /\ {} \subseteq Interfaces
        BY BudgetAssumption
    <2> QED BY <2>1, OpFacts DEF Init, PluginTypeOK
<1>2. Init => TailInv
    BY NoTailInv DEF Init
<1>3. PluginTypeOK /\ TailInv => TypeOK
    BY DEF TypeOK, TailInv
<1> QED
    BY <1>1, <1>2, <1>3, InitCalls, NextCalls, PluginTypeKept, StreamKept, PTL DEF Spec

(* For every size of the channel and of the wire and any number of rows, the
   rows of a console stream arrive in order and whole, and its driver's error
   does not get lost. *)
THEOREM TailIsFaithful == Spec => []TailFaithful
<1>1. Init => TailInv
    BY NoTailInv DEF Init
<1>2. TailInv => TailFaithful
    BY DEF TailInv
<1> QED
    BY <1>1, <1>2, StreamKept, PTL DEF Spec

(* For every driver an engine may be, the host cannot tell it from one compiled
   in: a call nothing went wrong with brings what the driver said. *)
THEOREM PluginIsTransparent == Spec => []RemoteAgrees
<1>1. CallsInv => RemoteAgrees
    BY DEF CallsInv
<1> QED
    BY <1>1, InitCalls, NextCalls, PTL DEF Spec

(* For every driver, no failure of a call is a silent default, and no answer is
   made up (PROTOCOL.md rule 4). *)
THEOREM NoSilentDefault == Spec => []FailuresSurface
<1>1. CallsInv => FailuresSurface
    BY DEF CallsInv
<1> QED
    BY <1>1, InitCalls, NextCalls, PTL DEF Spec
=============================================================================
