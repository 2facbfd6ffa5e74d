---------------------------- MODULE ResolveProofs ---------------------------
(***************************************************************************)
(* Theorems about Resolve, for any calls, specs, mirrors and archives.     *)
(*                                                                         *)
(* What a call answers and what the lock holds by then were decided at     *)
(* different times.  They agree on the version because the daemon remembers*)
(* the first manifest (Chosen): two calls that were sent no pin choose the *)
(* same, and a pin that was recorded since was chosen like that as well    *)
(* (Fresh).                                                                *)
(***************************************************************************)
EXTENDS Resolve, TLAPS

(* The host's Locker enumerates its pins, as a Lock does (lock.go:136): a call is
   sent every pin there is. *)
Listed == Listing = {TRUE}

(* The version a spec without a pin resolves to, in this daemon's life. *)
Chosen(k, v) ==
    IF k \in Exact THEN v = Full[1][k]
    ELSE memo[EngineOf[k]] # NoRelease /\ v = Full[memo[EngineOf[k]]][k]

Sums(v) == {NoHash} \cup {Sum[r][v] : r \in Releases}

(* Pins name archives some release served for their version. *)
Summed(p) == p # NoPin => p.hash \in Sums(p.resolved)

Digests ==
    /\ \A k \in Keys : Summed(lock[k]) /\ Summed(file[k])
    /\ \A i \in Calls, k \in Keys : Summed(shipped[i][k]) /\ Summed(view[i][k])
    /\ \A v \in Versions : cache[v] # NoEntry => cache[v].digest \in Sums(v)

Saved == ~dirty => file = lock

Idle == \A i \in Calls : pc[i] = "idle" => recorded[i] = {} /\ shipped[i] = NoPins

(* A key is resolved once, and recorded after that. *)
Ahead ==
    \A i \in Calls : \A m \in DOMAIN left[i] :
        /\ left[i][m] \notin recorded[i]
        /\ \A n \in DOMAIN left[i] : left[i][m] = left[i][n] => m = n

(* The pins a call was sent are still in the lock, but for the hash. *)
Sent ==
    \A i \in Calls, k \in Keys : shipped[i][k] # NoPin =>
        /\ lock[k] # NoPin
        /\ lock[k].resolved = shipped[i][k].resolved /\ lock[k].far = shipped[i][k].far

Fresh ==
    \A i \in Calls, k \in Keys :
        pc[i] # "idle" /\ shipped[i][k] = NoPin /\ lock[k] # NoPin => Chosen(k, lock[k].resolved)

(* What call i may record for k. *)
Resolves(i, k, v) ==
    /\ shipped[i][k] # NoPin => v = shipped[i][k].resolved
    /\ shipped[i][k] = NoPin => Chosen(k, v)

Flight ==
    \A i \in Calls : pc[i] = "ensure" =>
        /\ left[i] # <<>>
        /\ full[i] \in Versions
        /\ want[i] = Hash(shipped[i][Head(left[i])]) /\ want[i] \in Sums(full[i])
        /\ Resolves(i, Head(left[i]), full[i])

View(i, k) ==
    /\ k \notin recorded[i] => view[i][k] = shipped[i][k]
    /\ k \in recorded[i] =>
          /\ view[i][k] # NoPin
          /\ Resolves(i, k, view[i][k].resolved)
          /\ Hash(shipped[i][k]) # NoHash => view[i][k].hash \in {NoHash, Hash(shipped[i][k])}

Views == \A i \in Calls, k \in Keys : View(i, k)

(* TypeOK's part about the calls. *)
CallsTyped ==
    /\ left \in [Calls -> Seq(Keys)]
    /\ shipped \in [Calls -> Locks] /\ view \in [Calls -> Locks]
    /\ recorded \in [Calls -> SUBSET Keys]
    /\ full \in [Calls -> Versions \cup {NoPin}]
    /\ want \in [Calls -> Archives \cup {NoHash}]
    /\ pc \in [Calls -> {"idle", "next", "ensure"}]

IInv == TypeOK /\ Saved /\ Digests /\ Idle /\ Ahead /\ Sent /\ Fresh /\ Flight /\ Views

(* The invariant holds of a daemon that starts. *)
LEMMA InitIInv == Init => IInv
  <1> SUFFICES ASSUME Init PROVE IInv
    OBVIOUS
  <1> USE ResolveAssumption, NoPinAssumption
  <1>1. 1 \in Releases
    BY DEF Releases
  <1>2. file \in Locks /\ \A k \in Keys : Summed(file[k])
    <2>1. PICK k \in Keys : file \in {NoPins, [NoPins EXCEPT ![k] = [resolved |-> Full[1][k],
                 source |-> "none", hash |-> NoHash, far |-> Sum[1][Full[1][k]]]]}
      BY DEF Init
    <2>2. [resolved |-> Full[1][k], source |-> "none", hash |-> NoHash, far |-> Sum[1][Full[1][k]]] \in Pins
      BY <1>1 DEF Pins
    <2> QED BY <2>1, <2>2 DEF Locks, NoPins, Summed, Sums
  <1>3. TypeOK
    <2>1. NoPins \in Locks
      BY DEF NoPins, Locks
    <2>2. mirror \in Releases /\ memo \in [Engines -> Releases \cup {NoRelease}]
          /\ cache \in [Versions -> Store!Entries \cup {NoEntry}]
      BY <1>1 DEF Init
    <2>3. lock \in Locks /\ file \in Locks /\ dirty \in BOOLEAN /\ saving \in BOOLEAN
          /\ (saving => dirty)
      BY <1>2 DEF Init
    <2>4. shipped \in [Calls -> Locks] /\ view \in [Calls -> Locks]
      BY <2>1 DEF Init
    <2>5. /\ left \in [Calls -> Seq(Keys)]
          /\ recorded \in [Calls -> SUBSET Keys]
          /\ full \in [Calls -> Versions \cup {NoPin}]
          /\ want \in [Calls -> Archives \cup {NoHash}]
          /\ pc \in [Calls -> {"idle", "next", "ensure"}]
      BY DEF Init
    <2> QED BY <2>2, <2>3, <2>4, <2>5 DEF TypeOK
  <1>4. Digests
    BY <1>2 DEF Init, Digests, NoPins, Summed
  <1>5. Saved /\ Idle /\ Ahead /\ Sent /\ Fresh /\ Flight /\ Views
    BY DEF Init, Saved, Idle, Ahead, Sent, Fresh, Flight, Views, View, NoPins
  <1> QED BY <1>3, <1>4, <1>5 DEF IInv

(* The manifest a daemon remembers stays, and what was chosen from it. *)
LEMMA ChosenStays ==
    ASSUME NEW k \in Keys, NEW v, Chosen(k, v), TypeOK,
           \A g \in Engines : memo[g] # NoRelease => memo'[g] = memo[g]
    PROVE  Chosen(k, v)'
  BY ResolveAssumption DEF Chosen

(* A version that was recorded for a pin the lock holds is the pin's. *)
LEMMA Agree ==
    ASSUME IInv, NEW i \in Calls, NEW k \in recorded[i], lock[k] # NoPin
    PROVE  k \in Keys /\ view[i][k] \in Pins /\ view[i][k].resolved = lock[k].resolved
  <1>1. k \in Keys /\ view[i][k] \in Pins
    BY DEF IInv, TypeOK, Views, View, Locks
  <1>2. pc[i] # "idle"
    BY DEF IInv, Idle
  <1>3. CASE shipped[i][k] # NoPin
    BY <1>1, <1>3 DEF IInv, Views, View, Resolves, Sent
  <1>4. CASE shipped[i][k] = NoPin
    BY <1>1, <1>2, <1>4 DEF IInv, Views, View, Resolves, Fresh, Chosen
  <1> QED BY <1>1, <1>3, <1>4
-----------------------------------------------------------------------------
(* Calls that are over, or were never there, disturb nothing they leave. *)
LEMMA GoneKeeps ==
    ASSUME IInv, NEW S \in SUBSET Calls, Gone(S)
    PROVE  /\ CallsTyped'
           /\ Idle' /\ Ahead'
           /\ \A i \in Calls, k \in Keys : Summed(shipped'[i][k]) /\ Summed(view'[i][k])
           /\ \A i \in S : /\ pc'[i] = "idle" /\ recorded'[i] = {}
                           /\ shipped'[i] = NoPins /\ view'[i] = NoPins
           /\ \A i \in Calls \ S :
                 /\ pc'[i] = pc[i] /\ recorded'[i] = recorded[i] /\ left'[i] = left[i]
                 /\ shipped'[i] = shipped[i] /\ view'[i] = view[i]
                 /\ full'[i] = full[i] /\ want'[i] = want[i]
  <1>1. NoPins \in Locks /\ \A k \in Keys : NoPins[k] = NoPin
    BY DEF NoPins, Locks
  <1>2. \A i \in S : /\ pc'[i] = "idle" /\ recorded'[i] = {} /\ left'[i] = <<>>
                    /\ shipped'[i] = NoPins /\ view'[i] = NoPins
                    /\ full'[i] = NoPin /\ want'[i] = NoHash
    BY DEF Gone
  <1>3. \A i \in Calls \ S :
          /\ pc'[i] = pc[i] /\ recorded'[i] = recorded[i] /\ left'[i] = left[i]
          /\ shipped'[i] = shipped[i] /\ view'[i] = view[i]
          /\ full'[i] = full[i] /\ want'[i] = want[i]
    BY DEF Gone
  <1>4. left' \in [Calls -> Seq(Keys)]
    <2>1. <<>> \in Seq(Keys)
      OBVIOUS
    <2> QED BY <2>1 DEF Gone, IInv, TypeOK
  <1>5. /\ shipped' \in [Calls -> Locks] /\ view' \in [Calls -> Locks]
        /\ recorded' \in [Calls -> SUBSET Keys]
        /\ full' \in [Calls -> Versions \cup {NoPin}]
        /\ want' \in [Calls -> Archives \cup {NoHash}]
        /\ pc' \in [Calls -> {"idle", "next", "ensure"}]
    BY <1>1 DEF Gone, IInv, TypeOK
  <1>6. Idle'
    BY <1>2, <1>3 DEF IInv, Idle
  <1>7. Ahead'
    BY <1>2, <1>3 DEF IInv, Ahead
  <1>8. \A i \in Calls, k \in Keys : Summed(shipped'[i][k]) /\ Summed(view'[i][k])
    BY <1>1, <1>2, <1>3 DEF IInv, Digests, Summed
  <1> QED BY <1>2, <1>3, <1>4, <1>5, <1>6, <1>7, <1>8 DEF CallsTyped

(* Steps that leave the calls, the lock and the digests as they are. *)
LEMMA Aside ==
    ASSUME IInv, TypeOK', Saved', Digests', UNCHANGED <<lock, callVars>>,
           \A g \in Engines : memo[g] # NoRelease => memo'[g] = memo[g]
    PROVE  IInv'
  <1>1. Idle' /\ Ahead' /\ Sent'
    BY DEF IInv, Idle, Ahead, Sent, callVars
  <1>2. \A k \in Keys : \A v : Chosen(k, v) => Chosen(k, v)'
    BY ChosenStays DEF IInv
  <1>3. Fresh'
    BY <1>2 DEF IInv, Fresh, callVars, TypeOK, Locks
  <1>4. Flight'
    BY <1>2 DEF IInv, Flight, Resolves, callVars, Sums, Hash, TypeOK
  <1>5. Views'
    BY <1>2 DEF IInv, Views, View, Resolves, callVars, Hash
  <1> QED BY <1>1, <1>3, <1>4, <1>5 DEF IInv

(* A call that begins is sent the lock as it is. *)
LEMMA BeginIInv ==
    ASSUME IInv, NEW i \in Calls, Begin(i, TRUE)
    PROVE  IInv'
  <1> USE ResolveAssumption
  <1>1. /\ shipped'[i] = lock /\ view'[i] = lock /\ left'[i] = Needs[i]
        /\ recorded'[i] = {} /\ pc'[i] = "next"
        /\ \A j \in Calls \ {i} :
              /\ shipped'[j] = shipped[j] /\ view'[j] = view[j] /\ left'[j] = left[j]
              /\ recorded'[j] = recorded[j] /\ pc'[j] = pc[j]
        /\ UNCHANGED <<mirror, memo, cache, lock, dirty, file, saving, full, want>>
    BY DEF Begin, IInv, TypeOK
  <1>2. TypeOK'
    <2>1. left' \in [Calls -> Seq(Keys)]
      BY DEF Begin, IInv, TypeOK
    <2> QED BY <2>1 DEF Begin, IInv, TypeOK, Locks, Pins
  <1>3. Saved'
    BY <1>1 DEF IInv, Saved
  <1>4. Digests'
    <2>1. \A j \in Calls, k \in Keys : Summed(shipped'[j][k]) /\ Summed(view'[j][k])
      BY <1>1 DEF IInv, Digests
    <2> QED BY <1>1, <2>1 DEF IInv, Digests, Summed, Sums
  <1>5. Idle'
    BY <1>1 DEF IInv, Idle
  <1>9. Ahead'
    <2>1. \A m, n \in DOMAIN Needs[i] : Needs[i][m] = Needs[i][n] => m = n
      BY ResolveAssumption
    <2>2. ASSUME NEW j \in Calls \ {i}, NEW m \in DOMAIN left[j]
          PROVE  left[j][m] \notin recorded[j] /\ \A n \in DOMAIN left[j] : left[j][m] = left[j][n] => m = n
      BY DEF IInv, Ahead
    <2>3. ASSUME NEW j \in Calls PROVE (\A m \in DOMAIN left[j] :
             /\ left[j][m] \notin recorded[j]
             /\ \A n \in DOMAIN left[j] : left[j][m] = left[j][n] => m = n)'
      <3>1. CASE j = i
        BY <1>1, <2>1, <3>1
      <3>2. CASE j # i
        <4>1. left'[j] = left[j] /\ recorded'[j] = recorded[j]
          BY <1>1, <3>2
        <4> QED BY <2>2, <3>2, <4>1
      <3> QED BY <3>1, <3>2
    <2> QED BY <2>3 DEF Ahead
  <1>10. Sent'
    <2>1. ASSUME NEW j \in Calls, NEW k \in Keys, shipped'[j][k] # NoPin
          PROVE  /\ lock[k] # NoPin
                 /\ lock[k].resolved = shipped'[j][k].resolved /\ lock[k].far = shipped'[j][k].far
      BY <1>1, <2>1 DEF IInv, Sent
    <2> QED BY <1>1, <2>1 DEF Sent
  <1>11. Fresh'
    <2>1. ASSUME NEW j \in Calls, NEW k \in Keys,
                 pc'[j] # "idle" /\ shipped'[j][k] = NoPin /\ lock[k] # NoPin
          PROVE  Chosen(k, lock[k].resolved)
      BY <1>1, <2>1 DEF IInv, Fresh
    <2> QED BY <1>1, <2>1 DEF Fresh, Chosen
  <1>6. \A j \in Calls \ {i} : \A k, v : Resolves(j, k, v) => Resolves(j, k, v)'
    BY <1>1 DEF Resolves, Chosen
  <1>7. Flight'
    BY <1>1, <1>6 DEF IInv, Flight, Sums, Hash
  <1>8. Views'
    <2>1. ASSUME NEW j \in Calls \ {i}, NEW k \in Keys
          PROVE  View(j, k)'
      <3>1. view'[j] = view[j] /\ shipped'[j] = shipped[j] /\ recorded'[j] = recorded[j]
        BY <1>1
      <3>2. k \in recorded[j] => Resolves(j, k, view[j][k].resolved)'
        BY <1>1 DEF IInv, Views, View, Resolves, Chosen
      <3> QED BY <3>1, <3>2 DEF IInv, Views, View, Hash
    <2>2. \A k \in Keys : View(i, k)'
      BY <1>1 DEF View
    <2> QED BY <2>1, <2>2 DEF Views, View
  <1> QED BY <1>2, <1>3, <1>4, <1>5, <1>7, <1>8, <1>9, <1>10, <1>11 DEF IInv

(* What the pin, the spec or the manifest gives is what the call may record. *)
LEMMA ChooseIInv ==
    ASSUME IInv, NEW i \in Calls, Choose(i)
    PROVE  IInv'
  <1> USE ResolveAssumption, NoPinAssumption
  <1>0. left[i] \in Seq(Keys) /\ left[i] # <<>> /\ pc[i] = "next" /\ pc'[i] = "ensure"
    BY DEF Choose, IInv, TypeOK
  <1>k. PICK k \in Keys : k = Head(left[i])
    BY <1>0
  <1>1. k \notin recorded[i]
    <2>1. 1 \in DOMAIN left[i] /\ k = left[i][1]
      BY <1>0, <1>k
    <2> QED BY <2>1 DEF IInv, Ahead
  <1>2. /\ UNCHANGED <<mirror, cache, lock, dirty, file, saving, shipped, view, left, recorded>>
        /\ \A j \in Calls \ {i} : pc'[j] = pc[j] /\ full'[j] = full[j] /\ want'[j] = want[j]
    BY DEF Choose, IInv, TypeOK
  <1>3. /\ view[i][k] = shipped[i][k] /\ view[i][k] \in Pins \cup {NoPin}
        /\ view[i][k] # NoPin => view[i][k].resolved \in Versions
    BY <1>1 DEF IInv, Views, View, TypeOK, Locks, Pins
  <1>4. Manifest(k) \in Releases /\ EngineOf[k] \in Engines
    BY <1>1 DEF Manifest, IInv, TypeOK
  <1>5. /\ memo' \in [Engines -> Releases \cup {NoRelease}]
        /\ \A g \in Engines : memo[g] # NoRelease => memo'[g] = memo[g]
    <2>1. UNCHANGED memo \/ memo' = [memo EXCEPT ![EngineOf[k]] = Manifest(k)]
      BY <1>k DEF Choose
    <2>2. memo \in [Engines -> Releases \cup {NoRelease}]
      BY DEF IInv, TypeOK
    <2>3. memo[EngineOf[k]] # NoRelease => Manifest(k) = memo[EngineOf[k]]
      BY DEF Manifest
    <2>4. CASE memo' = [memo EXCEPT ![EngineOf[k]] = Manifest(k)]
      <3>1. memo' \in [Engines -> Releases \cup {NoRelease}]
        BY <1>4, <2>2, <2>4
      <3>2. \A g \in Engines : memo'[g] = IF g = EngineOf[k] THEN Manifest(k) ELSE memo[g]
        BY <1>4, <2>2, <2>4
      <3> QED BY <2>3, <3>1, <3>2
    <2> QED BY <2>1, <2>2, <2>4
  <1>6. /\ full'[i] \in Versions /\ want'[i] = Hash(shipped[i][k])
        /\ want'[i] \in Sums(full'[i])
        /\ shipped[i][k] # NoPin => full'[i] = shipped[i][k].resolved
    <2>1. CASE view[i][k] # NoPin
      <3>1. full'[i] = view[i][k].resolved /\ want'[i] = view[i][k].hash
        BY <1>k, <2>1 DEF Choose, PinnedHash, IInv, TypeOK
      <3> QED BY <1>1, <1>3, <2>1, <3>1 DEF IInv, Digests, Summed, Hash
    <2>2. CASE view[i][k] = NoPin
      <3>1. want'[i] = NoHash
        BY <1>k, <2>2 DEF Choose, IInv, TypeOK
      <3>2. full'[i] \in Versions
        BY <1>k, <1>4, <2>2 DEF Choose, IInv, TypeOK
      <3> QED BY <1>3, <2>2, <3>1, <3>2 DEF Hash, Sums
    <2> QED BY <2>1, <2>2
  <1>7. shipped[i][k] = NoPin => Chosen(k, full[i])'
    <2>1. CASE view[i][k] = NoPin /\ k \in Exact
      <3>1. full'[i] = Full[mirror][k] /\ mirror \in Releases /\ 1 \in Releases
        BY <1>k, <2>1 DEF Choose, IInv, TypeOK, Releases
      <3> QED BY <2>1, <3>1 DEF Chosen
    <2>2. CASE view[i][k] = NoPin /\ k \notin Exact
      <3>1. full'[i] = Full[Manifest(k)][k] /\ memo'[EngineOf[k]] = Manifest(k)
        BY <1>k, <1>4, <2>2 DEF Choose, IInv, TypeOK
      <3> QED BY <1>4, <2>2, <3>1 DEF Chosen
    <2> QED BY <1>3, <2>1, <2>2
  <1>8. TypeOK'
    <2>1. full' \in [Calls -> Versions \cup {NoPin}]
      BY <1>6 DEF Choose, IInv, TypeOK
    <2>2. want'[i] \in Archives \cup {NoHash}
      BY <1>6 DEF Sums
    <2>3. want' \in [Calls -> Archives \cup {NoHash}]
      BY <2>2 DEF Choose, IInv, TypeOK
    <2>4. pc' \in [Calls -> {"idle", "next", "ensure"}]
      BY DEF Choose, IInv, TypeOK
    <2> QED BY <1>2, <1>5, <2>1, <2>3, <2>4 DEF IInv, TypeOK
  <1>9. Saved' /\ Digests' /\ Sent' /\ Ahead'
    BY <1>2 DEF IInv, Saved, Digests, Summed, Sums, Sent, Ahead
  <1>10. Idle'
    BY <1>0, <1>2 DEF IInv, Idle
  <1>11. \A q \in Keys : \A v : Chosen(q, v) => Chosen(q, v)'
    BY <1>5, ChosenStays DEF IInv
  <1>12. \A j \in Calls, q \in Keys : \A v : Resolves(j, q, v) => Resolves(j, q, v)'
    BY <1>2, <1>11 DEF Resolves
  <1>13. Fresh'
    BY <1>0, <1>2, <1>11 DEF IInv, Fresh
  <1>14. Views'
    BY <1>2, <1>12 DEF IInv, Views, View, Hash, TypeOK
  <1>15. Flight'
    <2>1. Resolves(i, k, full[i])'
      BY <1>2, <1>6, <1>7 DEF Resolves
    <2>2. ASSUME NEW j \in Calls, j # i, pc'[j] = "ensure"
          PROVE  (/\ left[j] # <<>> /\ full[j] \in Versions
                  /\ want[j] = Hash(shipped[j][Head(left[j])]) /\ want[j] \in Sums(full[j])
                  /\ Resolves(j, Head(left[j]), full[j]))'
      <3>1. left[j] \in Seq(Keys) /\ left[j] # <<>>
        BY <1>2, <2>2 DEF IInv, TypeOK, Flight
      <3>2. PICK q \in Keys : q = Head(left[j])
        BY <3>1
      <3>3. Resolves(j, q, full[j])'
        BY <1>2, <1>12, <2>2, <3>2 DEF IInv, Flight
      <3>4. /\ full[j] \in Versions
            /\ want[j] = Hash(shipped[j][q]) /\ want[j] \in Sums(full[j])
        BY <1>2, <2>2, <3>2 DEF IInv, Flight
      <3> QED BY <1>2, <2>2, <3>1, <3>2, <3>3, <3>4 DEF Hash, Sums
    <2>3. (/\ left[i] # <<>> /\ full[i] \in Versions
           /\ want[i] = Hash(shipped[i][Head(left[i])]) /\ want[i] \in Sums(full[i])
           /\ Resolves(i, Head(left[i]), full[i]))'
      BY <1>0, <1>k, <1>2, <1>6, <2>1 DEF Hash, Sums
    <2> QED BY <2>2, <2>3 DEF Flight
  <1> QED BY <1>8, <1>9, <1>10, <1>13, <1>14, <1>15 DEF IInv

(* A call at Ensure, left alone, keeps what it was to ask for. *)
LEMMA FlightStays ==
    ASSUME IInv, NEW i \in Calls, pc'[i] # "ensure",
           \A j \in Calls \ {i} :
              /\ pc'[j] = pc[j] /\ left'[j] = left[j] /\ shipped'[j] = shipped[j]
              /\ full'[j] = full[j] /\ want'[j] = want[j],
           \A j \in Calls \ {i}, k \in Keys : \A v : Resolves(j, k, v) => Resolves(j, k, v)'
    PROVE  Flight'
  <1>1. ASSUME NEW j \in Calls, pc'[j] = "ensure"
        PROVE  (/\ left[j] # <<>> /\ full[j] \in Versions
                /\ want[j] = Hash(shipped[j][Head(left[j])]) /\ want[j] \in Sums(full[j])
                /\ Resolves(j, Head(left[j]), full[j]))'
    <2>1. j # i /\ pc[j] = "ensure"
      BY <1>1
    <2>2. left[j] \in Seq(Keys) /\ left[j] # <<>>
      BY <2>1 DEF IInv, TypeOK, Flight
    <2>3. PICK q \in Keys : q = Head(left[j])
      BY <2>2
    <2>4. Resolves(j, q, full[j]) /\ Resolves(j, q, full[j])'
      BY <2>1, <2>3 DEF IInv, Flight
    <2>5. full[j] \in Versions /\ want[j] = Hash(shipped[j][q]) /\ want[j] \in Sums(full[j])
      BY <2>1, <2>3 DEF IInv, Flight
    <2> QED BY <2>1, <2>2, <2>3, <2>4, <2>5 DEF Hash, Sums
  <1> QED BY <1>1 DEF Flight

(* A component that Ensure answered is recorded with what Resolves allows. *)
LEMMA PinnedKeeps ==
    ASSUME IInv, NEW i \in Calls, NEW h \in Sums(full[i]),
           want[i] # NoHash => h \in {NoHash, want[i]},
           pc[i] = "ensure", Pinned(i, h), UNCHANGED <<mirror, lock, dirty, file, saving>>,
           memo' \in [Engines -> Releases \cup {NoRelease}],
           \A g \in Engines : memo[g] # NoRelease => memo'[g] = memo[g],
           cache' \in [Versions -> Store!Entries \cup {NoEntry}],
           \A v \in Versions : cache'[v] # NoEntry => cache'[v].digest \in Sums(v)
    PROVE  IInv'
  <1> USE ResolveAssumption, NoPinAssumption
  <1>0. left[i] \in Seq(Keys) /\ left[i] # <<>> /\ full[i] \in Versions
    BY DEF IInv, TypeOK, Flight
  <1>k. PICK k \in Keys : k = Head(left[i])
    BY <1>0
  <1>1. /\ left'[i] = Tail(left[i]) /\ recorded'[i] = recorded[i] \cup {k}
        /\ view'[i] = [view[i] EXCEPT ![k] = [resolved |-> full[i], source |-> "mirror", hash |-> h, far |-> NoHash]]
        /\ pc'[i] = "next"
    BY <1>k DEF Pinned, IInv, TypeOK
  <1>2. /\ shipped' = shipped
        /\ \A j \in Calls \ {i} :
              /\ left'[j] = left[j] /\ recorded'[j] = recorded[j] /\ view'[j] = view[j]
              /\ pc'[j] = pc[j] /\ full'[j] = full[j] /\ want'[j] = want[j]
    BY DEF Pinned, IInv, TypeOK
  <1>3. h \in Archives \cup {NoHash}
    BY <1>0 DEF Sums
  <1>4. [resolved |-> full[i], source |-> "mirror", hash |-> h, far |-> NoHash] \in Pins
    BY <1>0, <1>3 DEF Pins
  <1>5. view[i] \in Locks
    BY DEF IInv, TypeOK
  <1>6. /\ view'[i] \in Locks /\ \A q \in Keys \ {k} : view'[i][q] = view[i][q]
        /\ view'[i][k] = [resolved |-> full[i], source |-> "mirror", hash |-> h, far |-> NoHash]
    BY <1>1, <1>4, <1>5 DEF Locks
  <1>7. TypeOK'
    <2>1. Tail(left[i]) \in Seq(Keys)
      BY <1>0
    <2>2. left' \in [Calls -> Seq(Keys)]
      BY <2>1 DEF Pinned, IInv, TypeOK
    <2>3. view' \in [Calls -> Locks]
      BY <1>2, <1>6 DEF Pinned, IInv, TypeOK
    <2>4. recorded' \in [Calls -> SUBSET Keys]
      BY <1>1, <1>2 DEF Pinned, IInv, TypeOK
    <2>5. /\ full' \in [Calls -> Versions \cup {NoPin}]
          /\ want' \in [Calls -> Archives \cup {NoHash}]
          /\ pc' \in [Calls -> {"idle", "next", "ensure"}]
      BY DEF Pinned, IInv, TypeOK
    <2> QED BY <1>2, <2>2, <2>3, <2>4, <2>5 DEF IInv, TypeOK
  <1>8. Saved'
    BY DEF IInv, Saved
  <1>9. Digests'
    <2>1. Summed(view'[i][k])
      BY <1>6 DEF Summed
    <2>2. \A j \in Calls, q \in Keys : Summed(shipped'[j][q]) /\ Summed(view'[j][q])
      BY <1>2, <1>6, <2>1 DEF IInv, Digests
    <2> QED BY <2>2 DEF IInv, Digests, Summed, Sums
  <1>10. Idle'
    <2>1. ASSUME NEW j \in Calls, pc'[j] = "idle" PROVE recorded'[j] = {} /\ shipped'[j] = NoPins
      <3>1. j # i
        BY <1>1, <2>1
      <3> QED BY <1>2, <2>1, <3>1 DEF IInv, Idle
    <2> QED BY <2>1 DEF Idle, NoPins
  <1>11. Ahead'
    <2>1. /\ 1 \in DOMAIN left[i] /\ k = left[i][1]
          /\ \A m \in DOMAIN Tail(left[i]) : /\ m + 1 \in DOMAIN left[i] /\ m + 1 # 1
                                             /\ Tail(left[i])[m] = left[i][m + 1]
          /\ \A m, n \in DOMAIN Tail(left[i]) : m + 1 = n + 1 => m = n
      BY <1>0, <1>k
    <2>2. \A m, n \in DOMAIN left[i] : left[i][m] \notin recorded[i]
                                       /\ (left[i][m] = left[i][n] => m = n)
      BY DEF IInv, Ahead
    <2>3. \A m \in DOMAIN Tail(left[i]) : /\ Tail(left[i])[m] \notin recorded[i] /\ Tail(left[i])[m] # k
      BY <2>1, <2>2
    <2>4. \A m, n \in DOMAIN Tail(left[i]) : Tail(left[i])[m] = Tail(left[i])[n] => m = n
      BY <2>1, <2>2
    <2>5. \A m \in DOMAIN left'[i] :
             /\ left'[i][m] \notin recorded'[i]
             /\ \A n \in DOMAIN left'[i] : left'[i][m] = left'[i][n] => m = n
      BY <1>1, <2>3, <2>4
    <2>6. \A j \in Calls \ {i} : \A m \in DOMAIN left'[j] :
             /\ left'[j][m] \notin recorded'[j]
             /\ \A n \in DOMAIN left'[j] : left'[j][m] = left'[j][n] => m = n
      <3>1. \A j \in Calls \ {i} : left'[j] = left[j] /\ recorded'[j] = recorded[j]
        BY <1>2
      <3> QED BY <3>1 DEF IInv, Ahead
    <2> QED BY <2>5, <2>6 DEF Ahead
  <1>12. Sent'
    BY <1>2 DEF IInv, Sent
  <1>13. \A q \in Keys : \A v : Chosen(q, v) => Chosen(q, v)'
    BY ChosenStays DEF IInv
  <1>14. \A j \in Calls, q \in Keys : \A v : Resolves(j, q, v) => Resolves(j, q, v)'
    BY <1>2, <1>13 DEF Resolves
  <1>15. Fresh'
    BY <1>1, <1>2, <1>13 DEF IInv, Fresh
  <1>16. Flight'
    BY <1>1, <1>2, <1>14, FlightStays
  <1>17. Views'
    <2>1. Resolves(i, k, full[i])
      BY <1>k DEF IInv, Flight
    <2>2. want[i] = Hash(shipped[i][k])
      BY <1>k DEF IInv, Flight
    <2>3. ASSUME NEW j \in Calls, NEW q \in Keys, j # i \/ q # k
          PROVE  /\ view'[j][q] = view[j][q]
                 /\ q \in recorded'[j] <=> q \in recorded[j]
      <3>1. CASE j = i
        BY <1>1, <1>6, <2>3, <3>1
      <3>2. CASE j # i
        BY <1>2, <3>2
      <3> QED BY <3>1, <3>2
    <2>4. ASSUME NEW j \in Calls, NEW q \in Keys, j # i \/ q # k
          PROVE  /\ q \notin recorded'[j] => view'[j][q] = shipped'[j][q]
                 /\ q \in recorded'[j] =>
                       /\ view'[j][q] # NoPin
                       /\ Resolves(j, q, view'[j][q].resolved)
                       /\ Hash(shipped'[j][q]) # NoHash =>
                             view'[j][q].hash \in {NoHash, Hash(shipped'[j][q])}
      <3>1. view'[j][q] = view[j][q] /\ shipped'[j][q] = shipped[j][q]
        BY <1>2, <2>3, <2>4
      <3>2. q \in recorded'[j] <=> q \in recorded[j]
        BY <2>3, <2>4
      <3>3. /\ q \notin recorded[j] => view[j][q] = shipped[j][q]
            /\ q \in recorded[j] =>
                  /\ view[j][q] # NoPin
                  /\ Resolves(j, q, view[j][q].resolved)
                  /\ Hash(shipped[j][q]) # NoHash =>
                        view[j][q].hash \in {NoHash, Hash(shipped[j][q])}
        BY DEF IInv, Views, View
      <3> QED BY <3>1, <3>2, <3>3
    <2>5. /\ k \in recorded'[i] /\ view'[i][k] # NoPin
          /\ Resolves(i, k, view'[i][k].resolved)
          /\ Hash(shipped'[i][k]) # NoHash => view'[i][k].hash \in {NoHash, Hash(shipped'[i][k])}
      BY <1>1, <1>2, <1>4, <1>6, <2>1, <2>2
    <2>6. \A j \in Calls, q \in Keys : Resolves(j, q, view'[j][q].resolved)
                                         => Resolves(j, q, view[j][q].resolved)'
      BY <1>14
    <2>7. \A j \in Calls, q \in Keys :
             /\ q \notin recorded'[j] => view'[j][q] = shipped'[j][q]
             /\ q \in recorded'[j] =>
                   /\ view'[j][q] # NoPin
                   /\ Resolves(j, q, view[j][q].resolved)'
                   /\ Hash(shipped'[j][q]) # NoHash =>
                         view'[j][q].hash \in {NoHash, Hash(shipped'[j][q])}
      BY <2>4, <2>5, <2>6
    <2> QED BY <2>7 DEF Views, View, Hash
  <1> QED BY <1>7, <1>8, <1>9, <1>10, <1>11, <1>12, <1>15, <1>16, <1>17 DEF IInv

(* One call that is over leaves the others where they are. *)
LEMMA GoneOne ==
    ASSUME IInv, NEW i \in Calls, Gone({i}), UNCHANGED memo
    PROVE  /\ CallsTyped'
           /\ Idle' /\ Ahead' /\ Flight' /\ Views'
           /\ \A j \in Calls, k \in Keys : Summed(shipped'[j][k]) /\ Summed(view'[j][k])
           /\ pc'[i] = "idle" /\ \A k \in Keys : shipped'[i][k] = NoPin
           /\ \A j \in Calls \ {i} : pc'[j] = pc[j] /\ shipped'[j] = shipped[j]
  <1>1. /\ CallsTyped'
        /\ Idle' /\ Ahead'
        /\ \A j \in Calls, k \in Keys : Summed(shipped'[j][k]) /\ Summed(view'[j][k])
        /\ pc'[i] = "idle" /\ recorded'[i] = {} /\ shipped'[i] = NoPins /\ view'[i] = NoPins
        /\ \A j \in Calls \ {i} :
              /\ pc'[j] = pc[j] /\ recorded'[j] = recorded[j] /\ left'[j] = left[j]
              /\ shipped'[j] = shipped[j] /\ view'[j] = view[j]
              /\ full'[j] = full[j] /\ want'[j] = want[j]
    BY GoneKeeps
  <1>2. \A j \in Calls \ {i}, k \in Keys : \A v : Resolves(j, k, v) => Resolves(j, k, v)'
    BY <1>1 DEF Resolves, Chosen
  <1>3. Flight'
    BY <1>1, <1>2, FlightStays
  <1>4. Views'
    <2>1. ASSUME NEW j \in Calls, NEW k \in Keys, j # i
          PROVE  (/\ k \notin recorded[j] => view[j][k] = shipped[j][k]
                  /\ k \in recorded[j] =>
                        /\ view[j][k] # NoPin
                        /\ Resolves(j, k, view[j][k].resolved)
                        /\ Hash(shipped[j][k]) # NoHash =>
                              view[j][k].hash \in {NoHash, Hash(shipped[j][k])})'
      <3>1. view'[j] = view[j] /\ shipped'[j] = shipped[j] /\ recorded'[j] = recorded[j]
        BY <1>1, <2>1
      <3>2. /\ k \notin recorded[j] => view[j][k] = shipped[j][k]
            /\ k \in recorded[j] =>
                  /\ view[j][k] # NoPin
                  /\ Resolves(j, k, view[j][k].resolved)
                  /\ Hash(shipped[j][k]) # NoHash =>
                        view[j][k].hash \in {NoHash, Hash(shipped[j][k])}
        BY DEF IInv, Views, View
      <3>3. Resolves(j, k, view[j][k].resolved) => Resolves(j, k, view[j][k].resolved)'
        BY <1>2, <2>1, <3>1
      <3> QED BY <3>1, <3>2, <3>3 DEF Hash
    <2>2. \A k \in Keys : k \notin recorded'[i] /\ view'[i][k] = shipped'[i][k]
      BY <1>1
    <2> QED BY <2>1, <2>2 DEF Views, View
  <1>5. \A k \in Keys : NoPins[k] = NoPin
    BY DEF NoPins
  <1> QED BY <1>1, <1>3, <1>4, <1>5

(* A call that fails leaves nothing behind. *)
LEMMA AbortIInv ==
    ASSUME IInv, NEW i \in Calls, Abort(i)
    PROVE  IInv'
  <1>1. UNCHANGED <<mirror, memo, cache, lock, dirty, file, saving>> /\ Gone({i})
    BY DEF Abort
  <1>2. /\ CallsTyped'
        /\ Idle' /\ Ahead' /\ Flight' /\ Views'
        /\ \A j \in Calls, k \in Keys : Summed(shipped'[j][k]) /\ Summed(view'[j][k])
        /\ pc'[i] = "idle" /\ \A k \in Keys : shipped'[i][k] = NoPin
        /\ \A j \in Calls \ {i} : pc'[j] = pc[j] /\ shipped'[j] = shipped[j]
    BY <1>1, GoneOne
  <1>3. TypeOK' /\ Saved'
    BY <1>1, <1>2 DEF IInv, TypeOK, Saved, CallsTyped
  <1>4. Digests'
    BY <1>1, <1>2 DEF IInv, Digests, Summed, Sums
  <1>5. Sent'
    <2>1. ASSUME NEW j \in Calls, NEW k \in Keys, shipped'[j][k] # NoPin
          PROVE  /\ lock[k] # NoPin
                 /\ lock[k].resolved = shipped'[j][k].resolved /\ lock[k].far = shipped'[j][k].far
      <3>1. j # i
        BY <1>2, <2>1
      <3> QED BY <1>2, <2>1, <3>1 DEF IInv, Sent
    <2> QED BY <1>1, <2>1 DEF Sent
  <1>6. Fresh'
    <2>1. ASSUME NEW j \in Calls, NEW k \in Keys,
                 pc'[j] # "idle" /\ shipped'[j][k] = NoPin /\ lock[k] # NoPin
          PROVE  Chosen(k, lock[k].resolved)
      <3>1. j # i
        BY <1>2, <2>1
      <3> QED BY <1>2, <2>1, <3>1 DEF IInv, Fresh
    <2> QED BY <1>1, <2>1 DEF Fresh, Chosen
  <1> QED BY <1>2, <1>3, <1>4, <1>5, <1>6 DEF IInv

(* What Merge makes of each pin: it keeps its version, which is the call's. *)
LEMMA Merged ==
    ASSUME IInv, NEW i \in Calls, Merge(i), NEW k \in Keys
    PROVE  /\ lock'[k] \in Pins \cup {NoPin} /\ Summed(lock'[k])
           /\ k \notin recorded[i] => lock'[k] = lock[k]
           /\ k \in recorded[i] => lock'[k] # NoPin
           /\ lock[k] # NoPin => /\ lock'[k] # NoPin
                                 /\ lock'[k].resolved = lock[k].resolved
                                 /\ lock'[k].far = lock[k].far
                                 /\ lock[k].source \in {"none", lock'[k].source}
           /\ k \in recorded[i] /\ lock[k] = NoPin =>
                 shipped[i][k] = NoPin /\ Chosen(k, lock'[k].resolved)
  <1> USE NoPinAssumption
  <1>1. lock'[k] = IF k \in recorded[i]
                   THEN Record(lock[k], view[i][k])
                   ELSE lock[k]
    BY DEF Merge
  <1>2. lock[k] \in Pins \cup {NoPin} /\ Summed(lock[k])
    BY DEF IInv, TypeOK, Locks, Digests
  <1>3. CASE k \notin recorded[i]
    BY <1>1, <1>2, <1>3
  <1>4. CASE k \in recorded[i]
    <2>1. view[i][k] \in Pins /\ view[i][k] # NoPin /\ Summed(view[i][k])
      BY <1>4 DEF IInv, TypeOK, Locks, Views, View, Digests
    <2>2. CASE lock[k] = NoPin
      <3>1. lock'[k] = view[i][k]
        BY <1>1, <1>4, <2>2 DEF Record
      <3>2. lock'[k] \in Pins /\ Summed(lock'[k])
        BY <2>1, <3>1 DEF Pins, Summed
      <3>3. shipped[i][k] = NoPin
        BY <2>2 DEF IInv, Sent
      <3>4. Chosen(k, view[i][k].resolved)
        BY <1>4, <3>3 DEF IInv, Views, View, Resolves
      <3> QED BY <1>4, <2>2, <3>1, <3>2, <3>3, <3>4
    <2>3. CASE lock[k] # NoPin
      <3>1. view[i][k].resolved = lock[k].resolved
        BY <1>4, <2>3, Agree
      <3>2. lock'[k] = [lock[k] EXCEPT
                          !.source = IF @ = "none" THEN view[i][k].source ELSE @,
                          !.hash = IF view[i][k].hash = NoHash THEN @ ELSE view[i][k].hash]
        BY <1>1, <1>4, <2>3, <3>1 DEF Record
      <3>3. lock[k] \in Pins
        BY <1>2, <2>3
      <3>4. lock'[k] \in Pins
        BY <2>1, <3>2, <3>3 DEF Pins
      <3>5. lock'[k].resolved = lock[k].resolved /\ lock'[k].far = lock[k].far
            /\ lock'[k].hash \in {lock[k].hash, view[i][k].hash}
            /\ lock[k].source \in {"none", lock'[k].source}
        BY <3>2, <3>3 DEF Pins
      <3>6. Summed(lock'[k])
        BY <1>2, <2>1, <2>3, <3>1, <3>5 DEF Summed
      <3> QED BY <1>4, <2>3, <3>4, <3>5, <3>6
    <2> QED BY <2>2, <2>3
  <1> QED BY <1>3, <1>4

(* An answer is merged into the lock. *)
LEMMA MergeIInv ==
    ASSUME IInv, NEW i \in Calls, Merge(i)
    PROVE  IInv'
  <1>1. /\ UNCHANGED <<mirror, memo, cache, file, saving>> /\ Gone({i})
        /\ dirty' = (dirty \/ lock' # lock) /\ ~saving
        /\ pc[i] = "next"
    BY DEF Merge, Dirties
  <1>2. /\ CallsTyped'
        /\ Idle' /\ Ahead' /\ Flight' /\ Views'
        /\ \A j \in Calls, k \in Keys : Summed(shipped'[j][k]) /\ Summed(view'[j][k])
        /\ pc'[i] = "idle" /\ \A k \in Keys : shipped'[i][k] = NoPin
        /\ \A j \in Calls \ {i} : pc'[j] = pc[j] /\ shipped'[j] = shipped[j]
    BY <1>1, GoneOne
  <1>3. \A k \in Keys :
           /\ lock'[k] \in Pins \cup {NoPin} /\ Summed(lock'[k])
           /\ k \notin recorded[i] => lock'[k] = lock[k]
           /\ k \in recorded[i] => lock'[k] # NoPin
           /\ lock[k] # NoPin => /\ lock'[k] # NoPin
                                 /\ lock'[k].resolved = lock[k].resolved
                                 /\ lock'[k].far = lock[k].far
           /\ k \in recorded[i] /\ lock[k] = NoPin =>
                 shipped[i][k] = NoPin /\ Chosen(k, lock'[k].resolved)
    BY Merged
  <1>4. lock' \in Locks
    <2>1. lock' = [k \in Keys |-> IF k \in recorded[i]
                   THEN Record(lock[k], view[i][k])
                   ELSE lock[k]]
      BY DEF Merge
    <2>2. lock' = [k \in Keys |-> lock'[k]]
      BY <2>1
    <2> QED BY <1>3, <2>2 DEF Locks
  <1>5. TypeOK' /\ Saved'
    BY <1>1, <1>2, <1>4 DEF IInv, TypeOK, Saved, CallsTyped
  <1>6. Digests'
    BY <1>1, <1>2, <1>3 DEF IInv, Digests, Summed, Sums
  <1>7. Sent'
    <2>1. ASSUME NEW j \in Calls, NEW k \in Keys, shipped'[j][k] # NoPin
          PROVE  /\ lock'[k] # NoPin
                 /\ lock'[k].resolved = shipped'[j][k].resolved /\ lock'[k].far = shipped'[j][k].far
      <3>1. shipped[j][k] = shipped'[j][k]
        BY <1>2, <2>1
      <3> QED BY <1>3, <2>1, <3>1 DEF IInv, Sent
    <2> QED BY <2>1 DEF Sent
  <1>8. Fresh'
    <2>1. ASSUME NEW j \in Calls, NEW k \in Keys,
                 pc'[j] # "idle" /\ shipped'[j][k] = NoPin /\ lock'[k] # NoPin
          PROVE  Chosen(k, lock'[k].resolved)
      <3>1. pc[j] # "idle" /\ shipped[j][k] = NoPin
        BY <1>2, <2>1
      <3>2. CASE lock[k] # NoPin
        BY <1>3, <3>1, <3>2 DEF IInv, Fresh
      <3>3. CASE lock[k] = NoPin
        BY <1>3, <2>1, <3>3
      <3> QED BY <3>2, <3>3
    <2> QED BY <1>1, <2>1 DEF Fresh, Chosen
  <1> QED BY <1>2, <1>5, <1>6, <1>7, <1>8 DEF IInv

LEMMA EnsureCachedIInv ==
    ASSUME IInv, NEW i \in Calls, EnsureCached(i)
    PROVE  IInv'
  <1> DEFINE h == Store!HitAnswer(cache[full[i]], want[i])
  <1>1. full[i] \in Versions
    BY DEF EnsureCached, IInv, Flight
  <1>2. h = cache[full[i]].digest /\ (want[i] # NoHash => h \in {NoHash, want[i]})
    BY DEF EnsureCached, Store!HitAnswer
  <1>3. h \in Sums(full[i])
    BY <1>1, <1>2 DEF EnsureCached, IInv, Digests
  <1>4. /\ memo' \in [Engines -> Releases \cup {NoRelease}]
        /\ \A g \in Engines : memo[g] # NoRelease => memo'[g] = memo[g]
        /\ cache' \in [Versions -> Store!Entries \cup {NoEntry}]
        /\ \A v \in Versions : cache'[v] # NoEntry => cache'[v].digest \in Sums(v)
        /\ UNCHANGED <<mirror, lock, dirty, file, saving>>
        /\ pc[i] = "ensure" /\ Pinned(i, h)
    BY DEF EnsureCached, IInv, TypeOK, Digests
  <1> HIDE DEF h
  <1> QED BY <1>2, <1>3, <1>4, PinnedKeeps

LEMMA EnsureFetchedIInv ==
    ASSUME IInv, NEW i \in Calls, NEW d \in Archives \cup {NoHash}, EnsureFetched(i, d)
    PROVE  IInv'
  <1> USE ResolveAssumption
  <1> DEFINE a == Sum[mirror][full[i]]
  <1>0. left[i] \in Seq(Keys) /\ left[i] # <<>> /\ full[i] \in Versions /\ pc[i] = "ensure"
    BY DEF EnsureFetched, IInv, TypeOK, Flight
  <1>k. PICK k \in Keys : k = Head(left[i])
    BY <1>0
  <1>1. mirror \in Releases /\ Manifest(k) \in Releases /\ EngineOf[k] \in Engines
    BY DEF Manifest, IInv, TypeOK
  <1>2. a \in Archives /\ a \in Sums(full[i]) /\ NoHash \in Sums(full[i])
    BY <1>0, <1>1 DEF Sums
  <1>3. want[i] # NoHash => a \in {NoHash, want[i]}
    BY DEF EnsureFetched
  <1>4. /\ memo' \in [Engines -> Releases \cup {NoRelease}]
        /\ \A g \in Engines : memo[g] # NoRelease => memo'[g] = memo[g]
    <2>1. memo' = [memo EXCEPT ![EngineOf[k]] = Manifest(k)]
      BY <1>k DEF EnsureFetched
    <2>2. memo \in [Engines -> Releases \cup {NoRelease}]
      BY DEF IInv, TypeOK
    <2>3. memo[EngineOf[k]] # NoRelease => Manifest(k) = memo[EngineOf[k]]
      BY DEF Manifest
    <2>4. memo' \in [Engines -> Releases \cup {NoRelease}]
      BY <1>1, <2>1, <2>2
    <2>5. \A g \in Engines : memo'[g] = IF g = EngineOf[k] THEN Manifest(k) ELSE memo[g]
      BY <1>1, <2>1, <2>2
    <2> QED BY <2>3, <2>4, <2>5
  <1>5. /\ cache' \in [Versions -> Store!Entries \cup {NoEntry}]
        /\ \A v \in Versions : cache'[v] # NoEntry => cache'[v].digest \in Sums(v)
    <2>1. cache' = [cache EXCEPT ![full[i]] = [tree |-> a, digest |-> d]] /\ d \in {a, NoHash}
      BY DEF EnsureFetched
    <2>2. cache \in [Versions -> Store!Entries \cup {NoEntry}]
      BY DEF IInv, TypeOK
    <2>3. [tree |-> a, digest |-> d] \in Store!Entries
      BY <1>2, <2>1 DEF Store!Entries
    <2>4. cache' \in [Versions -> Store!Entries \cup {NoEntry}]
      BY <1>0, <2>1, <2>2, <2>3
    <2>5. \A v \in Versions \ {full[i]} : cache'[v] = cache[v]
      BY <2>1, <2>2
    <2>6. cache'[full[i]].digest = d
      BY <1>0, <2>1, <2>2
    <2> QED BY <1>2, <2>1, <2>4, <2>5, <2>6 DEF IInv, Digests
  <1>6. UNCHANGED <<mirror, lock, dirty, file, saving>> /\ Pinned(i, a)
    BY DEF EnsureFetched
  <1> HIDE DEF a
  <1> QED BY <1>0, <1>2, <1>3, <1>4, <1>5, <1>6, PinnedKeeps

(* A daemon that starts again runs no call. *)
LEMMA RestartIInv ==
    ASSUME IInv, Restart
    PROVE  IInv'
  <1>1. /\ lock' = file' /\ dirty' = FALSE /\ saving' = FALSE
        /\ memo' = [g \in Engines |-> NoRelease]
        /\ UNCHANGED <<mirror, cache>> /\ Gone(Calls)
    BY DEF Restart
  <1>0. file' \in Locks /\ \A k \in Keys : file'[k] \in {file[k], lock[k], NoPin}
    <2>1. CASE file' = file
      BY <2>1 DEF IInv, TypeOK, Locks
    <2>2. ASSUME NEW S \in SUBSET Keys, file' = [k \in Keys |-> IF k \in S THEN lock[k] ELSE NoPin]
          PROVE  file' \in Locks /\ \A k \in Keys : file'[k] \in {lock[k], NoPin}
      BY <2>2 DEF IInv, TypeOK, Locks
    <2> QED BY <2>1, <2>2 DEF Restart, Parts
  <1>2. /\ CallsTyped'
        /\ Idle' /\ Ahead'
        /\ \A i \in Calls, k \in Keys : Summed(shipped'[i][k]) /\ Summed(view'[i][k])
        /\ \A i \in Calls : /\ pc'[i] = "idle" /\ recorded'[i] = {}
                            /\ shipped'[i] = NoPins /\ view'[i] = NoPins
    BY <1>1, GoneKeeps
  <1>3. TypeOK'
    BY <1>0, <1>1, <1>2 DEF IInv, TypeOK, CallsTyped
  <1>4. Digests'
    BY <1>0, <1>1, <1>2 DEF IInv, Digests, Summed, Sums
  <1>5. Saved'
    BY <1>1 DEF Saved
  <1>6. Sent' /\ Fresh' /\ Flight'
    BY <1>2 DEF Sent, Fresh, Flight, NoPins
  <1>7. Views'
    BY <1>2 DEF Views, View, NoPins
  <1> QED BY <1>2, <1>3, <1>4, <1>5, <1>6, <1>7 DEF IInv

LEMMA SaveTruncateIInv ==
    ASSUME IInv, SaveTruncate
    PROVE  IInv'
  <1>1. /\ dirty /\ file' = NoPins /\ saving' = TRUE /\ dirty' = TRUE
        /\ UNCHANGED <<mirror, memo, cache, lock, callVars>>
    BY DEF SaveTruncate, StillDirty
  <1>2. NoPins \in Locks
    BY DEF NoPins, Locks
  <1>3. TypeOK'
    BY <1>1, <1>2 DEF IInv, TypeOK, callVars
  <1>4. Saved' /\ Digests'
    BY <1>1 DEF IInv, Saved, Digests, Summed, Sums, NoPins, callVars
  <1> QED BY <1>1, <1>3, <1>4, Aside

LEMMA SaveWriteIInv ==
    ASSUME IInv, SaveWrite
    PROVE  IInv'
  <1>1. /\ file' = lock /\ saving' = FALSE /\ dirty' = FALSE
        /\ UNCHANGED <<mirror, memo, cache, lock, callVars>>
    BY DEF SaveWrite
  <1>2. TypeOK'
    BY <1>1 DEF IInv, TypeOK, callVars
  <1>3. Saved' /\ Digests'
    BY <1>1 DEF IInv, Saved, Digests, Summed, Sums, callVars
  <1> QED BY <1>1, <1>2, <1>3, Aside

LEMMA ReleaseIInv ==
    ASSUME IInv, Release
    PROVE  IInv'
  <1>1. /\ mirror' = mirror + 1 /\ mirror < LastRelease
        /\ UNCHANGED <<memo, cache, lock, dirty, file, saving, callVars>>
    BY DEF Release
  <1>2. mirror' \in Releases
    BY <1>1, ResolveAssumption DEF IInv, TypeOK, Releases
  <1>3. TypeOK'
    BY <1>1, <1>2 DEF IInv, TypeOK, callVars
  <1>4. Saved' /\ Digests'
    BY <1>1 DEF IInv, Saved, Digests, Summed, Sums, callVars
  <1> QED BY <1>1, <1>3, <1>4, Aside

LEMMA EvictIInv ==
    ASSUME IInv, NEW v \in Versions, Evict(v)
    PROVE  IInv'
  <1>1. /\ cache' = [cache EXCEPT ![v] = NoEntry]
        /\ UNCHANGED <<mirror, memo, lock, dirty, file, saving, callVars>>
    BY DEF Evict
  <1>2. TypeOK'
    BY <1>1 DEF IInv, TypeOK, callVars
  <1>3. Saved' /\ Digests'
    BY <1>1 DEF IInv, TypeOK, Saved, Digests, Summed, Sums, callVars
  <1> QED BY <1>1, <1>2, <1>3, Aside

LEMMA NextIInv == ASSUME Listed PROVE IInv /\ [Next]_vars => IInv'
  <1> SUFFICES ASSUME IInv, [Next]_vars PROVE IInv'
    OBVIOUS
  <1>1. ASSUME NEW i \in Calls, NEW lists \in Listing, Begin(i, lists) PROVE IInv'
    BY <1>1, BeginIInv DEF Listed
  <1>2. ASSUME NEW i \in Calls, Choose(i) PROVE IInv'
    BY <1>2, ChooseIInv
  <1>3. ASSUME NEW i \in Calls, EnsureCached(i) PROVE IInv'
    BY <1>3, EnsureCachedIInv
  <1>4. ASSUME NEW i \in Calls, NEW d \in Archives \cup {NoHash}, EnsureFetched(i, d) PROVE IInv'
    BY <1>4, EnsureFetchedIInv
  <1>5. ASSUME NEW i \in Calls, Abort(i) PROVE IInv'
    BY <1>5, AbortIInv
  <1>6. ASSUME NEW i \in Calls, Merge(i) PROVE IInv'
    BY <1>6, MergeIInv
  <1>7. ASSUME SaveTruncate \/ SaveWrite \/ Restart \/ Release PROVE IInv'
    BY <1>7, SaveTruncateIInv, SaveWriteIInv, RestartIInv, ReleaseIInv
  <1>8. ASSUME NEW v \in Versions, Evict(v) PROVE IInv'
    BY <1>8, EvictIInv
  <1>9. CASE UNCHANGED vars
    <2>1. TypeOK' /\ Saved' /\ Digests'
      BY <1>9 DEF vars, callVars, IInv, TypeOK, Saved, Digests, Summed, Sums
    <2> QED BY <1>9, <2>1, Aside DEF vars
  <1> QED BY <1>1, <1>2, <1>3, <1>4, <1>5, <1>6, <1>7, <1>8, <1>9 DEF Next

(* What keeps pins, saves and answers consistent holds in every reachable state. *)
THEOREM Inductive == ASSUME Listed PROVE Spec => []IInv
  BY InitIInv, NextIInv, PTL DEF Spec

-----------------------------------------------------------------------------
(* The daemon never takes a lock for saved that is not on disk, so that Save's
   early return (binaries/lock.go:227) loses no pin. *)
THEOREM CleanLocksSaved == ASSUME Listed PROVE Spec => []CleanMeansSaved
  <1>1. IInv => CleanMeansSaved
    BY DEF IInv, Saved, CleanMeansSaved
  <1> QED BY <1>1, Inductive, PTL

(* A call that was sent a pin answers with it, and concurrent answers for one
   spec name one version, the lock's (engine/resolve.go:20-22, adapter.go:264-286). *)
THEOREM PinsHonoured == ASSUME Listed PROVE Spec => []PinHonoured
  <1>1. ASSUME IInv PROVE PinHonoured
    <2>1. ASSUME NEW i \in Calls, NEW k \in recorded[i], lock[k] # NoPin
          PROVE  view[i][k].resolved = lock[k].resolved
      BY <1>1, <2>1, Agree
    <2>2. ASSUME NEW i \in Calls, NEW k \in recorded[i], shipped[i][k] # NoPin
          PROVE  /\ view[i][k].resolved = shipped[i][k].resolved
                 /\ shipped[i][k].hash # NoHash =>
                       view[i][k].hash \in {NoHash, shipped[i][k].hash}
      <3>1. k \in Keys
        BY <1>1 DEF IInv, TypeOK
      <3> QED BY <1>1, <2>2, <3>1 DEF IInv, Views, View, Resolves, Hash
    <2>3. ASSUME NEW i \in Calls, NEW j \in Calls, NEW k \in recorded[i], k \in recorded[j]
          PROVE  view[i][k].resolved = view[j][k].resolved
      <3>1. k \in Keys
        BY <1>1 DEF IInv, TypeOK
      <3>2. CASE lock[k] # NoPin
        BY <2>1, <2>3, <3>2
      <3>3. CASE lock[k] = NoPin
        <4>1. shipped[i][k] = NoPin /\ shipped[j][k] = NoPin
          BY <1>1, <3>1, <3>3 DEF IInv, Sent
        <4> QED BY <1>1, <2>3, <3>1, <4>1 DEF IInv, Views, View, Resolves, Chosen
      <3> QED BY <3>2, <3>3
    <2> QED BY <2>1, <2>2, <2>3 DEF PinHonoured
  <1> QED BY <1>1, Inductive, PTL

(* While the daemon lives, a pin keeps its version and the other platforms'
   hashes whoever resolves it; this platform's moves only where one version was
   built twice (binaries/lock.go:101-130, adapter.go:290-296). *)
THEOREM PinsGrow == ASSUME Listed PROVE Spec => PinsOnlyGrow
  <1> DEFINE Grows ==
        ~Restart => \A k \in Keys : lock[k] # NoPin =>
          /\ lock'[k] # NoPin
          /\ lock'[k].resolved = lock[k].resolved /\ lock'[k].far = lock[k].far
          /\ lock[k].source \in {"none", lock'[k].source}
          /\ \/ lock[k].hash \in {NoHash, lock'[k].hash}
             \/ /\ Rebuilt(lock[k].resolved)
                /\ \E i \in Calls : k \in recorded[i] /\ Hash(shipped[i][k]) # lock[k].hash
  <1>1. ASSUME IInv, NEW i \in Calls, Merge(i), NEW k \in Keys, lock[k] # NoPin
        PROVE  /\ lock'[k] # NoPin
               /\ lock'[k].resolved = lock[k].resolved /\ lock'[k].far = lock[k].far
               /\ lock[k].source \in {"none", lock'[k].source}
               /\ \/ lock[k].hash \in {NoHash, lock'[k].hash}
                  \/ /\ Rebuilt(lock[k].resolved)
                     /\ k \in recorded[i] /\ Hash(shipped[i][k]) # lock[k].hash
    <2>1. /\ lock'[k] # NoPin
          /\ lock'[k].resolved = lock[k].resolved /\ lock'[k].far = lock[k].far
          /\ lock[k].source \in {"none", lock'[k].source}
      BY <1>1, Merged
    <2>2. ASSUME lock[k].hash # NoHash, lock'[k].hash # lock[k].hash
          PROVE  /\ Rebuilt(lock[k].resolved)
                 /\ k \in recorded[i] /\ Hash(shipped[i][k]) # lock[k].hash
      <3>1. k \in recorded[i]
        BY <1>1, <2>2, Merged
      <3>2. /\ view[i][k] # NoPin /\ Summed(view[i][k]) /\ Summed(lock[k])
            /\ Hash(shipped[i][k]) # NoHash => view[i][k].hash \in {NoHash, Hash(shipped[i][k])}
        BY <1>1, <3>1 DEF IInv, Views, View, Digests
      <3>3. view[i][k].resolved = lock[k].resolved
        BY <1>1, <3>1, Agree
      <3>4. lock'[k].hash = view[i][k].hash /\ view[i][k].hash # NoHash
        <4>1. lock[k] \in Pins
          BY <1>1 DEF IInv, TypeOK, Locks
        <4>2. lock'[k] = [lock[k] EXCEPT
                            !.source = IF @ = "none" THEN view[i][k].source ELSE @,
                            !.hash = IF view[i][k].hash = NoHash THEN @ ELSE view[i][k].hash]
          BY <1>1, <3>1, <3>3 DEF Merge, Record
        <4> QED BY <2>2, <4>1, <4>2 DEF Pins
      <3>5. PICK r \in Releases, s \in Releases :
               Sum[r][lock[k].resolved] = lock[k].hash /\ Sum[s][lock[k].resolved] = lock'[k].hash
        BY <1>1, <2>2, <3>2, <3>3, <3>4 DEF Summed, Sums
      <3> QED BY <2>2, <3>1, <3>2, <3>4, <3>5 DEF Rebuilt
    <2> QED BY <2>1, <2>2
  <1>2. ASSUME IInv, [Next]_vars PROVE [Grows]_vars
    <2>1. CASE UNCHANGED lock
      BY <2>1
    <2>2. ASSUME NEW i \in Calls, Merge(i) PROVE Grows
      BY <1>1, <1>2, <2>2
    <2>3. [Next]_vars => UNCHANGED lock \/ Restart \/ \E i \in Calls : Merge(i)
      BY DEF Next, vars, callVars, Begin, Choose, EnsureCached, EnsureFetched, Abort,
             SaveTruncate, SaveWrite, Release, Evict
    <2> QED BY <1>2, <2>1, <2>2, <2>3
  <1>3. IInv /\ [Next]_vars => [Grows]_vars
    BY <1>2
  <1> QED BY <1>3, Inductive, PTL DEF Spec, PinsOnlyGrow
=============================================================================
