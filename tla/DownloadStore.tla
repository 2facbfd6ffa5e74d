---------------------------- MODULE DownloadStore ---------------------------
(***************************************************************************)
(* What EnsureDownload promises for one URL: whatever the server sends     *)
(* from one fetch to the next, a call is answered with a directory that    *)
(* holds one archive, whole, under that archive's digest, and with the one *)
(* its pin names if it has a pin; and what is cached stays until somebody  *)
(* removes it.                                                             *)
(***************************************************************************)
CONSTANTS
    Calls,       \* calls of EnsureDownload
    Archives,    \* what the URL may serve; each stands for its digest too
    Root,        \* the directory of each archive a command runs in
    NoPin,       \* the call has no expectedSHA
    NoEntry,     \* the cache answers nobody
    NoAnswer, Error

VARIABLES
    sent,        \* the calls that have found the archive they will be sent to
    entry,       \* the archive the cache holds under its digest
    tree,        \* the archive whose files are where an answer sends its caller
    pin, ans

StoreVars == <<sent, entry, tree, pin, ans>>

Answer(a) == [digest |-> a, root |-> Root[a]]

StoreInit ==
    /\ sent = {}
    /\ entry \in Archives \cup {NoEntry}
    /\ entry # NoEntry => tree = entry
    /\ pin = [i \in Calls |-> NoPin]
    /\ ans = [i \in Calls |-> NoAnswer]

Waiting(i) == ans[i] = NoAnswer /\ i \notin sent

Ask(i, e) ==
    /\ Waiting(i)
    /\ pin' = [pin EXCEPT ![i] = e]
    /\ UNCHANGED <<sent, entry, tree, ans>>

Find(i, e) ==
    /\ Waiting(i)
    /\ entry # NoEntry
    /\ e \in {NoPin, entry}
    /\ pin' = [pin EXCEPT ![i] = e]
    /\ sent' = sent \cup {i}
    /\ UNCHANGED <<entry, tree, ans>>

Mismatch(i, e) ==
    /\ Waiting(i)
    /\ entry # NoEntry
    /\ e \notin {NoPin, entry}
    /\ pin' = [pin EXCEPT ![i] = e]
    /\ ans' = [ans EXCEPT ![i] = Error]
    /\ UNCHANGED <<sent, entry, tree>>

(* The digest record is best effort: without it the archive answers this call
   and no other. *)
Fetch(i, a, kept) ==
    /\ Waiting(i)
    /\ entry = NoEntry /\ sent = {}
    /\ pin[i] \in {NoPin, a}
    /\ tree' = a
    /\ entry' = IF kept THEN a ELSE NoEntry
    /\ sent' = {i}
    /\ UNCHANGED <<pin, ans>>

(* What a call found is still there when it is answered. *)
Serve(i) ==
    /\ i \in sent
    /\ pin[i] \in {NoPin, tree}
    /\ ans' = [ans EXCEPT ![i] = Answer(tree)]
    /\ sent' = sent \ {i}
    /\ UNCHANGED <<entry, tree, pin>>

(* An entry that answers nobody may be on its way out. *)
Discard ==
    /\ entry = NoEntry /\ sent = {}
    /\ tree' = NoEntry
    /\ UNCHANGED <<sent, entry, pin, ans>>

(* Somebody removes the entry, as the mismatch message tells them to. *)
Remove ==
    /\ sent = {}
    /\ entry' = NoEntry
    /\ tree' = NoEntry
    /\ UNCHANGED <<sent, pin, ans>>

Refuse(i) ==
    /\ Waiting(i)
    /\ ans' = [ans EXCEPT ![i] = Error]
    /\ UNCHANGED <<sent, entry, tree, pin>>

(* Calls are over: their callers took the answer, or died. *)
Leave(S) ==
    /\ pin' = [i \in Calls |-> IF i \in S THEN NoPin ELSE pin[i]]
    /\ ans' = [i \in Calls |-> IF i \in S THEN NoAnswer ELSE ans[i]]
    /\ sent' = sent \ S
    /\ UNCHANGED <<entry, tree>>

StoreNext ==
    \/ \E i \in Calls :
        \/ \E e \in Archives \cup {NoPin} : Ask(i, e) \/ Find(i, e) \/ Mismatch(i, e)
        \/ \E a \in Archives, kept \in BOOLEAN : Fetch(i, a, kept)
        \/ Serve(i) \/ Refuse(i)
    \/ \E S \in SUBSET Calls : Leave(S)
    \/ Discard \/ Remove

StoreSpec == StoreInit /\ [][StoreNext]_StoreVars
=============================================================================
