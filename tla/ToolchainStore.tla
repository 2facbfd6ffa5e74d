--------------------------- MODULE ToolchainStore --------------------------
(***************************************************************************)
(* What the toolchain cache promises for one (engine, version, platform):  *)
(* an entry appears whole, in one step, and never changes again; a call    *)
(* installs only an archive its pin and the publisher's key allow; and a   *)
(* pinned call is never satisfied by an entry recorded under another       *)
(* digest.                                                                 *)
(***************************************************************************)
CONSTANTS
    Installers,  \* callers of Ensure and EnsureArtifact
    Archives,    \* archives; each stands for its digest too
    Signed,      \* the archives the SigningKey accepts (all, without a key)
    Absent,      \* no digest is recorded for the entry
    NoPin,       \* the caller has no expectedSHA
    NoEntry,     \* the cache holds nothing usable
    NoAnswer,    \* the caller's call has not answered
    Error        \* the call failed

VARIABLES
    entry,       \* the cache entry: its tree and its recorded digest
    pin,         \* each caller's expectedSHA
    ans          \* each caller's answer: the digest, or Error

StoreVars == <<entry, pin, ans>>

Entries == [tree : Archives, digest : Archives \cup {Absent}]

StoreInit ==
    /\ entry \in {NoEntry} \cup [tree : Signed, digest : Archives \cup {Absent}]
    /\ entry # NoEntry => entry.digest \in {entry.tree, Absent}
    /\ pin = [i \in Installers |-> NoPin]
    /\ ans = [i \in Installers |-> NoAnswer]

(* The answer an entry gives to a caller that pins e. *)
HitAnswer(en, e) ==
    IF e # NoPin /\ en.digest \notin {Absent, e} THEN Error ELSE en.digest

Ask(i, e) ==
    /\ ans[i] = NoAnswer
    /\ pin' = [pin EXCEPT ![i] = e]
    /\ UNCHANGED <<entry, ans>>

Serve(i, e) ==
    /\ ans[i] = NoAnswer
    /\ entry # NoEntry
    /\ pin' = [pin EXCEPT ![i] = e]
    /\ ans' = [ans EXCEPT ![i] = HitAnswer(entry, e)]
    /\ UNCHANGED entry

(* The digest record is best effort: its write may fail unnoticed. *)
Install(i, a, d) ==
    /\ ans[i] = NoAnswer
    /\ entry = NoEntry
    /\ a \in Signed
    /\ pin[i] \in {NoPin, a}
    /\ d \in {a, Absent}
    /\ entry' = [tree |-> a, digest |-> d]
    /\ ans' = [ans EXCEPT ![i] = a]
    /\ UNCHANGED pin

Refuse(i) ==
    /\ ans[i] = NoAnswer
    /\ ans' = [ans EXCEPT ![i] = Error]
    /\ UNCHANGED <<entry, pin>>

(* The caller takes the answer, or dies. *)
Leave(i) ==
    /\ ans' = [ans EXCEPT ![i] = NoAnswer]
    /\ UNCHANGED <<entry, pin>>

StoreNext ==
    \E i \in Installers :
        \/ \E e \in Archives \cup {NoPin} : Ask(i, e) \/ Serve(i, e)
        \/ \E a \in Archives, d \in Archives \cup {Absent} : Install(i, a, d)
        \/ Refuse(i)
        \/ Leave(i)

StoreSpec == StoreInit /\ [][StoreNext]_StoreVars
=============================================================================
