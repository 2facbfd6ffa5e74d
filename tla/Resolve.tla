------------------------------ MODULE Resolve ------------------------------
(***************************************************************************)
(* How a version spec becomes a frozen archive: engine.ResolveVia          *)
(* (src/engine/resolve.go) run inside a module's process on a copy of the  *)
(* lock, the host's fetcher it calls back into, and binaries.Lock          *)
(* (src/binaries/lock.go), which the host merges the answers into and      *)
(* saves.                                                                  *)
(*                                                                         *)
(* One daemon, any number of Resolve calls in flight, a mirror that moves  *)
(* on to new releases, a cache per full version that keeps the promises of *)
(* ToolchainStore, and a daemon that dies and reloads doze.lock.  The host *)
(* does not touch a Lock from two goroutines at once.                      *)
(***************************************************************************)
EXTENDS Naturals, Sequences

CONSTANTS
    Calls,      \* Resolve calls in flight
    Keys,       \* (engine, spec) keys of the lock
    Needs,      \* the keys each call's driver resolves, in order
    Exact,      \* the keys whose spec names a full version
    Engines, EngineOf,  \* the engine of each key
    Versions,   \* full artifact versions, each of one engine
    Archives,   \* archives; each stands for its digest too
    LastRelease, \* bound: the mirror goes through releases 1..LastRelease
    Full,       \* the version a release, or an exact spec, gives a key
    Sum,        \* the archive a release serves, and sums, for a version
    Listing,    \* whether the host's Locker is a LockLister; {TRUE} for a Lock
    NoRelease, NoPin, NoHash, NoEntry

Releases == 1..LastRelease

ASSUME ResolveAssumption ==
    /\ Needs \in [Calls -> Seq(Keys)]
    /\ \A i \in Calls : \A m, n \in DOMAIN Needs[i] : Needs[i][m] = Needs[i][n] => m = n
    /\ EngineOf \in [Keys -> Engines]
    /\ Exact \subseteq Keys
    /\ Full \in [Releases -> [Keys -> Versions]]
    /\ Sum \in [Releases -> [Versions -> Archives]]
    /\ \A r, s \in Releases, k \in Exact : Full[r][k] = Full[s][k]
    /\ LastRelease \in Nat \ {0}
    /\ NoRelease \notin Releases /\ NoHash \notin Archives

(* A pin: the resolved version, where it is from ("none" for an empty Source), its
   hash for this platform, and for another. *)
Pins == [resolved : Versions, source : {"none", "mirror"},
         hash : Archives \cup {NoHash}, far : Archives \cup {NoHash}]

ASSUME NoPinAssumption == NoPin \notin Pins
ASSUME ListingAssumption == Listing \subseteq BOOLEAN

VARIABLES
    mirror,     \* the release the mirror serves now
    memo,       \* Manager.manifests: the release of each engine's manifest
    cache,      \* the cache entry of each version, as ToolchainStore has it
    lock,       \* the daemon's Lock
    dirty,      \* Lock.dirty
    file,       \* doze.lock, as LoadLock reads it
    saving,     \* os.WriteFile has truncated doze.lock and not yet written it
    shipped,    \* ResolveRequest.Locked: the pins each call was sent
    view,       \* each call's mapLocker
    left,       \* the keys each call has still to resolve
    recorded,   \* mapLocker.order: the keys each call has recorded
    full, want, \* the version a call is at, and its expectedSHA
    pc

callVars == <<shipped, view, left, recorded, full, want, pc>>
vars == <<mirror, memo, cache, lock, dirty, file, saving, callVars>>

Locks == [Keys -> Pins \cup {NoPin}]
NoPins == [k \in Keys |-> NoPin]
Parts(l) == {[k \in Keys |-> IF k \in S THEN l[k] ELSE NoPin] : S \in SUBSET Keys}

Store == INSTANCE ToolchainStore WITH
    Installers <- Calls, Signed <- Archives, Absent <- NoHash, NoPin <- NoHash,
    NoAnswer <- NoPin, Error <- NoRelease,
    entry <- cache, pin <- want, ans <- pc

TypeOK ==
    /\ mirror \in Releases
    /\ memo \in [Engines -> Releases \cup {NoRelease}]
    /\ cache \in [Versions -> Store!Entries \cup {NoEntry}]
    /\ lock \in Locks /\ file \in Locks
    /\ dirty \in BOOLEAN /\ saving \in BOOLEAN
    /\ shipped \in [Calls -> Locks] /\ view \in [Calls -> Locks]
    /\ left \in [Calls -> Seq(Keys)]
    /\ recorded \in [Calls -> SUBSET Keys]
    /\ full \in [Calls -> Versions \cup {NoPin}]
    /\ want \in [Calls -> Archives \cup {NoHash}]
    /\ pc \in [Calls -> {"idle", "next", "ensure"}]
    /\ saving => dirty

(* A daemon with a lock that an earlier run, another machine or a person wrote:
   its pins may carry a hash for the other platform only, and no source. *)
Init ==
    /\ mirror = 1
    /\ memo = [g \in Engines |-> NoRelease]
    /\ cache = [v \in Versions |-> NoEntry]
    /\ \E k \in Keys :
          file \in {NoPins,
                    [NoPins EXCEPT ![k] = [resolved |-> Full[1][k], source |-> "none",
                                           hash |-> NoHash, far |-> Sum[1][Full[1][k]]]]}
    /\ lock = file
    /\ dirty = FALSE /\ saving = FALSE
    /\ shipped = [i \in Calls |-> NoPins]
    /\ view = [i \in Calls |-> NoPins]
    /\ left = [i \in Calls |-> <<>>]
    /\ recorded = [i \in Calls |-> {}]
    /\ full = [i \in Calls |-> NoPin]
    /\ want = [i \in Calls |-> NoHash]
    /\ pc = [i \in Calls |-> "idle"]

-----------------------------------------------------------------------------
\* the plugin's pin replaces the host's, other platforms' hashes with it
RecordReplaced(p, q) == q
(* Lock.Record(q): a new version starts a new pin; the same one gains the hash,
   and the source where it had none. *)
Record(p, q) ==
    IF p = NoPin \/ p.resolved # q.resolved THEN q
    ELSE [p EXCEPT !.source = IF @ = "none" THEN q.source ELSE @,
                   !.hash = IF q.hash = NoHash THEN @ ELSE q.hash]

\* only a new pin marks the lock dirty, not a merged hash
DirtiesOnNewOnly(l) == \E k \in Keys : lock[k] = NoPin /\ l[k] # NoPin
(* Every change Record makes sets dirty. *)
Dirties(l) == l # lock

(* fetchManifest: the manifest fetched first is kept for the Manager's life. *)
Manifest(k) ==
    IF memo[EngineOf[k]] = NoRelease THEN mirror ELSE memo[EngineOf[k]]

\* the hash a pin carries is not passed on to Ensure
PinnedHashDropped(p) == NoHash
(* ResolveVia: expectedSHA is the pin's hash for this platform. *)
PinnedHash(p) == p.hash

(* dirty is cleared after the write only. *)
StillDirty == TRUE

-----------------------------------------------------------------------------
(* The calls of S are over, and their mapLockers with them. *)
Gone(S) ==
    /\ pc' = [i \in Calls |-> IF i \in S THEN "idle" ELSE pc[i]]
    /\ shipped' = [i \in Calls |-> IF i \in S THEN NoPins ELSE shipped[i]]
    /\ view' = [i \in Calls |-> IF i \in S THEN NoPins ELSE view[i]]
    /\ left' = [i \in Calls |-> IF i \in S THEN <<>> ELSE left[i]]
    /\ recorded' = [i \in Calls |-> IF i \in S THEN {} ELSE recorded[i]]
    /\ full' = [i \in Calls |-> IF i \in S THEN NoPin ELSE full[i]]
    /\ want' = [i \in Calls |-> IF i \in S THEN NoHash ELSE want[i]]

(* pluginDriver.Resolve serves the fetcher and ships every pin of the lock, or,
   when the Locker cannot list them, the one of the spec asked for: a driver's
   own comes first in what it needs. *)
Begin(i, lists) ==
    LET sent == IF lists THEN lock
                ELSE [k \in Keys |-> IF <<k>> = SubSeq(Needs[i], 1, 1) THEN lock[k] ELSE NoPin]
    IN
    /\ pc[i] = "idle" /\ ~saving
    /\ shipped' = [shipped EXCEPT ![i] = sent]
    /\ view' = [view EXCEPT ![i] = sent]
    /\ left' = [left EXCEPT ![i] = Needs[i]]
    /\ recorded' = [recorded EXCEPT ![i] = {}]
    /\ pc' = [pc EXCEPT ![i] = "next"]
    /\ UNCHANGED <<mirror, memo, cache, lock, dirty, file, saving, full, want>>

(* ResolveVia's first half: the pin, else an exact spec, else the mirror. *)
Choose(i) ==
    /\ pc[i] = "next"
    /\ left[i] # <<>>
    /\ LET k == Head(left[i]) IN
       \/ /\ view[i][k] # NoPin
          /\ full' = [full EXCEPT ![i] = view[i][k].resolved]
          /\ want' = [want EXCEPT ![i] = PinnedHash(view[i][k])]
          /\ UNCHANGED memo
       \/ /\ view[i][k] = NoPin
          /\ k \in Exact
          /\ full' = [full EXCEPT ![i] = Full[mirror][k]]
          /\ want' = [want EXCEPT ![i] = NoHash]
          /\ UNCHANGED memo
       \/ /\ view[i][k] = NoPin
          /\ k \notin Exact
          /\ full' = [full EXCEPT ![i] = Full[Manifest(k)][k]]
          /\ want' = [want EXCEPT ![i] = NoHash]
          /\ memo' = [memo EXCEPT ![EngineOf[k]] = Manifest(k)]
    /\ pc' = [pc EXCEPT ![i] = "ensure"]
    /\ UNCHANGED <<mirror, cache, lock, dirty, file, saving, shipped, view, left, recorded>>

(* mapLocker.Record, and on to the next component. *)
Pinned(i, h) ==
    LET k == Head(left[i]) IN
    /\ view' = [view EXCEPT ![i][k] = [resolved |-> full[i], source |-> "mirror",
                                      hash |-> h, far |-> NoHash]]
    /\ recorded' = [recorded EXCEPT ![i] = @ \cup {k}]
    /\ left' = [left EXCEPT ![i] = Tail(@)]
    /\ full' = [full EXCEPT ![i] = NoPin]
    /\ want' = [want EXCEPT ![i] = NoHash]
    /\ pc' = [pc EXCEPT ![i] = "next"]
    /\ UNCHANGED shipped

(* Fetcher.Ensure answered from the cache. *)
EnsureCached(i) ==
    LET en == cache[full[i]] IN
    /\ pc[i] = "ensure"
    /\ en # NoEntry
    /\ Store!HitAnswer(en, want[i]) # NoRelease
    /\ Pinned(i, Store!HitAnswer(en, want[i]))
    /\ UNCHANGED <<mirror, memo, cache, lock, dirty, file, saving>>

(* Fetcher.Ensure downloaded what the mirror serves now and checked it against
   the pin, else against the manifest it remembers; the digest record in the
   cache may be lost. *)
EnsureFetched(i, d) ==
    LET k == Head(left[i])
        a == Sum[mirror][full[i]]
    IN
    /\ pc[i] = "ensure"
    /\ cache[full[i]] = NoEntry
    /\ a = IF want[i] # NoHash THEN want[i] ELSE Sum[Manifest(k)][full[i]]
    /\ d \in {a, NoHash}
    /\ memo' = [memo EXCEPT ![EngineOf[k]] = Manifest(k)]
    /\ cache' = [cache EXCEPT ![full[i]] = [tree |-> a, digest |-> d]]
    /\ Pinned(i, a)
    /\ UNCHANGED <<mirror, lock, dirty, file, saving>>

(* Any call of the fetcher fails, or the module's process dies: the host gets
   an error and nothing the driver recorded so far. *)
Abort(i) ==
    /\ pc[i] # "idle"
    /\ Gone({i})
    /\ UNCHANGED <<mirror, memo, cache, lock, dirty, file, saving>>

(* The reply's recorded pins are merged into the host's lock. *)
Merge(i) ==
    /\ pc[i] = "next" /\ ~saving
    /\ left[i] = <<>>
    /\ lock' = [k \in Keys |->
                   IF k \in recorded[i]
                   THEN Record(lock[k], view[i][k])
                   ELSE lock[k]]
    /\ dirty' = (dirty \/ Dirties(lock'))
    /\ Gone({i})
    /\ UNCHANGED <<mirror, memo, cache, file, saving>>

(* Lock.Save: os.WriteFile truncates doze.lock, then writes it. *)
SaveTruncate ==
    /\ dirty /\ ~saving
    /\ file' = NoPins
    /\ saving' = TRUE
    /\ dirty' = StillDirty
    /\ UNCHANGED <<mirror, memo, cache, lock, callVars>>

SaveWrite ==
    /\ saving
    /\ file' = lock
    /\ saving' = FALSE
    /\ dirty' = FALSE
    /\ UNCHANGED <<mirror, memo, cache, lock, callVars>>

(* The daemon dies and starts again: LoadLock reads whatever is in doze.lock,
   and one cut short in a save has some of the pins, or none. *)
Restart ==
    /\ file' \in IF saving THEN Parts(lock) ELSE {file}
    /\ lock' = file'
    /\ dirty' = FALSE /\ saving' = FALSE
    /\ memo' = [g \in Engines |-> NoRelease]
    /\ Gone(Calls)
    /\ UNCHANGED <<mirror, cache>>

(* A new release is uploaded. *)
Release ==
    /\ mirror < LastRelease
    /\ mirror' = mirror + 1
    /\ UNCHANGED <<memo, cache, lock, dirty, file, saving, callVars>>

(* Somebody removes a cache entry, as the mismatch message tells them to. *)
Evict(v) ==
    /\ cache' = [cache EXCEPT ![v] = NoEntry]
    /\ UNCHANGED <<mirror, memo, lock, dirty, file, saving, callVars>>

Next ==
    \/ \E i \in Calls :
          \/ \E lists \in Listing : Begin(i, lists)
          \/ Choose(i) \/ EnsureCached(i) \/ Abort(i) \/ Merge(i)
          \/ \E d \in Archives \cup {NoHash} : EnsureFetched(i, d)
    \/ SaveTruncate \/ SaveWrite \/ Restart
    \/ Release
    \/ \E v \in Versions : Evict(v)

Spec == Init /\ [][Next]_vars

-----------------------------------------------------------------------------
(* A mirror that serves another archive under the same version. *)
Rebuilt(v) == \E r, s \in Releases : Sum[r][v] # Sum[s][v]

Hash(p) == IF p = NoPin THEN NoHash ELSE p.hash

(* However many calls resolve the same spec at once, and whatever the mirror releases
   meanwhile, no call moves a pin to another version, drops another platform's
   hash, or says that it came from elsewhere.  This platform's hash moves only where one version was built
   twice, and under a call that was sent the pin without it, or with another. *)
PinsOnlyGrow ==
    [][~Restart => \A k \in Keys : lock[k] # NoPin =>
          /\ lock'[k] # NoPin
          /\ lock'[k].resolved = lock[k].resolved /\ lock'[k].far = lock[k].far
          /\ lock[k].source \in {"none", lock'[k].source}
          /\ \/ lock[k].hash \in {NoHash, lock'[k].hash}
             \/ /\ Rebuilt(lock[k].resolved)
                /\ \E i \in Calls : k \in recorded[i] /\ Hash(shipped[i][k]) # lock[k].hash]_vars

(* Every variable keeps its type, a save under way keeps the lock dirty, and a
   clean lock is on disk: Save writing nothing never loses a pin. *)
CleanMeansSaved == TypeOK /\ (~dirty => file = lock)

(* "every machine gets byte-identical binaries" (lock.go:23) is up to each call:
   one that was sent a pin answers with that version and that digest, unless the
   cache kept none; and what two calls answer for one spec, and the lock holds
   by then, is one version. *)
PinHonoured ==
    \A i \in Calls : \A k \in recorded[i] :
        /\ lock[k] # NoPin => view[i][k].resolved = lock[k].resolved
        /\ shipped[i][k] # NoPin =>
              /\ view[i][k].resolved = shipped[i][k].resolved
              /\ shipped[i][k].hash # NoHash => view[i][k].hash \in {NoHash, shipped[i][k].hash}
        /\ \A j \in Calls : k \in recorded[j] => view[i][k].resolved = view[j][k].resolved
=============================================================================
