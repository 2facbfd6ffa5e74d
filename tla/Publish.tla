------------------------------ MODULE Publish ------------------------------
(***************************************************************************)
(* modtool.Release (src/modtool/modtool.go): a module's repository is      *)
(* built for its platforms, archive by archive, into a directory whose     *)
(* index.yaml accumulates every release; the registry's publish step,      *)
(* which is external, signs that index and serves it.                      *)
(*                                                                         *)
(* A run builds one state of the source.  os.Create and os.WriteFile       *)
(* truncate a file and then write it, and the run may die in between; the  *)
(* next run finds what is there, and so does the first: an index may have  *)
(* been downloaded beforehand, without its archives.  A source may be      *)
(* edited without a new version.                                           *)
(***************************************************************************)
EXTENDS ModuleIndex

CONSTANTS
    Torn,      \* a file truncated and not yet written
    NoIndex,   \* no index.yaml
    Downloads  \* bound: the source and triples of an index downloaded beforehand

ASSUME AbsentAssumption == Absent \notin Sources \cup Triples
ASSUME DownloadsAssumption == Downloads \subseteq Sources \X ((SUBSET Triples) \ {{}})

VARIABLES
    archives,  \* the archive file of each version and triple: its source
    remote,    \* the archives that stayed where the index was downloaded from
    index,     \* index.yaml
    registry,  \* the index the registry serves
    pc,
    cur,       \* the source of the run, or Absent
    todo,      \* the triples it has still to build
    at,        \* the triple it is at, or Absent
    idx        \* the merged index it is about to write

vars == <<archives, remote, index, registry, pc, cur, todo, at, idx>>

Unreadable == {Torn, NoIndex}
Readable(i) == i \notin Unreadable

NoArtifacts ==
    [artifacts |-> [a \in Versions \X Triples |-> Absent],
     stamp |-> [v \in Versions |-> Absent]]

version == Source[cur].version

TypeOK ==
    /\ archives \in [Versions \X Triples -> Sources \cup {Absent, Torn}]
    /\ remote \in [Versions \X Triples -> Sources \cup {Absent}]
    /\ index \in Indexes \cup Unreadable
    /\ registry \in Indexes \cup {NoIndex}
    /\ pc \in {"idle", "next", "archive", "merge", "write"}
    /\ cur \in Sources \cup {Absent} /\ (cur = Absent <=> pc = "idle")
    /\ at \in Triples \cup {Absent} /\ (at = Absent <=> pc \in {"idle", "next"})
    /\ todo \subseteq Triples
    /\ idx \in Indexes \cup {NoIndex}
    /\ Readable(index) => \A v \in Versions :
          index.stamp[v] # Absent <=> \E t \in Triples : index.artifacts[<<v, t>>] # Absent

(* The registry's index, with one release. *)
Downloaded(d) ==
    LET v == Source[d[1]].version
    IN [artifacts |-> [a \in Versions \X Triples |-> IF a \in {v} \X d[2] THEN d[1] ELSE Absent],
        stamp |-> [w \in Versions |-> IF w = v THEN d[1] ELSE Absent],
        stable |-> v, signed |-> TRUE]

Init ==
    /\ archives = NoArtifacts.artifacts
    /\ index \in {NoIndex} \cup {Downloaded(d) : d \in Downloads}
    /\ remote = IF index = NoIndex THEN NoArtifacts.artifacts ELSE index.artifacts
    /\ registry = index
    /\ pc = "idle"
    /\ cur = Absent /\ todo = {} /\ at = Absent
    /\ idx = NoIndex

-----------------------------------------------------------------------------
\* the index is not asked before a build
PublishedUnasked(v, t) == FALSE
(* published: an index that cannot be read carries nothing. *)
Published(v, t) == Readable(index) /\ index.artifacts[<<v, t>>] # Absent

\* the release just built becomes stable
HeadsLast(start, S) == {start}
(* The loop over idx.Releases, in whatever order the map gives them: head[n] is
   the highest so far. *)
Heads(start, S) ==
    LET N == Cardinality(S)
        Orders == {o \in [1..N -> S] : \A v \in S : \E n \in 1..N : o[n] = v}
    IN {v \in S \cup {start} :
           \E o \in Orders, head \in [0..N -> S \cup {start}] :
              /\ head[0] = start /\ head[N] = v
              /\ \A n \in 1..N :
                    head[n] = IF Newer(o[n], head[n - 1]) THEN o[n] ELSE head[n - 1]}

\* the signature of the index read is written back
SignatureKept == Readable(index) /\ index.signed
(* The merged index never carries a stale signature. *)
Signature == FALSE

(* The release takes the protocol, doze and engines of the source at hand. *)
Stamp(rel, v) == [rel EXCEPT ![v] = cur]

(* mergeIndex's result: an index that does not parse is discarded. *)
Merges ==
    LET old == IF Readable(index) THEN index ELSE NoArtifacts
        stamp == Stamp(old.stamp, version)
    IN {[artifacts |-> [old.artifacts EXCEPT ![<<version, at>>] = cur],
         stamp |-> stamp,
         stable |-> head,
         signed |-> Signature] :
            head \in Heads(version, {v \in Versions : stamp[v] # Absent})}

(* The same version is in the index, built from another source.  While runs take
   turns no merge meets it: Build has asked Published. *)
Conflict == Published(version, at) /\ index.artifacts[<<version, at>>] # cur

-----------------------------------------------------------------------------
(* The run is over. *)
Over ==
    /\ pc' = "idle"
    /\ cur' = Absent /\ todo' = {} /\ at' = Absent
    /\ idx' = NoIndex

(* Release(m, outDir, buildTriples), on a source anyone may have edited. *)
Start(s, ts) ==
    /\ pc = "idle"
    /\ cur' = s /\ todo' = ts
    /\ pc' = "next"
    /\ UNCHANGED <<archives, remote, index, registry, at, idx>>

Skip(t) ==
    /\ pc = "next" /\ t \in todo
    /\ Published(version, t)
    /\ todo' = todo \ {t}
    /\ UNCHANGED <<archives, remote, index, registry, pc, cur, at, idx>>

(* go build succeeds and os.Create truncates the archive. *)
Build(t) ==
    /\ pc = "next" /\ t \in todo
    /\ ~Published(version, t)
    /\ archives' = [archives EXCEPT ![<<version, t>>] = Torn]
    /\ at' = t /\ todo' = todo \ {t}
    /\ pc' = "archive"
    /\ UNCHANGED <<remote, index, registry, cur, idx>>

WriteArchive ==
    /\ pc = "archive"
    /\ archives' = [archives EXCEPT ![<<version, at>>] = cur]
    /\ pc' = "merge"
    /\ UNCHANGED <<remote, index, registry, cur, todo, at, idx>>

(* mergeIndex up to the truncation of index.yaml, or its refusal. *)
Merge ==
    /\ pc = "merge"
    /\ IF Conflict
       THEN Over /\ UNCHANGED index
       ELSE /\ pc' = "write" /\ index' = Torn /\ idx' \in Merges
            /\ UNCHANGED <<cur, todo, at>>
    /\ UNCHANGED <<archives, remote, registry>>

WriteIndex ==
    /\ pc = "write"
    /\ index' = idx /\ idx' = NoIndex
    /\ at' = Absent
    /\ pc' = "next"
    /\ UNCHANGED <<archives, remote, registry, cur, todo>>

(* After the last triple: meta.yaml, a rendering of the source's description
   that no later step reads. *)
WriteMeta ==
    /\ pc = "next" /\ todo = {}
    /\ Over
    /\ UNCHANGED <<archives, remote, index, registry>>

(* The build or a write fails, or the process dies. *)
Stop ==
    /\ pc # "idle"
    /\ Over
    /\ UNCHANGED <<archives, remote, index, registry>>

(* The registry's publish step, between runs. *)
SignAndServe ==
    /\ pc = "idle"
    /\ Readable(index)
    /\ index' = [index EXCEPT !.signed = TRUE]
    /\ registry' = index'
    /\ UNCHANGED <<archives, remote, pc, cur, todo, at, idx>>

Next ==
    \/ \E s \in Sources, ts \in (SUBSET Triples) \ {{}} : Start(s, ts)
    \/ \E t \in Triples : Skip(t) \/ Build(t)
    \/ WriteArchive
    \/ Merge
    \/ WriteIndex
    \/ WriteMeta
    \/ Stop
    \/ SignAndServe

Spec == Init /\ [][Next]_vars

-----------------------------------------------------------------------------
(* Every artifact the index names is on disk, whole, built from the source the
   index says, or was left, untouched since, where the index was downloaded: a
   run that dies anywhere, starts again, or builds an edited source never leaves
   a checksum without its archive. *)
ArchivesMatch ==
    Readable(index) => \A a \in Versions \X Triples :
        index.artifacts[a] # Absent =>
            \/ archives[a] = index.artifacts[a]
            \/ archives[a] = Absent /\ remote[a] = index.artifacts[a]

(* The index on disk carries a signature only while it is what the registry
   signed ("never carry a stale signature past a mutation"). *)
SignatureFresh == Readable(index) /\ index.signed => index = registry

(* channels.stable is a release, and none is newer, whatever the order of the
   runs and of the map ("points channels.stable at the highest release"). *)
StableIsHighest ==
    Readable(index) =>
        /\ index.stable \in Releases(index)
        /\ \A v \in Releases(index) : ~Newer(v, index.stable)

-----------------------------------------------------------------------------
CONSTANTS Hosts, Majors  \* dozes that select, and what they declare

ASSUME HostAssumption == Hosts \subseteq [protocol : Nat, doze : Seq(Segments)]

Runs(host, majors) ==
    {v \in Releases(registry) :
        /\ Release(registry, v).protocol = host.protocol
        /\ Supports(Release(registry, v), majors)
        /\ ~(IsDozeVersion(host.doze) /\ TooNew(registry, v, host.doze))}

(* Every doze gets a release it can run if the registry serves one: stable, or
   else the newest ("so an older doze gets the newest release it can run"). *)
SelectsRunnable ==
    registry # NoIndex => \A host \in Hosts, majors \in Majors :
        LET found == SelectFor(registry, host, majors)
            runs == Runs(host, majors)
        IN IF runs = {} THEN found.kind # "release"
           ELSE /\ found.kind = "release" /\ found.version \in runs
                /\ \/ found.version = registry.stable
                   \/ registry.stable \notin runs
                      /\ \A v \in runs : ~Newer(v, found.version)

(* "needs doze X or newer. Update doze, then run the command again": the same
   command under doze X finds a release. *)
UpgradeHelps ==
    registry # NoIndex => \A host \in Hosts, majors \in Majors :
        LET found == SelectFor(registry, host, majors)
        IN found.kind = "doze" =>
              SelectFor(registry, [host EXCEPT !.doze = found.need], majors).kind = "release"

(* Selection serves every doze: with the release it should run, or with an
   answer that leads to one. *)
SelectServes == SelectsRunnable /\ UpgradeHelps

(* "Published artifacts are IMMUTABLE and never rebuilt", "Existing releases are
   preserved (publishing is cumulative)" (src/modtool/modtool.go): what the
   registry has served it goes on serving, byte for byte. *)
PublishingIsCumulative ==
    [][registry # NoIndex =>
          \A a \in Versions \X Triples :
              registry.artifacts[a] # Absent => registry'.artifacts[a] = registry.artifacts[a]]_vars
=============================================================================
