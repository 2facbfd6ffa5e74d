# A TLA+ model of doze-sdk

doze-sdk is the Go library that doze engines are written with: the contract a
driver implements (`engine/`), the plugin protocol over go-plugin and gRPC with
its host side (`plugin/`), a verified download cache and lockfile (`binaries/`),
the registry's module index (`modindex/`), the release tool (`modtool/`) and a
conformance harness (`enginetest/`). This directory models the parts of it that
keep state: what a schedule, a crash, a stale answer or a half-done step could
break, and a unit test would hardly reach.

All paths below are relative to `src/`. `PROJECT.json` maps every definition to
the lines it models, and lists the runs, the hazards, the findings and the
theorems.

To check a run: `tlc -workers 2 -config MCPublish.cfg MCPublish`; to check the
proofs: `tlapm HostProofs.tla`.

## 1. The system

| Component | State | Operations | What is hard about it |
|---|---|---|---|
| Plugin manager and host (`plugin/manager.go`, `host.go`) | table of hosts, table of launch failures, mutex, the processes | `Driver`, `Lookup`, `LaunchError`, `Close`, `Launch`, `Alive` | many goroutines; a launch waits under the mutex; processes die; the resolver is asked outside the mutex |
| Toolchain cache (`binaries/binaries.go`) | `contentDir`, `contentDir.tmp`, the digest record, the manifest memo | `Ensure`, `EnsureArtifact`, `fetchManifest`, `ensureDownload` | non-atomic directory operations, crashes, fixed names shared by callers |
| Lockfile (`binaries/lock.go`) | pins of engines, downloads and modules, `dirty`, `doze.lock` | `Get`, `Record`, `Entries`, `RecordDownload`, `RecordModule`, `DropModule`, `Save`, `LoadLock` | snapshots of it travel to plugins and come back as merges; a torn write; pins of an older doze |
| Resolve flow (`engine/resolve.go`, `plugin/fetch.go`, `adapter.go`, `server.go`) | a plugin's copy of the pins, what it recorded | `ResolveVia`, the fetcher's calls, the merge | concurrent calls with stale snapshots, a mirror that moves on, a call that fails half-way |
| Wire handoff (`plugin/wire.go`, `wireserver.go`, `fd_unix.go`) | one conversation per connection over a side channel, two copy loops, the cancel registry, idle accounting | `Handoff`, `handle`, `spliceConns`, `wireAddr` | two processes, two goroutines, a client and a backend that go away in any order |
| Template directories (`engine/template.go`) | the template, temporary and data directories | `EnsureTemplateDir`, `CloneTemplateDir` | several boots race for one rename |
| Module publishing and index (`modtool/`, `modindex/`) | archives, `index.yaml`, `channels.stable`, the signature | `Release`, `Build`, `mergeIndex`; `Select`, `SelectFor` | read-modify-write of a file in place, runs that die, sources edited without a version, dozes of every age |
| Download cache (`binaries/download.go`) | a directory per URL, its digest record | `EnsureDownload` | as the toolchain cache, with a deferred cleanup |
| Stale pid locks (`engine/stalelock.go`) | a pid file | `ClearStaleLock` | read, judge, remove by name |
| Plugin calls and capabilities (`plugin/adapter.go`, `server.go`, `report.go`) | the advertised set, the boot budget, the console's spec asked once | `newPluginDriver`, `Capabilities`, `wrapCaps`, every call of the adapter and its handler | a module that dies before or after it did what was asked; wrappers, guards and assertions that must agree |
| Console tail (`plugin/server.go`, `adapter.go`) | a channel of 64 rows, a stream | `Tail` | producer, stream and reader end in any order |
| Conformance harness (`enginetest/`, `engine/spawn.go`) | the specs still to start, the processes it knows, the deadline | `Boot`, `spawn`, `waitReady`, `runHooks`, `Converge`, `stop`, `CheckNetwork` | processes that die, hang, fork or ignore SIGTERM at any point of an order of calls |
| Network vocabulary (`engine/network.go`) | none | `ValidateNetwork`, `RouteHost`, `Grant` | a module's test, every host and the module read it alike |
| Conversions (`plugin/conv.go`, `proto/engine.pb.go`) | none | `*ToProto`, `*FromProto` | a field that is forgotten; nil and empty; 32-bit integers |
| Contract, entry points, console rendering, examples | none | | data only |

How they interact. The daemon asks the **manager** for a driver; the manager
launches the module's process through the **host** and gives back an adapter.
A boot asks the adapter to **resolve** a version: the adapter ships the lock's
pins and serves a fetcher, the module's `ResolveVia` calls back into the
daemon's **toolchain cache**, and the pins it recorded are merged into the
**lockfile**. The driver builds its data directory, often from a **template**.
A client's connection goes to the module by **handoff**, and the module asks
the daemon to boot the backend and to count the connection. Apart from that,
**publishing** writes the index from which a doze **selects** the release of a
module that the manager will launch. A service's command comes from the
**download cache**, under a pin of the same lockfile. Whatever host and module
tell each other, a **network** and its grant among it, crosses as messages. The
**harness** puts a driver through the order of calls the daemon makes.

What makes each correct:

- *manager*: no process without an owner, never two of a type, nothing left
  after Close, every call returns;
- *cache*: what reads as a hit is one signed archive, whole; a pin is honoured;
  leftovers of a crash never break a later call;
- *lock and resolve*: a pin never changes version or digest by itself; what is
  clean is saved;
- *handoff*: accounting balances, announcements precede bytes, keys do not
  outlive connections, the conversation ends;
- *downloads*: as the cache, with nothing left behind by a call that ends, and a
  pin that stays whoever fetched first;
- *harness*: a spec starts when what it comes after is ready, a verdict is right,
  nothing is left running, and every boot and its clean-up end;
- *exchange*: a value arrives as it was sent, a module listens where the host
  forwards, a network the author's test accepts is one the host takes;
- *templates*: whole or absent, never replaced, losers served;
- *calls*: the host cannot tell a module from a driver compiled in; a failure is
  never a silent default; a stream loses no row and leaves no goroutine;
- *publishing*: a checksum has its archive, a signature covers what it signs,
  stable is the highest, a doze selects what it can run.

## 2. The modules

| Module | Models | EXTENDS / INSTANCE |
|---|---|---|
| `ModuleTable` | abstract: what the manager promises of processes and drivers | |
| `PluginManager` | manager and host | `Table == INSTANCE ModuleTable WITH ...` |
| `PluginShutdown` | the daemon's one Close, for the first finding | `PluginManager` |
| `ToolchainStore` | abstract: what the cache promises | |
| `ToolchainCache` | the cache, file by file | `Store == INSTANCE ToolchainStore WITH ...` |
| `ToolchainCacheProofs` | theorems about it, the refinement included | `ToolchainCache`, `TLAPS` |
| `Resolve` | resolve flow, lock, fetcher | instantiates `ToolchainStore` for what a cache hit answers |
| `ResolveProofs` | theorems about it | `Resolve`, `TLAPS` |
| `DownloadStore` | abstract: what `EnsureDownload` promises | |
| `DownloadCache` | the download cache, file by file, and the lock's other layers | `Store == INSTANCE DownloadStore WITH ...` |
| `DownloadCacheProofs` | theorems about it, the refinement included | `DownloadCache`, `TLAPS` |
| `WireHandoff` | both ends of a handoff | |
| `HostProofs` | theorems about it and about the process table | `PluginManager`, `WireHandoff`, `FiniteSetTheorems`, `TLAPS` |
| `TemplateDir` | templates and clones | |
| `Boot` | the harness and the processes it starts | |
| `BootProofs` | theorems about it and about the templates its drivers use | `Boot`, `TemplateDir`, `SequenceTheorems`, `TLAPS` |
| `WireValues` | the values, their messages and the conversions, as operators | |
| `Networks` | valid networks, hosts of routes, grants, as operators | `WireValues` |
| `Exchange` | a host, a module and its author's test | `Networks` |
| `ExchangeProofs` | theorems about the three | `Exchange`, `SequenceTheorems`, `TLAPS` |
| `ModuleIndex` | version order and release selection, as operators | |
| `Publish` | the release tool and the registry's signature | `ModuleIndex` |
| `PublishProofs` | theorems about both | `Publish`, `FiniteSetTheorems`, `WellFoundedInduction`, `TLAPS` |
| `ConsoleTail` | one stream of a console, its three goroutines | |
| `PluginCalls` | the adapter, the server around a driver, a module that dies | `ConsoleTail` |
| `PluginCallsProofs` | theorems about both | `PluginCalls`, `SequenceTheorems`, `TLAPS` |
| `MC*` | values of the constants for TLC | |

In every module a definition that a slip in the code would change is an
operator of its own, and the line before it gives that slip under a name of its
own (`KillOnError` and `KillOnErrorForgotten`): replacing the one by the other
must break a property.

### ModuleTable and PluginManager

In the table a process is launched for a type that has none running, a driver is handed
out for the running process of the type (or a dead one, if none runs), processes exit,
and all are reaped at once. Processes and their types are the real ones (`alive`,
`kind`); only the callers' drivers are mapped (`Using`), so a second process cannot hide
behind the mapping.

`hosts` and `failed` are the manager's two maps, `mu` the holder of its mutex.
A section of code that runs under the mutex and waits for nothing is one action
guarded by `mu = Free`. Only `Launch` waits, for the module's handshake and its
`Type` and `Capabilities` answers, so it is three steps (`StartLaunch`,
`Answered`, `LaunchOK` or `LaunchFailed`) between which anything else may
happen. `Resolve` is the line before the lock: its answer `ok` may be stale when
it is used. `Crash` is the exit of a process, `Reinstall` a change of what the
resolver answers. A process identity is used again once nothing refers to it.

### ToolchainStore and ToolchainCache

In the store an entry appears in one step, installed only if pin and signature
allow it, and stays. The cache is the code: a call removes `tmp` one path at a
time, extracts one file at a time, writes the digest record (whose failure it
ignores), removes `contentDir` one path at a time and renames. A call may die
between any two. The refinement mapping reads the cache as a caller does: it
has an entry if there is something under `bin/`; the entry's tree is where those
files came from and its digest is the record. The mirror may serve a correct
archive, another one, an unsigned one, or one with no executables, under any
checksum of its manifest. The code ignores the errors of its removals, of the moves
that bring an archive's inner directory up, and of symlinks: `Stuck` are the paths
for which they fail, so `TmpCleared` and `ContentCleared` wait only for the others to go,
and `MovedUp` may leave one out.

`Resolve` uses the store's `Entries` and `HitAnswer` for its cache, which is
what the refinement justifies: one `EnsureFetched` or `EnsureCached` is one step.

### Resolve

A `Call` is a plugin's Resolve with the specs it needs (a composite needs
several). `Begin` ships the lock (`shipped`), which becomes the call's
`mapLocker` (`view`); `Choose` is the first half of `ResolveVia` (the pin, an
exact spec, or the mirror's version for the spec, from the manifest the manager
remembers); `EnsureCached` and `EnsureFetched` are the second; `Merge` records
the reply's pins in the lock as it is by then; `Abort` loses them.
`SaveTruncate` and `SaveWrite` are `os.WriteFile`. `Restart` is the daemon's
death at any step and `LoadLock`; a save cut short leaves some of the pins (`Parts`).
A pin keeps this platform's hash and another's (`far`), because a merge must not drop
the latter, and where it came from (`source`). `Listing` says whether the Locker can
list its pins: if not, a call is sent the pin of its own engine and spec alone
(`plugin/adapter.go:281`).

### DownloadStore and DownloadCache

The store has one URL: whatever the server sends from one fetch to the next, an
answer is one archive, whole, under its digest, and the pinned one. The cache
is `EnsureDownload`: `tmp` is removed path by path, the body streamed and hashed
(`Stream`), unpacked file by file, the digest record written (its failure
ignored), `contentDir` removed and `tmp` renamed, and the deferred
`RemoveAll` runs (`Deferred`, place `cleanup`). `archiveRoot` reads the directory in
a step of its own, after a hit as after a rename (places `hit` and `root`, `ReadRoot`;
the store's `sent`). A call may fail in each of them or die between any two. `Stuck` is
as in the toolchain cache. An archive that is cut short, or has a path outside, is in
`Broken`. The callers ask with what the lock pins, and record the answer
(`Return`). Beside the download a lock pins a module, and `LoadLock` drops a
module pin that an older doze wrote, which makes the lock dirty from the start. A
save cut short leaves nothing, or the modules without the downloads (`Cuts`: the order
of `Lock`'s fields). `Overlap` says whether two calls may fetch at once, and whether an
entry may be removed by hand bit by bit and under a call that is reading it (`Evict`).

### Boot

`pc` is where the test's goroutine is: `bootBody` up to the cleanup's
registration, `spawn` (the first spec of `remaining` whose dependencies are
ready, `startSpec`, `waitReady`, `runHooks`), `Converge`, the test, `stop`. `leader`
and `member` are a spec's process and a child it forked; they serve, fork, exit
and ignore SIGTERM as they like, and a dead process leaves its line in its log.
`late` is the deadline, one for all specs. `Fatal` is `t.Fatalf`: it ends the
goroutine and runs the cleanup if one is registered.

### WireValues, Networks and Exchange

`WireValues` has each conversion of `conv.go` as an operator on records, with nil,
an empty slice or map, and 32-bit integers kept apart: protobuf sends no empty
field, so what arrives is nil. A console's tree, which `nodeToProto` and
`nodeFromProto` convert by recursion over `Children`, is here the depth-first list of
its nodes with their depths: the recursion does one thing to every node and keeps the
shape, so a node's conversion and that each is converted once is what is left of it.
The `*Msg` definitions are mapped to the whole generated types, nil-safe getters
included, of which they keep the fields. A string is a sequence of characters of which
`Networks` looks at the kind. `Exchange` is the one instance: `CheckNetwork` in the
author's test asks twice; the host asks (a module that dies, cannot decode, or
does not advertise `Networked` leaves an empty network), judges, and grants;
then it carries the granted instance and every kind of
argument and answer. What the host does with a network is not in this
repository; `Taken` and `Grants` are read from what the vocabulary's
documentation asks of it, and marked external. The documentation says two things
(section 4), so `Grants` has three choices: names and addresses, addresses alone, or
nothing. `Forwards` is where such a host sends a listener's connections, `Listens`
where a module that reads its instance listens.

### WireHandoff

`hpc` is where `Handoff` is, `ppc` where the plugin's `handle` is, `toHost` and
`toPlugin` the two directions of the side channel. Steps of the driver
(`Preamble`, `Handshake`) take any outcome `engine.ProxyFilter` allows. A side channel that closes ends `Handoff` well
(`HostEOF`) or with an error (`HostReadFails`), as what the host had sent was read or
not; a plugin that gets no descriptor closes it without a word (`NotReceived`). What
neither side controls is explicit: the client goes, the plugin's process dies
(its sockets close, what it wrote can still be read), the backend stops.

### TemplateDir

A file of a directory holds the boot whose `init` wrote it, so that a mix of two
templates is told from one. `init`, removal and `cp` work file by file. A rename
is atomic and fails onto a directory with files. A boot may fail or die at any
step and be tried again with the same data directory. The code ignores the error of
its removal: `Immovable` are the files that stay, and into a directory that is still
there `cp` copies the template beside what it holds (state `inside`).

### ModuleIndex and Publish

A version is a sequence of segments; of a segment `CompareVersions` sees the
number it parses to and its place in the order of strings. `Select` and
`SelectFor` are operators on an index. In `Publish` a run builds one *source*
(a state of the module's repository) for some triples: `published` is asked,
the archive is truncated and written, the index is read and merged, truncated
and written. The run can end at any step. The next one may build another
source, a bumped version or an edit of the same one. The first may find an index that
was downloaded beforehand (`Downloaded`), whose archives stayed where they were
(`remote`). `Conflict` is `mergeIndex`'s refusal of a version built from another source:
no merge meets it, since `Build` has asked `published` first, and `NoConflict` proves
that it never does while runs take turns. `SignAndServe` is the
registry's publish step, which is not in this repository; it signs what is on
disk and serves it. The iteration over `idx.Releases` that chooses `stable` is
done in every order.

### ConsoleTail and PluginCalls

`ConsoleTail` is the actions of one stream, without a specification of its own:
`producer` is where the goroutine with the driver's `Tail` is, `handler` where
`engineServer.Tail` is, `host` where `pluginDriver.tail` is. `out` is the channel
between the first two, `wire` the rows gRPC carries between the last two, of
which its flow control lets `Window` be under way. A row is its number, so that
a lost, doubled or swapped one shows. `done`, `stopped` and `hungUp` are the
channel of that name, `cancel` and the end of `stream.Context()`. The driver may
return when it likes; a `Send` may fail because the host hung up, or because the
row has a cell that is not UTF-8.

`PluginCalls` puts it in a module's life: `newPluginDriver` asks for the type and
the capabilities, then one goroutine of the host makes any calls. `Needs` says
which interface a call is a method of. A call ends in the adapter (`Absent`: the
host's type assertion fails on the wrapper; `NotAdvertised`: a `has` guard;
`CannotEncode`; `Remembered`: `consoleOnce`), or it is sent, served by the
driver (`Serve`), by a handler whose own assertion fails (`ServeLacking`) or not
at all (`ServeMangled`), and received, unless the module has died by then
(`Lost`), done or not. `word` is what the driver did and `outcome` what the host
took from the call: the properties compare the two.

What it leaves out: the second goroutine of the host (the adapter keeps nothing
between calls but `console`, which a `sync.Once` guards), and what calls and
answers say.

## 3. The runs

| Run | Result | Question |
|---|---|---|
| `plugin_manager` | passes | is every process owned, single, reaped, is a driver the running process's, and does every call return, with 2 callers, 2 types, crashes and reinstalls? |
| `plugin_shutdown` | violation | does anything outlive the daemon's one Close? |
| `toolchain_cache` | passes | does the cache with crashes implement the store, for one installer? |
| `toolchain_shared` | violation | and for two installers that share `contentDir.tmp`? |
| `resolve` | passes | do pins only grow, are they honoured, and is a clean lock on disk, for two calls at once, a mirror that moves on, evictions and restarts? |
| `downloads` | passes | does the download cache with crashes implement its store, clean up, and keep pins? |
| `wire_handoff` | passes | does accounting balance and does every handoff end, for two sessions and a cancel request? |
| `template_dir` | passes | are templates whole and kept, and clones of one template? |
| `publish` | passes | do checksums, signatures, stable and selections stay right through crashes and edits? |
| `plugin_calls` | passes | does the host hear what the driver said, does every failure show, does a stream lose a row or leave a goroutine behind? |
| `boot` | passes | are specs started in order and after their gates, verdicts right, and is nothing left running, whatever the processes do? |
| `exchange` | passes | does every value arrive, does a module listen where the host forwards, does a checked network get taken, are hosts apart? |

### Bounds, and why they are enough

- `plugin_manager`: two callers and two types are the least with which callers
  contend for one type and for the mutex only; three process identities are as
  many as can be referred to at once without a launch waiting for one. No
  counter is bounded: processes are used again, so runs are unlimited.
- `toolchain_cache`: one file under `bin/` and one elsewhere, four archives (two
  a mirror may serve at one URL, one unsigned, one hollow). Half an archive, a
  mix of two and a stale leftover all need two files, and no more. Any number
  of calls, any number of crashes. `Stuck = {}`: every removal succeeds in the end
  (section 4 says what happens when one does not).
- `resolve`: `LastRelease = 2`. The mirror moves on once, which is enough for an
  answer from before to meet one from after; three would repeat it. Two calls
  need the same two specs, a major that the new release moves on and an exact
  version that it rebuilds, so that either can be pinned, evicted or recorded
  by one call while the other is at it. The calls are interchangeable, hence
  `SYMMETRY`. `Listing = {TRUE}`: the Locker lists its pins, as the SDK's own `Lock` does
  (section 4 says what happens with one that cannot).
- `downloads`: two archives, one with a single top-level directory and one with a
  file beside it, and one that is cut short; three files are what
  `archiveRoot` needs to tell them apart. Two calls of one project, with a cache
  that may start with any archive and a lock that may start pinned to any.
  `Overlap = FALSE`: see section 4. `Stuck = {}` as above.
- `boot`: four plans, each of a shape of its own: a composite whose second spec
  comes first and whose processes fork, a cycle beside a spec that can start,
  a dependency no spec declares, and two specs that wait for the same line.
- `exchange`: 4-bit integers (`Half = 8`), so that a port past 32 bits is one past
  four; labels of three characters; a network for each rule of `ValidateNetwork`
  and its nearest valid neighbour; modules that answer alike, change their
  answer, or have none; `MaxAsks = 2`, the least with which an answer changes.
- `wire_handoff`: each connection is handed over once; nothing of a connection
  is used again by another but the counter, the backend and the latch, which
  two sessions and a cancel request share.
- `template_dir`: three boots, so that two race while a third clones, and two
  files, one of which is what `ready` looks for. Boots repeat without limit.
  `Immovable = {}`: an old data directory can be removed.
- `publish`: two versions that order differently as numbers and as strings, an
  edit of the older one, two triples; hosts that are older than, as new as and
  newer than a release asks for, a development build, and one of another
  protocol. Any number of runs, the first with no index or with the older version's
  for one triple (`Downloads`).

- `plugin_calls`: drivers with every mixture of the interfaces that go through a
  wrapper and are granted together (structure, administration, console), whole
  or not, and one of two guarded ones. A tail is the last call made to a process,
  as a later one would meet what an earlier one did. The channel and the wire
  hold one row each and the driver makes at most three, so that all three
  goroutines hold a row while both are full; that needs no more, and the
  theorems hold for any size. Milliseconds are two nanoseconds long and the cap
  seven, so that a budget past the cap, one that is truncated and a negative one
  occur. A module dies and is launched again without limit.

The *violation* runs use the smallest instance that shows the disagreement.

### Fairness

Only `FairSpec` of `PluginManager` and of `Boot`, `HandoffFairSpec` of `WireHandoff` and
`Spec` of `PluginCalls` have any.

- `PluginManager`: a caller waiting for the mutex gets it (strong fairness: Go's
  mutex hands itself over to a starved waiter); a launch ends (go-plugin bounds
  the start, and a module answers its first two calls or dies, which is an
  assumption: `newPluginDriver` sets no deadline); callers go on. No crash,
  install or Close is ever required to happen.
- `WireHandoff`: the host's goroutine runs and `host.Boot` returns; the plugin's
  goroutine runs once its client is gone (reads from it end). A filter that
  waits for an open client may wait for ever, so `HandoffEnds` promises an end
  only when the client or the plugin has gone, which is all the code gives.

- `PluginCalls`: the goroutines of a stream are scheduled, a cancellation
  arrives, `Recv` and `Send` on an ended stream return, and the driver's `Tail`
  returns once its context is done, which its contract asks
  (`engine/console.go:21`). The last is what the handler's drain is for: a driver
  that blocks on the full channel can still see its context. Nothing makes the
  host's caller take a row, a driver end of its own accord or a module die.

- `Boot`: the harness's goroutine runs, and what it waits for without a limit
  returns (the driver's calls, hooks and exec probes, whose commands get no
  deadline of their own: an assumption); the clock goes on; a process that got
  SIGKILL dies. Nothing else is asked of a process.

`CHECK_DEADLOCK FALSE` is set where the system may stop: every connection of
`WireHandoff` has been served, the daemon has shut down, and the harness is done.

## 4. Findings

Two places where the code does something else than its documents say. Each is a
run that must fail.

1. `plugin_shutdown`: `Close` marks nothing closed. A `Driver` call that was past
   the resolver, or waits for the mutex Close holds, launches a module right
   after it, which nothing reaps (`plugin/manager.go:119`).
2. `toolchain_shared`: two calls for one version share `<contentDir>.tmp`; one
   renames the other's half-extracted tree into place, and both answer the full
   archive's digest (`binaries/binaries.go:219`). A cancelled and retried resolve
   is one way to get two calls: `Ensure` ignores its context
   (`plugin/fetch.go:45`). The download cache has the same shape
   (`binaries/download.go:87`): `MCDownloadCache` with `Overlap = TRUE` refutes
   `ImplementsStore`, there through the deferred `RemoveAll` as well.

Seven smaller ones, each with a configuration of its own that is no listed run:

- `WireBracket.cfg` (`SpliceIsAccounted`): the plugin announces the splice and
  starts it without waiting, so bytes flow over a backend the host still counts
  idle (`plugin/wireserver.go:144`).
- `WireLatch.cfg` (`WireFailureIsError`): one failed `WireAddr` call is remembered
  as "no wire filter" for the life of the adapter (`plugin/wire.go:90`).
- `PublishTorn.cfg` (`PublishingIsCumulative`): `index.yaml` is rewritten in place;
  a run that dies there makes the next one discard every release the index held
  and build published versions again (`modtool/modtool.go:289`).
- `Prerelease.cfg` (`StableIsHighest`, with `MCPublish`): `mergeIndex` "points
  channels.stable at the highest release", of which there may be none.
  `CompareVersions` compares two numbers as numbers and anything else as strings,
  so 0.1.10 is newer than 0.1.9, which is newer than 0.1.10-rc1, which is newer
  than 0.1.10. Where the loop over the releases ends depends on the order of a Go
  map, and a newer release is left beside it (`modtool/modtool.go:278`). Where
  every segment is a number the property is a theorem.
- `BootStop.cfg` (`StopsGroups`): `stop` sends SIGTERM to a spec's group, but waits
  for and kills leaders only: a child that ignores SIGTERM and redirected its
  output outlives the test, where `enginetest/enginetest.go:339` says the whole
  group is terminated. (It runs with `MCBoot`.)
- `ToolchainStuck.cfg` (`EntryWhole`, with `MCToolchainCache`): the errors of the two
  `os.RemoveAll`, and of the renames that move a tree up, are ignored. A file of
  an interrupted extraction that cannot be removed is renamed into place with the next
  archive's, under that archive's digest (`binaries/binaries.go:220`).
- `ResolveUnlisted.cfg` (`PinsOnlyGrow`, with `MCResolve`): for a Locker that cannot list
  its pins a call ships its own engine's pin only. A composite's other component then
  resolves as if it had none, and once the mirror has moved on `Record` replaces its pin,
  the other platforms' hashes included (`plugin/adapter.go:281`, `binaries/lock.go:112`).
  The SDK's own `Lock` lists them.

More that no run shows. `plugin/report.go:7` and rule 4 of `PROTOCOL.md` say
that a call with no error to return reports its failure; when the instance
cannot be encoded, `Supervised`, `BackendURL`, `Objects`, `RestartPolicy`,
`AdvertisedAddr` and `Network` return the empty answer and report nothing
(`CannotEncode`, `Reporting`; `ConnString` and `Attributes` do report).
`consoleOnce` remembers a failed `DescribeConsole` for the life of the adapter,
as `wireOnce` does; a driver that is asked does answer this one, so only a dead
module can fail it, and `RemoteAgrees` says so. A driver that implements
`Inventory` or `Pruner` without `Converger`, or `Console` without `Admin`,
advertises it and the host drops it without a word (`Satisfies`): `WellFormed` is
the assumption of `RemoteAgrees` that excludes it. A negative boot budget
passes the cap as it is. The digest of a pin can move while the daemon lives: a
call that was sent the pin without it, or before it was recorded, overwrites it
with what the mirror serves by then, if the mirror rebuilt the version and the
cache entry was removed (`binaries/lock.go:124`); `PinsOnlyGrow` says that it moves
then only. An encoded instance that fails in `Network` (`plugin/adapter.go:579`)
reads as a module with the default network. Two comments disagree on what a host grants that
gives no names: `engine/types.go:134` says nothing ("Zero when the host gave no names,
or predates Networked: build URLs from Endpoint then"), `engine/network.go:219` says
addresses ("fills it for every instance, with names or without; it is the zero value
only from a host that predates Networked"), which is what `enginetest/network_test.go:98`
builds. The host is in another repository, so no run can say which is right; `Grants`
allows both, and `BackendsMeet` holds of both because a module that finds no backend
takes the endpoint's. An empty `Env` crosses as nil, which
`exec.Cmd` reads as the harness's own environment (`engine/spawn.go:26`). In the
harness, a `log_line` gate searches the logs of all specs, so another spec's line
opens it; hooks and exec probes have no deadline
(`enginetest/enginetest.go:286`, `:315`); and `freePort` closes the port it found
before a process opens it.

## 5. The proofs

TLC checks the instances above; the theorems hold for every value of the
constants that satisfies the named assumptions of the modules.

**`HostProofs`** proves every safety property of the `plugin_manager` run: `Owned`,
`TablesHonest`, `CloseReapsAll`, `WarmIsKept` and the refinement `ImplementsTable`; and
`OnePerType`, which no run lists because `ImplementsTable` says more. None of them is
inductive alone. The inductive `IInv` adds what the code relies on without saying: the
mutex's holder is exactly the caller inside `Launch`, and only one is; while it
is there its type has no host; a type with a host in the table was not
recorded as failed; the process a table entry names was launched for that type;
and a driver handed out whose process runs is the table's. The proof that a
step preserves it has a step per action, split by the conjuncts the action
disturbs; the action properties follow from `IInv` and one step. So does the refinement
`ImplementsTable`: that a launch finds no process of its type, and that what `LaunchOK`
hands out is not in the place of a running one, is `Owned` read at that step; `Return`,
`Warm` and `LaunchOK` change one caller's driver (`OneUsing`), the others none
(`SameUsing`).

**`ToolchainCacheProofs`** proves `EntryWhole`, `RenameSucceeds` and the refinement
`ImplementsStore` (with `TypeOK` and `PinHonoured`, which no run lists), all under `Alone`: at
most one installer. That is the assumption the second finding shows to be
needed, and `toolchain_shared` is what happens without it. `Removable` (`Stuck = {}`) is
the other, and `ToolchainStuck.cfg` what happens without that. The inductive
invariant describes, for each place in `ensureDownload`, what the two
directories may hold: anything at all in `tmp` until it is cleared; then
only files of the archive in hand; after extraction all of them; nothing usable
in `contentDir` from the miss to the rename. A crash leaves `tmp` as it was,
which the first phase covers. The refinement needs one more fact, `TreeFacts`,
which reads an archive back from the directory it unpacks to. Every other step
maps to a stutter, `Publish` to `Install` or `Refuse`.

**`PublishProofs`** proves `TypeOK`, `ArchivesMatch`, `SignatureFresh` and `NoConflict`,
for any sources and triples, any index downloaded beforehand, and whatever the order of
versions. `ArchivesMatch` alone is
not inductive: `Building` adds that the archive a run has truncated is not in
the index (because `published` was asked first) and is written before the merge,
`Pending` that the merged index in memory already matches the disk. The lemma
`MergesMatch` is about the operator `Merges` alone. `StableIsHighest` and
`SelectServes` are proved under `Ordered`: every segment of a version is a number,
which `Prerelease.cfg` shows to be needed (section 4). `NewerIsAbove` says what the
comparison then is, from which it is irreflexive and transitive; `ExtremesExist`
that a finite set of versions has a newest and an oldest; `HeadsHighest` that the
loop of `mergeIndex` finds the newest in any order. The last two are inductions
over data. They are proved by a least counterexample, which the library's
`FS_StrictSubsetOrderingWellFounded` and `WFMin` give without an operator for a
parameter (`LeastNat`). `SelectForFinds` describes the answer from the candidates
alone; with it `SelectServes` holds of any index, whatever built it.

**`PluginCallsProofs`** proves `TypeOK`, `RemoteAgrees`, `FailuresSurface` and
`TailFaithful`. `RemoteAgrees` rests on `CrossesMeansHas` and
`AbsentMeansLacks`, which relate the three places that decide what a driver is
(the advertised ids, the wrappers and guards, the handler's assertion), and on
an invariant of a call in flight. It is proved under `WellFormed`, for every set
of interfaces. `TailFaithful` is about the two ends of the stream; its invariant
`TailInv` follows the rows all the way: those delivered, the one the host holds,
those on the wire, the one the handler holds, those in the channel and the one
the driver is about to put continue each other without a gap (`HostRows`,
`ModuleRows`) for as long as the host reads and no `Send` has failed; and the
driver's answer is in `done`, or has become the status, once every row has left
(`Ending`). It was checked with TLC as an invariant before it was proved.

**`ResolveProofs`** proves `CleanMeansSaved`, `PinHonoured` and `PinsOnlyGrow`, for any
calls, specs, releases and archives. What a call answers and what the lock
holds when it does were decided at different times, in different processes.
They agree because of four facts, which are the conjuncts of the invariant: a
pin a call was sent is still in the lock, but for the digest (`Sent`); a pin
recorded since, that it was not sent, was chosen from the manifest the daemon
remembers (`Fresh`); so was what a call without a pin chose (`Resolves`, `Views`,
`Flight`); and the daemon never forgets that manifest while it lives. The lemma
`Agree` draws the conclusion, and `Merged` says what a merge makes of each pin.
`Digests` has every digest anywhere be one that some release served for its
version, which is why one that moves means a version built twice. The proof
assumes that a call does not resolve one spec twice (`ResolveAssumption`), that
a lock is used by one goroutine at a time, as the model does, and that the Locker lists
its pins (`Listed`), which `ResolveUnlisted.cfg` shows to be needed.

**`BootProofs`** proves `GatedStart`, `VerdictsRight` and `NothingLeft` for any plans and
configurations, under `PlansAssumption`: a driver names no spec twice. `GatedStart`
needs that a spec which is ready stays so in every sense that matters: its gate
was opened by a process that served, and no crash takes that back
(`OpenedStays`). `NothingLeft` needs that the harness knows every process that
runs (`Gates`) and that no failure is possible between a start and the cleanup's
registration (`Places`). A deadlock verdict stays right because what is left and
what is ready make up the plan (`Order`), which rests on `RemoveAtProperties`.

About templates the same module proves `TemplateWhole`, `LoserServed` and
`TemplateKept` for any boots and files. Their invariant `TInv` says what a boot has
at each place: past its `init` it holds all that `init` wrote; a template is none
yet or one `init`'s; a boot that clones finds one, and has copied of that one only.
`TemplateWhole` is proved under `Removable` (`Immovable = {}`), since its clones start
from nothing; the other two hold without it.

Of the handoff the same module, `HostProofs`, proves `Balanced`, `AccountedIsReady` and
`KeysScoped`, for any number of connections, each a session or a cancel request. What the host counts and what
the plugin has announced are in different processes: `Conversation` relates, for
each connection, where either end is, the line in the side channel and the host's
answer (a plugin that announced its splice and a host that has not read the line;
a plugin that waits and a host that boots), and accounting and the cancel
registry follow from it. `Accounted` counts: only finitely many connections are
spliced, whatever the number there is, and each start and end changes that set by
one element.

**`DownloadCacheProofs`** proves all four properties of the `downloads` run, in two
parts. `CleanMeansSaved` and `PinsStay` need only `LockInv` and hold for calls that
overlap as they like. `TmpGone` and the refinement `ImplementsStore` are proved
under `~Overlap`, the assumption the second finding is about, and `Removable`: `CacheInv` adds that
at most one call fetches (`One`), that the entry's files are one archive's and
complete once its digest is recorded (`Entry`), and what the two directories hold
at each place in `EnsureDownload` (`Phase`). The module assumes that an archive
has a file: the model knows a directory by its files.

**`ExchangeProofs`** proves `ArrivesIntact`, `CheckedIsTaken`, `HostsApart` and
`BackendsMeet`, for any instances, modules, values, strings and width of an integer.
The engine's types have two readings in `WireValues`: all that Go may hold
(`w = FALSE`: any integer, a slice or map empty or nil, a configuration that is bytes
only) and what the wire carries as it is (`w = TRUE`). Each conversion has a lemma of
one form, `Arrives`: a value of the first reading becomes a message, what arrives is
of the second, and is the value itself if that was. A type's lemma is made of those
of its fields; slices and maps have one each, for any element; a console's tree needs
none, since it crosses as a list. About networks: a valid one arrives with the same
ports and routes and stays valid (`MaxPort < Half`: a port survives 32 bits); two
routes of a valid network are two hosts, because what a route puts before the instance's
host is nothing, a prefix without a dot, or a label and a dot; a grant that is made has
a place for each listener. The invariant then only has to say which answer
the host's network is, what the verdict was about and which network the grant was made
for. It was checked with TLC as an invariant first. The assumptions say that `Nil` is
none of the values it stands beside (`NilAssumption`), that the modules, instances and
values are what Go's types allow, and that a map's keys cover the listeners' labels.

Checked by TLC only: everything temporal with fairness (`CallsReturn`,
`HandoffEnds`, `TailEnds`, `BootEnds`), because TLAPS does not handle ENABLED.

## 6. What is not modelled, and why

- Stale pid locks: one read, one judgement and one removal; whether a process can
  start in between is the daemon's business.
- URLs, archive formats, paths inside archives, TLS, YAML, cryptography: data no
  property here tells apart. A signature is whether it covers the content.
- A concurrent write of Go's `manifests` map (`binaries/binaries.go:100`) may end
  the daemon; that outcome is `Restart`. A torn value is not modelled.
- The conversions of diagnostics and cty values, schemas and HCL decoding, the
  rendering of console rows and `meta.yaml`, the services and descriptors of the
  generated code, the entry points (`cmd`), examples: no state.
- An `index.yaml` written in part: `os.WriteFile` is one `write` call here, which only a
  full disk or the machine's own crash cuts. A part that still parses reads as an index
  with fewer releases and no channel; `Torn` is what the truncation leaves, which reads
  as none. For `doze.lock` a part is modelled, but for a cut inside a value.
- The harness's log files and ports; the limits on an archive's size.
- The daemon itself, the registry and the mirrors are not in this repository;
  what they do is marked external in the map.

## 7. The plan

Done: the process table with its abstract table, the toolchain cache and the download
cache with their abstract stores, resolving and the lock, the handoff, templates,
publishing and selection, the calls of a module and its console's stream, what crosses
between host and module, and the harness; the theorems of section 5.

Next, in this order:

1. For each finding that is a question of timing, the theorem about when the property
   does hold: `NothingOutlivesClose` if no call overlaps the one `Close`, `StopsGroups`
   for plans whose children end with SIGTERM.
2. What a `Serve` of the toolchain cache and a resolve call agree on, as one theorem
   about `ToolchainStore` and `Resolve`.
