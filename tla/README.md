# A TLA+ model of Django ORM Intellisense

Django ORM Intellisense is a VS Code extension. It answers completions, hovers
and diagnostics about the models of a Django project from tables that a Python
process computes out of the project's sources and of the live Django registry.
The tables change with every save, every refresh of the Python environment and
every restart of one of three processes, and they travel through two pipes. This
directory models that machinery in TLA+, checks it with TLC on small instances,
and proves parts of it with TLAPS for every instance.

All paths below are relative to the repository; `app.py` is
`src/python/django_orm_intellisense/server/app.py` and `analysisDaemon.ts` is
`src/src/client/daemon/analysisDaemon.ts`.

## 1. The system

```
 editor ── extension host (TypeScript client)
             AnalysisDaemon ── owns ──> Python daemon ── imports ──> user's project
               SourceConfigurationRequests   | main thread: initialize, reindexFile
               SurfaceSnapshotDecoder  <──── | warm-up, load, refresh, publish threads
             SurfacePublisher                | encoder of numbered frames
               SurfaceSnapshotEncoder ──┐
                                        └──> language server (TypeScript)
                                               decoder, index, disk cache
```

A *surface* is the table of what each model offers (fields, managers, lookups); a
*model graph* and a *static index* are what it is computed from; a *runtime* is
what was learnt by importing the project.

| Component | State | Operations | Interacts by | What is hard | Correct when |
|---|---|---|---|---|---|
| Daemon owner (`AnalysisDaemon`) | the child, phase, lifecycle and session revisions, start and restart promises | start, stop, restart, interpreter check; child exit, error, output | awaits, child-process events | every await lets a stop or another start in; a child may ignore signals; spawn throws | one owned child, none stray, metadata of that child only, every caller answered |
| Source configuration requests | revision, pending refresh, requests in flight | request, refresh, reset, abort, time-out | promises; the daemon's pipe | answers of before a refresh arrive after it; refreshes join and follow one another | no stale answer, no lost waiter, no reindex sent twice |
| Daemon state (`DaemonServer`) | generation, index, runtime, graph, surface, reindex serial | initialize, reindexFile, warm-up, load, member refresh | `_state_lock`, timers, threads | all compute outside the lock and commit under it | no commit restores something older; the runtime and surface arrive |
| Publication | encoder baseline, retry timer | publish, retry, resync, stop | `_state_lock`, timers, stdout | two locked blocks with an encode between; one timer slot | frames go forward, every adopted table is written |
| Transport | sequence and baseline on both sides, resync flags | encode, decode, resync | stdout/stdin pipe, microtasks | dropped frames, replies against frames, time-outs | a decoded table is the encoded one; gaps heal |
| Delivery (`SurfacePublisher`, server handlers) | active update, wanted update, timer, encoder baseline, context delivery; the server's table and index | publish full and delta, set context, retry; apply, clear | language-client requests, events | the server stops, answers late, fails half way; the daemon changes meanwhile | the server serves the running daemon's table, and in the end the current one |
| Language server lifecycle | process, start attempt, retry | start, stop, transport fault | language client | fault, stop and retry race | one owned process |
| Response cache (`cachedRequest`) | shared promises, entries | get, invalidate, evict | promises | invalidated in flight | no answer of before a change afterwards |
| Static index (`indexer.py`, `field_declarations.py`) | modules, candidates, fields, reverse relations, dependency caches | build, reindex one file (three paths) | reads files | the patch must equal a rebuild; other files may be newer than the index | the patched index is what a new daemon would read |
| Model graph (`graph.py`) | fields, labels, edges, overrides, removed models | build, rebuild for labels | index and runtime | two sources that disagree, an edit against an older catalogue | one graph, closed under its relations, equal to a new one after a refresh |
| ORM members (`orm_members.py`) | the shared member cache (owner, token, versions, builds under way) | surfaces, slices, single members; get, find, force owner, rebind, invalidate | threads, one lock | computed outside the lock while the cache changes hands | no stale entry, and the answer of a computation |
| Runtime inspection and members (`inspector.py`, `runtime_members.py`) | catalogue; snapshot of captured members | inspect, capture, invalidate, reconcile, compose | a worker process | a first catalogue that is never renewed | a refresh brings graph and surface to what a new daemon has |
| Worker lifetimes | pools | submit, drain, shut down | threads, process pools | shutdown against submit | no thread left behind |
| Native guards (`daemon_guard.c`) | worker state directory, pipes | watch, remove | parent death | three processes die in any order | the directory is removed once |
| Multi-settings projects | daemons per settings module | route, merge | child daemons | partial failure | answers of the settings asked for |
| Source watching and observation | observed context, watcher | observe, arm, report | file events | change between observation and arming | no change missed |
| Server index and disk cache | index, radix trie, cache files | update, query; debounced write, pre-warm | memory, files | pre-warm against an authoritative update | queries answer the table; a cache is never newer news |
| Python cache store | files | atomic write, read, evict | files | death between write and rename | readers see whole entries |
| Lookup paths, Rust core | none kept (pure) | resolve, re-export | calls | recursion, cycles | same result as the definition |
| Providers, settings, Pylance integration | per-document caches | VS Code handlers | calls | little | - |

The same list, with files and status, is in `PROJECT.json` under `components`; the
hazards of the code that tests hardly reach are under `hazards`, each at its line
with the properties that cover it.

## 2. Plan

Ordered by how much of the extension depends on the part.

1. **Done.** `DaemonLifecycle`: who owns the Python process.
2. **Done.** `SourceConfigurationRequests`: requests across refreshes.
3. **Done.** `SurfacePublication`, `SurfaceTransport`: the table leaves the daemon
   and reaches the client.
4. **Done.** `SurfaceDelivery`: the table reaches the language server.
5. **Done.** `StateGeneration`: how the table comes to be in the daemon.
6. **Done.** `StaticModule`, `StaticIndex`, `StaticReindex`, `ModelGraph`,
   `MemberSurface`, `RuntimeMembers`, composed by `AnalysisPipeline`: what the tables
   hold, and that patching them after an edit is the same as computing them anew.
7. **Done.** `MemberAnswers`, the promise of the member cache, implemented by
   `MemberSurfaceCache`; both over `MemberData`. Checked and proved.
8. **Done.** Proofs of every safety property of 1-5 and 7, and of the two of 6 that
   need no induction over the data: what a delta names (`ClientFollows`) and what a
   refresh rebuilds (`RefreshCovers`).
9. **Done.** `TableReplica`, the promise of the transport to the client,
   implemented by `SurfaceTransport`. Checked and proved. **Left:** the same promise
   from the client to the server, so that the two compose; `SurfaceDelivery`
   keeps it only where it is not `torn` or `late`, and for the labels that no frame
   has `left`.
10. `ResponseCache`, `LanguageServerLifecycle`, `WorkerLifetime` (pools and their
    drain threads), `DaemonGuard` (the C processes), `CacheStore` (atomic writes
    with crashes), `SurfaceCachePrewarm` (disk cache against updates),
    `SourceObservation`, `WorkspaceProjects`.
11. Pure algorithms against reference definitions: lookup paths, re-exports in
    Rust, radix trie, streaming JSON decoder.

## 3. Modules

Every module reduces data to what its properties tell apart: for those who pass a
table on it is a version or a revision per label, a source a revision, a
configuration a number; the analysis modules, whose subject is the content,
keep names, bases and fields. All control is kept: one action is one turn of an event loop between two awaits, or
one block of a lock. Definitions with a comment `faulty:` are no part of the
specifications; each is the form of the definition below it that a plausible
mistake would give it, and shows that a property notices.

### DaemonLifecycle (`analysisDaemon.ts`)

State: the fields of `AnalysisDaemon` (`process`, `lifecycle` for
`lifecycleRevision`, `session`, `phase`, `startPromise`, the restart fields, the
interpreter check), a program counter per call of `startProcess` (an *attempt*,
which also names the child it spawns), of `terminateProcess` (a *stopper*) and of
a restart loop, and the operating system's view of every child.

Actions: the public calls, each step after an await, the child's exit, failed
spawn, initialize reply or failure, the two signals of a stop with their waits.
Any event may come between any two of them. Ready and degraded are one phase, and
the native state directory is part of the spawn and of the end of a stop.

Checked: `MetaIsOwned`, `NoStrayChild`, `SpawnFindsNoOwner`, `SpawnIsWanted` (after
the user's stop nothing but a later request starts a daemon),
`SessionIdentifiesChild` (what every caller compares after an await); live:
`CallersSettle`, `StopEnds`. Only proved: `ReadyIsInitialized`,
`PendingStartIsCancellable`, `NoSelfWait` (a restart loop would wait for its own
promise) and the type invariant.

### SourceConfigurationRequests (`sourceConfigurationRequests.ts`)

State: `revision`, the pending refresh, and per request its attempt in flight;
the daemon is the configuration it has `loaded`. Actions: call, send, answer,
time out, abort; open, join, send, adopt and fail a refresh; end and start a
session. A stop and a crash are one action (`SessionEnds`): both reject what is in
flight. The gate that refuses requests after a failed refresh is `closed`. The
end of a refresh may be later than the settlement of what it waited for. Timers
are not ordered: `Expire` may happen whenever a request is in flight.

Checked: `NoWakeupLost`, `ReindexIsSentOnce`, `AdoptedIsLatest`, and
`AnswersAreCurrent`: no answer that was computed before a refresh is delivered
during or after it. Only proved: `InitializeIsAlone`, `SentInOwnSession` and the
type invariant.

### StateGeneration (`app.py`)

State: `st` is the daemon's static index, runtime, graph and surface; the
generation, the reindex serial and the serial each model was last saved at; a
program counter for the main thread, for the warm-up of every generation, the
load of the surface and the refresh of runtime members, with what each captured
when it last held the lock. A row of the graph or of the surface is the pair of
the source revision and the runtime it was computed from, so that a commit which
restores an older graph, drops a save or mixes runtimes is seen.

Actions: an edit (the file changes and its reindex request is queued); the three
locked blocks of `reindexFile` with the retry and the last attempt under the lock;
reserve, apply and finish of `initialize`, which may be refused by changed
sources; both warm-ups (`_warm_runtime_state` for the first initialize,
`_warm_fresh_configuration_runtime` with its retry timer for later ones); the idle
and on-demand load with its adoption over newer saves; the refresh of members. A
load, a refresh and either warm-up may also end without a result (`LoadFails`,
`RefreshFails`, `WarmFails`): a cache, an import or a worker process raises, the slot
is cleared, and nothing starts it again by itself.

Identity comparisons (`is`) are comparisons of content, and of the serial where
the code compares it. Four history variables record the known exceptions: `mixed`
(a load took the state of one generation under the number of the next),
`rejected` (a warm-up saw sources change that had not been announced: the code
gives up on purpose, because Django's registry may be stale), `lost` (a load was
not scheduled because one of an older generation still ran, a loaded surface
was dropped by the warm-up's announcement, or one of the threads failed in this
generation), and `owner`. Left out: caches on disk,
delays, a save or an initialize that raises, the stop (it is in
`SurfacePublication`), the rebuild after a changed path membership, the shortcut for a repeated reindex, `_reindex_source_root`, rows of
other models that a save also recomputes, the pre-warm of the field registry.

Checked: `GraphIsCurrent`, `SurfaceIsCurrent`, `SavesAreIndexed`, and live
`SurfaceLoads`.

### SurfacePublication (`app.py`)

State: a version of the table, the encoder's baseline, the one slot of the retry
timer, a program counter per background thread and per timer thread. One action is
one block under `_state_lock`; the encoding between the two blocks of a
publication is the gap between two actions. Saves, resyncs, the warm-up's
publication, a later initialize and the stop may fall into any gap. The stop is
three actions: the flag, set outside the lock (`StopBegins`, `app.py:710`), the
next generation and the empty timer slot under it (`StopLocks`, 712-717), and
the cancellation of the timer, outside again (`StopCancels`). The warm-up looks at the generation
only, so it may still write between the first two. The idle
window only decides whether a publication is deferred. Failures inside a
publication and of `timer.start` are left out.

Checked: `SavesAreKept` (a frame never carries a table without a save that an
earlier answer carried), `StoppedIsSilent` (after the flag no timer is armed and
nothing prepared before is written, only the warm-up's own block; after the lock
nobody writes), and live `PublishedUnlessLost`.

### SurfaceTransport (`surface_transport.py`, `surfaceSnapshotTransport.ts`)

Composes the daemon's encoder with the client's decoder over a pipe: the daemon's
table, its baseline and frames being prepared; requests and lines under way; the
client's baseline, the table it serves, its resync and refresh flags, and the
continuations that wait for a microtask (lines of one chunk are handled before
them). Frames may be full or deltas; they are dropped while an initialize is
pending; replies to initialize and reindex patch the same table. A fingerprint map
that does not cover its table (`whole`) makes a frame no baseline. A resync's frame
and reply are one step. Corrupted lines and failed writes are left out.

Requests time out. A reply that comes later is ignored (`HandleReply`,
`analysisDaemon.ts:3392`). For a reindex, the path is kept and saved again, and the
daemon answers `sourceUnchanged`: the client stays without what was committed until
the next frame. A failed refresh leaves phase `error`, in which every request but
an initialize is refused, a resync's too (`Refused`, 3189); it ends with the next
health event, or with the refresh repeated by the extension's timer
(`RefreshAgain`, `extension.ts:392`). That timer has one slot; where the watchers have
taken it (374), the refresh is `dropped`.

`TableReplica` is what the client may rely on: the daemon owns a table, appends one to
a log now and then, and the client has a copy that becomes a later entry of the log
or an answer, or takes over one label of an answer. It knows no numbers, lines, requests
or threads. `ReplicaSpec` reads the daemon's `table` as its owner, `published` as its
log, the client's `view` as the copy, `applied` as the place in the log and `behind` as
`torn`. While it is not torn, the copy takes no entry older than what it or a log
entry it has reached shows of that label. The code has no revision of a label that is
gone (0), so entries before and after it are not ordered, and the promise speaks of
each pair of tables.

Checked: `FramesAreExact`, `QuietIsCurrent`, the refinement `ReplicaSpec`, live
`GapsAreHealed`.
`behind` marks a reply that is older than a frame and applied after it, and the
committed answer of an initialize or a reindex that came after its time-out; until
the next frame the client's table is then older, and `QuietIsCurrent` says nothing.
`GapsAreHealed` has one exception: a refresh that failed and is not repeated.

### SurfaceDelivery (`surfacePublisher.ts`, `surfaceSnapshotEncoder.ts`, `extension.ts`, `server.ts`)

State: the client's table and daemon mode; `want`, `timer`, `act` of
`SurfacePublisher`; the encoder's baseline and scope; the current, waiting and
active context deliveries; the flush of saved files; the requests on the channel;
the server's table, index, decoder and context. Actions are the turns of both
event loops, starts and ends of the daemon and of the server, lost answers, updates
that throw half way (`Broken`) and are recovered. A request that timed out is withdrawn or
still served. Back-off delays and the index the server pre-warms from disk are
left out.

A full update does not copy the table. `fullUpdate` hands out `surfaceIndex` and
`surfaceFingerprints` themselves (`extension.ts:186`), the encoder copies only the
fingerprints when it prepares a frame (`surfaceSnapshotEncoder.ts:29`), and the
request is serialized after the context was acknowledged (218). Until then a
reindex patches the same objects in place (`analysisDaemon.ts:744`); a frame or a
new daemon brings other objects. In the model an update that still has the client's
objects is its `own`: `PatchedIn` patches it with the table, `Written` is what the
channel gets. `enc` therefore has two tables, the one whose fingerprints were
taken and (a history variable) the `real` one that was sent.

The two differ when a label was patched between the two moments. The next delta
has it, unless its edit was taken back before: then its fingerprint is again that
of the baseline, the delta leaves it out, and the server keeps the row of the edit.
The model names these labels in the frame (`left`), sets `torn`, and shows that
nothing else goes wrong; the next complete table repairs it.

Checked: `QuietIsCurrent`, `NoForeignModel`, `FramesAreExact` (but for the labels
`left`), live `EventuallyCurrent`. `torn` also marks a batch of saves that a newer
frame overtook (`late` are the labels): the batch then sends older labels over it. It
ends when a complete table, or a retirement, is acknowledged (`Renewed`).

### The analysis (`AnalysisPipeline` and the modules it rests on)

Each module EXTENDS the one before it and models one part of the Python code:

* `StaticModule` (`indexer.py`, `field_declarations.py`): one parsed file: imports,
  exports, pending model candidates and fields, the constants they depend on.
* `StaticIndex` (`indexer.py`): what names, bases and fields resolve to across
  files: re-exports, promotion of subclasses, relation targets, reverse relations,
  dependents of a module.
* `StaticReindex` (`indexer.py`): `Build` from all files, and `Reindex` of one,
  with its fast, cached and general paths and the caches each of them keeps, drops
  or recomputes.
* `ModelGraph` (`graph.py`, `inspector.py`): the catalogue of an inspection,
  `BuildGraph`, and `RebuildGraph` for the labels of an edit with its overrides and
  removed models.
* `MemberSurface` (`orm_members.py`, `app.py`): the members of instances, classes,
  managers and querysets, `BuildSurface`, `RebuildSlice`, the resolution of a
  single member, the static fallback.
* `RuntimeMembers` (`runtime_members.py`, `app.py`): capture, invalidation,
  reconciliation of graph and catalogue, and composition of the surface.
* `AnalysisPipeline` (`app.py`) has the state: the files on disk and the saved but
  not reindexed ones, `index`, `rt`, `graph`, `surface` with what filled it,
  `fallback`, the pending refresh, and the client's copies. Actions: save, reindex,
  runtime ready, load, refresh and its refusal. Each is atomic here, and left out
  if the code would retry it: the order of threads is the subject of
  `StateGeneration`, and what they compute the subject of this module. `anew`
  is an auxiliary variable, a function of the files: the index and the runtime of
  a process that starts on them now, computed once for each save.

Recursive Python functions are recursive functions, local to the operator that
calls them; the sets they are defined on (`Paths` and the like) are infinite and
only say what the arguments are. `Over(f, g)` is `f @@ g` written out, where a proof
looks inside. Sets whose order the code leaves open are
walked in a fixed order, or in two with `Orders`. `With(value, LAMBDA x : ...)`
and `\E x \in {value} : ...` name a value that is computed once, where a LET would
be evaluated at each use.

Checked, each against the definition that computes from nothing:
`IndexIsCurrent`, `GraphIsCurrent`, `SurfaceIsCurrent`, `FallbackIsCurrent`
(incremental against full); `Converged` (after a refresh the graph is a new
daemon's); `RelationsArePaired`; `ClientFollows` (deltas of keys); `AnswersAgree`
(the daemon's answer for one member is the client's table, and for a chain of two
the client's own walk over it); `RefreshCovers`.
While they were written, TLC showed where the code and a plausible property part:
the comments of `Converged` (a model that only the first catalogue knows stays in
the graph) and of `FallbackIsCurrent` (until a refresh an edited label may lack
what only the runtime knows) state what is true instead.

Not in the instance, because the property would compare things the code does not
promise to be equal: a relation of a model to itself while a dict changes its
order (`graph.py:425`), chains of subclasses that are visited once
(`indexer.py:3297`), import cycles, two files with one model label, models whose
only manager is not called `objects` (`orm_members.py:966` and `1099` treat them
differently), a foreign key to an abstract model. Left out of the modules: the
parser, positions and documentation, memo tables whose stamps ensure the same
result (`origins` of an index, filled on demand in the code, is filled with it), the
persistent module cache, a start from a surface cache on disk, and a
load while the runtime is still warming up.

### MemberSurfaceCache, MemberAnswers, MemberData (`orm_members.py`)

`MemberData` is what members are computed from: static indexes, for each the
latest runtime and graph, and the stamp of the last change that affects each
label; the changes are those the callers of the cache make. `MemberAnswers` is the
promise: a request for a snapshot of the state is answered by what the members
were at some moment of the request. `MemberSurfaceCache` is
`_MemberSurfaceCache`: the owner, the token, lists and keys by model, versions,
and builds under way; per thread a call of `get_list` or `find`, one action for each
section under the lock and one for the computation between them, which may raise.
The other actions are those that hand the cache over or retire what it holds:
`force_owner` after a reindex, `rebind_runtime`, `install_runtime_members`,
`invalidate_model` (an operation no caller in `src/` uses now), and Django's
registry becoming ready. `object()` is an identity that nobody holds: the model
gives one of a finite set, and may give it again when all let it go.

Checked: `KeysAreTracked`, `CachedIsCurrent`, `BuildsAreCounted`; the refinement
`AnswersSpec`; live: `CallsEnd`. Only proved: `VersionsAreOwned`.

## 4. Runs

| Run | Instance | Shows |
|---|---|---|
| `daemon` | 2 attempts, 1 stop, 1 restart loop | the daemon owner, safety and liveness (212 689 states) |
| `source_refresh` | 2 replayable requests, 1 reindex, 2 refreshes, limit 2, 3 revisions, 1 session end, symmetry | the safety of requests across refreshes |
| `state` | 2 models, 1 edit of each, 2 initializes, 2 attempts | the daemon's state, safety and liveness, failures included (2 051 191 states) |
| `state_crossed_load` | the same | violation: see findings |
| `publication` | 1 loader, 1 refresher, 2 timers, 3 versions, 2 attempts | publication, safety and liveness (1 397 864 states) |
| `publication_lost` | the same | violation: see findings |
| `transport` | 2 labels, 1 publisher, 1 change, 2 reindexes, 1 refresh and its repetitions, 1 failure | transport: safety, refinement, liveness (1 289 610 states) |
| `delivery` | 2 labels, 1 failure; at most 4 changes, 3 starts or ends of the daemon and 2 starts of the server, of which the next only after fewer than 6 together; symmetry | the safety of delivery (2 997 484 states) |
| `delivery_live` | 1 label, 3 changes, 1 session, 2 server starts, 1 change of sources, 1 failure | delivery under fairness (1 059 542 states) |
| `delivery_retired` | 1 label, 2 changes, 3 starts or ends, 1 failure | violation: see findings |
| `analysis` | 4 files (an abstract base, constants, a manager, models) with 2 to 4 texts each, 3 saves, both orders | incremental results against computed ones (40 662 states) |
| `member_cache` | 1 label, 2 threads, 2 requests, 2 indexes, 2 changes | the member cache: safety, refinement, liveness (606 194 states) |

Why the bounds are enough for the cases that matter:

* A race in the owner needs the current attempt, one it superseded and a stop or
  loop that falls between. Two stops, one overtaken by the other, were checked
  once for safety; the proofs of section 6 remove the bound.
* A stale answer needs a request before a refresh and one after it, two refreshes
  that follow or join each other, and a limit that is reached; the proofs remove
  that bound too.
* In `state` one edit of each model lets a save fall into every gap of the other
  threads and overtake a warm-up up to its last attempt; the second initialize
  takes the other warm-up path, and makes loads of an old generation meet a new one. The
  code's three attempts are two here: one that may be overtaken, and the last.
* In `publication` the second timer shows the slot being reused while its old
  owner has not unregistered; the code allows more attempts than the two here, and
  a third repeats the second.
* In `transport` the one change and the two reindexes make full, delta, dropped
  and overtaken frames, and a reindex that is repeated after its time-out. The
  failure is a resync that times out or a refresh that fails; a refresh that fails may be
  repeated, and repetitions are not counted. The proofs remove the bounds of
  everything but liveness.
* In `delivery` three changes of mode are a daemon that starts, ends and is
  replaced; two labels tell a stale row from a missing one; the second server
  start is a restart. The shared bound (`MaxTurn`) keeps the instance small: six
  turns are enough for two daemons, and for an edit that is patched into an update
  under way and taken back before the next delta. The proofs remove it. Refreshed and
  re-rooted sources are in `delivery_live`.
* In `analysis` the texts differ in what an edit can touch: a base that stops being
  abstract or disappears, a constant another file reads, a method of a manager, a
  renamed relation, an explicit reverse name, a new primary key, models that
  disappear, and a file that does not parse. Three saves are an edit on top of a
  patched state, files saved before the first is reindexed, and an edit that is
  taken back after another; both orders of a set of names are walked. The apps of the runtime differ from those of the paths.
* In `member_cache` a build can be overtaken by a hand-over, by another thread that
  publishes first, and by a change between its lock sections. The identities are
  more than can be held. Two labels with two changes were checked once for safety
  and the refinement (981 656 states, with symmetry), and two labels with one
  change for everything; the proofs remove the bounds of the safety properties.

`CHECK_DEADLOCK FALSE` is set everywhere: with the bounds used up and nothing
pending the system rests, as it does in an editor nobody touches.

## 5. Fairness

Only what the program's runtime guarantees is fair, and every fairness condition is
weak: continuations of settled promises, timers, threads and lock acquisition, and
lines that were written are read. Nobody owes a save, a start, a stop, a refresh or
a failure.

* `DaemonLifecycle`: the waits of a stop are timers (1200 ms, then 800 ms); the
  version check of an interpreter has a time-out of 1500 ms and an initialize of
  60 s, so the step after them is fair even if the child never answers. The
  interpreter *lookup* of a start has no time-out and no step of it is fair
  (`AfterLookup` excludes it). `CallersSettle` therefore promises an answer unless
  the current lookup, which no stop or later start has superseded, never returns.
  A stop answers also those who wait for it, because it rejects the
  public promise: without `CancelStart` they would wait for good.
* `SurfacePublication`, `StateGeneration`: threads run and timers fire; the
  process pools that compute a surface or capture members end, with a result or
  not. `SurfaceLoads` holds unless one of them ended without. Nobody owes a
  failure. Requests the daemon has been sent are read.
* `SurfaceTransport`: both event loops run; a resync that times out or is refused
  is repeated by its timer, and so is a failed refresh unless its timer was taken.
* `MemberSurfaceCache`: each step of a call that has begun is fair: a thread runs,
  a computation ends or raises, and the lock is held for short sections only.
* `SurfaceDelivery`: the server answers or its stop is noticed (`OWNER_CLOSE` waits
  2500 ms), and a server that stopped is started again.

## 6. Proofs

All proofs are checked by TLAPS for every value of the constants; the only
assumptions are the named `ASSUME`s of the modules (identifiers are distinct,
`None` is no update, bounds are natural numbers).

`DaemonLifecycleProofs` proves each safety property of `daemon`, and more. The
inductive invariant is `IInv == TInv /\ Ownership /\ Readiness /\ Loops /\
UnwantedIsQuiet`. That no child is stray and metadata is owned does not follow
by itself: a spawn must find nobody owned. That follows from the lifecycle
revision, which is handed out once (`RevisionsAreUnique`), so that at most one
attempt is current, and while it is before its spawn nobody is owned
(`SpawnerIsAlone`). A spawn while a stop terminates a child is excluded because
what a stopper terminates was told to exit (`TerminatedIsTold`). `NoSelfWait`
needs that while the current loop stops, only the child it terminates can be
owned (`LoopStopIsClean`); `SpawnIsWanted` needs that after the user's stop no
loop is joinable and no attempt is current (`UnwantedIsQuiet`). The step lemma
splits over the actions, one lemma per part of the invariant.

`SourceRefreshProofs` proves each property of `source_refresh`. What is in flight
when a refresh begins is in its snapshot, and what comes later waits, so the
initialize is alone (`Alone`); a value that arrived for it is what the daemon has
loaded, and no abandoned initialize is left that could replace it (`Values`); an
answer that carries the current revision was therefore computed from that
configuration (`Answers`). `Sessions` and `Sends` are inductive beside it.

`MemberSurfaceCacheProofs` proves that the cache holds nothing stale and that
nobody who asks can tell it is there. An identity is new when it is given
(`NewIds`), so a build keeps its token and its version only if the cache was
neither handed over nor its model invalidated since it began; and each change
that affects a model does one of the two. `IInv` therefore says, beside what is
cached (`CacheOK`), that a result which could still be published is current
(`HeldOK`), and, for the refinement, that what is cached or held is no older than
the question it will answer (`AskedOK`, `PairOK`). `CacheIsInvisible` is the
refinement theorem `Spec => AnswersSpec`: a step of the cache is a step of
`MemberAnswers` under the mapping `Request`, or leaves the mapped state alone.
`KeysAreTracked`, `CachedIsCurrent` and `VersionsAreOwned` follow from `IInv`.
`BuildsAreCounted` has an invariant of its own, `BuildsOK`: a call keeps its token and
its key from the miss to the `finally` block, whichever way the computation ends, so
the builds counted under a model and token are exactly the calls between the two; no
bound on the threads is needed.

`SurfacePublicationProofs` proves both safety properties of `publication`. Every
save and every refresh takes a new serial, so a table that was captured at the
present serial holds every save (`Captures`), and a frame is written only at the
serial of its capture; the steps of the threads (`Threads`) are inductive beside it.
`NothingAfterTheStop` is a case split over the steps: the threads and timers look at
the flag under the lock each time before they write or arm; the warm-up looks at the
generation only, and fails that check once the stop has held the lock.

`StateGenerationProofs` proves the three invariants of `state` for any number of
initializes, models and attempts. None is inductive by itself: each thread commits
what it computed from a state that may be gone. `LoadOK` says that a load of the
present generation read its runtime, and the index of every model that was not
stamped since: a commit stamps what it changes with a serial later than any load
that began, and the runtime of a generation does not change once it has one,
because until its warm-up applies one it is `pending` (`WarmUpOK`) and a load does
not start. `InitializeOK` says that between the number and the state of an
initialize no warm-up of the new generation runs. `SavesOK` says that a source the
index lacks is in the queue or being handled, also for an index that a warm-up
would apply at the present serial.

`SurfaceTransportProofs` proves `FramesAreExact` of `transport`. The argument needs
no order of the lines: each line that was written is `Sound` (a frame carries what
its sequence number published, alone or patched over what its base published), and
the client's baseline is what its own number published (`BaseOK`), so a frame whose
base has the baseline's number rebuilds its table. Two publishers may have encoded
over the same baseline; what either may still write fits the encoder's baseline
(`PubsOK`), because every write and reset makes the others' frames stale.

`QuietIsCurrent` of `transport` does need the order. Its invariant `QInv` follows one
reindex and one awaited initialize through the places where they can wait (`SavesOK`,
`InitsOK`) and the resyncs (`ControlOK`), and relates the lines that carry a
sequence number to those that are dated by when they were computed (`OrderOK`): a
frame the client takes never hides a later reply. From there, what the daemon
changes is either still to be published, by a publisher whose frame will be current
or that another one follows (`FreshOK`), or on its way and replaced by nothing
(`RepliesOK`, `FramesOK`, `FirstOK`), or in the client's table (`ViewOK`). When no
line, publisher, reindex or timer is left, only the last is possible. A request is
known by its number, so `SavesOK` and `InitsOK` tell the one that may still be awaited
from those that timed out before it: an answer to one of these leaves the client
`behind`, or carried nothing, and what is owed is said of the awaited one only. A
failed refresh needs nothing more, because it leaves the client `retired` until a
frame or the repeated refresh.

`TransportIsAReplica` is the refinement theorem `Spec => ReplicaSpec`. Its invariant
`RInv` compares revisions label by label. What was published, is served or is said by
a reply was the daemon's, whose present entry may follow it (`KnownOK`); the log is in
order (`LogOK`), replies are in the order they were computed (`TurnsOK`), and the table
of a publisher whose frame is fresh is no older than anything published, served
or said (`HeldOK`). Frames arrive in the order of their numbers (`RisingOK`) and none is
older than what is served (`ComingOK`). Replies and frames are not in one order: a
reply may be written after frames that came later. It lies between the log entries
before and after the moment it was computed (`PlacedOK`), and the client marks itself
`behind` when it has taken one of the latter. "May follow" is not transitive across
a label that is gone, so the invariant carries each pair and derives none from two
others. The daemon's steps then change or publish (`DaemonRefines`), the client's
take, answer, mend or doubt (`ClientRefines`), or neither.

`SurfaceDeliveryProofs` proves `FramesAreExact` and `NoForeignModel` of `delivery`.
The encoder uses a sequence number again when an update failed, so numbers alone do
not protect a delta; the order of the channel does. While the encoder has a baseline
and no update has failed (`BaseOK`), no full update is under way but the last one,
whose answer is awaited (`AwaitOK`); so a delta is the first full update in the
channel (`ChanOK`), and the decoder has the encoder's baseline or none of that
number. A failed, late or withdrawn update resets the encoder before the next one is
prepared. What the decoder has is not the baseline itself but the table that was
given with it (`enc.real`); a delta over the one, applied to the other, is wrong
exactly for the labels where they differ and that it does not carry, which are those
it has `left` (`Rebuilds`, `Gives`). The encoder's
baseline is of the scope it was acknowledged in (`ScopeOK`). That no model of an earlier daemon is kept needs that what an update holds
was given out in the session of its scope (`ActOK`, `BatchOK`), which is read again
when it is sent, and that an update of an earlier session is served before the
context of the running one (`OwnerOK`); rebuilding a delta is part of that argument,
for a wrong baseline could bring a foreign model back.

`QuietIsCurrent` of `delivery` says that a server at rest has the client's table and an
index of it. `QInv` has the reasons: one context is on its way at most
(`DeliveryOK`), and the modes, the flush and the update in hand fit each other
(`ModeOK`, `FlushOK`, `UpdateOK`). A full update is forgotten only when its table is
the client's except for what the running batch will send (`TakenOK`: until
it is sent it is the client's own table) and the server's index is that table (`AppliedOK`), or when its delta left out a label and
`torn` says so; a delta is prepared only for a server that has the
rest of the table and a settled context (`ServedOK`, `DeltaOK`). It uses the
assumption `NoneIsNoOther`.

`AnalysisPipelineProofs` proves two properties of `analysis`, for any files, texts,
runtime and kinds of edit. `ClientFollows` is inductive as it stands, given what a
slice and a fallback rebuilt for some labels change: nothing but the keys named with
them (`SliceDelta`, `FallbackDelta`); a neighbour that keeps its entry, a model that
was renamed and one that is gone are the cases. `RefreshCovers` says that
the check of a refresh for missing models never fails for an importable workspace:
every operation that makes an index gives it the fields of an index (`IndexOK`), so a
refresh replaces its snapshot and nothing else, its models and their keys stay the
same, and each key the old table lacks is among the labels rebuilt
(`RefreshCoversAll`).

The invariants were checked by TLC before they were proved. Model-checked only:

* all liveness (`CallersSettle`, `StopEnds`, `PublishedUnlessLost`, `GapsAreHealed`,
  `EventuallyCurrent`, `SurfaceLoads`, `CallsEnd`): the prover does not
  reason about fairness;
* `IndexIsCurrent`, `GraphIsCurrent`, `Converged`, `RelationsArePaired`,
  `SurfaceIsCurrent`, `AnswersAgree`: they compare what two recursive functions or
  folds compute (the exports of a module, the bases of a model, the visits of a
  reindex), which takes an induction over data through each of them. The library's
  theorems of induction take an operator as a parameter, which the installed provers
  do not instantiate; a least counterexample can stand in for them over the natural
  numbers, but not yet for these folds, whose values the provers do not unfold;
* `FallbackIsCurrent`: a step of it reads off the definitions, but an entry of the
  fallback belongs to one model only if an index has one candidate for each
  module and name, which is again what the folds that collect candidates compute.

## 7. Findings

Each violation run shows one of these; the counterexample names the steps.

* `publication_lost`: a retry is coalesced into a timer that has taken its last
  look (`app.py:2236`); the table just adopted is not published.
* `delivery_retired`: an update fails, the daemon ends and the next start fails:
  the wanted update has no timer (`surfacePublisher.ts:142`), and the server keeps
  the models of the ended daemon.
* `state_crossed_load`: `_reserve_state_generation` hands out the next number
  while the state is still the old one; a load started in between on the
  background thread passes `superseded()` (`app.py:1971`) and puts the old surface
  on the new graph, until a refresh of members replaces it (or for good, where
  the runtime failed and there is none).

## 8. Not modelled

The components marked `not_modelled` in `PROJECT.json`: the plan names those that
are worth it. Parsing of Python sources is data;
editor providers, settings and Pylance integration are sequential input and
output; tests, benchmarks and packaging are not part of the running program.
Within the modelled parts, each module's section above says what is left out.
