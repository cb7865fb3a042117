# TSP runtime: models, checks and proofs

TSP ("TypeScript Server Page") serves pages written in TypeScript from an
embedded Bun. Its own code is `bun/src/runtime/tsp/` and
`bun/src/runtime/tsp_worker.rs`; the rest of `bun/` is third-party code. This
directory holds TLA+ models of the parts whose correctness depends on what
several threads and processes do at once, the TLC runs that check them on small
instances, and TLAPS proofs of the safety properties for every number of pages,
requests, threads, workers, clients and sources.

## The system

| Part | State it keeps | Operations | Talks to |
|---|---|---|---|
| Page registry (`generation.rs`) | one slot per (route, method): state, current and last-known-good generation, in-flight build, invalidation revision | register, unregister, mark_dirty, begin_build, commit, fail, guard drop, join, wait | request threads and watcher call it; one mutex for the slots, one per in-flight build |
| Watcher (`watcher.rs`) | last snapshot, dependency index | poll: snapshot, diff, reconcile routes, mark affected pages | route table, registry, execution generation, invalidation bus |
| Host (`host.rs`, `pipeline.rs`) | one thread per connection | route, then render through the registry or per request | registry, worker pool, services, sessions |
| Reload generation (`jsc_bridge.rs`) | execution generation, last restarted generation, restart lock | bump (watcher), restart workers (request thread) | worker pool |
| Worker pool (`worker/pool.rs`) | admission count, active count and manager mutex per worker | acquire, execute, restart_all, guard drop | worker managers |
| Worker manager (`worker/manager.rs`, `lifecycle.rs`) | child process, stream, completed requests | start, stop, execute with or without timeout, retry, recycle | worker process over a socket |
| Worker process (`tsp_worker.rs`) | an embedded VM | read Execute, run, reply | its manager |
| Route table (`router.rs`) | sorted routes | scan, add, replace, remove, lookup | host, watcher |
| Sessions (`session_backend.rs`, cookie handling in `host.rs`) | memory store and order list, or Redis keys and one shared stream; an id counter | lookup, create, apply writes (set, delete, clear, regenerate, destroy), evict | host |
| Services (`services.rs`) | logger, counter, rate limits, configuration | per-request snapshot, configuration reload | host, watcher |
| Invalidation bus (`invalidation_bus.rs`) | append-only file and a cursor | publish, read_since | watchers of several processes |
| Text and I/O (`jsx.rs`, `page.rs`, `module_graph.rs`, `static_files.rs`, `typings.rs`, `metrics.rs`, protocol encoding, sandbox) | none that others depend on | transformations, file and socket I/O | |

What is hard here: a source changes while its page is being built; the page is
removed and re-created while requests hold guards and in-flight builds; threads
share a build and sleep on its outcome; a worker dies, hangs or answers late
while its manager retries; a reload restarts workers under running requests; the
admission limit is reached by threads that time out; a build falls between the
mark of its page and the bump of the generation; routes, slots and files change
one after the other while requests look them up; two locks of the session store
are taken one after the other; a late reply stays in a stream that many threads
share. `PROJECT.json` lists each such hazard at its line with the property that
covers it.

What makes the parts correct: no announced change is lost, every build has one
owner who finishes it, no sleeper is forgotten, what is published never goes
back (registry, watcher, host); places and counts are exact, a reply reaches the
request it answers, side effects are bounded, nothing runs in a process from
before a reload, every request returns (pool, manager, worker); what a request
runs is as new as the generation it read, and every edit reaches it (reload, bus);
the table stays ordered, dispatch finds a slot, and the table follows the files
(routes); a session belongs to one client, keeps its data under one id and ends
for good (sessions).

## The modules

`PageRegistry` is the registry alone. Each operator is the body of one critical
section, named after the method: `register`, `unregister`, `mark_dirty`,
`begin_build`, `resolve`, `commit`, `fail`, `rollback` (guard drop). `commit`,
`fail` and drop take two locks in turn, so each is two operators (`resolve`, then
the slot write) and other threads run in between. A generation is named by the
thread that builds it.

`HotReload` extends it with everything that calls it. The source of a page is a
version number written by the editor (the environment). The watcher is a thread
with a program counter `wpc`: `WatchStart` (baseline), `WatchSnapshot` and
`WatchScan`, then reconciliation in the order of the code (`WatchRegister`,
`WatchAddMark`, `WatchAddRoute`; `WatchReplace`; `WatchUnroute`,
`WatchUnregister`), then `WatchAffected`, `WatchMark`, `WatchFinish`. Unreadable
files, a failing scan and a failing `prepare_route` are choices. A request
thread has a program counter `pc[r]` that follows `render_for_route`: dispatch on
the state seen, win or lose `begin_build`, prepare, execute, resolve, write back,
pin; or join and wait; or `PerRequest`, which bypasses the registry. The history
variables `epoch`, `bornIn`, `announced` and `baseline` are read by no guard.
With the built-in services registered every GET is request-varying and takes
`PerRequest`; a HEAD answered by the GET handler, and a host without varying
services, take the registry path. The model lets each request take either.
A page stands for one method of one route. When an edit changes the set of
methods a route exports, the methods it keeps are marked at once
(`WatchReplace`, a choice when `MethodsVary`); methods gained or lost are not
told apart from pages added or removed.

`WorkerProcess` is one worker slot: the handle, the two directions of the stream,
and the child that takes one Execute after the other. `WorkerPool` extends it
with request threads that follow `restart_workers_after_reload`, `acquire`,
least-active dispatch, and `execute_with_timeout` / `execute` under the manager's
mutex. Time is abstract: a deadline may be over whenever the code looks at it and
a read with a timeout may time out while it waits. `Timed` holds the threads whose
page has a timeout (`timeoutMs: 0` switches it off), `Unsafe` those whose method
`can_retry_request` refuses. Recycling by age or memory is a choice when
`AgePolicy`.

`DependencyReload` instantiates `PageRegistry` (one page per process) and puts
the watcher, the execution generation, the invalidation bus and the worker's
module cache around it. The page imports a module directly, under a URL that
carries the generation, and through it a second one under its plain path. The
watcher marks (`WatchMark`), bumps (`WatchBump`), publishes (`PublishText` and
`PublishNewline` for each changed file, since `writeln!` on an unbuffered file
makes an append for the text and one for the newline; then `PublishEnd`, or
`PublishFails` at any point), reads (`ReadSince`) and marks what it read
(`MarkRemote`). The bus file is the sequence of these pieces. Texts and newlines of
processes outside the model are appended by `RemoteText` and `RemoteNewline`,
between any two pieces of the others. A line into which two texts ran reads as a
path nobody wrote; no page depends on it, so `affected_pages` gives up and every
page is marked, which is what `ReadSince` and `MarkRemote` do with it. A request
begins a build or a render outside the registry, reads the generation for its URLs
(`RewriteImports`), reads it again and restarts the worker if needed
(`CheckRestart`, `Restart`), executes and finishes. `snapOf`, `heard` and `skip` are
history. Building the page and running it in a pool are single steps here;
`HotReload` and `WorkerPool` have their steps. The critical sections of commit and
fail are one step because no request joins a build in this model.

`RouteTable` is `router.rs` as operators: which shapes a scan accepts, the URL path
of a source, the order of rows, `add`, `replace_by_path`, `remove_by_path`,
`match_segments`, the score, and `lookup_named`. A source is the sequence of tokens
of its path under `pages/`; names are numbers in the order of their bytes. The
loops are stated by what they end with, which is what the proofs reason about: a
push and a stable sort as an insertion behind the rows that are not greater,
`retain` as the other rows in their order, the lookup loop as the first of the
matching rows with the lowest score.
`RouteReconcile` extends it with the files on disk, the registry's keys and the
watcher: snapshot, scan, the comparison of same-path rows, additions (slots, then
row), replacements (slots, row, then the slots of lost methods) and removals (row,
then slots), each a step, with the editor between any two. The snapshot and the scan
walk the tree one directory after the other while the editor goes on. `had[f]`
collects the contents that `f` has while a walk lasts, and the walk ends with any of
them for each file, so it may put together a tree that never existed: a source moved
meanwhile may be found at both places or at neither. Boot sources may share a path,
and then the boot table has a row for each, as `RouteTable::scan` leaves it. An
addition and a replacement touch one slot per method; these are one step, since no
row points at them yet or any more.

`SessionHost` is the host's half of a session: the cookie that a request carries,
the page, the writes, the `Set-Cookie` line, and responses that plant none or
never arrive. `MemorySessions` extends it with the in-memory backend, one action
per critical section of its two mutexes. `SessionStore` is the abstract
specification of a backend: sessions are opened under fresh ids, written through
their current id, given a new id, closed, and evicted only down to the capacity.
`MemorySessions!Abstract` maps a row to a session under its id and a row held by a
regenerate to a session without one. `RedisSessions` extends `SessionHost` with the
Redis backend: `is_available`, dial, PING, and a round trip on the one stream all
threads share, whose reply may come too late.

`MCWorkerPool` and `MCMemorySessions` add only the symmetry sets TLC uses,
`MCRouteReconcile` the page sources of its two runs. `HotReloadProofs`,
`WorkerPoolProofs`, `DependencyReloadProofs`, `RouteReconcileProofs`,
`MemorySessionsProofs` and `RedisSessionsProofs` hold the theorems, each about the model of its name.
Definitions named `X_...` with a comment that starts with "Mutant"
are plausible bugs of `X`; they are used by no specification and show that a
property can fail.

## The runs

| Run | Configuration | Shows |
|---|---|---|
| `hot_reload` | 1 page, 2 requests, 2 versions, methods vary | the safety properties of the registry, watcher and request threads; every request ends; a stale page does not stay Clean, 0.8 million states |
| `worker_pool` | 3 requests, 2 workers, limit 2, one reload, one crash, recycle after 1 | the counters, streams, effects and processes are right, 2.5 million states |
| `worker_pool_live` | 3 requests, 1 worker, limit 1, one reload, one crash | every request returns |
| `sessions` | 2 clients, 2 threads, 2 keys, 4 ids, 2 writes, capacity 1 | sessions stay apart, map and order agree, and the refinement of `SessionStore`, 0.5 million states |
| `dependency_reload` | 1 process, 2 requests, 1 edit, 1 remote line | what a request runs is as new as its generation, the bus accounts for its lines, edits reach the process, 1.0 million states |
| `routing` | 5 sources, 2 of one path at boot, 2 edits | order, dispatch, precedence and removal of routes, and that paths follow the files, 0.5 million states |
| `post_commit_expect` | 1 page, 2 requests | violated: the page can be unregistered between commit and the read that expects a body |
| `readded_page` | 1 page, 1 request, 3 versions | violated: a guard of an earlier registration commits an old body as Clean |
| `replayed_post` | 1 request, 1 worker, 1 crash | violated: a POST of a page without a timeout is sent again after its worker died |
| `redis_reply` | 2 clients, 2 threads, 1 fault | violated: a late reply is taken by another thread, which gets the wrong session |
| `stale_dependency` | 1 process, 2 requests, 1 edit | violated: a build between mark and bump is published as Clean with the old module |
| `lost_methods` | 2 sources, 3 edits | violated: a method change seen by an incomplete poll never reaches the table |

Properties of the passing runs, besides one `TypeOK` per model:

* `FreshWhenClean`, a Clean slot serves a source at least as new as the last
  change announced to it; `OneBuilderPerPage`; `BuildingHasOwner`, no slot
  sticks in Building; `SleeperHasBuilder`, no lost wake-up; `FallbackExists`;
  `RoutedIsRegistered`; `PinFindsCurrent`; `PublishedNeverRegresses`.
* `EveryRequestAnswered`, `StaleNeverStaysClean`.
* `AdmissionExact`, `ActiveExact`, `NoIdlePlace` (a free place and a sleeper
  imply a thread already woken), `NoStaleReply`, `BoundedEffects` (where
  `can_retry_request` is asked, an unsafe request runs once; a safe one runs at
  most twice), `RunsInFreshProcess`, `RecycledAtLimit`, `EveryRequestReturns`.
* `SessionsNotShared`, `OrderTracksStore` (the two mutexes disagree only about
  threads between two sections), `ImplementsSessionStore` (a write reaches its own
  session or none, regenerate moves data intact and never leaves two ids, nothing
  destroyed comes back, eviction stops at the cap).
* `GenerationIsFresh`, `BusLinesAccounted` (since its own last publish a process has
  read exactly the texts that stand on a line of their own, and rests between two
  lines), `EditsReachEveryProcess`.
* `TableOrdered` (sorted, and a second row only for a path that boot found two
  sources of), `DispatchHasSlot`, `LookupPrecedence` (what the scores keep of
  "static, dynamic, catch-all"), `RemovedOnlyIfAbsent` (each source of
  a removed path was absent for some time during the walk), `PathsSettle`.

The first group is stated per registration of a page where the code needs it:
`FreshWhenClean`, `OneBuilderPerPage`, `PinFindsCurrent` and
`PublishedNeverRegresses` exclude guards that outlive a removal and re-creation
of their page, which is exactly what `readded_page` and `post_commit_expect` show
to be broken.

### Divergences that have no run

The models take these steps as the code does, and no property excludes them:

* A failed rebuild is answered 500 by the request that ran it although a
  last-known-good generation exists (`docs/tsp-specification.md:292` says it keeps
  serving).
* A worker found dead by a request that may not be retried is not replaced
  (`docs/tsp-plan.md:133` lists "crash detection and replacement").
* The memory store can rest above the capacity that `services.rs:56-60` calls the
  "Maximum number of live sessions kept": regenerate takes a row out, a create fills
  the place and finds nothing to evict, regenerate puts its row back and does not
  enforce the cap. With capacity 1 the store then holds two sessions until the next
  create. `OvershootIsBounded` says how far this goes.
* "dynamic routes have precedence over catch-all routes"
  (`docs/tsp-specification.md:91-92`, `docs/reference/contract.md:39-40`,
  `router.rs:535`), but the score is a sum over the segments: `/*rest` ties with
  `/:id/:tab` and answers first, because it sorts first. `LookupPrecedence` is the
  part of the claim that does hold.
* "Two routes with the same shape are ambiguous and MUST fail route discovery"
  (`docs/tsp-specification.md:92-93`; `README.md:89` says validated at startup):
  `RouteTable::scan` keeps both rows. While both sources exist, each poll replaces
  the first of the rows by the one of the other source, so the page that answers
  alternates.
* A publisher skips the lines that others appended since its last read
  (`invalidation_bus.rs:53`), and lines of two writers can merge. A merged line marks
  every page, so it costs rebuilds; a skipped one is made up for by the process's own
  poll of the tree.

### Bounds

* One page is enough for the registry: pages share no state but the mutex, and the
  watcher treats them one by one. The proofs cover any number of pages.
* Two requests: one builds while the other joins, rebuilds, or starts a build on a
  later registration. Each request runs once, so a generation is named by its
  thread. The run has two because it also checks liveness. What takes three builds,
  such as a failure while the fallback is older than the current body, is covered by
  the proofs of the safety properties, which hold for any number of requests.
* `MaxVersion` 2 allows an edit, or a deletion and a re-creation; 3 allows both
  (`readded_page`). The last version is never deleted.
* Two workers let least-active dispatch choose and a reload fail half way; limit 2
  with three threads makes admission block. One crash and one reload can hit every
  step; the retry is bounded by the code itself (two attempts).
* Sessions: capacity 1 makes two clients compete for it; four ids allow each client
  a session and a regenerate, or one client to lose its session and come back. The
  bound on ids keeps a thread from starting what it could not finish.
* Dependency reload: one edit, which has a before and an after for each module,
  lets two requests fall anywhere around the mark, the bump and each other's
  restarts. One remote line is enough for merging: its text and newline fall
  between and around the process's own, also those of a publish that failed after
  its text.
* Routing: the five sources are two of one path, both there at boot, a shape of two
  parameters, a catch-all that competes with it, and one that the scan refuses. Two
  edits allow a move between `users.tsp` and `users/index.tsp`, also during a walk,
  or a source that becomes unreadable and recovers.
* `RecycleAfter` 1 makes recycling happen between any two requests.
* Requests, versions, crashes and reloads are finite, so `WorkerPool` may come to
  rest; its runs do not check for deadlock, and `EveryRequestReturns` shows that
  it rests only when every request has returned. The violation runs do not check
  for deadlock either, nor does `sessions`, where the ids run out. The watcher polls
  for ever, so the passing runs of `HotReload`, `DependencyReload` and
  `RouteReconcile` do check it.

### Fairness

`HotReload!FairSpec`: each request thread and the watcher keep running (weak
fairness; they are operating-system threads), and a poll that can read every file
happens again and again (strong fairness on `WatchSnapshot({})`). The editor and
clients may stop at any point; builds may fail or panic for ever.
`WorkerPool!FairSpec`: each request thread keeps running, and a child that runs a
page eventually replies (`Execute`). The second is an assumption about page code;
timed requests do not need it. Mutexes need no strong fairness because each
thread takes each of them finitely often. A start of a worker is taken to end: its
accept has a timeout, but the read of Ready has none, so a child that connects and
then hangs would block its manager. That is listed as a hazard.
`DependencyReload!FairSpec`: the watcher loop of each process keeps running, and a
poll that can read every module happens again and again. `RouteReconcile!FairSpec`:
the watcher loop keeps running; what keeps it from reconciling (a source that stays
unreadable or unsupported) is excluded in the properties, not by fairness.

## The proofs

Every invariant and every action property of the passing runs is a theorem, and so
is the refinement of the session store. Each proof module defines one inductive
invariant `IndInv`, proves that the initial states satisfy it (`InitInd`) and that
every step keeps it (one lemma per action or kind of action), and reads the
properties off it. `Invariance` in each module is `Spec => []IndInv`. The
properties themselves are seldom inductive; what had to be added, and why, follows.

### HotReloadProofs

For any sets `Page`, `BootPage` and `Request` and any `MaxVersion`: `TypeCorrect`,
`NoLostInvalidation`, `BuildsDeduplicated`, `BuildingIsOwned`, `NoLostWakeup`,
`FallbackAlways`, `RoutesHaveSlots`, `PinSafe` and the action property
`NoRegression`. Assumed of the constants: `None` is no page and no request, boot
pages are pages, `MethodsVary` is a Boolean, `MaxVersion` is positive.

That a commit leaves a fresh Clean slot depends on what the guard's revision says
about the time the source was read. `GuardInv` states it: as long as a guard of
the current registration carries the slot's revision, no change has been announced
since its build began, so whatever it read is new enough. `DiskInv` orders the
versions (a source that is present is the last one written; snapshots and
announcements do not exceed it), `ThreadInv` says what a thread at each place has
done to its in-flight build, `EpochInv` counts registrations, `WatchInv` says what
the watcher has registered or unrouted half way through an addition or a removal,
and `OrderInv` says that a builder of a page registered once has read a source no
older than the published one, which `NoRegression` needs. Most steps touch little:
the lemmas `ServeFrame` (steps that leave registry and threads alone) and
`BystanderInd` (steps of a thread that owns no build) discharge them, and the steps
that write the registry have a lemma each.

### WorkerPoolProofs

For any finite set of threads, any pool size, limit, recycle policy and number of
reloads and crashes: `TypeCorrect`, `AdmissionIsExact`, `ActiveIsExact`,
`NoPlaceIsLost`, `RepliesAreCurrent`, `EffectsAreBounded`, `ProcessesAreFresh` and
`WorkersAreRecycled`. Assumed: the threads are finitely many (the counters count
them), there is a worker, the limit is not below their number, a recycle limit is
positive, and `None` is no thread, slot or place.

`ThreadInv` and `LockInv` say who works on a slot; because the owner of a manager's
mutex is alone, `StreamInv` can say that a slot's stream is quiet unless its owner
is reading, and then carries that owner's attempt and nothing else, in one of its
three stages (written, running, answered). So the child runs only what its reader
wrote: `AttemptInv` and `EffectsInv` bound the effects by the attempts, and
`WorkerInv` bounds what a handle has completed by what was allowed when the call
began. `FreshInv` describes `restart_all` as a front that moves through the slots:
behind it, and for every generation recorded as restarted, all workers are fresh.
The two counters are shown to move by one together with the sets they count.

### DependencyReloadProofs

For any processes and requests and any number of edits and lines: `TypeCorrect`,
`ResponsesAreFresh` and `BusIsAccounted`. Assumed: the writer outside the model and
the newline are no processes of it.

`VersionInv` and `SnapInv` order what a generation was published with, what the
watcher has seen and what is on disk; `BumpInv` ties each bump to an edit of its
own, which bounds the generations. `CacheInv` says that a cached module is unused or
at least as new as the snapshot of the generation it is served under, `RequestInv`
that a request runs under a generation at least as new as the one in its URLs: the
restart another request did, for an older or a newer generation, never puts a
stale module in front of it. `BusLinesAccounted` needs only the types besides: whether
a text that ends in a newline has a line of its own depends only on its two
neighbours, so an append leaves the lines before the cursor alone
(`AccountedKept`), and a read takes whole lines.

### RouteReconcileProofs

For any finite set of sources, any sources at boot, any number of edits and any
request paths: `TypeCorrect`, `TableStaysOrdered`, `DispatchFindsSlot`,
`LookupKeepsPrecedence`, the action property `RemovalsAreJustified`, and
`NoDuplicateAdd`: `RouteTable::add` is never called with a path the table has, so
the error that would leave registered slots behind cannot be returned.
(`WatchPublish` leaves that error out; this theorem is the reason it may.) Assumed:
names are numbers, the sources are finitely many and none is empty, those at boot
are supported (the boot scan fails otherwise), `None` is no row.

The order of the table first needs facts about the operators: `Before` is
irreflexive, transitive and total on paths of supported segments, and
`AddFacts`, `ReplaceFacts` and `RemoveFacts` say which rows and paths a sorted
table has after an operation and that it is sorted. The lookup compares summed
scores: a row of the request's very names has score 0, one with a single parameter
less than any catch-all. The score is a sum of cardinalities, and the proof compares
sets of positions (the segments that are not static, the catch-alls), since the
prover does no induction over sequences. `IndInv` then adds to the properties that
the rows are ones a scan makes (`RowsInv`); that every method of every row that is
the first of its path has its slot (`SlotInv`; the second row of a path doubled at
boot answers no request, and a replacement of the first may drop its slots); which
supported source stands behind each pending addition or comparison (`ScanInv`); that
what is still to add is absent and what is still to remove is present, but for the
path between the two halves of its removal (`PlanInv`); what an addition or a
replacement half way has registered (`StepInv`); and that each source of a path
still to be removed was absent during the walk (`AbsentInv`).

### MemorySessionsProofs

For any clients, keys, capacity and finite set of threads: `TypeCorrect`,
`SessionsAreNotShared`, `OrderIsAccurate`, `Refinement`
(`Spec => ImplementsSessionStore`), and `OvershootIsBounded`, which no run checks: the
map exceeds its capacity by the creates that have yet to enforce it and by fewer
further rows than there are threads. Assumed: the threads are finitely many.

The key strengthening is `SecretInv`: between the section that puts a row into the
map and the one that puts its id into the order, only the thread at work knows the
id, so no other request can destroy, regenerate or evict the row. It rests on
`IdInv` (the counter's next id is in nobody's hands), `ThreadInv` (which ids a thread
holds at which step) and `OwnerInv` (an id belongs to the client it was minted for,
which is `SessionsNotShared` extended to jars and locals); `MintInv` keeps the bound
on ids from catching a thread half way. The refinement maps a row in the map to a
session under its id and a row in the hands of a regenerate to a session without
one; `RootInv` says that no two of those rows are the same session. Each step is
then shown to be a step of `SessionStore` or to leave its variables alone.

### RedisSessionsProofs

The run `redis_reply` shows that a reply which misses the read timeout can reach
another thread. The theorems say what that can and cannot do, in every behaviour,
for any clients, keys, threads and number of faults. `OnlyLateRepliesMislead`: a step
makes a lookup answer with another session than its cookie's only if a reply was
left unread in the stream before it; broken streams, failed dials and the commands
of other threads never do. `StoredUnderOwnId`: whatever view a thread was handed, the
SET that follows stores it under its own id, so no row is overwritten with another
session's. `FreshIdIsUnused`: the id that create or regenerate takes next is no
row's, no cookie's, and in no reply under way. Sessions do not stay apart once a
reply was late, so that is not a theorem.

`RedisInv` says that a view is stored under its own id and that ids in Redis and in
unread replies were handed out by the counter, `IdInv` that so was every other id in
use; `ThreadInv` says that a thread about to store a view holds one with an id, and
where a failed call returns to. `PairedReply` gives a command that finds the stream
empty its own reply or a failure.

### What stays with TLC

The liveness properties (`EveryRequestAnswered`, `StaleNeverStaysClean`,
`EveryRequestReturns`, `EditsReachEveryProcess`, `PathsSettle`), because the prover
has no rules for fairness and ENABLED. The six violation runs are counterexamples
and have nothing to prove. Scores and ranks are
written with cardinalities, not recursion, so no proof needed induction over data;
where a least element is needed it comes from the well-foundedness of the naturals.

## Not modelled

`bun/` outside `bun/src/runtime/tsp/` and `bun/src/runtime/tsp_worker.rs` is the
vendored Bun runtime, over a million lines of third-party code: the models take
from it the child process, the module cache and the stream, as external. HTTP
parsing and response headers, static files, metrics, typings, the JSX transform,
the dependency analysis and the byte layout of the worker protocol are sequential
text or I/O. The JavaScript VM and page code appear as an Execute that replies or
dies. Of the services, the session is modelled; logger, counter, rate limit and the
configuration snapshot are single critical sections on one map each. Sandbox,
cgroups, process inspector and application registry set up the operating system
once or only report. `health_check`, heartbeats and `cancel` are called by nothing
in the server. Expiry of Redis keys, ids that collide between processes or after a
restart, percent escapes and route parameters are left out. A request carries only
an id from its own client's jar: the code accepts any cookie, and its ids are a
counter, so the session properties say nothing about cookies a client was never
given. Poisoned mutexes are
left out: `panic = "abort"` ends the process first. `BuildPanics` models the
unwinding guard drop, which only builds without that setting can reach.

## Plan

1. Done: registry, watcher and request threads (`PageRegistry`, `HotReload`), the
   worker pool (`WorkerProcess`, `WorkerPool`), the proofs about `HotReload`.
2. Done: dependency reload and the invalidation bus (`DependencyReload`), routing
   under the watcher (`RouteTable`, `RouteReconcile`), sessions in memory and in
   Redis with the abstract store (`SessionHost`, `SessionStore`, `MemorySessions`,
   `RedisSessions`).
3. Done: theorems for every invariant and action property of the passing runs of
   `HotReload`, `WorkerPool`, `DependencyReload`, `RouteReconcile` and
   `MemorySessions`, the refinement of `SessionStore`, and what the Redis backend
   guarantees although replies are late.
4. Next: facts the runs do not state yet, such as which slots may outlive their
   row after two sources of one path were swapped in one poll.
