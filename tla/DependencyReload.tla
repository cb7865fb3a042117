-------------------------- MODULE DependencyReload --------------------------
(***************************************************************************)
(* How an edit of a module that a page imports reaches responses, in       *)
(* several TSP processes that serve the same tree.  In each process the    *)
(* watcher marks the page dirty, then bumps the execution generation, then *)
(* tells the other processes over the invalidation bus (watcher.rs,        *)
(* invalidation_bus.rs); a request reads the generation for its import     *)
(* URLs and restarts the worker when the generation moved (jsc_bridge.rs). *)
(*                                                                         *)
(* The page imports one module directly, under a URL that carries the      *)
(* generation, and through it a second one, under its plain path: Bun      *)
(* caches the first per generation, the second for the life of the worker. *)
(* Each process has one page, kept by PageRegistry, and one worker.  The   *)
(* other steps of a build are in HotReload, those of a worker in           *)
(* WorkerPool.                                                             *)
(***************************************************************************)
EXTENDS Integers, Sequences, FiniteSets

CONSTANTS
    Process,     \* TSP processes that share the tree and the bus file
    Request,     \* requests, each served once
    None,
    MaxEdits,    \* bound: edits of imported modules
    MaxRemote    \* bound: lines that processes outside Process begin

ASSUME ReloadBounds == MaxEdits \in Nat /\ MaxRemote \in Nat

\* The bus file is a sequence of pieces: the text of a line, which is the
\* writer's name (None outside Process), and the newline after it.
Newline == "newline"
Piece == Process \cup {None, Newline}

ASSUME RemoteAssumption == None \notin Process /\ Newline \notin Process \cup {None}

VARIABLES
    disk,        \* disk[d]: version of the module d on disk
    registered, slot, shared,   \* one page per process, see PageRegistry
    \* the watcher of each process
    wpc,         \* its next step
    seen,        \* last_seen
    changed,     \* changed_files of this poll, not yet published
    \* the process
    generation,  \* EXECUTION_GENERATION
    lastRestart, \* LAST_WORKER_RESTART_GENERATION
    cache,       \* modules the worker has loaded, 0 for not loaded
    \* the bus
    log,         \* the pieces of the bus file
    cursor,      \* pieces each process has behind it
    torn,        \* texts from outside Process that await their newline
    \* requests
    pc, home,    \* next step, and the process that serves the request
    cached,      \* the response goes through the registry
    guard,       \* the revision its PublishGuard was given
    gen,         \* the generation in its import URLs
    want,        \* the generation restart_workers_after_reload read
    body,        \* the versions its response was made from
    \* history
    snapOf,      \* snapOf[p][g]: last_seen when p bumped to generation g
    heard,       \* texts of the bus that p has read as a path
    skip         \* where the last publish of p put its cursor

INSTANCE PageRegistry WITH Page <- Process

pageVars == <<registered, slot, shared>>
watchVars == <<wpc, seen, changed>>
reloadVars == <<generation, snapOf>>
workerVars == <<lastRestart, cache>>
busVars == <<log, cursor, torn, heard, skip>>
requestVars == <<pc, home, cached, guard, gen, want, body>>
vars == <<disk, pageVars, watchVars, reloadVars, workerVars, busVars, requestVars>>

Module == {"direct", "nested"}
Versions == [Module -> 0..(MaxEdits + 1)]
Unread == [d \in Module |-> 0]
Generation == 1..(MaxEdits + 1)   \* each bump follows an edit of its own

\* The worker's module cache: direct per generation, nested by path.
Cache == [direct : [Generation -> 0..(MaxEdits + 1)], nested : 0..(MaxEdits + 1)]
EmptyCache == [direct |-> [g \in Generation |-> 0], nested |-> 0]

Init ==
    /\ disk = [d \in Module |-> 1]
    /\ RegistryInit(Process)
    /\ wpc = [p \in Process |-> "wait"]
    /\ seen = [p \in Process |-> disk]
    /\ changed = [p \in Process |-> {}]
    /\ generation = [p \in Process |-> 1]
    /\ lastRestart = [p \in Process |-> 0]
    /\ cache = [p \in Process |-> EmptyCache]
    /\ log = << >>
    /\ cursor = [p \in Process |-> 0]
    /\ torn = 0
    /\ pc = [r \in Request |-> "new"]
    /\ home = [r \in Request |-> None]
    /\ cached = [r \in Request |-> FALSE]
    /\ guard = [r \in Request |-> 0]
    /\ gen = [r \in Request |-> 0]
    /\ want = [r \in Request |-> 0]
    /\ body = [r \in Request |-> Unread]
    /\ snapOf = [p \in Process |-> [g \in Generation |-> IF g = 1 THEN disk ELSE Unread]]
    /\ heard = [p \in Process |-> {}]
    /\ skip = [p \in Process |-> 0]

\* Somebody edits an imported module.
Edit(d) ==
    /\ disk["direct"] + disk["nested"] - 2 < MaxEdits
    /\ disk' = [disk EXCEPT ![d] = @ + 1]
    /\ UNCHANGED <<pageVars, watchVars, reloadVars, workerVars, busVars, requestVars>>

\* A process outside Process publishes: writeln! appends the text first ...
RemoteText ==
    /\ Cardinality({i \in DOMAIN log : log[i] = None}) < MaxRemote
    /\ log' = Append(log, None)
    /\ torn' = torn + 1
    /\ UNCHANGED <<disk, pageVars, watchVars, reloadVars, workerVars, cursor, heard, skip, requestVars>>

\* ... and then the newline.
RemoteNewline ==
    /\ torn > 0
    /\ log' = Append(log, Newline)
    /\ torn' = torn - 1
    /\ UNCHANGED <<disk, pageVars, watchVars, reloadVars, workerVars, cursor, heard, skip, requestVars>>

-----------------------------------------------------------------------------
(* The watcher loop of process p.                                          *)

WatchGoto(p, step) == wpc' = [wpc EXCEPT ![p] = step]

\* Mutant: what could not be read is recorded as seen.
WatchSnapshot_BadSeen(p, bad) ==
    /\ wpc[p] = "wait"
    /\ LET diff == {d \in Module \ bad : disk[d] # seen[p][d]}
       IN  /\ changed' = [changed EXCEPT ![p] = diff]
           /\ seen' = [seen EXCEPT ![p] = disk]
           /\ WatchGoto(p, IF diff = {} THEN "read" ELSE "mark")
    /\ UNCHANGED <<disk, pageVars, reloadVars, workerVars, busVars, requestVars>>

\* poll_once_with_index up to the diff; the modules in bad cannot be read
\* this time and keep their last_seen entry.
WatchSnapshot(p, bad) ==
    /\ wpc[p] = "wait"
    /\ LET diff == {d \in Module \ bad : disk[d] # seen[p][d]}
       IN  /\ changed' = [changed EXCEPT ![p] = diff]
           /\ seen' = [seen EXCEPT ![p] = [d \in Module |-> IF d \in diff THEN disk[d] ELSE @[d]]]
           /\ WatchGoto(p, IF diff = {} THEN "read" ELSE "mark")
    /\ UNCHANGED <<disk, pageVars, reloadVars, workerVars, busVars, requestVars>>

\* Both modules are in the page's dependency set: it is marked.
WatchMark(p) ==
    /\ wpc[p] = "mark"
    /\ mark_dirty(p)
    /\ WatchGoto(p, "bump")
    /\ UNCHANGED <<disk, seen, changed, reloadVars, workerVars, busVars, requestVars>>

\* bump_execution_generation
WatchBump(p) ==
    /\ wpc[p] = "bump"
    /\ generation' = [generation EXCEPT ![p] = @ + 1]
    /\ snapOf' = [snapOf EXCEPT ![p][generation[p] + 1] = seen[p]]
    /\ WatchGoto(p, "publish")
    /\ UNCHANGED <<disk, pageVars, seen, changed, workerVars, busVars, requestVars>>

\* publish: writeln! on the unbuffered file makes two appends for a changed
\* file, its text ...
PublishText(p, d) ==
    /\ wpc[p] = "publish"
    /\ d \in changed[p]
    /\ log' = Append(log, p)
    /\ changed' = [changed EXCEPT ![p] = @ \ {d}]
    /\ WatchGoto(p, "newline")
    /\ UNCHANGED <<disk, pageVars, seen, reloadVars, workerVars, cursor, torn, heard, skip, requestVars>>

\* ... and the newline; others append between the two.
PublishNewline(p) ==
    /\ wpc[p] = "newline"
    /\ log' = Append(log, Newline)
    /\ WatchGoto(p, "publish")
    /\ UNCHANGED <<disk, pageVars, seen, changed, reloadVars, workerVars, cursor, torn, heard, skip, requestVars>>

\* Mutant: the cursor moves past the end of the file.
PublishEnd_Past(p) ==
    /\ wpc[p] = "publish"
    /\ changed[p] = {}
    /\ cursor' = [cursor EXCEPT ![p] = Len(log) + 1]
    /\ skip' = [skip EXCEPT ![p] = Len(log)]
    /\ WatchGoto(p, "read")
    /\ UNCHANGED <<disk, pageVars, seen, changed, reloadVars, workerVars, log, torn, heard, requestVars>>

\* publish: the cursor moves to the end of the file.
PublishEnd(p) ==
    /\ wpc[p] = "publish"
    /\ changed[p] = {}
    /\ cursor' = [cursor EXCEPT ![p] = Len(log)]
    /\ skip' = [skip EXCEPT ![p] = Len(log)]
    /\ WatchGoto(p, "read")
    /\ UNCHANGED <<disk, pageVars, seen, changed, reloadVars, workerVars, log, torn, heard, requestVars>>

\* publish returns an error: logged, the cursor stays.
PublishFails(p) ==
    /\ wpc[p] \in {"publish", "newline"}
    /\ changed' = [changed EXCEPT ![p] = {}]
    /\ WatchGoto(p, "read")
    /\ UNCHANGED <<disk, pageVars, seen, reloadVars, workerVars, busVars, requestVars>>

\* Where a read from piece c + 1 on may stop.
LineEnds(c) == {c} \cup {i \in (c + 1)..Len(log) : log[i] = Newline}

\* The text at i is a line of its own for who reads from piece c + 1 on; a
\* longer line reads as a path that nobody wrote.
OwnLine(i, c) ==
    /\ log[i] # Newline
    /\ i = c + 1 \/ log[i - 1] = Newline
    /\ i < Len(log) /\ log[i + 1] = Newline

\* Mutant: the cursor moves to the end of what was read, behind a text whose
\* newline is still to come.
ReadSince_TakesTorn(p) ==
    /\ wpc[p] = "read"
    /\ \E e \in LineEnds(cursor[p]) :
         /\ \A i \in LineEnds(cursor[p]) : i <= e
         /\ heard' = [heard EXCEPT ![p] =
                @ \cup {i \in (cursor[p] + 1)..e : OwnLine(i, cursor[p])}]
         /\ cursor' = [cursor EXCEPT ![p] = Len(log)]
         /\ WatchGoto(p, IF \E i \in (cursor[p] + 1)..e : log[i] # Newline
                         THEN "remote" ELSE "wait")
    /\ UNCHANGED <<disk, pageVars, seen, changed, reloadVars, workerVars, log, torn, skip, requestVars>>

\* read_since: the lines behind the cursor, up to the last newline.  Empty
\* ones are dropped; any other marks the page, for a path that no page
\* depends on leaves affected_pages nothing better than all of them.
ReadSince(p) ==
    /\ wpc[p] = "read"
    /\ \E e \in LineEnds(cursor[p]) :
         /\ \A i \in LineEnds(cursor[p]) : i <= e
         /\ heard' = [heard EXCEPT ![p] =
                @ \cup {i \in (cursor[p] + 1)..e : OwnLine(i, cursor[p])}]
         /\ cursor' = [cursor EXCEPT ![p] = e]
         /\ WatchGoto(p, IF \E i \in (cursor[p] + 1)..e : log[i] # Newline
                         THEN "remote" ELSE "wait")
    /\ UNCHANGED <<disk, pageVars, seen, changed, reloadVars, workerVars, log, torn, skip, requestVars>>

\* read_since returns an error: logged, the cursor stays.
ReadFails(p) ==
    /\ wpc[p] = "read"
    /\ WatchGoto(p, "wait")
    /\ UNCHANGED <<disk, pageVars, seen, changed, reloadVars, workerVars, busVars, requestVars>>

\* Remote paths mark the page; the generation is left alone.
MarkRemote(p) ==
    /\ wpc[p] = "remote"
    /\ mark_dirty(p)
    /\ WatchGoto(p, "wait")
    /\ UNCHANGED <<disk, seen, changed, reloadVars, workerVars, busVars, requestVars>>

-----------------------------------------------------------------------------
(* A request.                                                              *)

Goto(r, step) == pc' = [pc EXCEPT ![r] = step]

\* A build through the registry (render_for_route wins begin_build).
StartBuild(r, p) ==
    /\ pc[r] = "new"
    /\ begin_build(p, r)
    /\ guard' = [guard EXCEPT ![r] = slot[p].revision]
    /\ home' = [home EXCEPT ![r] = p]
    /\ cached' = [cached EXCEPT ![r] = TRUE]
    /\ Goto(r, "url")
    /\ UNCHANGED <<disk, watchVars, reloadVars, workerVars, busVars, gen, want, body>>

\* A render outside the registry (render_per_request).
StartPerRequest(r, p) ==
    /\ pc[r] = "new"
    /\ home' = [home EXCEPT ![r] = p]
    /\ Goto(r, "url")
    /\ UNCHANGED <<disk, pageVars, watchVars, reloadVars, workerVars, busVars, cached, guard, gen, want, body>>

\* execute_inner: rewrite_local_imports_for_generation.
RewriteImports(r) ==
    /\ pc[r] = "url"
    /\ gen' = [gen EXCEPT ![r] = generation[home[r]]]
    /\ Goto(r, "check")
    /\ UNCHANGED <<disk, pageVars, watchVars, reloadVars, workerVars, busVars, home, cached, guard, want, body>>

\* restart_workers_after_reload: the generation is read again, then compared
\* without the lock.
CheckRestart(r) ==
    /\ pc[r] = "check"
    /\ want' = [want EXCEPT ![r] = generation[home[r]]]
    /\ Goto(r, IF lastRestart[home[r]] = generation[home[r]] THEN "execute" ELSE "restart")
    /\ UNCHANGED <<disk, pageVars, watchVars, reloadVars, workerVars, busVars, home, cached, guard, gen, body>>

\* Mutant: the generation is recorded and the worker kept.
Restart_KeepsWorker(r) ==
    /\ pc[r] = "restart"
    /\ lastRestart' = [lastRestart EXCEPT ![home[r]] = want[r]]
    /\ Goto(r, "execute")
    /\ UNCHANGED <<disk, pageVars, watchVars, reloadVars, cache, busVars, home, cached, guard, gen, want, body>>

\* ... and compared once more under the lock.  A restart that fails has
\* stopped the old worker and is not recorded.
Restart(r) ==
    /\ pc[r] = "restart"
    /\ LET p == home[r] IN
       \/ /\ lastRestart[p] = want[r]
          /\ Goto(r, "execute")
          /\ UNCHANGED workerVars
       \/ /\ lastRestart[p] # want[r]
          /\ cache' = [cache EXCEPT ![p] = EmptyCache]
          /\ lastRestart' = [lastRestart EXCEPT ![p] = want[r]]
          /\ Goto(r, "execute")
       \/ /\ lastRestart[p] # want[r]
          /\ cache' = [cache EXCEPT ![p] = EmptyCache]
          /\ Goto(r, "failed")
          /\ UNCHANGED lastRestart
    /\ UNCHANGED <<disk, pageVars, watchVars, reloadVars, busVars, home, cached, guard, gen, want, body>>

\* External: Bun returns a module it has loaded and reads one it has not.
Loaded(known, d) == IF known # 0 THEN known ELSE disk[d]

\* The worker runs the page; the module loader fills its cache.
Execute(r) ==
    /\ pc[r] = "execute"
    /\ LET p == home[r]
           direct == Loaded(cache[p].direct[gen[r]], "direct")
           nested == Loaded(cache[p].nested, "nested")
       IN  /\ body' = [body EXCEPT ![r] = [d \in Module |-> IF d = "direct" THEN direct ELSE nested]]
           /\ cache' = [cache EXCEPT ![p].direct[gen[r]] = direct, ![p].nested = nested]
    /\ Goto(r, "ran")
    /\ UNCHANGED <<disk, pageVars, watchVars, reloadVars, lastRestart, busVars, home, cached, guard, gen, want>>

\* The pool or the page fails.
ExecuteFails(r) ==
    /\ pc[r] = "execute"
    /\ Goto(r, "failed")
    /\ UNCHANGED <<disk, pageVars, watchVars, reloadVars, workerVars, busVars, home, cached, guard, gen, want, body>>

\* The guard publishes the body, or records the failure; a response made
\* outside the registry is sent and forgotten.
Finish(r) ==
    /\ \/ pc[r] = "ran" /\ cached[r] /\ commit(home[r], r, guard[r]) /\ UNCHANGED body
       \/ pc[r] = "failed" /\ cached[r] /\ fail(home[r], guard[r]) /\ UNCHANGED body
       \/ pc[r] \in {"ran", "failed"} /\ ~cached[r] /\ UNCHANGED pageVars
            /\ body' = [body EXCEPT ![r] = Unread]
    /\ Goto(r, "done")
    /\ home' = [home EXCEPT ![r] = None]
    /\ guard' = [guard EXCEPT ![r] = 0]
    /\ gen' = [gen EXCEPT ![r] = 0]
    /\ want' = [want EXCEPT ![r] = 0]
    /\ UNCHANGED <<disk, watchVars, reloadVars, workerVars, busVars, cached>>

-----------------------------------------------------------------------------
WatchStep(p) ==
    \/ WatchSnapshot(p, {})
    \/ WatchMark(p)
    \/ WatchBump(p)
    \/ \E d \in Module : PublishText(p, d)
    \/ PublishNewline(p)
    \/ PublishEnd(p)
    \/ PublishFails(p)
    \/ ReadSince(p)
    \/ ReadFails(p)
    \/ MarkRemote(p)

RequestStep(r) ==
    \/ \E p \in Process : StartBuild(r, p) \/ StartPerRequest(r, p)
    \/ RewriteImports(r)
    \/ CheckRestart(r)
    \/ Restart(r)
    \/ Execute(r)
    \/ ExecuteFails(r)
    \/ Finish(r)

Next ==
    \/ \E d \in Module : Edit(d)
    \/ RemoteText
    \/ RemoteNewline
    \/ \E p \in Process : WatchStep(p) \/ \E bad \in SUBSET Module \ {{}} : WatchSnapshot(p, bad)
    \/ \E r \in Request : RequestStep(r)

Spec == Init /\ [][Next]_vars

\* The watcher threads keep polling and can read every file again and again.
FairSpec ==
    /\ Spec
    /\ \A p \in Process : WF_vars(WatchStep(p)) /\ SF_vars(WatchSnapshot(p, {}))

-----------------------------------------------------------------------------
(* Properties.                                                             *)

TypeOK ==
    /\ RegistryTypeOK
    /\ disk \in Versions
    /\ wpc \in [Process -> {"wait", "mark", "bump", "publish", "newline", "read", "remote"}]
    /\ seen \in [Process -> Versions]
    /\ changed \in [Process -> SUBSET Module]
    /\ generation \in [Process -> Generation]
    /\ snapOf \in [Process -> [Generation -> Versions]]
    /\ lastRestart \in [Process -> {0} \cup Generation]
    /\ cache \in [Process -> Cache]
    /\ log \in Seq(Piece)
    /\ cursor \in [Process -> 0..Len(log)]
    /\ heard \in [Process -> SUBSET (1..Len(log))]
    /\ torn \in Nat
    /\ skip \in [Process -> 0..Len(log)]
    /\ pc \in [Request -> {"new", "url", "check", "restart", "execute", "ran", "failed", "done"}]
    /\ home \in [Request -> Process \cup {None}]
    /\ cached \in [Request -> BOOLEAN]
    /\ guard \in [Request -> Nat]
    /\ gen \in [Request -> {0} \cup Generation]
    /\ want \in [Request -> {0} \cup Generation]
    /\ body \in [Request -> Versions]

\* A response is made from modules at least as new as the ones the watcher
\* had seen when it published the generation the request read: neither a
\* module cached under an older URL nor one that only a worker restart
\* drops survives into it, however restarts of several requests and bumps
\* interleave.
GenerationIsFresh ==
    \A r \in Request : pc[r] = "ran" =>
        \A d \in Module : body[r][d] >= snapOf[home[r]][gen[r]][d]

\* Since its own last publish, which skips what others appended meanwhile, a
\* process rests between two lines of the bus, and what it has read as paths
\* are exactly the texts before its cursor that no other text ran into:
\* read_since neither loses nor repeats nor cuts a line whose writer is
\* between its two appends.
BusLinesAccounted ==
    \A p \in Process :
        /\ cursor[p] = skip[p] \/ (cursor[p] > skip[p] /\ log[cursor[p]] = Newline)
        /\ {i \in heard[p] : i > skip[p]} =
             {i \in (skip[p] + 1)..cursor[p] : OwnLine(i, skip[p])}

\* Once the edits stop, every process publishes a generation that has seen
\* them, and stays there.
EditsReachEveryProcess ==
    <>[](\A p \in Process : snapOf[p][generation[p]] = disk)

\* A page that is Clean while the watcher rests serves no older modules than
\* the watcher has seen ("A changed route or local dependency is rebuilt as a
\* new generation. New requests use a valid candidate").
CleanPageIsFresh ==
    \A p \in Process : wpc[p] = "wait" /\ slot[p].state = "Clean" =>
        \A d \in Module : body[slot[p].current][d] >= seen[p][d]
=============================================================================
