------------------------------ MODULE HotReload ------------------------------
(***************************************************************************)
(* The hot-reload path of the TSP host, end to end: an editor that writes, *)
(* deletes and re-creates page sources; the watcher thread that polls them *)
(* and reconciles the route table and the page registry (watcher.rs); and  *)
(* one thread per request that serves, joins or runs a build of its page   *)
(* (host.rs: render_for_route, handle_building, render_per_request).       *)
(*                                                                         *)
(* A page stands for a (route, method) pair.  The content of its source is *)
(* a version number: 0 when the source is absent, and otherwise the number *)
(* of the write that produced it.                                          *)
(***************************************************************************)
EXTENDS PageRegistry

CONSTANTS
    BootPage,     \* the pages found and registered at boot
    MethodsVary,  \* whether an edit may change the methods a route exports
    MaxVersion    \* bound: writes of one page's source

ASSUME BootAssumption == BootPage \subseteq Page
ASSUME MethodsAssumption == MethodsVary \in BOOLEAN
ASSUME VersionAssumption == MaxVersion \in Nat \ {0}

VARIABLES
    disk,       \* disk[p]: version of p's source now, 0 when absent
    written,    \* written[p]: the last version ever written
    routed,     \* the pages the RouteTable dispatches
    \* the watcher thread
    wpc,        \* where it is in its poll
    seen,       \* last_seen: the version of the previous poll
    snap,       \* the snapshot of the current poll
    changed,    \* PollStats.changed_files
    toAdd,      \* reconcile_routes: added paths still to apply
    toRemove,   \* reconcile_routes: removed paths still to apply
    toMark,     \* replaced, later affected, pages still to mark dirty
    wpage,      \* the page an addition or removal is working on
    \* the request threads
    pc,         \* pc[r]: where request r is
    page,       \* page[r]: the PageRef it was routed to
    joined,     \* joined[r]: the in-flight build it waits for
    guardRev,   \* guardRev[r]: PublishGuard.build_revision
    built,      \* built[r]: the source version r's build read
    \* history, for the properties only
    epoch,      \* epoch[p]: how often p has been registered
    bornIn,     \* bornIn[r]: epoch of its page when r began its build
    announced,  \* announced[p]: newest version p was marked dirty for
    baseline    \* baseline[p]: version the watcher took as its start

diskVars == <<disk, written>>
watchVars == <<wpc, seen, snap, changed, toAdd, toRemove, toMark, wpage>>
requestVars == <<pc, page, joined, guardRev, built>>
historyVars == <<epoch, bornIn, announced, baseline>>
vars == <<registryVars, diskVars, routed, watchVars, requestVars, historyVars>>

\* A thread that owns a PublishGuard, before and after it resolves the
\* in-flight build.
Running == {"prepare", "execute"}
Resolved == {"commit", "fail", "rollback"}
Owning == Running \cup Resolved

\* How a thread ends: it wrote a reply (200, or 405 for a page that is gone),
\* it wrote a 500, or it panicked and wrote nothing.
Ended == {"done", "error", "panicked"}

RequestPC ==
    Owning \cup {"idle", "dispatch", "begin", "pin", "join", "wait", "asleep",
                 "serveCurrent", "serveLkg", "perRequest"} \cup Ended

WatchPC == {"start", "idle", "scan", "apply", "addMark", "addRoute",
            "unregister", "affected", "mark"}

TypeOK ==
    /\ RegistryTypeOK
    /\ disk \in [Page -> Nat] /\ written \in [Page -> Nat]
    /\ routed \in SUBSET Page
    /\ wpc \in WatchPC
    /\ seen \in [Page -> Nat] /\ snap \in [Page -> Nat]
    /\ changed \in SUBSET Page /\ toAdd \in SUBSET Page
    /\ toRemove \in SUBSET Page /\ toMark \in SUBSET Page
    /\ wpage \in Page \cup {None}
    /\ pc \in [Request -> RequestPC]
    /\ page \in [Request -> Page \cup {None}]
    /\ joined \in [Request -> Request \cup {None}]
    /\ guardRev \in [Request -> Nat] /\ built \in [Request -> Nat]
    /\ epoch \in [Page -> Nat] /\ bornIn \in [Request -> Nat]
    /\ announced \in [Page -> Nat] /\ baseline \in [Page -> Nat]

\* Boot: RouteTable::scan and build_registry have run over the sources on
\* disk; the watcher thread is spawned but has not taken its first snapshot.
Init ==
    /\ RegistryInit(BootPage)
    /\ disk = [p \in Page |-> IF p \in BootPage THEN 1 ELSE 0]
    /\ written = disk
    /\ routed = BootPage
    /\ wpc = "start"
    /\ seen = [p \in Page |-> 0] /\ snap = [p \in Page |-> 0]
    /\ changed = {} /\ toAdd = {} /\ toRemove = {} /\ toMark = {}
    /\ wpage = None
    /\ pc = [r \in Request |-> "idle"]
    /\ page = [r \in Request |-> None]
    /\ joined = [r \in Request |-> None]
    /\ guardRev = [r \in Request |-> 0] /\ built = [r \in Request |-> 0]
    /\ epoch = [p \in Page |-> IF p \in BootPage THEN 1 ELSE 0]
    /\ bornIn = [r \in Request |-> 0]
    /\ announced = [p \in Page |-> 0] /\ baseline = [p \in Page |-> 0]

-----------------------------------------------------------------------------
(* The editor: the environment of the server.                              *)

WriteSource(p) ==
    /\ written[p] < MaxVersion
    /\ written' = [written EXCEPT ![p] = @ + 1]
    /\ disk' = [disk EXCEPT ![p] = written[p] + 1]
    /\ UNCHANGED <<registryVars, routed, watchVars, requestVars, historyVars>>

\* Bound: the last version is not deleted, so a deletion can be followed by
\* a re-creation.
DeleteSource(p) ==
    /\ disk[p] # 0
    /\ written[p] < MaxVersion
    /\ disk' = [disk EXCEPT ![p] = 0]
    /\ UNCHANGED <<registryVars, written, routed, watchVars, requestVars,
                   historyVars>>

-----------------------------------------------------------------------------
(* The watcher thread.  Each step is one access to shared state.           *)

\* The files a directory walk reads: any of those present may be unreadable.
Snapshot(unreadable) ==
    [p \in Page |-> IF p \in unreadable THEN 0 ELSE disk[p]]

Present == {p \in Page : disk[p] # 0}

\* The initial snapshot, taken by the spawned thread itself.
WatchStart ==
    /\ wpc = "start"
    /\ \E unreadable \in SUBSET Present :
         seen' = Snapshot(unreadable)
    /\ baseline' = written
    /\ wpc' = "idle"
    /\ UNCHANGED <<registryVars, diskVars, routed, snap, changed, toAdd,
                   toRemove, toMark, wpage, requestVars, epoch, bornIn,
                   announced>>

\* collect_sources and the diff against last_seen.  Only a complete snapshot
\* proves a deletion or lets the routes be reconciled.
WatchSnapshot(unreadable) ==
    /\ wpc = "idle"
    /\ snap' = Snapshot(unreadable)
    /\ changed' = {p \in Page : /\ Snapshot(unreadable)[p] # seen[p]
                                /\ \/ Snapshot(unreadable)[p] # 0
                                   \/ unreadable = {}}
    /\ wpc' = IF unreadable = {} THEN "scan" ELSE "affected"
    /\ UNCHANGED <<registryVars, diskVars, routed, seen, toAdd, toRemove,
                   toMark, wpage, requestVars, historyVars>>

\* reconcile_routes scans the directory again.  A scan error, or a changed
\* route that page::prepare rejects, ends the reconciliation before it starts.
WatchScan ==
    /\ wpc = "scan"
    /\ \/ /\ toAdd' = Present \ routed
          /\ toRemove' = routed \ Present
          /\ \E replaced \in SUBSET (changed \cap routed \cap Present) :
               /\ MethodsVary \/ replaced = {}
               /\ toMark' = replaced
          /\ wpc' = "apply"
       \/ /\ wpc' = "affected"
          /\ UNCHANGED <<toAdd, toRemove, toMark>>
    /\ UNCHANGED <<registryVars, diskVars, routed, seen, snap, changed, wpage,
                   requestVars, historyVars>>

\* An addition: prepare_route reads the source, then the slot is registered.
WatchRegister(p) ==
    /\ wpc = "apply" /\ p \in toAdd
    /\ disk[p] # 0
    /\ register(p)
    /\ epoch' = IF p \in registered THEN epoch ELSE [epoch EXCEPT ![p] = @ + 1]
    /\ wpage' = p
    /\ wpc' = "addMark"
    /\ UNCHANGED <<diskVars, routed, seen, snap, changed, toAdd, toRemove,
                   toMark, requestVars, bornIn, announced, baseline>>

\* prepare_route fails: the additions made so far stay, the rest of the
\* reconciliation, removals included, is skipped.
WatchPrepareFails ==
    /\ wpc = "apply" /\ toAdd # {}
    /\ wpc' = "affected"
    /\ toAdd' = {} /\ toRemove' = {} /\ toMark' = {}
    /\ UNCHANGED <<registryVars, diskVars, routed, seen, snap, changed, wpage,
                   requestVars, historyVars>>

\* A mark announces the version the poll saw to requests.
Announce(p) ==
    announced' = IF p \in registered /\ snap[p] # 0
                 THEN [announced EXCEPT ![p] = snap[p]] ELSE announced

WatchAddMark ==
    /\ wpc = "addMark"
    /\ mark_dirty(wpage)
    /\ Announce(wpage)
    /\ wpc' = "addRoute"
    /\ UNCHANGED <<diskVars, routed, seen, snap, changed, toAdd, toRemove,
                   toMark, wpage, requestVars, epoch, bornIn, baseline>>

\* RouteTable::add.  Its duplicate-path error cannot happen: the watcher is
\* the table's only writer and toAdd holds paths the table lacks.
WatchAddRoute ==
    /\ wpc = "addRoute"
    /\ routed' = routed \cup {wpage}
    /\ toAdd' = toAdd \ {wpage}
    /\ wpage' = None
    /\ wpc' = "apply"
    /\ UNCHANGED <<registryVars, diskVars, seen, snap, changed, toRemove,
                   toMark, requestVars, historyVars>>

\* A replacement, after every addition: the methods a route keeps are marked
\* now, whatever affected_pages will say of them.
WatchReplace(p) ==
    /\ wpc = "apply" /\ toAdd = {} /\ p \in toMark
    /\ mark_dirty(p)
    /\ Announce(p)
    /\ toMark' = toMark \ {p}
    /\ UNCHANGED <<diskVars, routed, wpc, seen, snap, changed, toAdd, toRemove,
                   wpage, requestVars, epoch, bornIn, baseline>>

\* Mutant: the slot is dropped before the table entry.
WatchUnroute_SlotFirst(p) ==
    /\ wpc = "apply" /\ toAdd = {} /\ toMark = {} /\ p \in toRemove
    /\ unregister(p)
    /\ toRemove' = toRemove \ {p}
    /\ wpage' = p
    /\ wpc' = "unregister"
    /\ UNCHANGED <<diskVars, routed, seen, snap, changed, toAdd, toMark,
                   requestVars, historyVars>>

\* A removal, after additions and replacements: the table entry goes first, then the slot.
WatchUnroute(p) ==
    /\ wpc = "apply" /\ toAdd = {} /\ toMark = {} /\ p \in toRemove
    /\ routed' = routed \ {p}
    /\ toRemove' = toRemove \ {p}
    /\ wpage' = p
    /\ wpc' = "unregister"
    /\ UNCHANGED <<registryVars, diskVars, seen, snap, changed, toAdd, toMark,
                   requestVars, historyVars>>

WatchUnregister ==
    /\ wpc = "unregister"
    /\ unregister(wpage)
    /\ wpage' = None
    /\ wpc' = "apply"
    /\ UNCHANGED <<diskVars, routed, seen, snap, changed, toAdd, toRemove,
                   toMark, requestVars, historyVars>>

\* The reconciliation is over, or was given up or skipped.
Reconciled ==
    \/ wpc = "affected"
    \/ wpc = "apply" /\ toAdd = {} /\ toMark = {} /\ toRemove = {}

\* DependencyIndex::rebuild and affected_pages.  The index is incomplete when
\* a slot has no route or a source cannot be read (an import, say); an
\* incomplete index, or one that names no page, means every page.
WatchAffected ==
    /\ Reconciled
    /\ changed # {}
    /\ \/ toMark' = registered
       \/ /\ registered \subseteq routed
          /\ changed \cap registered # {}
          /\ toMark' = changed \cap registered
    /\ wpc' = "mark"
    /\ UNCHANGED <<registryVars, diskVars, routed, seen, snap, changed, toAdd,
                   toRemove, wpage, requestVars, historyVars>>

WatchMark(p) ==
    /\ wpc = "mark" /\ p \in toMark
    /\ mark_dirty(p)
    /\ Announce(p)
    /\ toMark' = toMark \ {p}
    /\ UNCHANGED <<diskVars, routed, wpc, seen, snap, changed, toAdd, toRemove,
                   wpage, requestVars, epoch, bornIn, baseline>>

\* Nothing changed, or every affected page has been marked.
PollMarked ==
    \/ Reconciled /\ changed = {}
    \/ wpc = "mark" /\ toMark = {}

\* Mutant: last_seen is taken from the disk when the poll ends.
WatchFinish_ReadsAgain ==
    /\ PollMarked
    /\ seen' = disk
    /\ snap' = [p \in Page |-> 0]
    /\ changed' = {}
    /\ wpc' = "idle"
    /\ UNCHANGED <<registryVars, diskVars, routed, toAdd, toRemove, toMark,
                   wpage, requestVars, historyVars>>

\* last_seen becomes the snapshot; a file that could not be read keeps its
\* old entry.
WatchFinish ==
    /\ PollMarked
    /\ seen' = [p \in Page |->
                  IF snap[p] # 0 \/ p \in changed THEN snap[p] ELSE seen[p]]
    /\ snap' = [p \in Page |-> 0]
    /\ changed' = {}
    /\ wpc' = "idle"
    /\ UNCHANGED <<registryVars, diskVars, routed, toAdd, toRemove, toMark,
                   wpage, requestVars, historyVars>>

-----------------------------------------------------------------------------
(* The request threads.                                                    *)

locals == <<page, joined, guardRev>>

Goto(r, label) == pc' = [pc EXCEPT ![r] = label] /\ UNCHANGED locals

\* The thread ends; its locals go with it.
End(r, how) ==
    /\ pc' = [pc EXCEPT ![r] = how]
    /\ page' = [page EXCEPT ![r] = None]
    /\ joined' = [joined EXCEPT ![r] = None]
    /\ guardRev' = [guardRev EXCEPT ![r] = 0]

\* A connection arrives and the route table matches it to p.  It takes the
\* registry path unless its output varies per request (a body, a query,
\* route parameters or a request-varying service); a HEAD that runs the GET
\* handler always takes it.
Arrive(r, p) ==
    /\ pc[r] = "idle"
    /\ p \in routed
    /\ page' = [page EXCEPT ![r] = p]
    /\ \E path \in {"dispatch", "perRequest"} :
         pc' = [pc EXCEPT ![r] = path]
    /\ UNCHANGED <<registryVars, diskVars, routed, watchVars, joined, guardRev,
                   built, historyVars>>

\* render_for_route: the snapshot, and the branch on the state it saw.
Dispatch(r) ==
    /\ pc[r] = "dispatch"
    /\ IF page[r] \notin registered
       THEN End(r, "done")
       ELSE Goto(r, CASE slot[page[r]].state = "Clean" -> "serveCurrent"
                      [] slot[page[r]].state = "Building" -> "join"
                      [] OTHER -> "begin")
    /\ UNCHANGED <<registryVars, diskVars, routed, watchVars, built,
                   historyVars>>

\* The begin_build race is won: this thread owns the build.
BeginBuild(r) ==
    /\ pc[r] = "begin"
    /\ begin_build(page[r], r)
    /\ guardRev' = [guardRev EXCEPT ![r] = slot[page[r]].revision]
    /\ bornIn' = [bornIn EXCEPT ![r] = epoch[page[r]]]
    /\ pc' = [pc EXCEPT ![r] = "prepare"]
    /\ UNCHANGED <<diskVars, routed, watchVars, page, joined, built,
                   epoch, announced, baseline>>

\* The race is lost: to another builder, to a finished build, or to the
\* watcher, which removed the page.
BeginBuildRefused(r) ==
    /\ pc[r] = "begin"
    /\ page[r] \notin registered \/ ~Buildable(page[r])
    /\ IF page[r] \notin registered
       THEN End(r, "error")
       ELSE Goto(r, IF slot[page[r]].state = "Building"
                    THEN "join" ELSE "serveCurrent")
    /\ UNCHANGED <<registryVars, diskVars, routed, watchVars, built,
                   historyVars>>

\* pipeline::build, first half: page::prepare reads the source.
Prepare(r) ==
    /\ pc[r] = "prepare"
    /\ disk[page[r]] # 0
    /\ built' = [built EXCEPT ![r] = disk[page[r]]]
    /\ Goto(r, "execute")
    /\ UNCHANGED <<registryVars, diskVars, routed, watchVars, historyVars>>

\* Mutant: the outcome is stored and nobody is notified.
ResolveBuild_Silent(r, outcome, label) ==
    /\ resolve(r, outcome)
    /\ pc' = [pc EXCEPT ![r] = label]
    /\ UNCHANGED <<diskVars, routed, watchVars, locals, built, historyVars>>

\* Resolving the in-flight build wakes its waiters (notify_all) and takes the
\* owner to its write-back.
ResolveBuild(r, outcome, label) ==
    /\ resolve(r, outcome)
    /\ pc' = [q \in Request |->
                IF q = r THEN label
                ELSE IF pc[q] = "asleep" /\ joined[q] = r THEN "wait"
                ELSE pc[q]]
    /\ UNCHANGED <<diskVars, routed, watchVars, locals, built, historyVars>>

\* pipeline::build, second half, and the first critical section of commit.
BuildSucceeds(r) == pc[r] = "execute" /\ ResolveBuild(r, "Ok", "commit")

\* page::prepare or the execution failed, timed out or was cancelled.
BuildFails(r) == pc[r] \in Running /\ ResolveBuild(r, "Failed", "fail")

\* The thread unwinds out of pipeline::build and drops its guard.
BuildPanics(r) == pc[r] \in Running /\ ResolveBuild(r, "Abandoned", "rollback")

Commit(r) ==
    /\ pc[r] = "commit"
    /\ commit(page[r], r, guardRev[r])
    /\ Goto(r, "pin")
    /\ UNCHANGED <<diskVars, routed, watchVars, built, historyVars>>

\* read_current_arc(..).expect("post-commit current exists")
CurrentReadable(p) == p \in registered /\ slot[p].current # None

Pin(r) ==
    /\ pc[r] = "pin"
    /\ IF CurrentReadable(page[r]) THEN End(r, "done") ELSE End(r, "panicked")
    /\ UNCHANGED <<registryVars, diskVars, routed, watchVars, built,
                   historyVars>>

\* A candidate that was not promoted is dropped with its guard.
DropCandidate(r) ==
    /\ built' = [built EXCEPT ![r] = 0]
    /\ bornIn' = [bornIn EXCEPT ![r] = 0]
    /\ UNCHANGED <<diskVars, routed, watchVars, epoch, announced, baseline>>

Fail(r) ==
    /\ pc[r] = "fail"
    /\ fail(page[r], guardRev[r])
    /\ End(r, "error")
    /\ DropCandidate(r)

Rollback(r) ==
    /\ pc[r] = "rollback"
    /\ rollback(page[r], guardRev[r])
    /\ End(r, "panicked")
    /\ DropCandidate(r)

\* handle_building: join_in_flight, then wait on the condition variable.
Join(r) ==
    /\ pc[r] = "join"
    /\ LET b == IF page[r] \in registered
                THEN slot[page[r]].inFlight ELSE None
       IN /\ joined' = [joined EXCEPT ![r] = b]
          /\ pc' = [pc EXCEPT ![r] = IF b = None THEN "serveLkg" ELSE "wait"]
    /\ UNCHANGED <<registryVars, diskVars, routed, watchVars, page, guardRev,
                   built, historyVars>>

Wait(r) ==
    /\ pc[r] = "wait"
    /\ CASE shared[joined[r]] = "Running" -> Goto(r, "asleep")
         [] shared[joined[r]] = "Ok" -> End(r, "done")
         [] OTHER -> Goto(r, "serveLkg")
    /\ UNCHANGED <<registryVars, diskVars, routed, watchVars, built,
                   historyVars>>

\* serve_current_pinned_or_500 and serve_lkg_pinned_or_500.
ServeCurrent(r) ==
    /\ pc[r] = "serveCurrent"
    /\ End(r, IF CurrentReadable(page[r]) THEN "done" ELSE "error")
    /\ UNCHANGED <<registryVars, diskVars, routed, watchVars, built,
                   historyVars>>

ServeLkg(r) ==
    /\ pc[r] = "serveLkg"
    /\ End(r, IF page[r] \in registered /\ slot[page[r]].lkg # None
              THEN "done" ELSE "error")
    /\ UNCHANGED <<registryVars, diskVars, routed, watchVars, built,
                   historyVars>>

\* render_per_request: prepare (500 when the source is gone or rejected, 405
\* when it no longer exports the method), then pipeline::build, which
\* prepares again and executes; the registry is neither read nor written.
PerRequest(r) ==
    /\ pc[r] = "perRequest"
    /\ \E how \in {"done", "error"} : End(r, how)
    /\ UNCHANGED <<registryVars, diskVars, routed, watchVars, built,
                   historyVars>>

-----------------------------------------------------------------------------
(* The specification.                                                      *)

Editor == \E p \in Page : WriteSource(p) \/ DeleteSource(p)

Watcher ==
    \/ WatchStart \/ WatchScan
    \/ \E unreadable \in SUBSET Present : WatchSnapshot(unreadable)
    \/ \E p \in Page : \/ WatchRegister(p) \/ WatchReplace(p)
                       \/ WatchUnroute(p) \/ WatchMark(p)
    \/ WatchPrepareFails \/ WatchAddMark \/ WatchAddRoute
    \/ WatchUnregister \/ WatchAffected \/ WatchFinish

\* What the thread of an accepted request does.
Serve(r) ==
    \/ Dispatch(r) \/ BeginBuild(r) \/ BeginBuildRefused(r) \/ Prepare(r)
    \/ BuildSucceeds(r) \/ BuildFails(r) \/ BuildPanics(r)
    \/ Commit(r) \/ Pin(r) \/ Fail(r) \/ Rollback(r)
    \/ Join(r) \/ Wait(r) \/ ServeCurrent(r) \/ ServeLkg(r)
    \/ PerRequest(r)

Next ==
    \/ Editor
    \/ Watcher
    \/ \E r \in Request : (\E p \in Page : Arrive(r, p)) \/ Serve(r)

Spec == Init /\ [][Next]_vars

\* A started thread keeps running and the watcher keeps polling; a poll that
\* can read every file happens again and again.  The editor and the clients
\* may stop at any time.
FairSpec ==
    /\ Spec
    /\ WF_vars(Watcher)
    /\ SF_vars(WatchSnapshot({}))
    /\ \A r \in Request : WF_vars(Serve(r))

-----------------------------------------------------------------------------
(* Safety.                                                                 *)

\* No invalidation is lost: a Clean slot serves a body built from a source at
\* least as new as the last change mark_dirty announced to the slot, however
\* the announcement raced the build (generation.rs, invalidation_revision).
\* Bodies committed by a build of an EARLIER registration of the page are
\* excepted: see FreshAcrossRegistrations.
FreshWhenClean ==
    \A p \in registered :
        LET b == slot[p].current IN
        slot[p].state = "Clean" /\ (b # None => bornIn[b] = epoch[p])
            => b # None /\ built[b] >= announced[p]

\* The same claim without the exception, as generation.rs states it of the
\* revision: "This prevents a change that arrives during a build from being
\* lost when that build commits".  Removing and re-creating a page while it
\* builds refutes it, even once the watcher's poll is over: the new slot's
\* revision restarts at 0 and the guard of the old slot can match it.
FreshAcrossRegistrations ==
    wpc = "idle" =>
        \A p \in registered :
            slot[p].state = "Clean" /\ slot[p].current # None
                => built[slot[p].current] >= announced[p]

\* Builds are deduplicated (plan sect.22.4): while a page has been registered
\* only once, at most one thread owns a build of it, and the slot names it.
OneBuilderPerPage ==
    \A p \in registered : epoch[p] = 1 =>
        \A r \in Request :
            pc[r] \in Owning /\ page[r] = p
                => slot[p].state = "Building" /\ slot[p].inFlight = r

\* A slot never sticks in Building: it is there exactly while it names an
\* in-flight build whose owner is a live thread of the same registration that
\* has still to write back, so somebody will move it on.
BuildingHasOwner ==
    \A p \in registered :
        LET b == slot[p].inFlight IN
        /\ slot[p].state = "Building" <=> b # None
        /\ b # None => /\ pc[b] \in Owning
                       /\ page[b] = p
                       /\ bornIn[b] = epoch[p]

\* No lost wake-up: a thread asleep on the condition variable waits for a
\* build that is still running in a live thread, which will notify it.
SleeperHasBuilder ==
    \A r \in Request : pc[r] = "asleep" =>
        /\ joined[r] \in Request
        /\ shared[joined[r]] = "Running"
        /\ pc[joined[r]] \in Running

\* A fallback exists whenever anything was ever published: current and
\* last-known-good are set together and both name successful builds.
FallbackExists ==
    \A p \in registered :
        /\ slot[p].current = None <=> slot[p].lkg = None
        /\ slot[p].current # None =>
              /\ shared[slot[p].current] = "Ok"
              /\ shared[slot[p].lkg] = "Ok"

\* The table never dispatches to a page without a slot: reconcile_routes
\* registers before it routes and unroutes before it unregisters, "so a
\* request cannot observe a route with no PageRegistry entries".
RoutedIsRegistered == routed \subseteq registered

\* The expect() after commit holds as long as the page keeps its registration.
PinFindsCurrent ==
    \A r \in Request :
        /\ pc[r] = "pin"
        /\ page[r] \in registered
        /\ bornIn[r] = epoch[page[r]]
        => slot[page[r]].current # None

\* The expect() after commit as the code asserts it, with no exception for a
\* page that the watcher removes between begin_build and the read.
PostCommitCurrentExists ==
    \A r \in Request : pc[r] = "pin" => CurrentReadable(page[r])

\* Publication never goes backwards: while a page has been registered only
\* once, the body it serves is replaced only by one of the same or a newer
\* source version.
PublishedNeverRegresses ==
    [][\A p \in registered \cap registered' :
         epoch[p] = 1 /\ slot[p].current # None
           => built'[slot'[p].current] >= built[slot[p].current]]_vars

-----------------------------------------------------------------------------
(* Liveness.                                                               *)

\* Every accepted request is answered, or its thread has panicked: no thread
\* waits for a build that nobody resolves.  (A request that has left "idle"
\* does not return to it.)
EveryRequestAnswered ==
    \A r \in Request : []<>(pc[r] \in Ended \cup {"idle"})

\* Once the editor is quiet, no page stays Clean with a body older than its
\* source: whatever changed after the watcher's first snapshot is noticed,
\* announced and rebuilt.  (A change between boot and that snapshot is the
\* watcher's starting point and is never noticed.)
StaleNeverStaysClean ==
    \A p \in Page :
        <>[](/\ p \in registered
             /\ epoch[p] = 1
             /\ slot[p].state = "Clean"
             /\ disk[p] > baseline[p]
             => built[slot[p].current] = disk[p])
=============================================================================
