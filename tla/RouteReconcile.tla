--------------------------- MODULE RouteReconcile ---------------------------
(***************************************************************************)
(* Route reconciliation: the part of the watcher's poll that keeps the     *)
(* route table and the registry's slots in step with the files under       *)
(* pages/ (watcher.rs: poll_once_with_index, reconcile_routes), while an   *)
(* editor changes those files between any two of its steps and requests    *)
(* look paths up in the table.  What a slot holds is HotReload's subject;  *)
(* here a slot only exists or does not.                                    *)
(***************************************************************************)
EXTENDS RouteTable

CONSTANTS
    BootSource,  \* the page sources found at boot
    Exports,     \* the sets of methods a source may export
    Absent,      \* content: there is no such file
    Garbled,     \* content: cannot be read, or is not UTF-8
    Request,     \* the request paths looked up, as sequences of names
    MaxEdits     \* bound: changes the editor makes

ASSUME ReconcileAssumption ==
    /\ BootSource \subseteq Source
    /\ \A f \in BootSource : Supported(f)
    /\ MaxEdits \in Nat
    /\ Request \subseteq Seq(Nat)
    /\ Absent \notin Exports /\ Garbled \notin Exports /\ Absent # Garbled

VARIABLES
    disk,      \* disk[f]: what f exports now, Absent or Garbled
    edits,     \* how many changes the editor has made
    slots,     \* the PageRegistry's keys: [path, method]
    \* the watcher thread
    wpc,       \* where it is in its poll
    had,       \* had[f]: the contents of f while the last walk went on
    seen,      \* last_seen: the contents by the previous polls
    changed,   \* PollStats.changed_files
    desired,   \* the sources the scan found, sorted by path
    checks,    \* the positions in desired of same-path sources still to prepare
    swaps,     \* replacements: [old, new] rows still to apply
    toAdd,     \* added paths still to apply
    toRemove,  \* removed paths still to apply
    row        \* the row an addition is about to publish

diskVars == <<disk, edits>>
watchVars == <<wpc, had, seen, changed, desired, checks, swaps, toAdd, toRemove, row>>
vars == <<table, slots, diskVars, watchVars>>

Content == Exports \cup {Absent, Garbled}
Present == {f \in Source : disk[f] # Absent}
Path == {url_path_for(f) : f \in Source}
Served(files) == {url_path_for(f) : f \in files}

Rows == [path : Path, source : Source, methods : Exports]

ASSUME NoneAssumption == None \notin Rows

Method == UNION Exports
SlotsOf(r) == {[path |-> r.path, method |-> m] : m \in r.methods}

WatchPC == {"idle", "snapshot", "scan", "compare", "apply", "publish", "swapped",
            "dropMethods", "unregister"}

TypeOK ==
    /\ table \in Seq(Rows)
    /\ disk \in [Source -> Content]
    /\ edits \in 0 .. MaxEdits
    /\ slots \subseteq [path : Path, method : Method]
    /\ wpc \in WatchPC
    /\ had \in [Source -> SUBSET Content]
    /\ seen \in [Source -> Exports \cup {Absent}]
    /\ changed \subseteq Source
    /\ desired \in Seq(Source) /\ checks \subseteq DOMAIN desired
    /\ swaps \in Seq([old : Rows, new : Rows])
    /\ toAdd \subseteq Path /\ toRemove \subseteq Path
    /\ row \in Rows \cup {None}

\* The files in any order the directory walk may return, sorted by path with
\* a stable sort.  Two files of one path are not refused.
scan(files) ==
    {s \in SetToSeqs(files) :
        \A i, j \in DOMAIN s :
            i < j => ~ Before(url_path_for(s[j]), url_path_for(s[i]))}

\* desired.get_by_path: the first source the scan found for a path.
first_of(files, path) ==
    files[SelectInSeq(files, LAMBDA g : url_path_for(g) = path)]

\* Boot: RouteTable::scan, then build_registry, which prepares every source,
\* and the watcher's first snapshot.
Init ==
    /\ disk \in [Source -> Exports \cup {Absent}]
    /\ Present = BootSource
    /\ edits = 0
    /\ \E s \in scan(BootSource) : table = [i \in DOMAIN s |-> Row(s[i], disk[s[i]])]
    /\ slots = UNION {SlotsOf(table[i]) : i \in DOMAIN table}
    /\ wpc = "idle"
    /\ had = [f \in Source |-> {}]
    /\ seen = disk
    /\ changed = {} /\ desired = <<>> /\ checks = {} /\ swaps = <<>>
    /\ toAdd = {} /\ toRemove = {}
    /\ row = None

-----------------------------------------------------------------------------
(* The editor, the environment of the server.  A file that cannot be read  *)
(* for a while is Garbled for that time.                                   *)

Edit(f, content) ==
    /\ edits < MaxEdits
    /\ content # disk[f]
    /\ edits' = edits + 1
    /\ disk' = [disk EXCEPT ![f] = content]
    /\ had' = [had EXCEPT ![f] =
                  IF wpc \in {"snapshot", "scan"} THEN @ \cup {content} ELSE @]
    /\ UNCHANGED <<table, slots, wpc, seen, changed, desired, checks, swaps,
                   toAdd, toRemove, row>>

-----------------------------------------------------------------------------
(* The watcher thread.                                                     *)

\* Back to the poll loop, with or without an error: the rest of the
\* reconciliation is dropped, what was applied stays.
EndPoll ==
    /\ wpc' = "idle"
    /\ had' = [f \in Source |-> {}]
    /\ changed' = {} /\ desired' = <<>> /\ checks' = {} /\ swaps' = <<>>
    /\ toAdd' = {} /\ toRemove' = {}
    /\ row' = None

(* A walk of the tree comes to each file at a time of its own, while the   *)
(* editor goes on: it may find any of the contents the file had since the  *)
(* walk began, a different moment's for every file.                        *)

WatchBegin ==
    /\ wpc = "idle"
    /\ wpc' = "snapshot"
    /\ had' = [f \in Source |-> {disk[f]}]
    /\ UNCHANGED <<table, slots, diskVars, seen, changed, desired, checks, swaps,
                   toAdd, toRemove, row>>

\* A file that comes or goes between the listing of its directory and its
\* read counts as one that cannot be read.
Readings(f) ==
    had[f] \cup IF Absent \in had[f] /\ had[f] # {Absent} THEN {Garbled} ELSE {}

\* collect_sources_recursive and the diff against last_seen.  Only a complete
\* snapshot proves a deletion and lets the routes be reconciled; the files
\* that could be read enter last_seen either way, which only this thread
\* reads.  The next walk begins with reconcile_routes.
WatchSnapshot ==
    /\ wpc = "snapshot"
    /\ \E read \in [Source -> UNION {Readings(f) : f \in Source}] :
         LET complete == \A f \in Source : read[f] # Garbled
             now == [f \in Source |-> IF read[f] \in Exports THEN read[f]
                                      ELSE IF complete THEN Absent
                                      ELSE seen[f]]
         IN  /\ \A f \in Source : read[f] \in Readings(f)
             /\ changed' = IF complete THEN {f \in Source : now[f] # seen[f]} ELSE {}
             /\ seen' = now
             /\ wpc' = IF complete THEN "scan" ELSE "idle"
             /\ had' = [f \in Source |-> IF complete THEN {disk[f]} ELSE {}]
    /\ UNCHANGED <<table, slots, diskVars, desired, checks, swaps, toAdd,
                   toRemove, row>>

\* scan_recursive: the sources a walk may come back with.
Walks ==
    {found \in SUBSET Source :
        \A f \in Source : /\ f \in found => had[f] # {Absent}
                          /\ f \notin found => Absent \in had[f]}

\* reconcile_routes: the differences by path to what the scan found.  The
\* same-path rows to compare are those whose source moved or changed.
Scanned(found, s) ==
    LET actual == PathsOf(table)
        moved(f) == /\ url_path_for(f) \in actual
                    /\ \/ get_by_path(table, url_path_for(f)).source # f
                       \/ f \in changed
    IN  /\ desired' = s
        /\ toAdd' = Served(found) \ actual
        /\ toRemove' = actual \ Served(found)
        /\ checks' = {i \in DOMAIN s : moved(s[i])}

\* The walk comes to a file of a shape it refuses, or to a directory that
\* went between its listing and its own read_dir.
ScanFails ==
    /\ \E f \in Source :
         /\ had[f] # {Absent}
         /\ ~ Supported(f) \/ (Absent \in had[f] /\ Len(f) > 1)
    /\ EndPoll
    /\ UNCHANGED <<table, slots, diskVars, seen>>

\* Mutant: the path of every file that disappeared is removed, whatever else
\* is served under it.
WatchScan_ByFile ==
    /\ wpc = "scan"
    /\ \/ ScanFails
       \/ /\ \E found \in Walks :
               /\ \A f \in found : Supported(f)
               /\ desired' \in scan(found)
               /\ toAdd' = Served(found) \ PathsOf(table)
               /\ toRemove' = PathsOf(table) \cap Served({f \in changed : seen[f] = Absent})
               /\ checks' = {}
          /\ wpc' = "compare"
          /\ UNCHANGED <<table, slots, diskVars, had, seen, changed, swaps, row>>

\* Mutant: only a file that changed since the last poll is added.
WatchScan_ChangedOnly ==
    /\ wpc = "scan"
    /\ \/ ScanFails
       \/ /\ \E found \in Walks :
               /\ \A f \in found : Supported(f)
               /\ desired' \in scan(found)
               /\ toAdd' = Served(found \cap changed) \ PathsOf(table)
               /\ toRemove' = PathsOf(table) \ Served(found)
               /\ checks' = {}
          /\ wpc' = "compare"
          /\ UNCHANGED <<table, slots, diskVars, had, seen, changed, swaps, row>>

WatchScan ==
    /\ wpc = "scan"
    /\ \/ ScanFails
       \/ /\ \E found \in Walks :
               /\ \A f \in found : Supported(f)
               /\ \E s \in scan(found) : Scanned(found, s)
          /\ wpc' = "compare"
          /\ UNCHANGED <<table, slots, diskVars, had, seen, changed, swaps, row>>

\* prepare_route: the source is read again, and may be gone or garbled.
Prepares(f) == disk[f] \notin {Absent, Garbled}

PrepareFails(f) ==
    /\ ~ Prepares(f)
    /\ EndPoll
    /\ UNCHANGED <<table, slots, diskVars, seen>>

\* The next same-path source; a row that comes out equal needs no swap.
WatchCompare ==
    /\ wpc = "compare" /\ checks # {}
    /\ LET f == desired[Min(checks)]
           old == get_by_path(table, url_path_for(f))
           new == Row(f, disk[f])
       IN  \/ PrepareFails(f)
           \/ /\ Prepares(f)
              /\ swaps' = IF old = new THEN swaps
                          ELSE Append(swaps, [old |-> old, new |-> new])
              /\ checks' = checks \ {Min(checks)}
              /\ UNCHANGED <<table, slots, diskVars, wpc, had, seen, changed, desired,
                             toAdd, toRemove, row>>

WatchCompared ==
    /\ wpc = "compare" /\ checks = {}
    /\ wpc' = "apply"
    /\ UNCHANGED <<table, slots, diskVars, had, seen, changed, desired, checks, swaps,
                   toAdd, toRemove, row>>

\* Mutant: the row keeps the broad method set of the scan.
WatchRegister_Unprepared(path) ==
    /\ wpc = "apply" /\ path \in toAdd
    /\ LET f == first_of(desired, path) IN
         /\ row' = Row(f, {"GET", "POST", "PUT", "PATCH", "DELETE"})
         /\ slots' = slots \cup SlotsOf(row')
    /\ wpc' = "publish"
    /\ UNCHANGED <<table, diskVars, had, seen, changed, desired, checks, swaps, toAdd,
                   toRemove>>

\* An addition, in the order a HashSet gives: the first source of the path is
\* prepared and its slots are registered.
WatchRegister(path) ==
    /\ wpc = "apply" /\ path \in toAdd
    /\ LET f == first_of(desired, path) IN
         \/ PrepareFails(f)
         \/ /\ Prepares(f)
            /\ row' = Row(f, disk[f])
            /\ slots' = slots \cup SlotsOf(row')
            /\ wpc' = "publish"
            /\ UNCHANGED <<table, diskVars, had, seen, changed, desired, checks, swaps,
                           toAdd, toRemove>>

\* RouteTable::add.  Its duplicate-path error cannot happen: this thread is
\* the table's only writer, and toAdd holds paths the table lacks.
WatchPublish ==
    /\ wpc = "publish"
    /\ table' = add(table, row)
    /\ toAdd' = toAdd \ {row.path}
    /\ row' = None
    /\ wpc' = "apply"
    /\ UNCHANGED <<slots, diskVars, had, seen, changed, desired, checks, swaps,
                   toRemove>>

\* A replacement, after every addition: slots, then the row, then the slots
\* of the methods that went away.
WatchSwapSlots ==
    /\ wpc = "apply" /\ toAdd = {} /\ swaps # <<>>
    /\ slots' = slots \cup SlotsOf(Head(swaps).new)
    /\ wpc' = "swapped"
    /\ UNCHANGED <<table, diskVars, had, seen, changed, desired, checks, swaps, toAdd,
                   toRemove, row>>

WatchSwapRow ==
    /\ wpc = "swapped"
    /\ table' = replace_by_path(table, Head(swaps).new)
    /\ wpc' = "dropMethods"
    /\ UNCHANGED <<slots, diskVars, had, seen, changed, desired, checks, swaps, toAdd,
                   toRemove, row>>

WatchDropMethods ==
    /\ wpc = "dropMethods"
    /\ slots' = slots \ (SlotsOf(Head(swaps).old) \ SlotsOf(Head(swaps).new))
    /\ swaps' = Tail(swaps)
    /\ wpc' = "apply"
    /\ UNCHANGED <<table, diskVars, had, seen, changed, desired, checks, toAdd,
                   toRemove, row>>

\* Mutant: the slots are dropped first.
WatchUnroute_SlotsFirst(path) ==
    /\ wpc = "apply" /\ toAdd = {} /\ swaps = <<>> /\ path \in toRemove
    /\ slots' = {s \in slots : s.path # path}
    /\ wpc' = "unregister"
    /\ UNCHANGED <<table, diskVars, had, seen, changed, desired, checks, swaps, toAdd,
                   toRemove, row>>

\* A removal, last of all: the row, then every slot of its path.
WatchUnroute(path) ==
    /\ wpc = "apply" /\ toAdd = {} /\ swaps = <<>> /\ path \in toRemove
    /\ table' = remove_by_path(table, path)
    /\ wpc' = "unregister"
    /\ UNCHANGED <<slots, diskVars, had, seen, changed, desired, checks, swaps, toAdd,
                   toRemove, row>>

WatchUnregister ==
    /\ wpc = "unregister"
    /\ LET path == CHOOSE p \in toRemove : p \notin PathsOf(table) IN
         /\ slots' = {s \in slots : s.path # path}
         /\ toRemove' = toRemove \ {path}
    /\ wpc' = "apply"
    /\ UNCHANGED <<table, diskVars, had, seen, changed, desired, checks, swaps, toAdd,
                   row>>

WatchEnd ==
    /\ wpc = "apply" /\ toAdd = {} /\ swaps = <<>> /\ toRemove = {}
    /\ EndPoll
    /\ UNCHANGED <<table, slots, diskVars, seen>>

Watch ==
    \/ WatchBegin \/ WatchSnapshot \/ WatchScan \/ WatchCompare \/ WatchCompared
    \/ \E path \in Path : WatchRegister(path) \/ WatchUnroute(path)
    \/ WatchPublish \/ WatchSwapSlots \/ WatchSwapRow \/ WatchDropMethods
    \/ WatchUnregister \/ WatchEnd

Next ==
    \/ \E f \in Source, content \in Content : Edit(f, content)
    \/ Watch

Spec == Init /\ [][Next]_vars

\* The poll loop of a running server never stops: wait_timeout ends after
\* poll_ms, and no step of a poll waits for another thread.
FairSpec == Spec /\ WF_vars(Watch)

-----------------------------------------------------------------------------
(* Properties.                                                             *)

\* Boot found two sources of this path: it keeps a row for each.
DoubledAtBoot(path) ==
    \E f, g \in BootSource :
        f # g /\ url_path_for(f) = path /\ url_path_for(g) = path

\* The rows are ordered by URL path, strictly but for the paths that boot
\* found two sources of: add, replace_by_path and remove_by_path keep what
\* scan sorted and never give a path a second row, also when two sources of
\* one path come and go.
TableOrdered ==
    \A i, j \in DOMAIN table : i < j =>
        \/ Before(table[i].path, table[j].path)
        \/ table[i].path = table[j].path /\ DoubledAtBoot(table[i].path)

\* The two halves of a dispatch agree although the watcher changes them under
\* different locks: whatever lookup_named finds, at any moment of a
\* reconciliation, has a slot in the page registry, for the method it
\* dispatches to (ANY for an unlisted method, GET for HEAD).
DispatchHasSlot ==
    \A req \in Request, method \in Method \cup {"HEAD", "PUT"} :
        LET found == lookup_named(table, req, method) IN
        found.result = "found" =>
            [path |-> found.route.path, method |-> found.method] \in slots

\* A pattern without catch-all and with at most one parameter.
Narrow(pattern) ==
    /\ \A i \in DOMAIN pattern : pattern[i].kind # "catchall"
    /\ \A i, j \in DOMAIN pattern :
         pattern[i].kind = "param" /\ pattern[j].kind = "param" => i = j

\* What the summed scores of lookup_named keep of "static > dynamic >
\* catch-all": a request is answered when some row matches it; by a row of
\* its very names when there is one, whatever parameters and catch-alls match
\* too; and never by a catch-all while a row with a single parameter matches.
\* (A row with two parameters has no such precedence: /*rest ties with
\* /:id/:tab and wins by the order of the rows.)
LookupPrecedence ==
    \A req \in Request :
        LET matching == {r \in ToSet(table) : match_segments(r.path, req)}
            answer == best(table, req)
            exact == [i \in DOMAIN req |-> [kind |-> "static", name |-> req[i]]]
        IN  /\ answer = None <=> matching = {}
            /\ \A r \in matching :
                 /\ r.path = exact => answer.path = exact
                 /\ Narrow(r.path) => Narrow(answer.path)

\* A URL path leaves the table only if each of its sources was absent for
\* some time while the scan walked the tree: a source that stays, also next
\* to one of the same path that goes, a file that cannot be read, or a poll
\* that failed half way, makes no request miss a page that is there.  (A
\* source that moves from users/index.tsp to users.tsp during the walk may
\* be missed at both places.)
RemovedOnlyIfAbsent ==
    [][\A f \in Source :
          url_path_for(f) \in PathsOf(table) \ PathsOf(table') => Absent \in had[f]]_vars

\* Sources that keep every reconciliation from running: one that cannot be
\* read makes each snapshot incomplete, one of an unsupported shape fails
\* each scan.
BadSource == \E f \in Present : disk[f] = Garbled \/ ~ Supported(f)

\* Every file added or deleted reaches the table in the end, without a
\* restart, although a failed reconciliation drops the rest of its work and
\* the snapshot it was working from is already recorded.
PathsSettle == <>[](BadSource \/ PathsOf(table) = Served(Present))

\* "retaining previous snapshot" (watcher.rs:779, of an incomplete one):
\* a change of the methods a source exports that is seen by a poll which
\* cannot reconcile is not lost, and is dispatched in the end.
MethodsSettle ==
    <>[](\/ BadSource
         \/ \A i \in DOMAIN table : table[i].methods = disk[table[i].source])
=============================================================================
