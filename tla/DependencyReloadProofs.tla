----------------------- MODULE DependencyReloadProofs -----------------------
(***************************************************************************)
(* Proofs for DependencyReload, for every set of processes and requests    *)
(* and every number of edits: types, the freshness of what a response is   *)
(* made from, and what the bus loses.                                      *)
(*                                                                         *)
(* Freshness rests on three orders: what a generation was published with   *)
(* is never newer than what the watcher has seen, which is never newer     *)
(* than the disk (SnapInv, VersionInv); a cache entry is unused or at      *)
(* least as new as the snapshot of the generation it serves (CacheInv);    *)
(* and a request runs under a generation at least as new as the one in its *)
(* URLs (RequestInv), so that a restart another request did, for an older  *)
(* or a newer generation, never puts a stale module in front of it.        *)
(***************************************************************************)
EXTENDS DependencyReload, TLAPS

\* The watcher has seen a version that exists; edits are bounded.
VersionInv ==
    /\ disk["direct"] >= 1 /\ disk["nested"] >= 1
    /\ disk["direct"] + disk["nested"] <= MaxEdits + 2
    /\ \A p \in Process, d \in Module : 1 <= seen[p][d] /\ seen[p][d] <= disk[d]

\* Each bump follows an edit of its own that the watcher has seen.
BumpOK(p) ==
    /\ generation[p] <= seen[p]["direct"] + seen[p]["nested"] - 1
    /\ wpc[p] \in {"mark", "bump"} =>
          /\ generation[p] + 1 <= seen[p]["direct"] + seen[p]["nested"] - 1
          /\ changed[p] # {}

BumpInv == \A p \in Process : BumpOK(p)

\* Published snapshots: nothing newer than what was seen, newer ones later.
SnapInv ==
    \A p \in Process, g \in Generation : g <= generation[p] =>
        /\ \A d \in Module : snapOf[p][g][d] <= seen[p][d]
        /\ \A f \in Generation : f <= g =>
              \A d \in Module : snapOf[p][f][d] <= snapOf[p][g][d]

\* The worker of p has no nested module that is older than snapshot g.
NestedFresh(p, g) ==
    cache[p].nested = 0 \/ cache[p].nested >= snapOf[p][g]["nested"]

\* The worker of p: its direct modules by generation, its nested one by the
\* generation of its last restart.
CacheOK(p) ==
    /\ lastRestart[p] <= generation[p]
    /\ \A g \in Generation :
          IF g <= generation[p]
          THEN \/ cache[p].direct[g] = 0
               \/ cache[p].direct[g] >= snapOf[p][g]["direct"]
          ELSE cache[p].direct[g] = 0
    /\ lastRestart[p] # 0 => NestedFresh(p, lastRestart[p])

CacheInv == \A p \in Process : CacheOK(p)

\* A request's generations, and what it finds in the worker it runs in.
RequestOK(r) ==
    /\ pc[r] \notin {"new", "done"} => home[r] \in Process
    /\ pc[r] \in {"check", "restart", "execute", "ran"} =>
          gen[r] \in Generation /\ gen[r] <= generation[home[r]]
    /\ pc[r] \in {"restart", "execute"} =>
          gen[r] <= want[r] /\ want[r] <= generation[home[r]]
    /\ pc[r] = "execute" => NestedFresh(home[r], want[r])
    /\ pc[r] = "ran" =>
          \A d \in Module : body[r][d] >= snapOf[home[r]][gen[r]][d]

RequestInv == \A r \in Request : RequestOK(r)

\* BusLinesAccounted, for one process.
Accounted(p) ==
    /\ cursor[p] = skip[p] \/ (cursor[p] > skip[p] /\ log[cursor[p]] = Newline)
    /\ {i \in heard[p] : i > skip[p]} =
         {i \in (skip[p] + 1)..cursor[p] : OwnLine(i, skip[p])}

\* The inductive invariant.
IndInv ==
    /\ TypeOK
    /\ VersionInv
    /\ BumpInv
    /\ SnapInv
    /\ CacheInv
    /\ RequestInv
    /\ BusLinesAccounted

-----------------------------------------------------------------------------
(* Types.                                                                  *)

\* The operations of the page registry keep its types.
LEMMA RegistryStep ==
    ASSUME TypeOK
    PROVE  /\ \A p \in Process : mark_dirty(p) => RegistryTypeOK'
           /\ \A p \in Process, r \in Request : begin_build(p, r) => RegistryTypeOK'
           /\ \A p \in Process, r \in Request, n \in Nat :
                 commit(p, r, n) \/ fail(p, n) => RegistryTypeOK'
           /\ UNCHANGED pageVars => RegistryTypeOK'
<1>0. /\ registered \subseteq Process
      /\ slot \in [Process -> PageSlot]
      /\ shared \in [Request -> InFlightState]
  BY DEF TypeOK, RegistryTypeOK
<1>a. \A s \in PageSlot : \A st \in {"Clean", "Failed"}, n \in Nat :
         released(s, st, n) \in PageSlot
  BY ZenonT(30) DEF released, PageSlot, PageState
<1>1. ASSUME NEW p \in Process, mark_dirty(p) PROVE RegistryTypeOK'
  <2>1. slot[p] \in PageSlot /\ slot[p].revision + 1 \in Nat
    BY <1>0 DEF PageSlot
  <2>2. slot' \in [Process -> PageSlot]
    BY <1>0, <1>1, <2>1 DEF mark_dirty, PageSlot, PageState
  <2> QED  BY <1>0, <1>1, <2>2 DEF RegistryTypeOK, mark_dirty
<1>2. ASSUME NEW p \in Process, NEW r \in Request, begin_build(p, r)
      PROVE  RegistryTypeOK'
  <2>1. [slot[p] EXCEPT !.state = "Building", !.inFlight = r,
                        !.buildingRevision = slot[p].revision] \in PageSlot
    BY <1>0 DEF PageSlot, PageState
  <2> QED  BY <1>0, <1>2, <2>1 DEF RegistryTypeOK, begin_build, InFlightState
<1>3. ASSUME NEW p \in Process, NEW r \in Request, NEW n \in Nat,
             commit(p, r, n) \/ fail(p, n)
      PROVE  RegistryTypeOK'
  <2>1. /\ released(slot[p], "Clean", n) \in PageSlot
        /\ released(slot[p], "Failed", n) \in PageSlot
    BY <1>0, <1>a
  <2>2. [released(slot[p], "Clean", n) EXCEPT
           !.current = r,
           !.lkg = IF slot[p].current # None THEN slot[p].current ELSE r] \in PageSlot
    BY <1>0, <2>1 DEF PageSlot
  <2> QED
    BY <1>0, <1>3, <2>1, <2>2 DEF RegistryTypeOK, commit, fail, write_back
<1>4. UNCHANGED pageVars => RegistryTypeOK'
  BY <1>0 DEF pageVars, RegistryTypeOK
<1> QED  BY <1>1, <1>2, <1>3, <1>4

\* Every step is one of the watcher's, one of a request's, or somebody
\* else's.
LEMMA Steps ==
    ASSUME Next
    PROVE  \/ \E d \in Module : Edit(d)
           \/ RemoteText \/ RemoteNewline
           \/ \E p \in Process, bad \in SUBSET Module : WatchSnapshot(p, bad)
           \/ \E p \in Process : WatchMark(p)
           \/ \E p \in Process : WatchBump(p)
           \/ \E p \in Process, d \in Module : PublishText(p, d)
           \/ \E p \in Process : PublishNewline(p)
           \/ \E p \in Process : PublishEnd(p) \/ PublishFails(p)
           \/ \E p \in Process : ReadSince(p) \/ ReadFails(p) \/ MarkRemote(p)
           \/ \E r \in Request : RequestStep(r)
BY DEF Next, WatchStep

\* What the watcher, the editor and the bus leave alone: the requests, the
\* workers; and what the requests leave alone.
LEMMA Frame ==
    /\ \A r \in Request : RequestStep(r) =>
          UNCHANGED <<disk, watchVars, reloadVars, busVars>>
    /\ \A d \in Module : Edit(d) =>
          UNCHANGED <<watchVars, reloadVars, workerVars, busVars, requestVars>>
    /\ RemoteText \/ RemoteNewline =>
          UNCHANGED <<disk, watchVars, reloadVars, workerVars, requestVars>>
    /\ \A p \in Process, bad \in SUBSET Module : WatchSnapshot(p, bad) =>
          UNCHANGED <<disk, reloadVars, workerVars, busVars, requestVars>>
    /\ \A p \in Process : WatchMark(p) =>
          UNCHANGED <<disk, seen, changed, reloadVars, workerVars, busVars, requestVars>>
    /\ \A p \in Process : WatchBump(p) =>
          UNCHANGED <<disk, seen, changed, workerVars, busVars, requestVars>>
    /\ \A p \in Process, d \in Module : PublishText(p, d) =>
          UNCHANGED <<disk, seen, reloadVars, workerVars, requestVars>>
    /\ \A p \in Process : PublishNewline(p) =>
          UNCHANGED <<disk, seen, changed, reloadVars, workerVars, requestVars>>
    /\ \A p \in Process : PublishEnd(p) \/ PublishFails(p) =>
          UNCHANGED <<disk, seen, reloadVars, workerVars, requestVars, log>>
    /\ \A p \in Process : ReadSince(p) \/ ReadFails(p) \/ MarkRemote(p) =>
          UNCHANGED <<disk, seen, changed, reloadVars, workerVars, requestVars, log>>
<1>1. \A r \in Request : RequestStep(r) =>
          UNCHANGED <<disk, watchVars, reloadVars, busVars>>
  BY DEF RequestStep, StartBuild, StartPerRequest, RewriteImports,
     CheckRestart,
         Restart, Execute, ExecuteFails, Finish
<1> QED
  BY <1>1 DEF Edit, RemoteText, RemoteNewline, WatchSnapshot, WatchMark,
     WatchBump, PublishText, PublishNewline, PublishEnd, PublishFails,
     ReadSince, ReadFails, MarkRemote, busVars, watchVars

-----------------------------------------------------------------------------
(* Versions and generations.                                               *)

\* The watcher has seen no more than is on disk, and a bump follows an edit
\* of its own.
LEMMA VersionStep ==
    ASSUME IndInv, Next
    PROVE  VersionInv' /\ BumpInv'
<1>0. /\ disk \in [Module -> Nat] /\ seen \in [Process -> [Module -> Nat]]
      /\ generation \in [Process -> Nat] /\ MaxEdits \in Nat
      /\ "direct" \in Module /\ "nested" \in Module
      /\ VersionInv /\ BumpInv
      /\ DOMAIN wpc = Process /\ DOMAIN changed = Process
      /\ wpc \in [Process -> {"wait", "mark", "bump", "publish", "newline", "read", "remote"}]
      /\ changed \in [Process -> SUBSET Module]
  BY ReloadBounds DEF IndInv, TypeOK, Versions, Generation, Module
<1>1. ASSUME NEW d \in Module, Edit(d) PROVE VersionInv' /\ BumpInv'
  <2>1. UNCHANGED <<wpc, seen, changed, generation>>
    BY <1>1, Frame DEF watchVars, reloadVars
  <2>2. disk' = [disk EXCEPT ![d] = @ + 1]
        /\ disk["direct"] + disk["nested"] - 2 < MaxEdits
    BY <1>1 DEF Edit
  <2> QED  BY <1>0, <2>1, <2>2 DEF VersionInv, BumpInv, BumpOK, Module
<1>2. ASSUME NEW p \in Process, NEW bad \in SUBSET Module, WatchSnapshot(p, bad)
      PROVE  VersionInv' /\ BumpInv'
  <2>1. disk' = disk /\ generation' = generation
    BY <1>2, Frame DEF reloadVars
  <2> DEFINE diff == {d \in Module \ bad : disk[d] # seen[p][d]}
             new == [d \in Module |-> IF d \in diff THEN disk[d] ELSE seen[p][d]]
  <2>2. /\ changed' = [changed EXCEPT ![p] = diff]
        /\ seen' = [seen EXCEPT ![p] = new]
        /\ wpc' = [wpc EXCEPT ![p] = IF diff = {} THEN "read" ELSE "mark"]
    BY <1>2 DEF WatchSnapshot, WatchGoto
  <2>3. \A d \in Module : /\ new[d] \in Nat /\ new[d] <= disk[d] /\ seen[p][d] <= new[d]
                          /\ d \in diff => seen[p][d] < new[d]
    <3> SUFFICES ASSUME NEW d \in Module
                 PROVE  /\ new[d] \in Nat /\ new[d] <= disk[d] /\ seen[p][d] <= new[d]
                        /\ d \in diff => seen[p][d] < new[d]
      OBVIOUS
    <3>1. disk[d] \in Nat /\ seen[p][d] \in Nat /\ seen[p][d] <= disk[d]
      BY <1>0 DEF VersionInv
    <3>2. new[d] = IF d \in diff THEN disk[d] ELSE seen[p][d]  OBVIOUS
    <3>3. d \in diff => disk[d] # seen[p][d]  OBVIOUS
    <3> HIDE DEF new, diff
    <3> QED  BY <3>1, <3>2, <3>3
  <2>4. diff \subseteq Module  OBVIOUS
  <2>5. VersionInv'
    <3> HIDE DEF new, diff
    <3>1. \A q \in Process : seen'[q] = IF q = p THEN new ELSE seen[q]
      BY <1>0, <2>2
    <3>2. \A d \in Module : 1 <= new[d]
      BY <1>0, <2>3 DEF VersionInv
    <3> QED  BY <1>0, <2>1, <2>3, <3>1, <3>2 DEF VersionInv
  <2>6. diff # {} => seen[p]["direct"] + seen[p]["nested"] < new["direct"] + new["nested"]
    <3> HIDE DEF new, diff
    <3>1. diff # {} => "direct" \in diff \/ "nested" \in diff
      BY <2>4 DEF Module
    <3>2. /\ seen[p]["direct"] \in Nat /\ seen[p]["nested"] \in Nat
          /\ new["direct"] \in Nat /\ new["nested"] \in Nat
      BY <1>0, <2>3
    <3>3. /\ seen[p]["direct"] <= new["direct"] /\ seen[p]["nested"] <= new["nested"]
          /\ "direct" \in diff => seen[p]["direct"] < new["direct"]
          /\ "nested" \in diff => seen[p]["nested"] < new["nested"]
      BY <1>0, <2>3
    <3> QED  BY <3>1, <3>2, <3>3
  <2>7. seen[p]["direct"] + seen[p]["nested"] <= new["direct"] + new["nested"]
    <3> HIDE DEF new, diff
    <3> QED  BY <1>0, <2>3, <2>4
  <2>8. BumpInv'
    <3> HIDE DEF new, diff
    <3> SUFFICES ASSUME NEW q \in Process
                 PROVE  BumpOK(q)'
      BY DEF BumpInv
    <3>1. CASE q = p
      <4>1. seen'[q] = new /\ generation'[q] = generation[p] /\ changed'[q] = diff
            /\ wpc'[q] = IF diff = {} THEN "read" ELSE "mark"
        BY <1>0, <2>1, <2>2, <3>1
      <4> QED  BY <1>0, <2>3, <2>6, <2>7, <4>1 DEF BumpInv, BumpOK
    <3>2. CASE q # p
      <4>1. seen'[q] = seen[q] /\ generation'[q] = generation[q] /\ changed'[q] = changed[q]
            /\ wpc'[q] = wpc[q]
        BY <1>0, <2>1, <2>2, <3>2
      <4> QED  BY <1>0, <4>1 DEF BumpInv, BumpOK
    <3> QED  BY <3>1, <3>2
  <2> QED  BY <2>5, <2>8
<1>3. ASSUME NEW p \in Process, WatchMark(p) PROVE VersionInv' /\ BumpInv'
  BY <1>0, <1>3, Frame DEF reloadVars, VersionInv, BumpInv, BumpOK,
     WatchMark, WatchGoto
<1>4. ASSUME NEW p \in Process, WatchBump(p) PROVE VersionInv' /\ BumpInv'
  BY <1>0, <1>4, Frame DEF VersionInv, BumpInv, BumpOK, WatchBump, WatchGoto
<1>5. ASSUME NEW p \in Process,
             (\E d \in Module : PublishText(p, d)) \/ PublishNewline(p)
      PROVE  VersionInv' /\ BumpInv'
  BY <1>0, <1>5, Frame DEF reloadVars, VersionInv, BumpInv, BumpOK,
     PublishText, PublishNewline, WatchGoto
<1>6. ASSUME NEW p \in Process, PublishEnd(p) \/ PublishFails(p)
      PROVE  VersionInv' /\ BumpInv'
  BY <1>0, <1>6, Frame DEF reloadVars, VersionInv, BumpInv, BumpOK,
     PublishEnd, PublishFails,
                          WatchGoto
<1>7. ASSUME NEW p \in Process, ReadSince(p) \/ ReadFails(p) \/ MarkRemote(p)
      PROVE  VersionInv' /\ BumpInv'
  <2>1. PICK step \in {"wait", "remote"} :
           wpc' = [wpc EXCEPT ![p] = step]
    BY <1>7 DEF ReadSince, ReadFails, MarkRemote, WatchGoto
  <2> QED
    BY <1>0, <1>7, <2>1, Frame DEF reloadVars, VersionInv, BumpInv, BumpOK
<1>8. ASSUME UNCHANGED <<disk, watchVars, reloadVars>> PROVE VersionInv' /\ BumpInv'
  BY <1>0, <1>8 DEF watchVars, reloadVars, VersionInv, BumpInv, BumpOK
<1>9. (RemoteText \/ RemoteNewline \/ \E r \in Request : RequestStep(r)) =>
         UNCHANGED <<disk, watchVars, reloadVars>>
  BY Frame
<1> QED  BY Steps, <1>1, <1>2, <1>3, <1>4, <1>5, <1>6, <1>7, <1>8, <1>9

\* Generations and versions are numbers.
LEMMA Numbers ==
    /\ \A g \in Generation : g \in Nat /\ 1 <= g
    /\ \A v \in Versions, d \in Module : v[d] \in Nat
    /\ 1 \in Generation
BY ReloadBounds DEF Generation, Versions

\* What a step does to the generations of p: they grow, one keeps the
\* snapshot it was published with, and a new one takes what the watcher has
\* seen by then.
Published(p) ==
    /\ generation'[p] \in Generation /\ generation[p] <= generation'[p]
    /\ \A g \in Generation :
          /\ g <= generation[p] => snapOf'[p][g] = snapOf[p][g]
          /\ g > generation[p] /\ g <= generation'[p] => snapOf'[p][g] = seen'[p]
    /\ \A d \in Module : seen[p][d] <= seen'[p][d]

\* Every step does that, and keeps the types of the state involved.
LEMMA GenerationStep ==
    ASSUME IndInv, Next
    PROVE  /\ \A p \in Process : Published(p)
           /\ generation' \in [Process -> Generation]
           /\ snapOf' \in [Process -> [Generation -> Versions]]
           /\ seen' \in [Process -> Versions]
<1> DEFINE Goal == /\ \A p \in Process : Published(p)
                   /\ generation' \in [Process -> Generation]
                   /\ snapOf' \in [Process -> [Generation -> Versions]]
                   /\ seen' \in [Process -> Versions]
<1> SUFFICES Goal  OBVIOUS
<1>0. /\ generation \in [Process -> Generation]
      /\ snapOf \in [Process -> [Generation -> Versions]]
      /\ seen \in [Process -> Versions]
      /\ disk \in Versions /\ \A g \in Generation : g \in Nat
      /\ \A p \in Process : generation[p] \in Nat /\ \A d \in Module : seen[p][d] \in Nat
  BY Numbers DEF IndInv, TypeOK
<1>1. ASSUME NEW q \in Process, WatchBump(q)
      PROVE  Goal
  <2>1. /\ generation' = [generation EXCEPT ![q] = @ + 1]
        /\ snapOf' = [snapOf EXCEPT ![q][generation[q] + 1] = seen[q]]
        /\ seen' = seen
    BY <1>1, Frame DEF WatchBump
  <2>2. generation[q] + 1 \in Generation
    <3>1. generation[q] + 1 <= seen[q]["direct"] + seen[q]["nested"] - 1
      BY <1>1 DEF WatchBump, IndInv, BumpInv, BumpOK
    <3>2. /\ seen[q]["direct"] <= disk["direct"] /\ seen[q]["nested"] <= disk["nested"]
          /\ disk["direct"] + disk["nested"] <= MaxEdits + 2
      BY DEF IndInv, VersionInv, Module
    <3>3. /\ seen[q]["direct"] \in Nat /\ seen[q]["nested"] \in Nat
          /\ disk["direct"] \in Nat /\ disk["nested"] \in Nat
      BY <1>0, Numbers DEF Module
    <3> QED  BY <1>0, <3>1, <3>2, <3>3, ReloadBounds DEF Generation
  <2>3. /\ generation' \in [Process -> Generation]
        /\ snapOf' \in [Process -> [Generation -> Versions]]
        /\ seen' \in [Process -> Versions]
    BY <1>0, <2>1, <2>2
  <2>4. ASSUME NEW p \in Process PROVE Published(p)
    <3>1. /\ generation'[p] = IF p = q THEN generation[p] + 1 ELSE generation[p]
          /\ \A g \in Generation : snapOf'[p][g] =
                IF p = q /\ g = generation[p] + 1 THEN seen[p] ELSE snapOf[p][g]
      BY <1>0, <2>1, <2>2
    <3>2. \A d \in Module : seen[p][d] <= seen'[p][d]  BY <1>0, <2>1
    <3>3. generation'[p] \in Generation /\ generation[p] \in Nat  BY <1>0, <2>3
    <3>4. seen'[p] = seen[p]  BY <2>1
    <3>5. \A g \in Generation :
            /\ g <= generation[p] => snapOf'[p][g] = snapOf[p][g]
            /\ g > generation[p] /\ g <= generation'[p] => snapOf'[p][g] = seen'[p]
      <4>1. \A g \in Generation : g \in Nat  BY <1>0
      <4> QED  BY <3>1, <3>3, <3>4, <4>1
    <3>6. generation[p] <= generation'[p]  BY <3>1, <3>3
    <3> QED  BY <3>2, <3>3, <3>5, <3>6 DEF Published
  <2> QED  BY <2>3, <2>4
<1>2. ASSUME UNCHANGED <<reloadVars, seen>>
      PROVE  Goal
  BY <1>0, <1>2 DEF reloadVars, Published
<1>3. ASSUME NEW q \in Process, NEW bad \in SUBSET Module, WatchSnapshot(q, bad)
      PROVE  Goal
  <2>1. UNCHANGED <<generation, snapOf>>  BY <1>3, Frame DEF reloadVars
  <2>2. seen' = [seen EXCEPT ![q] =
           [d \in Module |-> IF d \in {e \in Module \ bad : disk[e] # seen[q][e]}
                             THEN disk[d] ELSE seen[q][d]]]
    BY <1>3 DEF WatchSnapshot
  <2>3. \A p \in Process, d \in Module : seen[p][d] <= disk[d]
    BY DEF IndInv, VersionInv
  <2>4. seen' \in [Process -> Versions]  BY <1>0, <2>2 DEF Versions
  <2>5. \A p \in Process, d \in Module : seen[p][d] <= seen'[p][d]
    BY <1>0, <2>2, <2>3
  <2> QED  BY <1>0, <2>1, <2>4, <2>5 DEF Published
<1> QED  BY Steps, Frame, <1>1, <1>2, <1>3 DEF watchVars

\* Snapshots of later generations are at least as new.
LEMMA SnapStep ==
    ASSUME IndInv, Next
    PROVE  SnapInv'
<1> SUFFICES ASSUME NEW p \in Process, NEW g \in Generation, g <= generation'[p]
             PROVE  /\ \A d \in Module : snapOf'[p][g][d] <= seen'[p][d]
                    /\ \A f \in Generation : f <= g =>
                          \A d \in Module : snapOf'[p][f][d] <= snapOf'[p][g][d]
  BY DEF SnapInv
<1>0. /\ generation[p] \in Nat /\ Published(p)
      /\ \A f \in Generation : f \in Nat
      /\ \A f \in Generation, d \in Module :
            /\ snapOf[p][f][d] \in Nat /\ snapOf'[p][f][d] \in Nat
            /\ seen[p][d] \in Nat /\ seen'[p][d] \in Nat
  BY Numbers, GenerationStep DEF IndInv, TypeOK
<1>1. \A f \in Generation : f <= generation[p] =>
         \A d \in Module : /\ snapOf[p][f][d] <= seen[p][d]
                           /\ snapOf'[p][f][d] = snapOf[p][f][d]
  BY <1>0 DEF IndInv, SnapInv, Published
<1>2. \A d \in Module : seen[p][d] <= seen'[p][d]
  BY <1>0 DEF Published
<1>3. \A f \in Generation : f <= g =>
         \A d \in Module : snapOf'[p][f][d] <= seen'[p][d]
  BY <1>0, <1>1, <1>2 DEF Published
<1>4. CASE g <= generation[p]
  <2>1. \A f \in Generation : f <= g => f <= generation[p]  BY <1>0, <1>4
  <2> QED  BY <1>0, <1>1, <1>3, <1>4, <2>1 DEF IndInv, SnapInv
<1>5. CASE g > generation[p]
  BY <1>0, <1>3, <1>5 DEF Published
<1> QED  BY <1>0, <1>4, <1>5

-----------------------------------------------------------------------------
(* The worker's modules.                                                   *)

\* What a request does to the worker of its process: nothing, a restart, or
\* a run that loads what is not loaded.
LEMMA WorkerMoves ==
    ASSUME IndInv, NEW r \in Request, RequestStep(r)
    PROVE  \/ UNCHANGED workerVars
           \/ /\ Restart(r) /\ home[r] \in Process
              /\ cache' = [cache EXCEPT ![home[r]] = EmptyCache]
              /\ \/ lastRestart' = lastRestart
                 \/ lastRestart' = [lastRestart EXCEPT ![home[r]] = want[r]]
           \/ /\ Execute(r) /\ home[r] \in Process
              /\ lastRestart' = lastRestart
<1>1. pc[r] \in {"restart", "execute"} => home[r] \in Process
  BY DEF IndInv, RequestInv, RequestOK
<1>2. CASE Restart(r)
  BY <1>1, <1>2 DEF Restart, workerVars
<1>3. CASE Execute(r)
  BY <1>1, <1>3 DEF Execute
<1>4. CASE ~Restart(r) /\ ~Execute(r)
  BY <1>4 DEF RequestStep, StartBuild, StartPerRequest, RewriteImports,
     CheckRestart,
              ExecuteFails, Finish, workerVars
<1> QED  BY <1>2, <1>3, <1>4

\* A run loads what is on disk, which is no older than any published
\* snapshot, and keeps what was loaded.
LEMMA RunLoads ==
    ASSUME IndInv, NEW r \in Request, Execute(r)
    PROVE  LET p == home[r] IN
           /\ p \in Process /\ gen[r] \in Generation
           /\ body' \in [Request -> Versions] /\ cache' \in [Process -> Cache]
           /\ \A q \in Process : q # p => cache'[q] = cache[q]
           /\ \A g \in Generation : g # gen[r] => cache'[p].direct[g] = cache[p].direct[g]
           /\ cache'[p].direct[gen[r]] = body'[r]["direct"]
           /\ cache'[p].nested = body'[r]["nested"]
           /\ body'[r]["direct"] = IF cache[p].direct[gen[r]] # 0
                                   THEN cache[p].direct[gen[r]] ELSE disk["direct"]
           /\ body'[r]["nested"] = IF cache[p].nested # 0
                                   THEN cache[p].nested ELSE disk["nested"]
           /\ \A s \in Request : s # r => body'[s] = body[s]
<1> DEFINE p == home[r]
           direct == Loaded(cache[p].direct[gen[r]], "direct")
           nested == Loaded(cache[p].nested, "nested")
<1>1. p \in Process /\ gen[r] \in Generation
  BY DEF Execute, IndInv, RequestInv, RequestOK
<1>2. /\ body' = [body EXCEPT ![r] = [d \in Module |-> IF d = "direct" THEN direct ELSE nested]]
      /\ cache' = [cache EXCEPT ![p].direct[gen[r]] = direct, ![p].nested = nested]
  BY DEF Execute
<1>3. /\ cache \in [Process -> Cache] /\ body \in [Request -> Versions]
      /\ disk["direct"] \in 0..(MaxEdits + 1) /\ disk["nested"] \in 0..(MaxEdits + 1)
  BY DEF IndInv, TypeOK, Versions, Module
<1>4. /\ cache[p] \in Cache
      /\ cache[p].direct[gen[r]] \in 0..(MaxEdits + 1) /\ cache[p].nested \in 0..(MaxEdits + 1)
  BY <1>1, <1>3 DEF Cache
<1>5. direct \in 0..(MaxEdits + 1) /\ nested \in 0..(MaxEdits + 1)
  BY <1>3, <1>4 DEF Loaded
<1>6. /\ direct = IF cache[p].direct[gen[r]] # 0 THEN cache[p].direct[gen[r]] ELSE disk["direct"]
      /\ nested = IF cache[p].nested # 0 THEN cache[p].nested ELSE disk["nested"]
  BY DEF Loaded
<1> HIDE DEF direct, nested
<1>7. /\ body'[r]["direct"] = direct /\ body'[r]["nested"] = nested
      /\ body' \in [Request -> Versions]
      /\ \A s \in Request : s # r => body'[s] = body[s]
  BY <1>2, <1>3, <1>5 DEF Versions, Module
<1>8. /\ cache' \in [Process -> Cache]
      /\ \A q \in Process : q # p => cache'[q] = cache[q]
  BY <1>1, <1>2, <1>3, <1>5 DEF Cache
<1>9. /\ cache'[p].nested = nested
      /\ cache'[p].direct = [cache[p].direct EXCEPT ![gen[r]] = direct]
  BY <1>1, <1>2, <1>3, <1>4 DEF Cache
<1>10. cache[p].direct \in [Generation -> 0..(MaxEdits + 1)]  BY <1>4 DEF Cache
<1> QED  BY <1>1, <1>6, <1>7, <1>8, <1>9, <1>10

\* A module that was fresh for a published generation stays fresh for it.
LEMMA FreshKept ==
    ASSUME IndInv, Next, NEW p \in Process, NEW g \in Generation,
           g <= generation[p], NestedFresh(p, g)
    PROVE  NestedFresh(p, g)'
<1>0. /\ snapOf'[p][g] = snapOf[p][g] /\ "nested" \in Module
      /\ snapOf[p][g]["nested"] \in Nat /\ disk["nested"] \in Nat
      /\ snapOf[p][g]["nested"] <= disk["nested"]
  <2>1. /\ snapOf[p][g]["nested"] \in Nat /\ disk["nested"] \in Nat
        /\ seen[p]["nested"] \in Nat
    BY Numbers DEF IndInv, TypeOK, Module
  <2>2. snapOf[p][g]["nested"] <= seen[p]["nested"] /\ seen[p]["nested"] <= disk["nested"]
    BY DEF IndInv, SnapInv, VersionInv, Module
  <2> QED  BY <2>1, <2>2, GenerationStep DEF Published, Module
<1>1. CASE cache'[p] = cache[p]
  BY <1>0, <1>1 DEF NestedFresh
<1>2. ASSUME NEW r \in Request, RequestStep(r) PROVE NestedFresh(p, g)'
  <2>1. cache \in [Process -> Cache]  BY DEF IndInv, TypeOK
  <2>2. CASE /\ home[r] \in Process /\ cache' = [cache EXCEPT ![home[r]] = EmptyCache]
    BY <1>1, <2>1, <2>2 DEF NestedFresh, EmptyCache
  <2>3. CASE Execute(r)
    <3>1. CASE p = home[r]  BY <1>0, <2>3, <3>1, RunLoads DEF NestedFresh
    <3>2. CASE p # home[r]  BY <1>1, <2>3, <3>2, RunLoads
    <3> QED  BY <3>1, <3>2
  <2> QED  BY <1>1, <1>2, <2>2, <2>3, WorkerMoves DEF workerVars
<1>3. (\A r \in Request : ~RequestStep(r)) => cache' = cache
  BY Steps, Frame DEF workerVars
<1> QED  BY <1>1, <1>2, <1>3

\* The worker keeps nothing that is older than its generation's snapshot.
LEMMA CacheStep ==
    ASSUME IndInv, Next
    PROVE  CacheInv'
<1> SUFFICES ASSUME NEW p \in Process PROVE CacheOK(p)'
  BY DEF CacheInv
<1>0. /\ cache \in [Process -> Cache] /\ CacheOK(p) /\ Published(p)
      /\ generation[p] \in Nat /\ generation'[p] \in Nat
      /\ lastRestart \in [Process -> {0} \cup Generation]
      /\ lastRestart[p] \in Nat /\ (lastRestart[p] # 0 => lastRestart[p] \in Generation)
      /\ \A g \in Generation : g \in Nat
  BY GenerationStep, Numbers DEF IndInv, TypeOK, CacheInv
<1>f. \A g \in Generation : g <= generation[p] /\ NestedFresh(p, g) =>
         cache'[p].nested = 0 \/ cache'[p].nested >= snapOf'[p][g]["nested"]
  BY FreshKept DEF NestedFresh
<1>g. ASSUME lastRestart'[p] = lastRestart[p], lastRestart'[p] # 0
      PROVE  NestedFresh(p, lastRestart[p])'
  BY <1>0, <1>f, <1>g DEF CacheOK, NestedFresh
<1>1. CASE cache'[p] = cache[p] /\ lastRestart'[p] = lastRestart[p]
  BY <1>0, <1>1, <1>g DEF CacheOK, Published
<1>2. ASSUME NEW r \in Request, RequestStep(r) PROVE CacheOK(p)'
  <2>1. generation' = generation /\ snapOf' = snapOf
    BY <1>2, Frame DEF reloadVars
  <2>2. CASE /\ Restart(r) /\ home[r] \in Process
             /\ cache' = [cache EXCEPT ![home[r]] = EmptyCache]
             /\ \/ lastRestart' = lastRestart
                \/ lastRestart' = [lastRestart EXCEPT ![home[r]] = want[r]]
    <3>1. CASE p # home[r]  BY <1>0, <1>1, <2>2, <3>1
    <3>2. CASE p = home[r]
      <4>1. want[r] <= generation[p]
        BY <2>2, <3>2 DEF Restart, IndInv, RequestInv, RequestOK
      <4>2. cache'[p] = EmptyCache  BY <1>0, <2>2, <3>2
      <4>3. lastRestart'[p] = lastRestart[p] \/ lastRestart'[p] = want[r]
        BY <1>0, <2>2, <3>2
      <4>4. lastRestart'[p] <= generation[p]
        BY <1>0, <4>1, <4>3 DEF CacheOK
      <4> QED  BY <1>0, <2>1, <4>2, <4>4 DEF CacheOK, EmptyCache, NestedFresh
    <3> QED  BY <3>1, <3>2
  <2>3. CASE Execute(r) /\ lastRestart' = lastRestart
    <3>1. CASE p # home[r]  BY <1>0, <1>1, <2>3, <3>1, RunLoads
    <3>2. CASE p = home[r]
      <4>2. ASSUME NEW g \in Generation
            PROVE  IF g <= generation'[p]
                   THEN \/ cache'[p].direct[g] = 0
                        \/ cache'[p].direct[g] >= snapOf'[p][g]["direct"]
                   ELSE cache'[p].direct[g] = 0
        <5>1. CASE g # gen[r]
          BY <1>0, <2>1, <2>3, <3>2, <5>1, RunLoads DEF CacheOK
        <5>2. CASE g = gen[r]
          <6>1. g <= generation[p]
            BY <2>3, <3>2, <5>2 DEF Execute, IndInv, RequestInv, RequestOK
          <6>2. /\ snapOf[p][g]["direct"] \in Nat /\ disk["direct"] \in Nat
                /\ seen[p]["direct"] \in Nat
            BY Numbers DEF IndInv, TypeOK, Module
          <6>3. snapOf[p][g]["direct"] <= seen[p]["direct"] /\ seen[p]["direct"] <= disk["direct"]
            BY <6>1 DEF IndInv, SnapInv, VersionInv, Module
          <6> QED
            BY <1>0, <2>1, <2>3, <3>2, <5>2, <6>1, <6>2, <6>3, RunLoads
               DEF CacheOK
        <5> QED  BY <5>1, <5>2
      <4> QED  BY <1>0, <2>1, <2>3, <1>g, <4>2 DEF CacheOK
    <3> QED  BY <3>1, <3>2
  <2> QED  BY <1>1, <1>2, <2>2, <2>3, WorkerMoves DEF workerVars
<1>3. (\A r \in Request : ~RequestStep(r)) => UNCHANGED <<cache, lastRestart>>
  BY Steps, Frame DEF workerVars
<1> QED  BY <1>1, <1>2, <1>3

-----------------------------------------------------------------------------
(* Requests.                                                               *)

\* A step of one request leaves the fields of the others.
LEMMA OtherRequests ==
    ASSUME TypeOK, NEW r \in Request, RequestStep(r), NEW s \in Request, s # r
    PROVE  /\ pc'[s] = pc[s] /\ home'[s] = home[s] /\ gen'[s] = gen[s]
           /\ want'[s] = want[s] /\ body'[s] = body[s]
BY DEF TypeOK, RequestStep, StartBuild, StartPerRequest, RewriteImports,
   CheckRestart,
       Restart, Execute, ExecuteFails, Finish, Goto

\* A request that changes no field of its own keeps what holds of it.
LEMMA RequestKept ==
    ASSUME IndInv, Next, NEW s \in Request,
           pc'[s] = pc[s], home'[s] = home[s], gen'[s] = gen[s],
           want'[s] = want[s], body'[s] = body[s]
    PROVE  RequestOK(s)'
<1>1. RequestOK(s)  BY DEF IndInv, RequestInv
<1>2. CASE pc[s] \in {"new", "done"}  BY <1>1, <1>2 DEF RequestOK
<1>3. CASE pc[s] \notin {"new", "done"}
  <2>0. home[s] \in Process  BY <1>1, <1>3 DEF RequestOK
  <2>1. /\ generation[home[s]] <= generation'[home[s]]
        /\ generation[home[s]] \in Nat /\ generation'[home[s]] \in Nat
        /\ \A g \in Generation : g \in Nat /\ 1 <= g
        /\ \A g \in Generation : g <= generation[home[s]] =>
              snapOf'[home[s]][g] = snapOf[home[s]][g]
        /\ want[s] \in {0} \cup Generation
    BY <2>0, GenerationStep, Numbers DEF IndInv, TypeOK, Published
  <2>2. pc[s] \in {"restart", "execute"} => want[s] \in Generation
    BY <1>1, <2>1 DEF RequestOK
  <2>3. pc[s] = "execute" => NestedFresh(home[s], want[s])'
    <3>1. \A p \in Process, g \in Generation : g <= generation[p] /\ NestedFresh(p, g) =>
             cache'[p].nested = 0 \/ cache'[p].nested >= snapOf'[p][g]["nested"]
      BY FreshKept DEF NestedFresh
    <3> QED  BY <1>1, <2>0, <2>2, <3>1 DEF RequestOK, NestedFresh
  <2> QED  BY <1>1, <2>0, <2>1, <2>2, <2>3 DEF RequestOK
<1> QED  BY <1>2, <1>3

\* The request's own step.
LEMMA OwnStep ==
    ASSUME IndInv, Next, NEW r \in Request, RequestStep(r)
    PROVE  RequestOK(r)'
<1>0. /\ RequestOK(r)
      /\ generation' = generation /\ snapOf' = snapOf
      /\ pc \in [Request -> {"new", "url", "check", "restart", "execute", "ran", "failed", "done"}]
      /\ home \in [Request -> Process \cup {None}]
      /\ gen \in [Request -> {0} \cup Generation] /\ want \in [Request -> {0} \cup Generation]
      /\ generation \in [Process -> Generation]
      /\ \A g \in Generation : g \in Nat /\ 1 <= g
  BY Frame, Numbers DEF IndInv, TypeOK, RequestInv, reloadVars
<1>1. CASE \E p \in Process : StartBuild(r, p) \/ StartPerRequest(r, p)
  BY <1>0, <1>1 DEF StartBuild, StartPerRequest, Goto, RequestOK
<1>2. CASE RewriteImports(r)
  BY <1>0, <1>2 DEF RewriteImports, Goto, RequestOK
<1>3. CASE CheckRestart(r)
  <2>1. /\ pc'[r] \in {"execute", "restart"} /\ home' = home /\ gen' = gen
        /\ want'[r] = generation[home[r]] /\ cache' = cache
        /\ pc'[r] = "execute" => lastRestart[home[r]] = generation[home[r]]
    BY <1>0, <1>3 DEF CheckRestart, Goto, workerVars
  <2>2. home[r] \in Process /\ gen[r] \in Generation /\ gen[r] <= generation[home[r]]
    BY <1>0, <1>3 DEF CheckRestart, RequestOK
  <2>3. lastRestart[home[r]] # 0 => NestedFresh(home[r], lastRestart[home[r]])
    BY <2>2 DEF IndInv, CacheInv, CacheOK
  <2>4. generation[home[r]] \in Nat /\ 1 <= generation[home[r]]  BY <1>0, <2>2
  <2> QED  BY <1>0, <2>1, <2>2, <2>3, <2>4 DEF RequestOK, NestedFresh
<1>4. CASE Restart(r)
  <2>1. /\ pc'[r] \in {"execute", "failed"} /\ home' = home /\ gen' = gen /\ want' = want
    BY <1>0, <1>4 DEF Restart, Goto
  <2>2. /\ home[r] \in Process /\ gen[r] \in Generation /\ gen[r] <= generation[home[r]]
        /\ gen[r] <= want[r] /\ want[r] <= generation[home[r]]
    BY <1>0, <1>4 DEF Restart, RequestOK
  <2>3. want[r] # 0  BY <1>0, <2>2
  <2>4. cache \in [Process -> Cache]  BY DEF IndInv, TypeOK
  <2>5. pc'[r] = "execute" => NestedFresh(home[r], want[r])'
    <3>1. CASE cache' = [cache EXCEPT ![home[r]] = EmptyCache]
      BY <2>2, <2>4, <3>1, <2>1 DEF NestedFresh, EmptyCache
    <3>2. CASE cache' = cache /\ lastRestart[home[r]] = want[r]
      BY <1>0, <2>1, <2>2, <2>3, <3>2 DEF IndInv, CacheInv, CacheOK,
         NestedFresh
    <3> QED  BY <1>4, <3>1, <3>2 DEF Restart, workerVars
  <2> QED  BY <1>0, <2>1, <2>2, <2>5 DEF RequestOK
<1>5. CASE Execute(r)
  <2> DEFINE p == home[r]  g == gen[r]
  <2>1. /\ pc'[r] = "ran" /\ home' = home /\ gen' = gen
    BY <1>0, <1>5 DEF Execute, Goto
  <2>2. /\ p \in Process /\ g \in Generation /\ g <= generation[p]
        /\ g <= want[r] /\ want[r] <= generation[p] /\ want[r] \in Generation
        /\ NestedFresh(p, want[r])
    BY <1>0, <1>5 DEF Execute, RequestOK
  <2>3. \A d \in Module : /\ snapOf[p][g][d] \in Nat /\ snapOf[p][want[r]][d] \in Nat
                          /\ seen[p][d] \in Nat /\ disk[d] \in Nat
    BY <2>2, Numbers DEF IndInv, TypeOK
  <2>4. \A d \in Module : /\ snapOf[p][g][d] <= seen[p][d] /\ seen[p][d] <= disk[d]
                          /\ snapOf[p][g][d] <= snapOf[p][want[r]][d]
    BY <2>2 DEF IndInv, SnapInv, VersionInv
  <2>5. cache[p].direct[g] = 0 \/ cache[p].direct[g] >= snapOf[p][g]["direct"]
    BY <2>2 DEF IndInv, CacheInv, CacheOK
  <2>6. /\ body'[r]["direct"] = IF cache[p].direct[g] # 0
                                THEN cache[p].direct[g] ELSE disk["direct"]
        /\ body'[r]["nested"] = IF cache[p].nested # 0 THEN cache[p].nested ELSE disk["nested"]
        /\ body'[r]["direct"] \in Nat /\ body'[r]["nested"] \in Nat
    BY <1>5, RunLoads, Numbers DEF Module
  <2> HIDE DEF p, g
  <2>7. "direct" \in Module /\ "nested" \in Module  BY DEF Module
  <2>8. body'[r]["direct"] >= snapOf[p][g]["direct"]
    BY <2>3, <2>4, <2>5, <2>6, <2>7
  <2>9. body'[r]["nested"] >= snapOf[p][g]["nested"]
    BY <2>2, <2>3, <2>4, <2>6, <2>7 DEF NestedFresh
  <2> QED  BY <1>0, <2>1, <2>2, <2>8, <2>9 DEF RequestOK, Module, p, g
<1>6. CASE ExecuteFails(r)
  BY <1>0, <1>6 DEF ExecuteFails, Goto, RequestOK
<1>7. CASE Finish(r)
  BY <1>0, <1>7 DEF Finish, Goto, RequestOK
<1> QED  BY <1>1, <1>2, <1>3, <1>4, <1>5, <1>6, <1>7 DEF RequestStep

\* Every request keeps what holds of it.
LEMMA RequestsStep ==
    ASSUME IndInv, Next
    PROVE  RequestInv'
<1> SUFFICES ASSUME NEW s \in Request PROVE RequestOK(s)'
  BY DEF RequestInv
<1>1. ASSUME NEW r \in Request, RequestStep(r) PROVE RequestOK(s)'
  <2>1. CASE s = r  BY <1>1, <2>1, OwnStep
  <2>2. CASE s # r
    <3>1. TypeOK  BY DEF IndInv
    <3> QED  BY <1>1, <2>2, <3>1, OtherRequests, RequestKept
  <2> QED  BY <2>1, <2>2
<1>2. (\A r \in Request : ~RequestStep(r)) => UNCHANGED requestVars
  BY Steps, Frame
<1>3. UNCHANGED requestVars => RequestOK(s)'
  BY RequestKept DEF requestVars
<1> QED  BY <1>1, <1>2, <1>3

-----------------------------------------------------------------------------
(* The bus.                                                                *)

\* Appending leaves the pieces that are there and adds one at the end.
LEMMA Appended ==
    ASSUME NEW e \in Piece, log \in Seq(Piece), log' = Append(log, e)
    PROVE  /\ log' \in Seq(Piece)
           /\ Len(log) \in Nat /\ Len(log') = Len(log) + 1
           /\ \A i \in 1..Len(log) : log'[i] = log[i]
OBVIOUS

\* What a process has read stays accounted for when the file grows.
LEMMA AccountedKept ==
    ASSUME IndInv, NEW p \in Process,
           cursor'[p] = cursor[p], heard'[p] = heard[p], skip'[p] = skip[p],
           \/ log' = log
           \/ \E e \in Piece : log' = Append(log, e)
    PROVE  Accounted(p)'
<1>0. /\ log \in Seq(Piece) /\ Len(log) \in Nat
      /\ cursor[p] \in 0..Len(log) /\ skip[p] \in 0..Len(log)
      /\ Accounted(p)
  BY DEF IndInv, TypeOK, BusLinesAccounted, Accounted
<1>1. /\ Len(log') \in Nat /\ Len(log) <= Len(log')
      /\ \A i \in 1..Len(log) : log'[i] = log[i]
  <2>1. CASE log' = log  BY <1>0, <2>1
  <2>2. ASSUME NEW e \in Piece, log' = Append(log, e)
        PROVE  /\ Len(log') \in Nat /\ Len(log) <= Len(log')
               /\ \A i \in 1..Len(log) : log'[i] = log[i]
    BY <1>0, <2>2, Appended
  <2> QED  BY <2>1, <2>2
<1>2. PICK c \in Nat, k \in Nat, n \in Nat, m \in Nat :
         c = cursor[p] /\ k = skip[p] /\ n = Len(log) /\ m = Len(log')
  BY <1>0, <1>1
<1>3. \A i \in (k + 1)..c : OwnLine(i, k)' <=> OwnLine(i, k)
  <2> SUFFICES ASSUME NEW i \in (k + 1)..c
               PROVE  OwnLine(i, k)' <=> OwnLine(i, k)
    OBVIOUS
  <2>1. i \in 1..n /\ c \in 1..n /\ log[c] = Newline
    BY <1>0, <1>2 DEF Accounted
  <2>2. i = k + 1 \/ i - 1 \in 1..n  BY <1>2, <2>1
  <2>3. log'[i] = log[i] /\ (i = k + 1 \/ log'[i - 1] = log[i - 1])
    BY <1>1, <1>2, <2>1, <2>2
  <2>4. CASE i = c
    BY <2>1, <2>3, <2>4 DEF OwnLine
  <2>5. CASE i # c
    <3>1. i + 1 \in 1..n /\ i < n /\ i < m
      BY <1>0, <1>1, <1>2, <2>1, <2>5
    <3>2. log'[i + 1] = log[i + 1]  BY <1>1, <1>2, <3>1
    <3> QED  BY <1>2, <2>3, <3>1, <3>2 DEF OwnLine
  <2> QED  BY <2>4, <2>5
<1>4. cursor'[p] = c /\ skip'[p] = k /\ (c = k \/ (c > k /\ log'[c] = Newline))
  BY <1>0, <1>1, <1>2 DEF Accounted
<1>5. {i \in heard[p] : i > k} = {i \in (k + 1)..c : OwnLine(i, k)}
  BY <1>0, <1>2 DEF Accounted
<1> QED  BY <1>3, <1>4, <1>5 DEF Accounted

\* A read takes whole lines, and each text that is a line of its own once.
LEMMA ReadAccounted ==
    ASSUME IndInv, NEW p \in Process, ReadSince(p)
    PROVE  Accounted(p)'
<1>0. /\ log \in Seq(Piece) /\ Len(log) \in Nat
      /\ cursor \in [Process -> 0..Len(log)] /\ heard \in [Process -> SUBSET (1..Len(log))]
      /\ cursor[p] \in 0..Len(log) /\ skip[p] \in 0..Len(log)
      /\ heard[p] \in SUBSET (1..Len(log))
      /\ Accounted(p)
  BY DEF IndInv, TypeOK, BusLinesAccounted, Accounted
<1>1. PICK e \in LineEnds(cursor[p]) :
         /\ heard' = [heard EXCEPT ![p] =
                @ \cup {i \in (cursor[p] + 1)..e : OwnLine(i, cursor[p])}]
         /\ cursor' = [cursor EXCEPT ![p] = e]
         /\ UNCHANGED <<log, skip>>
  BY DEF ReadSince
<1>2. PICK c \in Nat, k \in Nat, n \in Nat, H \in SUBSET Nat :
         c = cursor[p] /\ k = skip[p] /\ n = Len(log) /\ H = heard[p]
  BY <1>0
<1>3. /\ c <= n /\ k <= c
      /\ c = k \/ (c > k /\ log[c] = Newline)
      /\ {i \in H : i > k} = {i \in (k + 1)..c : OwnLine(i, k)}
  BY <1>0, <1>2 DEF Accounted
<1>4. e \in c..n /\ (e = c \/ log[e] = Newline)
  BY <1>0, <1>2 DEF LineEnds
<1>5. /\ cursor'[p] = e /\ skip'[p] = k
      /\ heard'[p] = H \cup {i \in (c + 1)..e : OwnLine(i, c)}
  BY <1>0, <1>1, <1>2
<1>6. \A i \in (c + 1)..e : OwnLine(i, c) <=> OwnLine(i, k)
  BY <1>3, <1>4 DEF OwnLine
<1>7. \A i \in Nat, j \in Nat : OwnLine(i, j)' <=> OwnLine(i, j)
  BY <1>1 DEF OwnLine
<1>8. e = k \/ (e > k /\ log'[e] = Newline)
  BY <1>1, <1>3, <1>4
<1>9. {i \in heard'[p] : i > k} = {i \in (k + 1)..e : OwnLine(i, k)}
  <2>1. \A i : i \in {j \in heard'[p] : j > k} <=>
              \/ i \in {j \in H : j > k}
              \/ i \in (c + 1)..e /\ OwnLine(i, c)
    BY <1>3, <1>4, <1>5
  <2>2. \A i : i \in {j \in heard'[p] : j > k} <=>
              \/ i \in (k + 1)..c /\ OwnLine(i, k)
              \/ i \in (c + 1)..e /\ OwnLine(i, k)
    BY <1>3, <1>6, <2>1
  <2>3. \A i : i \in (k + 1)..e <=> i \in (k + 1)..c \/ i \in (c + 1)..e
    BY <1>3, <1>4
  <2> QED  BY <2>2, <2>3
<1>10. {i \in (k + 1)..e : OwnLine(i, k)} = {i \in (k + 1)..e : OwnLine(i, k)'}
  BY <1>7
<1> QED  BY <1>5, <1>8, <1>9, <1>10 DEF Accounted

\* Every step keeps the lines of every process accounted for.
LEMMA BusStep ==
    ASSUME IndInv, Next
    PROVE  BusLinesAccounted'
<1> SUFFICES ASSUME NEW p \in Process PROVE Accounted(p)'
  BY DEF BusLinesAccounted, Accounted
<1>0. /\ log \in Seq(Piece) /\ Len(log) \in Nat
      /\ cursor \in [Process -> 0..Len(log)] /\ skip \in [Process -> 0..Len(log)]
      /\ heard \in [Process -> SUBSET (1..Len(log))]
      /\ heard[p] \in SUBSET (1..Len(log))
  BY DEF IndInv, TypeOK
<1>1. ASSUME UNCHANGED <<cursor, heard, skip>>,
             log' = log \/ \E e \in Piece : log' = Append(log, e)
      PROVE  Accounted(p)'
  BY <1>1, AccountedKept
<1>2. CASE RemoteText \/ RemoteNewline
  BY <1>1, <1>2 DEF RemoteText, RemoteNewline, Piece
<1>3. ASSUME NEW q \in Process,
             \/ \E d \in Module : PublishText(q, d)
             \/ PublishNewline(q)
      PROVE  Accounted(p)'
  BY <1>1, <1>3 DEF PublishText, PublishNewline, Piece
<1>4. ASSUME NEW q \in Process, PublishEnd(q) PROVE Accounted(p)'
  <2>1. /\ UNCHANGED <<log, heard>>
        /\ cursor' = [cursor EXCEPT ![q] = Len(log)]
        /\ skip' = [skip EXCEPT ![q] = Len(log)]
    BY <1>4 DEF PublishEnd
  <2>2. CASE p # q  BY <1>0, <2>1, <2>2, AccountedKept
  <2>3. CASE p = q
    <3>1. cursor'[p] = Len(log) /\ skip'[p] = Len(log) /\ heard'[p] = heard[p]
      BY <1>0, <2>1, <2>3
    <3>2. {i \in heard[p] : i > Len(log)} = {}  BY <1>0
    <3>3. (Len(log) + 1)..Len(log) = {}  BY <1>0
    <3> QED  BY <2>1, <3>1, <3>2, <3>3 DEF Accounted
  <2> QED  BY <2>2, <2>3
<1>5. ASSUME NEW q \in Process, ReadSince(q) PROVE Accounted(p)'
  <2>1. CASE p = q  BY <1>5, <2>1, ReadAccounted
  <2>2. CASE p # q
    <3>1. cursor'[p] = cursor[p] /\ heard'[p] = heard[p] /\ skip' = skip /\ log' = log
      BY <1>0, <1>5, <2>2 DEF ReadSince
    <3> QED  BY <3>1, AccountedKept
  <2> QED  BY <2>1, <2>2
<1>6. ASSUME UNCHANGED busVars PROVE Accounted(p)'
  BY <1>1, <1>6 DEF busVars
<1>7. (\E d \in Module : Edit(d)) \/ (\E r \in Request : RequestStep(r))
         => UNCHANGED busVars
  BY Frame
<1>8. \A q \in Process, bad \in SUBSET Module :
         \/ WatchSnapshot(q, bad) \/ WatchMark(q) \/ WatchBump(q)
         \/ PublishFails(q) \/ ReadFails(q) \/ MarkRemote(q)
         => UNCHANGED busVars
  BY DEF WatchSnapshot, WatchMark, WatchBump, PublishFails, ReadFails, MarkRemote
<1> QED  BY Steps, <1>2, <1>3, <1>4, <1>5, <1>6, <1>7, <1>8

-----------------------------------------------------------------------------
(* Types of the whole state.                                               *)

\* The parts of the type invariant that the watcher and the bus change.
WatchTypes ==
    /\ disk \in Versions
    /\ wpc \in [Process -> {"wait", "mark", "bump", "publish", "newline", "read", "remote"}]
    /\ changed \in [Process -> SUBSET Module]
    /\ log \in Seq(Piece)
    /\ cursor \in [Process -> 0..Len(log)]
    /\ heard \in [Process -> SUBSET (1..Len(log))]
    /\ torn \in Nat
    /\ skip \in [Process -> 0..Len(log)]

\* The parts that requests change.
RequestTypes ==
    /\ lastRestart \in [Process -> {0} \cup Generation]
    /\ cache \in [Process -> Cache]
    /\ pc \in [Request -> {"new", "url", "check", "restart", "execute", "ran", "failed", "done"}]
    /\ home \in [Request -> Process \cup {None}]
    /\ cached \in [Request -> BOOLEAN]
    /\ guard \in [Request -> Nat]
    /\ gen \in [Request -> {0} \cup Generation]
    /\ want \in [Request -> {0} \cup Generation]
    /\ body \in [Request -> Versions]

\* The watcher, the bus and the disk keep their types.
LEMMA WatchTypesStep ==
    ASSUME IndInv, Next
    PROVE  WatchTypes'
<1>0. WatchTypes /\ Len(log) \in Nat /\ seen \in [Process -> Versions]
  BY DEF IndInv, TypeOK, WatchTypes
<1>1. CASE UNCHANGED <<disk, watchVars, busVars>>
  BY <1>0, <1>1 DEF WatchTypes, watchVars, busVars
<1>2. ASSUME NEW d \in Module, Edit(d) PROVE WatchTypes'
  <2>1. /\ disk' = [disk EXCEPT ![d] = @ + 1]
        /\ disk["direct"] + disk["nested"] - 2 < MaxEdits
        /\ UNCHANGED <<wpc, changed, log, cursor, torn, heard, skip>>
    BY <1>2 DEF Edit, watchVars, busVars
  <2>2. disk[d] + 1 \in 0..(MaxEdits + 1)
    <3>1. /\ disk["direct"] \in Nat /\ disk["nested"] \in Nat
          /\ disk["direct"] >= 1 /\ disk["nested"] >= 1
      BY <1>0, Numbers DEF WatchTypes, IndInv, VersionInv, Module
    <3>2. d = "direct" \/ d = "nested"  BY DEF Module
    <3> QED  BY <2>1, <3>1, <3>2, ReloadBounds
  <2>3. disk' \in Versions  BY <1>0, <2>1, <2>2 DEF WatchTypes, Versions
  <2> QED  BY <1>0, <2>1, <2>3 DEF WatchTypes
<1>3. CASE RemoteText \/ RemoteNewline
  <2>1. PICK e \in Piece :
           /\ log' = Append(log, e) /\ torn' \in Nat
           /\ UNCHANGED <<disk, wpc, changed, cursor, heard, skip>>
    BY <1>0, <1>3 DEF RemoteText, RemoteNewline, Piece, WatchTypes, watchVars
  <2>2. log' \in Seq(Piece) /\ Len(log') = Len(log) + 1
    BY <1>0, <2>1, Appended DEF WatchTypes
  <2> QED  BY <1>0, <2>1, <2>2 DEF WatchTypes
<1>4. ASSUME NEW p \in Process, NEW bad \in SUBSET Module, WatchSnapshot(p, bad)
      PROVE  WatchTypes'
  <2>1. {d \in Module \ bad : disk[d] # seen[p][d]} \in SUBSET Module  OBVIOUS
  <2> QED
    BY <1>0, <1>4, <2>1 DEF WatchSnapshot, WatchGoto, WatchTypes, busVars
<1>5. ASSUME NEW p \in Process, WatchMark(p) \/ WatchBump(p) \/ MarkRemote(p)
      PROVE  WatchTypes'
  BY <1>0, <1>5 DEF WatchMark, WatchBump, MarkRemote, WatchGoto, WatchTypes,
     busVars
<1>6. ASSUME NEW p \in Process,
             (\E d \in Module : PublishText(p, d)) \/ PublishNewline(p)
      PROVE  WatchTypes'
  <2>1. PICK e \in Piece, step \in {"publish", "newline"}, D \in SUBSET Module :
           /\ log' = Append(log, e) /\ wpc' = [wpc EXCEPT ![p] = step]
           /\ changed' = [changed EXCEPT ![p] = D]
           /\ UNCHANGED <<disk, cursor, torn, heard, skip>>
    <3>1. CASE PublishNewline(p)
      <4>1. changed' = [changed EXCEPT ![p] = changed[p]] /\ changed[p] \in SUBSET Module
        BY <1>0, <3>1 DEF PublishNewline, WatchTypes
      <4> QED  BY <3>1, <4>1 DEF PublishNewline, WatchGoto, Piece
    <3>2. ASSUME NEW d \in Module, PublishText(p, d)
          PROVE  \E e \in Piece, step \in {"publish", "newline"}, D \in SUBSET Module :
                    /\ log' = Append(log, e) /\ wpc' = [wpc EXCEPT ![p] = step]
                    /\ changed' = [changed EXCEPT ![p] = D]
                    /\ UNCHANGED <<disk, cursor, torn, heard, skip>>
      <4>1. changed[p] \ {d} \in SUBSET Module  BY <1>0 DEF WatchTypes
      <4> QED  BY <3>2, <4>1 DEF PublishText, WatchGoto, Piece
    <3> QED  BY <1>6, <3>1, <3>2
  <2>2. log' \in Seq(Piece) /\ Len(log') = Len(log) + 1
    BY <1>0, <2>1, Appended DEF WatchTypes
  <2> QED  BY <1>0, <2>1, <2>2 DEF WatchTypes
<1>7. ASSUME NEW p \in Process, PublishEnd(p) \/ PublishFails(p) \/ ReadFails(p)
      PROVE  WatchTypes'
  <2>1. Len(log) \in 0..Len(log) /\ {} \in SUBSET Module  BY <1>0
  <2>2. CASE PublishEnd(p)
    BY <1>0, <2>1, <2>2 DEF PublishEnd, WatchGoto, WatchTypes
  <2>3. CASE PublishFails(p)
    BY <1>0, <2>1, <2>3 DEF PublishFails, WatchGoto, WatchTypes, busVars
  <2>4. CASE ReadFails(p)
    BY <1>0, <2>4 DEF ReadFails, WatchGoto, WatchTypes, busVars
  <2> QED  BY <1>7, <2>2, <2>3, <2>4
<1>8. ASSUME NEW p \in Process, ReadSince(p) PROVE WatchTypes'
  <2>1. PICK e \in LineEnds(cursor[p]), step \in {"remote", "wait"} :
           /\ UNCHANGED <<disk, log, torn, skip, changed>>
           /\ heard' = [heard EXCEPT ![p] =
                  @ \cup {i \in (cursor[p] + 1)..e : OwnLine(i, cursor[p])}]
           /\ cursor' = [cursor EXCEPT ![p] = e]
           /\ wpc' = [wpc EXCEPT ![p] = step]
    BY <1>8 DEF ReadSince, WatchGoto
  <2>2. cursor[p] \in 0..Len(log) /\ e \in 0..Len(log)
    BY <1>0 DEF WatchTypes, LineEnds
  <2>3. heard[p] \cup {i \in (cursor[p] + 1)..e : OwnLine(i, cursor[p])}
           \in SUBSET (1..Len(log))
    BY <1>0, <2>2 DEF WatchTypes
  <2> QED  BY <1>0, <2>1, <2>2, <2>3 DEF WatchTypes
<1>9. (\E r \in Request : RequestStep(r)) => UNCHANGED <<disk, watchVars, busVars>>
  BY Frame
<1> QED  BY Steps, <1>1, <1>2, <1>3, <1>4, <1>5, <1>6, <1>7, <1>8, <1>9

\* Requests keep their types, and the registry's.
LEMMA RequestTypesStep ==
    ASSUME IndInv, NEW r \in Request, RequestStep(r)
    PROVE  RequestTypes' /\ RegistryTypeOK'
<1>0. /\ RequestTypes /\ TypeOK /\ RequestOK(r)
      /\ generation \in [Process -> Generation]
      /\ \A p \in Process : slot[p].revision \in Nat
      /\ Unread \in Versions
      /\ EmptyCache \in Cache
  <2>1. Unread \in Versions  BY ReloadBounds DEF Unread, Versions
  <2>2. EmptyCache \in Cache  BY ReloadBounds DEF EmptyCache, Cache
  <2> QED
    BY <2>1, <2>2 DEF IndInv, TypeOK, RequestTypes, RequestInv,
       RegistryTypeOK, PageSlot
<1>1. ASSUME NEW p \in Process, StartBuild(r, p) \/ StartPerRequest(r, p)
      PROVE  RequestTypes' /\ RegistryTypeOK'
  BY <1>0, <1>1, RegistryStep DEF StartBuild, StartPerRequest, Goto,
     RequestTypes, workerVars
<1>2. CASE RewriteImports(r)
  BY <1>0, <1>2, RegistryStep DEF RewriteImports, Goto, RequestTypes,
     RequestOK, workerVars
<1>3. CASE CheckRestart(r)
  BY <1>0, <1>3, RegistryStep DEF CheckRestart, Goto, RequestTypes,
     RequestOK, workerVars
<1>4. CASE Restart(r)
  BY <1>0, <1>4, RegistryStep DEF Restart, Goto, RequestTypes, RequestOK,
     workerVars
<1>5. CASE Execute(r)
  <2>1. body' \in [Request -> Versions] /\ cache' \in [Process -> Cache]
    BY <1>5, RunLoads
  <2> QED  BY <1>0, <1>5, <2>1, RegistryStep DEF Execute, Goto, RequestTypes
<1>6. CASE ExecuteFails(r)
  BY <1>0, <1>6, RegistryStep DEF ExecuteFails, Goto, RequestTypes, workerVars
<1>7. CASE Finish(r)
  <2>1. home[r] \in Process /\ guard[r] \in Nat
    BY <1>0, <1>7 DEF Finish, RequestOK, RequestTypes
  <2>2. RegistryTypeOK'  BY <1>0, <1>7, <2>1, RegistryStep DEF Finish
  <2>3. RequestTypes'
    BY <1>0, <1>7, <2>1 DEF Finish, Goto, RequestTypes, workerVars
  <2> QED  BY <2>2, <2>3
<1> QED  BY <1>1, <1>2, <1>3, <1>4, <1>5, <1>6, <1>7 DEF RequestStep

\* Every step keeps the type invariant.
LEMMA TypeStep ==
    ASSUME IndInv, Next
    PROVE  TypeOK'
<1>0. TypeOK /\ RequestTypes  BY DEF IndInv, TypeOK, RequestTypes
<1>1. ASSUME \A r \in Request : ~RequestStep(r)
      PROVE  RequestTypes' /\ RegistryTypeOK'
  <2>1. UNCHANGED <<workerVars, requestVars>>  BY <1>1, Steps, Frame
  <2>2. RequestTypes'  BY <1>0, <2>1 DEF RequestTypes, workerVars, requestVars
  <2>3. UNCHANGED pageVars \/ \E p \in Process : mark_dirty(p)
    BY <1>1, Steps DEF Edit, RemoteText, RemoteNewline, WatchSnapshot,
       WatchMark, WatchBump, PublishText, PublishNewline, PublishEnd,
       PublishFails, ReadSince, ReadFails, MarkRemote
  <2> QED  BY <1>0, <2>2, <2>3, RegistryStep
<1>2. RequestTypes' /\ RegistryTypeOK'  BY <1>1, RequestTypesStep
<1> QED
  BY <1>2, GenerationStep, WatchTypesStep DEF TypeOK, RequestTypes, WatchTypes

-----------------------------------------------------------------------------
(* The theorems.                                                           *)

\* The initial state satisfies the inductive invariant.
LEMMA InitInd == Init => IndInv
<1> SUFFICES ASSUME Init PROVE IndInv  OBVIOUS
<1> USE DEF Init, Module
<1>1. 1 \in 0..(MaxEdits + 1) /\ 0 \in 0..(MaxEdits + 1) /\ 1 \in Generation
  BY ReloadBounds DEF Generation
<1>2. disk \in Versions /\ Unread \in Versions /\ EmptyCache \in Cache
  BY <1>1 DEF Versions, Unread, EmptyCache, Cache
<1>3. RegistryTypeOK
  BY DEF RegistryInit, RegistryTypeOK, new_unloaded, PageSlot, PageState,
     InFlightState
<1>4. TypeOK  BY <1>1, <1>2, <1>3 DEF TypeOK
<1>5. VersionInv /\ BumpInv  BY ReloadBounds DEF VersionInv, BumpInv, BumpOK
<1>6. SnapInv
  BY ReloadBounds DEF SnapInv, Generation
<1>7. CacheInv  BY DEF CacheInv, CacheOK, EmptyCache
<1>8. RequestInv /\ BusLinesAccounted
  BY DEF RequestInv, RequestOK, BusLinesAccounted
<1> QED  BY <1>4, <1>5, <1>6, <1>7, <1>8 DEF IndInv

\* Every reachable state satisfies the inductive invariant.
THEOREM Invariance == Spec => []IndInv
<1>1. IndInv /\ [Next]_vars => IndInv'
  <2> SUFFICES ASSUME IndInv, [Next]_vars PROVE IndInv'  OBVIOUS
  <2>1. CASE Next
    BY <2>1, TypeStep, VersionStep, SnapStep, CacheStep, RequestsStep,
       BusStep DEF IndInv
  <2>2. CASE UNCHANGED vars
    <3> USE <2>2 DEF vars, pageVars, watchVars, reloadVars, workerVars, busVars, requestVars
    <3>1. TypeOK'  BY DEF IndInv, TypeOK, RegistryTypeOK
    <3>2. VersionInv' /\ BumpInv' /\ SnapInv'
      BY DEF IndInv, VersionInv, BumpInv, BumpOK, SnapInv
    <3>3. CacheInv' /\ RequestInv'
      BY DEF IndInv, CacheInv, CacheOK, NestedFresh, RequestInv, RequestOK
    <3>4. BusLinesAccounted'
      BY AccountedKept DEF IndInv, BusLinesAccounted, Accounted
    <3> QED  BY <3>1, <3>2, <3>3, <3>4 DEF IndInv
  <2> QED  BY <2>1, <2>2
<1> QED  BY InitInd, <1>1, PTL DEF Spec

\* The state keeps its types: generations stay within one per edit.
THEOREM TypeCorrect == Spec => []TypeOK
<1>1. IndInv => TypeOK  BY DEF IndInv
<1> QED  BY Invariance, <1>1, PTL

\* GenerationIsFresh holds for every number of processes, requests and edits.
THEOREM ResponsesAreFresh == Spec => []GenerationIsFresh
<1>1. IndInv => GenerationIsFresh
  BY DEF IndInv, RequestInv, RequestOK, GenerationIsFresh
<1> QED  BY Invariance, <1>1, PTL

\* BusLinesAccounted holds for every number of processes and lines, however
\* the two appends of their publishes mix.
THEOREM BusIsAccounted == Spec => []BusLinesAccounted
<1>1. IndInv => BusLinesAccounted  BY DEF IndInv
<1> QED  BY Invariance, <1>1, PTL
=============================================================================
