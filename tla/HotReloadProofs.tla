--------------------------- MODULE HotReloadProofs ---------------------------
(***************************************************************************)
(* The safety properties of HotReload, proved for any pages, any number of *)
(* requests and any number of edits.                                       *)
(*                                                                         *)
(* The argument.  A slot and the threads that work on it are tied together *)
(* by three facts that no single property states: what the in-flight state *)
(* says about where its owner is (ThreadInv), which guards may still match *)
(* the slot's revision and what they must have read (GuardInv), and in     *)
(* which order sources are read and published (DiskInv, OrderInv).         *)
(* Together with the watcher's own bookkeeping (WatchInv, EpochInv) and    *)
(* the properties themselves they are inductive.                           *)
(***************************************************************************)
EXTENDS HotReload, TLAPS

NotBegun == {"idle", "dispatch", "begin", "join", "wait", "asleep",
             "serveCurrent", "serveLkg", "perRequest"}

\* Versions seen, snapshotted or announced were written, and a source that is
\* present is the last one written.
DiskInv ==
    \A p \in Page :
        /\ disk[p] = 0 \/ disk[p] = written[p]
        /\ snap[p] <= written[p]
        /\ announced[p] <= written[p]

\* The page the watcher holds is registered while it is being added and not
\* routed while it is being removed.
WatchInv ==
    /\ wpc \in {"addMark", "addRoute"} => wpage \in registered
    /\ wpc = "unregister" => wpage \in Page /\ wpage \notin routed
    /\ RoutedIsRegistered

\* Registration counts, and slots of unregistered pages.
EpochInv ==
    \A p \in Page :
        /\ p \in registered => epoch[p] >= 1
        /\ p \notin registered => slot[p] = new_unloaded

\* Where a thread is and what it has done to its in-flight build.
ThreadInv ==
    \A r \in Request :
        /\ pc[r] = "idle" <=> page[r] = None /\ pc[r] \notin Ended
        /\ pc[r] \in NotBegun => shared[r] = "Unborn"
        /\ pc[r] \in Running <=> shared[r] = "Running"
        /\ pc[r] \in {"commit", "pin"} => shared[r] = "Ok"
        /\ pc[r] = "fail" => shared[r] = "Failed"
        /\ pc[r] = "rollback" => shared[r] = "Abandoned"
        /\ pc[r] \in Owning \cup {"pin"} =>
              /\ 1 <= bornIn[r]
              /\ bornIn[r] <= epoch[page[r]]
        /\ pc[r] = "wait" => joined[r] \in Request
        /\ pc[r] \in {"execute", "commit"} => built[r] <= written[page[r]]

\* A guard of the present registration is never ahead of the slot's revision,
\* and one that still matches it has read a source no older than the last
\* announcement.
GuardInv ==
    \A r \in Request :
        /\ pc[r] \in Owning
        /\ page[r] \in registered
        /\ bornIn[r] = epoch[page[r]]
        => /\ guardRev[r] <= slot[page[r]].revision
           /\ pc[r] \in {"execute", "commit"}
              /\ guardRev[r] = slot[page[r]].revision
              => built[r] >= announced[page[r]]

\* Bodies of a page that was registered once are ordered by version: what is
\* published was written, and what a builder has read is no older.
OrderInv ==
    \A p \in registered : epoch[p] = 1 /\ slot[p].current # None =>
        /\ built[slot[p].current] <= written[p]
        /\ \A r \in Request :
              pc[r] \in {"execute", "commit"} /\ page[r] = p
                => built[slot[p].current] <= built[r]

IndInv ==
    /\ TypeOK
    /\ DiskInv
    /\ WatchInv
    /\ EpochInv
    /\ ThreadInv
    /\ BuildingHasOwner
    /\ FallbackExists
    /\ SleeperHasBuilder
    /\ OneBuilderPerPage
    /\ PinFindsCurrent
    /\ GuardInv
    /\ FreshWhenClean
    /\ OrderInv

USE NoneAssumption, BootAssumption, VersionAssumption

-----------------------------------------------------------------------------
(* The initial states.                                                     *)

\* The state after boot satisfies the invariant.
LEMMA InitInd == Init => IndInv
<1> SUFFICES ASSUME Init PROVE IndInv
  OBVIOUS
<1> USE DEF Init, RegistryInit
<1>1. TypeOK
  BY DEF TypeOK, RegistryTypeOK, PageSlot, PageState, InFlightState,
         new_unloaded, RequestPC, WatchPC
<1>2. DiskInv
  <2> SUFFICES ASSUME NEW p \in Page
               PROVE  /\ disk[p] = 0 \/ disk[p] = written[p]
                      /\ snap[p] <= written[p]
                      /\ announced[p] <= written[p]
    BY DEF DiskInv
  <2>1. written[p] \in Nat  BY <1>1 DEF TypeOK
  <2>2. snap[p] = 0 /\ announced[p] = 0  OBVIOUS
  <2>3. disk[p] = written[p]  OBVIOUS
  <2> HIDE DEF Init
  <2> QED  BY <2>1, <2>2, <2>3
<1>3. WatchInv  BY DEF WatchInv, RoutedIsRegistered
<1>4. EpochInv
  <2> SUFFICES ASSUME NEW p \in Page
               PROVE  /\ p \in registered => epoch[p] >= 1
                      /\ p \notin registered => slot[p] = new_unloaded
    BY DEF EpochInv
  <2>1. slot[p] = new_unloaded  OBVIOUS
  <2>2. p \in registered => epoch[p] = 1  OBVIOUS
  <2> HIDE DEF Init
  <2> QED  BY <2>1, <2>2
<1>5. ThreadInv
  BY DEF ThreadInv, NotBegun, Running, Resolved, Owning, Ended
<1>6. BuildingHasOwner  BY DEF BuildingHasOwner, new_unloaded
<1>7. FallbackExists  BY DEF FallbackExists, new_unloaded
<1>8. SleeperHasBuilder  BY DEF SleeperHasBuilder
<1>9. OneBuilderPerPage
  BY DEF OneBuilderPerPage, Owning, Running, Resolved
<1>10. PinFindsCurrent  BY DEF PinFindsCurrent
<1>11. GuardInv  BY DEF GuardInv, Owning, Running, Resolved
<1>12. FreshWhenClean  BY DEF FreshWhenClean, new_unloaded
<1>13. OrderInv  BY DEF OrderInv, new_unloaded
<1> QED
  BY <1>1, <1>2, <1>3, <1>4, <1>5, <1>6, <1>7, <1>8, <1>9, <1>10, <1>11,
     <1>12, <1>13 DEF IndInv

-----------------------------------------------------------------------------
(* Steps that leave the registry and the request threads alone.            *)

\* The part of IndInv that speaks of slots, threads and published bodies.
ServeInv ==
    /\ EpochInv /\ ThreadInv /\ BuildingHasOwner /\ FallbackExists
    /\ SleeperHasBuilder /\ OneBuilderPerPage /\ PinFindsCurrent
    /\ GuardInv /\ FreshWhenClean /\ OrderInv

\* It depends only on the registry, the threads, the history and written.
LEMMA ServeFrame ==
    ASSUME ServeInv,
           UNCHANGED <<registryVars, requestVars, epoch, bornIn, announced,
                       written>>
    PROVE  ServeInv'
<1> USE DEF registryVars, requestVars
<1>1. EpochInv' /\ ThreadInv' /\ BuildingHasOwner' /\ FallbackExists'
  BY DEF ServeInv, EpochInv, ThreadInv, BuildingHasOwner, FallbackExists
<1>2. SleeperHasBuilder' /\ OneBuilderPerPage' /\ PinFindsCurrent'
  BY DEF ServeInv, SleeperHasBuilder, OneBuilderPerPage, PinFindsCurrent
<1>3. GuardInv' /\ FreshWhenClean' /\ OrderInv'
  BY DEF ServeInv, GuardInv, FreshWhenClean, OrderInv
<1> QED  BY <1>1, <1>2, <1>3 DEF ServeInv

\* The editor changes the disk only; a newer written version bounds more.
LEMMA EditorInd == ASSUME IndInv, Editor PROVE IndInv'
<1> USE DEF diskVars, watchVars, requestVars, historyVars, registryVars
<1>1. ASSUME NEW p \in Page, WriteSource(p) PROVE IndInv'
  <2> USE <1>1 DEF WriteSource
  <2>1. TypeOK'  BY DEF IndInv, TypeOK, RegistryTypeOK
  <2>2. \A q \in Page : written[q] <= written'[q]
    BY DEF IndInv, TypeOK
  <2>3. DiskInv'  BY <2>2 DEF IndInv, TypeOK, DiskInv
  <2>4. WatchInv'  BY DEF IndInv, WatchInv, RoutedIsRegistered
  <2>5. EpochInv' /\ BuildingHasOwner' /\ FallbackExists'
    BY DEF IndInv, EpochInv, BuildingHasOwner, FallbackExists
  <2>9. ThreadInv'
    <3>1. \A r \in Request : pc[r] \in {"execute", "commit"} =>
             page[r] \in Page /\ built[r] \in Nat
      BY DEF IndInv, ThreadInv, TypeOK, Ended
    <3> QED  BY <2>1, <2>2, <3>1 DEF IndInv, ThreadInv, TypeOK
  <2>6. SleeperHasBuilder' /\ OneBuilderPerPage' /\ PinFindsCurrent'
    BY DEF IndInv, SleeperHasBuilder, OneBuilderPerPage, PinFindsCurrent
  <2>7. GuardInv' /\ FreshWhenClean'
    BY DEF IndInv, GuardInv, FreshWhenClean
  <2>8. OrderInv'
    BY <2>1, <2>2 DEF IndInv, OrderInv, TypeOK, RegistryTypeOK, PageSlot
  <2> QED  BY <2>1, <2>3, <2>4, <2>5, <2>6, <2>7, <2>8, <2>9 DEF IndInv
<1>2. ASSUME NEW p \in Page, DeleteSource(p) PROVE IndInv'
  <2> USE <1>2 DEF DeleteSource
  <2>1. TypeOK'  BY DEF IndInv, TypeOK, RegistryTypeOK
  <2>2. DiskInv'  BY DEF IndInv, TypeOK, DiskInv
  <2>3. WatchInv'  BY DEF IndInv, WatchInv, RoutedIsRegistered
  <2>4. ServeInv'  BY ServeFrame DEF IndInv, ServeInv
  <2> QED  BY <2>1, <2>2, <2>3, <2>4 DEF IndInv, ServeInv
<1> QED  BY <1>1, <1>2 DEF Editor

\* The watcher's steps that touch only its own state and the route table.
LEMMA WatchLocalInd ==
    ASSUME IndInv,
           \/ WatchStart \/ WatchScan \/ WatchPrepareFails \/ WatchAddRoute
           \/ WatchAffected \/ WatchFinish
           \/ \E u \in SUBSET Present : WatchSnapshot(u)
           \/ \E p \in Page : WatchUnroute(p)
    PROVE  IndInv'
<1> USE DEF diskVars, requestVars, historyVars, registryVars
<1>1. ASSUME UNCHANGED <<registryVars, requestVars, epoch, bornIn, announced,
                         written>>
      PROVE  ServeInv'
  BY <1>1, ServeFrame DEF IndInv, ServeInv
<1>2. CASE WatchStart
  <2>1. TypeOK'
    BY <1>2 DEF WatchStart, IndInv, TypeOK, RegistryTypeOK, Snapshot, WatchPC
  <2>2. DiskInv' /\ WatchInv'
    BY <1>2 DEF WatchStart, IndInv, DiskInv, WatchInv, RoutedIsRegistered
  <2>3. ServeInv'  BY <1>1, <1>2 DEF WatchStart
  <2> QED  BY <2>1, <2>2, <2>3 DEF IndInv, ServeInv
<1>3. CASE WatchScan
  <2>1. TypeOK'
    BY <1>3 DEF WatchScan, IndInv, TypeOK, RegistryTypeOK, Present, WatchPC
  <2>2. DiskInv' /\ WatchInv'
    BY <1>3 DEF WatchScan, IndInv, DiskInv, WatchInv, RoutedIsRegistered
  <2>3. ServeInv'  BY <1>1, <1>3 DEF WatchScan
  <2> QED  BY <2>1, <2>2, <2>3 DEF IndInv, ServeInv
<1>4. CASE WatchPrepareFails
  <2>1. TypeOK'
    BY <1>4 DEF WatchPrepareFails, IndInv, TypeOK, RegistryTypeOK, WatchPC
  <2>2. DiskInv' /\ WatchInv'
    BY <1>4 DEF WatchPrepareFails, IndInv, DiskInv, WatchInv,
                RoutedIsRegistered
  <2>3. ServeInv'  BY <1>1, <1>4 DEF WatchPrepareFails
  <2> QED  BY <2>1, <2>2, <2>3 DEF IndInv, ServeInv
<1>5. CASE WatchAddRoute
  <2>1. wpage \in registered  BY <1>5 DEF WatchAddRoute, IndInv, WatchInv
  <2>2. TypeOK'
    BY <1>5, <2>1 DEF WatchAddRoute, IndInv, TypeOK, RegistryTypeOK, WatchPC
  <2>3. DiskInv' /\ WatchInv'
    BY <1>5, <2>1 DEF WatchAddRoute, IndInv, DiskInv, WatchInv,
                      RoutedIsRegistered
  <2>4. ServeInv'  BY <1>1, <1>5 DEF WatchAddRoute
  <2> QED  BY <2>2, <2>3, <2>4 DEF IndInv, ServeInv
<1>6. CASE WatchAffected
  <2>1. TypeOK'
    BY <1>6 DEF WatchAffected, IndInv, TypeOK, RegistryTypeOK, WatchPC
  <2>2. DiskInv' /\ WatchInv'
    BY <1>6 DEF WatchAffected, IndInv, DiskInv, WatchInv, RoutedIsRegistered
  <2>3. ServeInv'  BY <1>1, <1>6 DEF WatchAffected
  <2> QED  BY <2>1, <2>2, <2>3 DEF IndInv, ServeInv
<1>7. CASE WatchFinish
  <2>1. TypeOK'
    BY <1>7 DEF WatchFinish, IndInv, TypeOK, RegistryTypeOK, WatchPC
  <2>2. DiskInv'
    BY <1>7 DEF WatchFinish, IndInv, DiskInv, TypeOK
  <2>3. WatchInv'
    BY <1>7 DEF WatchFinish, IndInv, WatchInv, RoutedIsRegistered
  <2>4. ServeInv'  BY <1>1, <1>7 DEF WatchFinish
  <2> QED  BY <2>1, <2>2, <2>3, <2>4 DEF IndInv, ServeInv
<1>8. ASSUME NEW u \in SUBSET Present, WatchSnapshot(u) PROVE IndInv'
  <2>1. TypeOK'
    BY <1>8 DEF WatchSnapshot, IndInv, TypeOK, RegistryTypeOK, Snapshot,
                WatchPC
  <2>2. DiskInv'
    BY <1>8 DEF WatchSnapshot, Snapshot, IndInv, DiskInv, TypeOK
  <2>3. WatchInv'
    BY <1>8 DEF WatchSnapshot, IndInv, WatchInv, RoutedIsRegistered
  <2>4. ServeInv'  BY <1>1, <1>8 DEF WatchSnapshot
  <2> QED  BY <2>1, <2>2, <2>3, <2>4 DEF IndInv, ServeInv
<1>9. ASSUME NEW p \in Page, WatchUnroute(p) PROVE IndInv'
  <2>1. TypeOK'
    BY <1>9 DEF WatchUnroute, IndInv, TypeOK, RegistryTypeOK, WatchPC
  <2>2. DiskInv' /\ WatchInv'
    BY <1>9 DEF WatchUnroute, IndInv, DiskInv, WatchInv, RoutedIsRegistered
  <2>3. ServeInv'  BY <1>1, <1>9 DEF WatchUnroute
  <2> QED  BY <2>1, <2>2, <2>3 DEF IndInv, ServeInv
<1> QED  BY <1>2, <1>3, <1>4, <1>5, <1>6, <1>7, <1>8, <1>9

-----------------------------------------------------------------------------
(* Steps of the watcher that write the registry.                           *)

\* A slot that is registered anew starts unloaded in a registration no
\* running build was born in.
LEMMA RegisterInd ==
    ASSUME IndInv, NEW p \in Page, WatchRegister(p) PROVE IndInv'
<1> USE DEF WatchRegister, register, diskVars, requestVars
<1>1. TypeOK'  BY DEF IndInv, TypeOK, RegistryTypeOK, WatchPC
<1>2. DiskInv' /\ WatchInv'
  BY DEF IndInv, TypeOK, DiskInv, WatchInv, RoutedIsRegistered
<1>3. /\ TypeOK /\ EpochInv /\ ThreadInv
      /\ \A q \in Page : epoch[q] <= epoch'[q] /\ epoch[q] \in Nat
      /\ \A q \in Page : q \in registered => epoch'[q] = epoch[q]
      /\ p \notin registered => epoch'[p] = epoch[p] + 1
  BY DEF IndInv, TypeOK
<1>4. EpochInv'  BY <1>3 DEF EpochInv
<1>5. ThreadInv'
  BY <1>3 DEF ThreadInv, TypeOK, RequestPC, Owning, Running, Resolved, Ended
<1>6. BuildingHasOwner' /\ FallbackExists' /\ SleeperHasBuilder'
  BY <1>3 DEF IndInv, EpochInv, BuildingHasOwner, FallbackExists,
              SleeperHasBuilder, new_unloaded
<1>7. OneBuilderPerPage'
  <2> SUFFICES ASSUME NEW q \in registered', epoch'[q] = 1,
                      NEW r \in Request, pc[r] \in Owning, page[r] = q
               PROVE  slot[q].state = "Building" /\ slot[q].inFlight = r
    BY DEF OneBuilderPerPage
  <2>1. 1 <= epoch[q]
    BY <1>3 DEF ThreadInv, TypeOK, RegistryTypeOK
  <2>2. q \in registered  BY <1>3, <2>1 DEF TypeOK, RegistryTypeOK
  <2> QED  BY <1>3, <2>2 DEF IndInv, OneBuilderPerPage
<1>8. PinFindsCurrent' /\ GuardInv'
  <2>1. ASSUME NEW r \in Request, pc[r] \in Owning \cup {"pin"},
               page[r] \in registered', bornIn[r] = epoch'[page[r]]
        PROVE  page[r] \in registered
    BY <1>3, <2>1 DEF ThreadInv, TypeOK, RegistryTypeOK
  <2> QED  BY <1>3, <2>1 DEF IndInv, PinFindsCurrent, GuardInv
<1>9. FreshWhenClean' /\ OrderInv'
  BY <1>3 DEF IndInv, EpochInv, FreshWhenClean, OrderInv, new_unloaded
<1> QED
  BY <1>1, <1>2, <1>4, <1>5, <1>6, <1>7, <1>8, <1>9 DEF IndInv

\* A dropped slot takes its obligations with it.
LEMMA UnregisterInd == ASSUME IndInv, WatchUnregister PROVE IndInv'
<1> USE DEF WatchUnregister, unregister, diskVars, requestVars, historyVars
<1>1. wpage \in Page /\ wpage \notin routed  BY DEF IndInv, WatchInv
<1>2. /\ slot' \in [Page -> PageSlot]
      /\ slot'[wpage] = new_unloaded
      /\ \A q \in registered' : q \in registered /\ slot'[q] = slot[q]
  BY <1>1 DEF IndInv, TypeOK, RegistryTypeOK, PageSlot, PageState,
              new_unloaded
<1>3. TypeOK'  BY <1>2 DEF IndInv, TypeOK, RegistryTypeOK, WatchPC
<1>4. DiskInv' /\ WatchInv'
  BY <1>1 DEF IndInv, DiskInv, WatchInv, RoutedIsRegistered
<1>5. EpochInv' /\ ThreadInv'
  BY <1>1 DEF IndInv, EpochInv, ThreadInv, TypeOK, RegistryTypeOK
<1>6. BuildingHasOwner' /\ FallbackExists' /\ SleeperHasBuilder'
  BY <1>2 DEF IndInv, BuildingHasOwner, FallbackExists, SleeperHasBuilder
<1>7. OneBuilderPerPage' /\ PinFindsCurrent' /\ GuardInv'
  BY <1>2 DEF IndInv, OneBuilderPerPage, PinFindsCurrent, GuardInv
<1>8. FreshWhenClean' /\ OrderInv'
  BY <1>2 DEF IndInv, FreshWhenClean, OrderInv
<1> QED  BY <1>3, <1>4, <1>5, <1>6, <1>7, <1>8 DEF IndInv

\* An invalidation moves the revision past every guard of the page and takes
\* it out of Clean, so nothing is promised about what it announces.
LEMMA MarkServe ==
    ASSUME IndInv, NEW p \in Page, mark_dirty(p), Announce(p),
           UNCHANGED <<requestVars, epoch, bornIn, written, snap, disk>>
    PROVE  /\ slot' \in [Page -> PageSlot]
           /\ announced' \in [Page -> Nat]
           /\ DiskInv' /\ ServeInv'
<1> USE DEF mark_dirty, Announce, requestVars
<1>1. TypeOK  BY DEF IndInv
<1>2. slot' \in [Page -> PageSlot] /\ announced' \in [Page -> Nat]
  <2>1. announced' \in [Page -> Nat]  BY <1>1 DEF TypeOK
  <2>2. slot \in [Page -> PageSlot] /\ slot[p] \in PageSlot
    BY <1>1 DEF TypeOK, RegistryTypeOK
  <2>3. CASE p \in registered
    <3> DEFINE n == slot[p].revision + 1
               st == IF slot[p].state \in {"Clean", "Failed"}
                     THEN "Dirty" ELSE slot[p].state
               s == [slot[p] EXCEPT !.revision = n, !.state = st]
    <3>1. n \in Nat /\ st \in PageState  BY <2>2 DEF PageSlot, PageState
    <3>2. slot' = [slot EXCEPT ![p] = s]  BY <2>2, <2>3
    <3> HIDE DEF n, st
    <3>3. s \in PageSlot  BY <2>2, <3>1 DEF PageSlot
    <3> HIDE DEF s
    <3> QED  BY <2>1, <2>2, <3>2, <3>3
  <2>4. CASE p \notin registered  BY <2>1, <2>2, <2>4
  <2> QED  BY <2>3, <2>4
<1>3. DiskInv'  BY <1>1 DEF IndInv, DiskInv, TypeOK
<1>4. \A q \in Page : q # p => slot'[q] = slot[q] /\ announced'[q] = announced[q]
  BY <1>1 DEF TypeOK, RegistryTypeOK
<1>5. /\ slot'[p].current = slot[p].current
      /\ slot'[p].lkg = slot[p].lkg
      /\ slot'[p].inFlight = slot[p].inFlight
      /\ p \in registered => /\ slot'[p].state # "Clean"
                             /\ slot'[p].revision = slot[p].revision + 1
      /\ slot'[p].state = "Building" <=> slot[p].state = "Building"
      /\ p \notin registered => slot'[p] = slot[p]
  BY <1>1 DEF TypeOK, RegistryTypeOK, PageSlot, PageState
<1> HIDE DEF mark_dirty
<1>6. UNCHANGED <<registered, shared>>  BY DEF mark_dirty
<1>7. registered \subseteq Page  BY <1>1 DEF TypeOK, RegistryTypeOK
<1>8. EpochInv' /\ ThreadInv'
  BY <1>4, <1>5, <1>6 DEF IndInv, EpochInv, ThreadInv
<1>9. BuildingHasOwner' /\ FallbackExists' /\ SleeperHasBuilder'
  BY <1>4, <1>5, <1>6, <1>7 DEF IndInv, BuildingHasOwner, FallbackExists,
                           SleeperHasBuilder
<1>10. OneBuilderPerPage' /\ PinFindsCurrent'
  BY <1>4, <1>5, <1>6, <1>7 DEF IndInv, OneBuilderPerPage, PinFindsCurrent
<1>11. GuardInv'
  <2> SUFFICES ASSUME NEW r \in Request, pc[r] \in Owning,
                      page[r] \in registered, bornIn[r] = epoch[page[r]]
               PROVE  /\ guardRev[r] <= slot'[page[r]].revision
                      /\ pc[r] \in {"execute", "commit"}
                         /\ guardRev[r] = slot'[page[r]].revision
                         => built[r] >= announced'[page[r]]
    BY <1>6 DEF GuardInv
  <2>1. guardRev[r] <= slot[page[r]].revision  BY DEF IndInv, GuardInv
  <2>2. slot[page[r]].revision \in Nat /\ guardRev[r] \in Nat
    BY <1>1 DEF TypeOK, RegistryTypeOK, PageSlot
  <2>3. CASE page[r] = p  BY <1>5, <2>1, <2>2, <2>3
  <2>4. CASE page[r] # p  BY <1>4, <1>7, <2>4 DEF IndInv, GuardInv
  <2> QED  BY <2>3, <2>4
<1>12. FreshWhenClean' /\ OrderInv'
  BY <1>4, <1>5, <1>6, <1>7 DEF IndInv, FreshWhenClean, OrderInv
<1> QED
  BY <1>2, <1>3, <1>8, <1>9, <1>10, <1>11, <1>12 DEF ServeInv

\* The places where the watcher marks a page.
LEMMA MarkInd ==
    ASSUME IndInv, WatchAddMark \/ \E p \in Page : WatchMark(p) \/ WatchReplace(p)
    PROVE  IndInv'
<1> USE DEF diskVars, requestVars
<1>1. CASE WatchAddMark
  <2> USE <1>1 DEF WatchAddMark
  <2>1. wpage \in Page /\ wpage \in registered
    BY DEF IndInv, WatchInv, TypeOK, RegistryTypeOK
  <2>2. /\ slot' \in [Page -> PageSlot] /\ announced' \in [Page -> Nat]
        /\ DiskInv' /\ ServeInv'
    BY <2>1, MarkServe
  <2>3. TypeOK' /\ WatchInv'
    BY <2>1, <2>2 DEF IndInv, TypeOK, RegistryTypeOK, WatchPC, mark_dirty,
                      WatchInv, RoutedIsRegistered
  <2> QED  BY <2>2, <2>3 DEF IndInv, ServeInv
<1>2. ASSUME NEW p \in Page, WatchMark(p) \/ WatchReplace(p) PROVE IndInv'
  <2> USE <1>2 DEF WatchMark, WatchReplace
  <2>1. /\ slot' \in [Page -> PageSlot] /\ announced' \in [Page -> Nat]
        /\ DiskInv' /\ ServeInv'
    BY MarkServe
  <2>2. TypeOK' /\ WatchInv'
    BY <2>1 DEF IndInv, TypeOK, RegistryTypeOK, mark_dirty, WatchInv,
                RoutedIsRegistered
  <2> QED  BY <2>1, <2>2 DEF IndInv, ServeInv
<1> QED  BY <1>1, <1>2

-----------------------------------------------------------------------------
(* Steps of a request thread that owns no build.                           *)

\* Such a step moves only the thread itself, and only to places where it
\* still owns nothing.
Bystander(r) ==
    /\ UNCHANGED <<registryVars, diskVars, routed, watchVars, built,
                   historyVars>>
    /\ pc[r] \in NotBegun \cup {"pin"}
    /\ pc'[r] \in (NotBegun \ {"idle"}) \cup Ended
    /\ pc'[r] \notin Ended => page'[r] \in Page /\ pc[r] # "pin"
    /\ pc'[r] \in {"wait", "asleep"} => joined'[r] \in Request
    /\ pc'[r] = "asleep" => shared[joined'[r]] = "Running"
    /\ \A q \in Request \ {r} :
          /\ pc'[q] = pc[q] /\ page'[q] = page[q]
          /\ joined'[q] = joined[q] /\ guardRev'[q] = guardRev[q]

\* Bystanders preserve the invariant.
LEMMA BystanderInd ==
    ASSUME IndInv, NEW r \in Request, Bystander(r), TypeOK' PROVE IndInv'
<1> USE DEF Bystander, registryVars, diskVars, watchVars, historyVars
<1>0. TypeOK /\ ThreadInv  BY DEF IndInv
<1>1. DiskInv' /\ WatchInv' /\ EpochInv'
  BY DEF IndInv, DiskInv, WatchInv, RoutedIsRegistered, EpochInv
<1>2. \A q \in Request : pc'[q] \in Owning \cup {"pin"} => q # r
  BY DEF NotBegun, Ended, Owning, Running, Resolved
<1>3. \A q \in Request : pc[q] \in Owning => q # r
  BY DEF NotBegun, Ended, Owning, Running, Resolved
<1>4. ThreadInv'
  <2> SUFFICES ASSUME NEW q \in Request
               PROVE  ThreadInv!(q)'
    BY DEF ThreadInv
  <2>1. CASE q = r
    BY <1>0, <2>1 DEF ThreadInv, TypeOK, NotBegun, Ended, Owning, Running,
                      Resolved
  <2>2. CASE q # r  BY <1>0, <2>2 DEF ThreadInv
  <2> QED  BY <2>1, <2>2
<1>5. BuildingHasOwner' /\ FallbackExists'
  BY <1>0, <1>3 DEF IndInv, BuildingHasOwner, FallbackExists, TypeOK,
                    RegistryTypeOK, PageSlot
<1>6. SleeperHasBuilder'
  <2>1. \A q \in Request : shared[q] = "Running" => pc'[q] \in Running
    BY <1>0, <1>3 DEF ThreadInv, Owning
  <2> QED  BY <2>1 DEF IndInv, SleeperHasBuilder
<1>7. OneBuilderPerPage' /\ PinFindsCurrent' /\ GuardInv'
  BY <1>2, <1>3 DEF IndInv, OneBuilderPerPage, PinFindsCurrent, GuardInv
<1>8. FreshWhenClean'  BY DEF IndInv, FreshWhenClean
<1>9. OrderInv'
  BY <1>2 DEF IndInv, OrderInv, Owning, Running, Resolved
<1> QED
  BY <1>1, <1>4, <1>5, <1>6, <1>7, <1>8, <1>9 DEF IndInv

\* handle_connection has matched a route.
LEMMA ArriveInd ==
    ASSUME IndInv, NEW r \in Request, NEW p \in Page, Arrive(r, p)
    PROVE  IndInv'
<1> USE DEF Arrive
<1>1. TypeOK
  BY DEF IndInv
<1>2. TypeOK'
  BY <1>1 DEF TypeOK, RegistryTypeOK, registryVars, diskVars, watchVars,
              historyVars, RequestPC
<1>3. Bystander(r)
  BY <1>1 DEF Bystander, TypeOK, NotBegun
<1> QED  BY <1>2, <1>3, BystanderInd

\* A thread that owns nothing writes its reply and ends.
LEMMA EndInd ==
    ASSUME IndInv, NEW r \in Request, NEW how \in Ended, End(r, how),
           pc[r] \in (NotBegun \cup {"pin"}),
           UNCHANGED <<registryVars, diskVars, routed, watchVars, built,
                       historyVars>>
    PROVE  IndInv'
<1>1. TypeOK  BY DEF IndInv
<1>2. TypeOK'
  BY <1>1 DEF End, TypeOK, RegistryTypeOK, registryVars, diskVars, watchVars,
              historyVars, RequestPC
<1>3. Bystander(r)
  BY <1>1 DEF End, Bystander, TypeOK, NotBegun, Ended
<1> QED  BY <1>2, <1>3, BystanderInd

\* A thread that owns nothing takes the next branch.
LEMMA GotoInd ==
    ASSUME IndInv, NEW r \in Request,
           NEW label \in {"serveCurrent", "serveLkg", "join", "begin"},
           Goto(r, label), pc[r] \in NotBegun \ {"idle"},
           UNCHANGED <<registryVars, diskVars, routed, watchVars, built,
                       historyVars>>
    PROVE  IndInv'
<1>1. TypeOK /\ page[r] \in Page
  BY DEF IndInv, TypeOK, ThreadInv, NotBegun, Ended
<1>2. TypeOK'
  BY <1>1 DEF Goto, locals, TypeOK, RegistryTypeOK, registryVars, diskVars,
              watchVars, historyVars, RequestPC
<1>3. Bystander(r)
  BY <1>1 DEF Goto, locals, Bystander, TypeOK, NotBegun
<1> QED  BY <1>2, <1>3, BystanderInd

\* Every branch of render_for_route, handle_building and the serve_*
\* functions that owns no build is a bystander's step.
LEMMA BystanderSteps ==
    ASSUME IndInv, NEW r \in Request,
           \/ Dispatch(r) \/ BeginBuildRefused(r) \/ Pin(r) \/ Join(r)
           \/ Wait(r) \/ ServeCurrent(r) \/ ServeLkg(r) \/ PerRequest(r)
    PROVE  IndInv'
<1>0. TypeOK /\ ThreadInv  BY DEF IndInv
<1>1. CASE Dispatch(r)
  <2>1. CASE page[r] \notin registered
    BY <1>1, <2>1, EndInd DEF Dispatch, NotBegun, Ended
  <2>2. CASE page[r] \in registered
    BY <1>1, <2>2, GotoInd DEF Dispatch, NotBegun
  <2> QED  BY <2>1, <2>2
<1>2. CASE BeginBuildRefused(r)
  <2>1. CASE page[r] \notin registered
    BY <1>2, <2>1, EndInd DEF BeginBuildRefused, NotBegun, Ended
  <2>2. CASE page[r] \in registered
    BY <1>2, <2>2, GotoInd DEF BeginBuildRefused, NotBegun
  <2> QED  BY <2>1, <2>2
<1>3. CASE Pin(r)
  BY <1>3, EndInd DEF Pin, Ended
<1>4. CASE Join(r)
  <2> USE <1>4 DEF Join
  <2>1. page[r] \in Page
    BY <1>0 DEF TypeOK, ThreadInv, Ended
  <2>2. TypeOK'
    BY <1>0, <2>1 DEF TypeOK, RegistryTypeOK, PageSlot, registryVars, diskVars,
              watchVars, historyVars, RequestPC
  <2>3. Bystander(r)
    BY <1>0, <2>1 DEF Bystander, TypeOK, RegistryTypeOK, PageSlot, NotBegun
  <2> QED  BY <2>2, <2>3, BystanderInd
<1>5. CASE Wait(r)
  <2>0. joined[r] \in Request /\ page[r] \in Page
    BY <1>0, <1>5 DEF Wait, TypeOK, ThreadInv, Ended
  <2>1. CASE shared[joined[r]] = "Running"
    <3>1. Goto(r, "asleep") /\ pc[r] = "wait"  BY <1>5, <2>1 DEF Wait
    <3>2. TypeOK'
      BY <1>0, <1>5, <3>1 DEF Wait, Goto, locals, TypeOK, RegistryTypeOK,
           registryVars, diskVars, watchVars, historyVars, RequestPC
    <3>3. Bystander(r)
      BY <1>0, <1>5, <2>0, <2>1, <3>1 DEF Wait, Goto, locals, Bystander, TypeOK,
           NotBegun
    <3> QED  BY <3>2, <3>3, BystanderInd
  <2>2. CASE shared[joined[r]] = "Ok"
    BY <1>5, <2>2, EndInd DEF Wait, NotBegun, Ended
  <2>3. CASE shared[joined[r]] \notin {"Running", "Ok"}
    BY <1>5, <2>3, GotoInd DEF Wait, NotBegun
  <2> QED  BY <2>1, <2>2, <2>3
<1>6. CASE ServeCurrent(r)
  BY <1>6, EndInd DEF ServeCurrent, NotBegun, Ended
<1>7. CASE ServeLkg(r)
  BY <1>7, EndInd DEF ServeLkg, NotBegun, Ended
<1>8. CASE PerRequest(r)
  BY <1>8, EndInd DEF PerRequest, NotBegun, Ended
<1> QED  BY <1>1, <1>2, <1>3, <1>4, <1>5, <1>6, <1>7, <1>8

-----------------------------------------------------------------------------
(* Steps of the thread that owns a build.                                  *)

\* A thread begins a build: the slot it takes had none, its guard matches the
\* slot's revision and it has read nothing yet.
LEMMA BeginInd ==
    ASSUME IndInv, NEW r \in Request, BeginBuild(r) PROVE IndInv'
<1> USE DEF BeginBuild, begin_build, Buildable, diskVars, watchVars
<1>0. /\ TypeOK /\ ThreadInv /\ EpochInv
      /\ page[r] \in Page /\ shared[r] = "Unborn"
  BY DEF IndInv, ThreadInv, TypeOK, NotBegun, RegistryTypeOK
<1>1. TypeOK'
  <2> DEFINE p == page[r]
             n == slot[p].revision
             s == [slot[p] EXCEPT !.state = "Building", !.inFlight = r,
                                  !.buildingRevision = n]
  <2>1. slot' = [slot EXCEPT ![p] = s] /\ n \in Nat
    BY <1>0 DEF TypeOK, RegistryTypeOK, PageSlot
  <2>2. slot[p] \in PageSlot
    BY <1>0 DEF TypeOK, RegistryTypeOK
  <2> HIDE DEF n
  <2>3. s \in PageSlot
    BY <2>1, <2>2 DEF PageSlot, PageState
  <2> HIDE DEF s
  <2>4. slot' \in [Page -> PageSlot]
    <3> HIDE DEF BeginBuild
    <3> QED  BY <1>0, <2>1, <2>3 DEF TypeOK, RegistryTypeOK
  <2>5. guardRev' \in [Request -> Nat]
    BY <1>0, <2>1 DEF TypeOK, n
  <2> QED
    BY <1>0, <2>4, <2>5 DEF TypeOK, RegistryTypeOK, InFlightState, RequestPC,
                            Owning, Running
<1>2. DiskInv' /\ WatchInv'
  BY DEF IndInv, DiskInv, WatchInv, RoutedIsRegistered
<1>3. EpochInv'  BY <1>0 DEF EpochInv, TypeOK, RegistryTypeOK
<1>4. ThreadInv'
  BY <1>0 DEF ThreadInv, TypeOK, RegistryTypeOK, EpochInv, NotBegun, Running,
              Resolved, Owning, Ended
<1>5. BuildingHasOwner'
  BY <1>0 DEF IndInv, BuildingHasOwner, TypeOK, RegistryTypeOK, PageSlot,
              Running, Resolved, Owning
<1>6. FallbackExists'
  BY <1>0 DEF IndInv, FallbackExists, TypeOK, RegistryTypeOK, PageSlot
<1>7. SleeperHasBuilder'
  BY <1>0 DEF IndInv, SleeperHasBuilder, TypeOK, RegistryTypeOK, Running
<1>8. OneBuilderPerPage'
  BY <1>0 DEF IndInv, OneBuilderPerPage, TypeOK, RegistryTypeOK, PageSlot,
              Owning, Running, Resolved
<1>9. PinFindsCurrent'
  BY <1>0 DEF IndInv, PinFindsCurrent, TypeOK, RegistryTypeOK, PageSlot
<1>10. GuardInv'
  BY <1>0 DEF IndInv, GuardInv, TypeOK, RegistryTypeOK, PageSlot, Owning,
              Running, Resolved
<1>11. FreshWhenClean'
  BY <1>0 DEF IndInv, FreshWhenClean, FallbackExists, TypeOK, RegistryTypeOK,
              PageSlot
<1>12. OrderInv'
  BY <1>0 DEF IndInv, OrderInv, FallbackExists, TypeOK, RegistryTypeOK,
              PageSlot
<1> QED
  BY <1>1, <1>2, <1>3, <1>4, <1>5, <1>6, <1>7, <1>8, <1>9, <1>10, <1>11,
     <1>12 DEF IndInv

\* A generation that was promoted is not the candidate of a running build.
LEMMA PublishedIsResolved ==
    ASSUME IndInv, NEW r \in Request, shared[r] # "Ok",
           NEW p \in registered
    PROVE  slot[p].current # r /\ slot[p].lkg # r
BY DEF IndInv, FallbackExists

\* The builder reads the source after it began, so it reads a version no older
\* than anything announced or published.
LEMMA PrepareInd ==
    ASSUME IndInv, NEW r \in Request, Prepare(r) PROVE IndInv'
<1> USE DEF Prepare, Goto, locals, registryVars, diskVars, watchVars,
            historyVars
<1>0. /\ TypeOK /\ ThreadInv /\ page[r] \in Page /\ shared[r] = "Running"
      /\ built'[r] = disk[page[r]]
      /\ disk[page[r]] = written[page[r]]
  BY DEF IndInv, ThreadInv, TypeOK, Ended, Running, DiskInv
<1>1. TypeOK'
  BY <1>0 DEF TypeOK, RegistryTypeOK, RequestPC, Owning, Running
<1>2. DiskInv' /\ WatchInv' /\ EpochInv'
  BY DEF IndInv, DiskInv, WatchInv, RoutedIsRegistered, EpochInv
<1>3. ThreadInv'
  BY <1>0 DEF ThreadInv, TypeOK, NotBegun, Running, Resolved, Owning, Ended
<1>4. BuildingHasOwner' /\ FallbackExists'
  BY <1>0 DEF IndInv, BuildingHasOwner, FallbackExists, TypeOK, Running,
              Resolved, Owning
<1>5. SleeperHasBuilder'
  BY <1>0 DEF IndInv, SleeperHasBuilder, TypeOK, Running
<1>6. OneBuilderPerPage' /\ PinFindsCurrent'
  BY <1>0 DEF IndInv, OneBuilderPerPage, PinFindsCurrent, TypeOK, Owning,
              Running, Resolved
<1>7. GuardInv'
  <2>1. built'[r] >= announced[page[r]]
    BY <1>0 DEF IndInv, DiskInv, TypeOK
  <2> QED
    BY <1>0, <2>1 DEF IndInv, GuardInv, TypeOK, Owning, Running, Resolved
<1>8. \A p \in registered : slot[p].current # None =>
        built'[slot[p].current] = built[slot[p].current]
  BY <1>0, PublishedIsResolved DEF TypeOK, RegistryTypeOK, PageSlot
<1>9. FreshWhenClean'
  BY <1>8 DEF IndInv, FreshWhenClean
<1>10. OrderInv'
  <2> SUFFICES ASSUME NEW p \in registered, epoch[p] = 1,
                      slot[p].current # None
               PROVE  /\ built'[slot[p].current] <= written[p]
                      /\ \A q \in Request :
                           pc'[q] \in {"execute", "commit"} /\ page[q] = p
                             => built'[slot[p].current] <= built'[q]
    BY DEF OrderInv
  <2>1. built[slot[p].current] <= written[p]  BY DEF IndInv, OrderInv
  <2>2. ASSUME NEW q \in Request, pc'[q] \in {"execute", "commit"},
               page[q] = p
        PROVE  built'[slot[p].current] <= built'[q]
    <3>1. CASE q = r  BY <1>0, <1>8, <2>1, <2>2, <3>1
    <3>2. CASE q # r
      BY <1>0, <1>8, <2>2, <3>2 DEF IndInv, OrderInv, TypeOK
    <3> QED  BY <3>1, <3>2
  <2> QED  BY <1>8, <2>1, <2>2
<1> QED
  BY <1>1, <1>2, <1>3, <1>4, <1>5, <1>6, <1>7, <1>9, <1>10 DEF IndInv

\* Resolving the in-flight build moves the owner to its write-back and wakes
\* exactly the threads that slept on it.
LEMMA ResolveInd ==
    ASSUME IndInv, NEW r \in Request,
           BuildSucceeds(r) \/ BuildFails(r) \/ BuildPanics(r)
    PROVE  IndInv'
<1> USE DEF ResolveBuild, resolve, locals, diskVars, watchVars, historyVars
<1>0. /\ TypeOK /\ ThreadInv /\ pc[r] \in Running
      /\ SleeperHasBuilder
  BY DEF IndInv, BuildSucceeds, BuildFails, BuildPanics, Running
<1>1. PICK outcome \in {"Ok", "Failed", "Abandoned"}, label \in Resolved :
        /\ ResolveBuild(r, outcome, label)
        /\ label = "commit" => pc[r] = "execute" /\ outcome = "Ok"
        /\ label = "fail" => outcome = "Failed"
        /\ label = "rollback" => outcome = "Abandoned"
  BY DEF BuildSucceeds, BuildFails, BuildPanics, Resolved
<1>2. /\ pc'[r] = label /\ shared'[r] = outcome
      /\ \A q \in Request \ {r} :
            /\ shared'[q] = shared[q]
            /\ pc[q] # "asleep" => pc'[q] = pc[q]
            /\ pc[q] = "asleep" /\ joined[q] = r => pc'[q] = "wait"
            /\ pc[q] = "asleep" /\ joined[q] # r => pc'[q] = "asleep"
  BY <1>0, <1>1 DEF TypeOK, RegistryTypeOK
<1>3. UNCHANGED <<registered, slot, diskVars, routed, watchVars, locals,
                  built, historyVars>>
  BY <1>1
<1>4. TypeOK'
  <2>1. pc' \in [Request -> RequestPC]
    BY <1>0, <1>1 DEF TypeOK, RequestPC, Owning
  <2> QED
    BY <1>0, <1>1, <1>3, <2>1 DEF TypeOK, RegistryTypeOK, InFlightState
<1> HIDE DEF ResolveBuild, resolve
<1>5. DiskInv' /\ WatchInv' /\ EpochInv'
  BY <1>3 DEF IndInv, DiskInv, WatchInv, RoutedIsRegistered, EpochInv
<1>6. ThreadInv'
  <2> SUFFICES ASSUME NEW q \in Request PROVE ThreadInv!(q)'
    BY DEF ThreadInv
  <2>1. CASE q = r
    BY <1>0, <1>1, <1>2, <1>3, <2>1 DEF ThreadInv, TypeOK, NotBegun, Running,
       Resolved, Owning, Ended
  <2>2. CASE q # r /\ pc[q] # "asleep"
    BY <1>0, <1>2, <1>3, <2>2 DEF ThreadInv
  <2>3. CASE q # r /\ pc[q] = "asleep"
    BY <1>0, <1>2, <1>3, <2>3 DEF ThreadInv, SleeperHasBuilder, NotBegun,
       Running, Resolved, Owning, Ended
  <2> QED  BY <2>1, <2>2, <2>3
<1>7. \A q \in Request :
        /\ pc'[q] \in Owning <=> pc[q] \in Owning
        /\ pc'[q] = "pin" => pc[q] = "pin"
        /\ pc'[q] \in {"execute", "commit"} => pc[q] \in {"execute", "commit"}
  BY <1>0, <1>1, <1>2 DEF Owning, Running, Resolved
<1>8. BuildingHasOwner'
  BY <1>3, <1>7, <1>0 DEF IndInv, BuildingHasOwner, TypeOK, RegistryTypeOK,
     PageSlot
<1>9. FallbackExists'
  BY <1>0, <1>2, <1>3, PublishedIsResolved DEF IndInv, FallbackExists, TypeOK,
     RegistryTypeOK, PageSlot, ThreadInv
<1>10. SleeperHasBuilder'
  BY <1>0, <1>1, <1>2, <1>3 DEF SleeperHasBuilder, Resolved, Running
<1>11. OneBuilderPerPage' /\ PinFindsCurrent' /\ GuardInv'
  BY <1>3, <1>7 DEF IndInv, OneBuilderPerPage, PinFindsCurrent, GuardInv
<1>12. FreshWhenClean' /\ OrderInv'
  BY <1>3, <1>7 DEF IndInv, FreshWhenClean, OrderInv
<1> QED
  BY <1>4, <1>5, <1>6, <1>8, <1>9, <1>10, <1>11, <1>12 DEF IndInv

-----------------------------------------------------------------------------
(* The write-backs.                                                        *)

\* Only the slot of the guard's page is written, to a slot with no build.
LEMMA WriteBackType ==
    ASSUME TypeOK, NEW p \in Page, NEW s \in PageSlot, write_back(p, s)
    PROVE  /\ slot' \in [Page -> PageSlot]
           /\ UNCHANGED <<registered, shared>>
           /\ \A q \in Page : q # p => slot'[q] = slot[q]
           /\ p \in registered => slot'[p] = s
           /\ p \notin registered => slot'[p] = slot[p]
BY DEF write_back, TypeOK, RegistryTypeOK

\* What released writes: no build, the revision and the bodies as they were.
LEMMA ReleasedType ==
    ASSUME NEW s \in PageSlot, NEW st \in PageState, NEW n \in Nat
    PROVE  LET t == released(s, st, n)
           IN  /\ t \in PageSlot
               /\ t.state \in {st, "Dirty"}
               /\ t.state # "Dirty" => s.revision = n
               /\ t.inFlight = None /\ t.revision = s.revision
               /\ t.current = s.current /\ t.lkg = s.lkg
<1> DEFINE x == IF s.revision = n THEN st ELSE "Dirty"
<1>1. x \in PageState /\ x \in {st, "Dirty"} /\ (x # "Dirty" => s.revision = n)
  BY DEF PageState
<1>2. released(s, st, n) = [s EXCEPT !.state = x, !.inFlight = None,
                                     !.buildingRevision = None]
  BY DEF released
<1> HIDE DEF x
<1> QED  BY <1>1, <1>2 DEF PageSlot

\* What a guard may do to the registry when it is given up or committed: its
\* page, if it is still registered, gets a slot without a build; Clean only
\* when the revision matches; and the bodies change only to r's own.
GuardWrites(r, s) ==
    /\ page[r] \in Page /\ s \in PageSlot
    /\ write_back(page[r], s)
    /\ s.state # "Building" /\ s.inFlight = None
    /\ s.revision = slot[page[r]].revision
    /\ UNCHANGED <<diskVars, routed, watchVars, epoch, announced, baseline>>
    /\ \A q \in Request \ {r} :
          /\ pc'[q] = pc[q] /\ page'[q] = page[q] /\ joined'[q] = joined[q]
          /\ guardRev'[q] = guardRev[q] /\ built'[q] = built[q]
          /\ bornIn'[q] = bornIn[q]

\* The part of the invariant that commit, fail and rollback keep for the same
\* reasons: the owner leaves, and no other thread works in its slot.
LEMMA GuardWritesInd ==
    ASSUME IndInv, NEW r \in Request, pc[r] \in Resolved,
           NEW s, GuardWrites(r, s), TypeOK', pc'[r] \in Ended \cup {"pin"}
    PROVE  /\ DiskInv' /\ WatchInv' /\ EpochInv'
           /\ BuildingHasOwner' /\ SleeperHasBuilder' /\ OneBuilderPerPage'
           /\ GuardInv'
<1>0. /\ TypeOK /\ ThreadInv /\ EpochInv /\ page[r] \in Page
      /\ pc[r] \in Owning /\ shared[r] # "Running"
  BY DEF IndInv, GuardWrites, Owning, ThreadInv, Resolved
<1>1. /\ UNCHANGED <<registered, shared, diskVars, routed, watchVars, epoch,
                     announced, baseline>>
      /\ \A q \in Page : q # page[r] => slot'[q] = slot[q]
      /\ page[r] \in registered => slot'[page[r]] = s
      /\ page[r] \notin registered => slot'[page[r]] = slot[page[r]]
  BY <1>0, WriteBackType DEF GuardWrites
<1>2. /\ s.state # "Building" /\ s.inFlight = None
      /\ s.revision = slot[page[r]].revision
      /\ \A q \in Request \ {r} :
            /\ pc'[q] = pc[q] /\ page'[q] = page[q] /\ joined'[q] = joined[q]
            /\ guardRev'[q] = guardRev[q] /\ built'[q] = built[q]
            /\ bornIn'[q] = bornIn[q]
  BY DEF GuardWrites
<1>3. registered \subseteq Page  BY <1>0 DEF TypeOK, RegistryTypeOK
<1>4. DiskInv' /\ WatchInv' /\ EpochInv'
  BY <1>0, <1>1 DEF IndInv, DiskInv, WatchInv, RoutedIsRegistered, EpochInv,
     diskVars, watchVars
<1>5. BuildingHasOwner'
  <2> SUFFICES ASSUME NEW p \in registered PROVE BuildingHasOwner!(p)'
    BY <1>1 DEF BuildingHasOwner
  <2>1. CASE p = page[r]  BY <1>1, <1>2, <2>1 DEF BuildingHasOwner
  <2>2. CASE p # page[r]
    <3>1. slot'[p] = slot[p] /\ slot[p].inFlight \in Request \cup {None}
      BY <1>0, <1>1, <1>3, <2>2 DEF TypeOK, RegistryTypeOK, PageSlot
    <3>2. slot[p].inFlight # r
      BY <2>2 DEF IndInv, BuildingHasOwner
    <3> QED  BY <1>1, <1>2, <3>1, <3>2 DEF IndInv, BuildingHasOwner
  <2> QED  BY <2>1, <2>2
<1>6. SleeperHasBuilder'
  BY <1>0, <1>1, <1>2 DEF IndInv, SleeperHasBuilder, Ended
<1>7. OneBuilderPerPage'
  <2> SUFFICES ASSUME NEW p \in registered, epoch[p] = 1,
                      NEW q \in Request, pc'[q] \in Owning, page'[q] = p
               PROVE  slot'[p].state = "Building" /\ slot'[p].inFlight = q
    BY <1>1 DEF OneBuilderPerPage
  <2>1. q # r /\ pc[q] \in Owning /\ page[q] = p
    BY <1>2 DEF Owning, Running, Resolved, Ended
  <2>2. slot[p].state = "Building" /\ slot[p].inFlight = q
    BY <2>1 DEF IndInv, OneBuilderPerPage
  <2>3. p # page[r]
    BY <1>0, <2>1, <2>2 DEF IndInv, OneBuilderPerPage
  <2> QED  BY <1>1, <1>3, <2>2, <2>3
<1>8. GuardInv'
  <2> SUFFICES ASSUME NEW q \in Request, pc'[q] \in Owning,
                      page'[q] \in registered, bornIn'[q] = epoch[page'[q]]
               PROVE  /\ guardRev'[q] <= slot'[page'[q]].revision
                      /\ pc'[q] \in {"execute", "commit"}
                         /\ guardRev'[q] = slot'[page'[q]].revision
                         => built'[q] >= announced[page'[q]]
    BY <1>1 DEF GuardInv
  <2>1. q # r  BY DEF Owning, Running, Resolved, Ended
  <2>2. slot'[page[q]].revision = slot[page[q]].revision
    BY <1>1, <1>2, <1>3, <2>1
  <2> QED  BY <1>2, <2>1, <2>2 DEF IndInv, GuardInv
<1> QED  BY <1>4, <1>5, <1>6, <1>7, <1>8

\* A guard that publishes nothing leaves every body as it is.
LEMMA AbandonInd ==
    ASSUME IndInv, NEW r \in Request, Fail(r) \/ Rollback(r) PROVE IndInv'
<1>0. /\ TypeOK /\ ThreadInv /\ pc[r] \in {"fail", "rollback"}
      /\ pc[r] \in Resolved /\ page[r] \in Page /\ shared[r] # "Ok"
      /\ slot[page[r]] \in PageSlot /\ guardRev[r] \in Nat
  BY DEF IndInv, Fail, Rollback, Resolved, ThreadInv, TypeOK, RegistryTypeOK,
         Ended
<1>1. PICK st \in {"Failed", "Unloaded", "Dirty"} :
        write_back(page[r], released(slot[page[r]], st, guardRev[r]))
  BY DEF Fail, Rollback, fail, rollback
<1> DEFINE s == released(slot[page[r]], st, guardRev[r])
<1>2. /\ s \in PageSlot /\ s.state \in {"Failed", "Unloaded", "Dirty"}
      /\ s.inFlight = None /\ s.revision = slot[page[r]].revision
      /\ s.current = slot[page[r]].current /\ s.lkg = slot[page[r]].lkg
  <2>1. st \in PageState  BY DEF PageState
  <2>2. /\ s \in PageSlot /\ s.state \in {st, "Dirty"}
        /\ s.inFlight = None /\ s.revision = slot[page[r]].revision
        /\ s.current = slot[page[r]].current /\ s.lkg = slot[page[r]].lkg
    BY <1>0, <2>1, ReleasedType
  <2> QED  BY <2>2
<1>3. /\ \E how \in {"error", "panicked"} : End(r, how)
      /\ DropCandidate(r)
  BY DEF Fail, Rollback
<1>4. write_back(page[r], s)  BY <1>1
<1> HIDE DEF s
<1>5. GuardWrites(r, s)
  BY <1>0, <1>2, <1>3, <1>4 DEF GuardWrites, End, DropCandidate, TypeOK
<1>6. /\ UNCHANGED <<registered, shared, diskVars, routed, watchVars, epoch,
                     announced, baseline>>
      /\ slot' \in [Page -> PageSlot]
      /\ \A q \in Page : q # page[r] => slot'[q] = slot[q]
      /\ page[r] \in registered => slot'[page[r]] = s
      /\ page[r] \notin registered => slot'[page[r]] = slot[page[r]]
  BY <1>0, <1>2, <1>4, <1>5, WriteBackType DEF GuardWrites
<1>7. TypeOK'
  BY <1>0, <1>3, <1>6 DEF TypeOK, RegistryTypeOK, End, DropCandidate,
     RequestPC, Ended, diskVars, watchVars
<1>8. /\ pc'[r] \in Ended /\ page'[r] = None
      /\ built' = [built EXCEPT ![r] = 0]
      /\ bornIn' = [bornIn EXCEPT ![r] = 0]
      /\ \A q \in Request \ {r} :
            /\ pc'[q] = pc[q] /\ page'[q] = page[q] /\ joined'[q] = joined[q]
            /\ built'[q] = built[q] /\ bornIn'[q] = bornIn[q]
  BY <1>0, <1>3 DEF End, DropCandidate, TypeOK, Ended
<1>9. /\ DiskInv' /\ WatchInv' /\ EpochInv' /\ BuildingHasOwner'
      /\ SleeperHasBuilder' /\ OneBuilderPerPage' /\ GuardInv'
  BY <1>0, <1>5, <1>7, <1>8, GuardWritesInd
<1>10. ThreadInv'
  <2> SUFFICES ASSUME NEW q \in Request PROVE ThreadInv!(q)'
    BY DEF ThreadInv
  <2>1. CASE q = r
    BY <1>0, <1>6, <1>8, <2>1 DEF ThreadInv, NotBegun, Owning, Running,
       Resolved, Ended
  <2>2. CASE q # r  BY <1>0, <1>6, <1>8, <2>2 DEF ThreadInv, diskVars
  <2> QED  BY <2>1, <2>2
<1>11. registered \subseteq Page  BY <1>0 DEF TypeOK, RegistryTypeOK
<1>12. \A p \in registered :
         /\ slot'[p].current = slot[p].current /\ slot'[p].lkg = slot[p].lkg
         /\ slot'[p].state = "Clean" => slot'[p] = slot[p]
         /\ slot[p].current # None =>
               /\ built'[slot[p].current] = built[slot[p].current]
               /\ bornIn'[slot[p].current] = bornIn[slot[p].current]
  <2> TAKE p \in registered
  <2>1. slot[p].current # None =>
           slot[p].current \in Request /\ slot[p].current # r
    BY <1>0, <1>11, PublishedIsResolved DEF TypeOK, RegistryTypeOK, PageSlot
  <2>2. CASE p = page[r]  BY <1>2, <1>6, <1>8, <2>1, <2>2
  <2>3. CASE p # page[r]  BY <1>6, <1>8, <1>11, <2>1, <2>3
  <2> QED  BY <2>2, <2>3
<1>13. FallbackExists'
  BY <1>6, <1>12 DEF IndInv, FallbackExists
<1>14. PinFindsCurrent'
  BY <1>6, <1>8, <1>12 DEF IndInv, PinFindsCurrent, Ended
<1>15. FreshWhenClean'
  BY <1>6, <1>12 DEF IndInv, FreshWhenClean
<1>16. OrderInv'
  BY <1>6, <1>8, <1>12 DEF IndInv, OrderInv, Ended, diskVars
<1> QED
  BY <1>7, <1>9, <1>10, <1>13, <1>14, <1>15, <1>16 DEF IndInv

\* The write-back of commit, in a form the later steps can use: the candidate
\* is current, and the slot is Clean only if its revision is the guard's.
LEMMA CommitWrites ==
    ASSUME IndInv, NEW r \in Request, Commit(r)
    PROVE  \E s \in PageSlot :
             /\ GuardWrites(r, s)
             /\ s.current = r
             /\ s.lkg \in {r, slot[page[r]].current} \ {None}
             /\ s.state = "Clean" => slot[page[r]].revision = guardRev[r]
<1>0. /\ TypeOK /\ ThreadInv /\ page[r] \in Page
      /\ slot[page[r]] \in PageSlot /\ guardRev[r] \in Nat
  BY DEF IndInv, Commit, ThreadInv, TypeOK, RegistryTypeOK, Ended
<1> DEFINE t == released(slot[page[r]], "Clean", guardRev[r])
           l == IF slot[page[r]].current # None
                THEN slot[page[r]].current ELSE r
           s == [t EXCEPT !.current = r, !.lkg = l]
<1>1. /\ t \in PageSlot /\ t.state \in {"Clean", "Dirty"}
      /\ t.state # "Dirty" => slot[page[r]].revision = guardRev[r]
      /\ t.inFlight = None /\ t.revision = slot[page[r]].revision
  BY <1>0, ReleasedType, ZenonT(30) DEF PageState
<1>2. write_back(page[r], s)
  BY DEF Commit, commit
<1>3. l \in Request /\ l \in {r, slot[page[r]].current} \ {None}
  BY <1>0 DEF PageSlot
<1> HIDE DEF t, l
<1>4. /\ s \in PageSlot /\ s.current = r /\ s.lkg = l /\ s.state = t.state
      /\ s.inFlight = None /\ s.revision = slot[page[r]].revision
  BY <1>1, <1>3 DEF PageSlot
<1> HIDE DEF s
<1>5. GuardWrites(r, s)
  BY <1>0, <1>1, <1>2, <1>4 DEF GuardWrites, Commit, Goto, locals, TypeOK,
     historyVars
<1> QED  BY <1>1, <1>3, <1>4, <1>5

\* A committed body is Clean only if no invalidation passed its guard, and
\* then it was read after the last announcement.
LEMMA CommitInd ==
    ASSUME IndInv, NEW r \in Request, Commit(r) PROVE IndInv'
<1>0. /\ TypeOK /\ ThreadInv /\ pc[r] = "commit" /\ pc[r] \in Resolved
      /\ page[r] \in Page /\ shared[r] = "Ok"
  BY DEF IndInv, Commit, Resolved, ThreadInv, TypeOK, Ended
<1>1. PICK s \in PageSlot :
        /\ GuardWrites(r, s)
        /\ s.current = r
        /\ s.lkg \in {r, slot[page[r]].current} \ {None}
        /\ s.state = "Clean" => slot[page[r]].revision = guardRev[r]
  BY CommitWrites
<1>2. /\ UNCHANGED <<registered, shared, diskVars, routed, watchVars, epoch,
                     announced, baseline, built, bornIn, page, joined,
                     guardRev>>
      /\ pc' = [pc EXCEPT ![r] = "pin"]
      /\ slot' \in [Page -> PageSlot]
      /\ \A q \in Page : q # page[r] => slot'[q] = slot[q]
      /\ page[r] \in registered => slot'[page[r]] = s
      /\ page[r] \notin registered => slot'[page[r]] = slot[page[r]]
  BY <1>0, <1>1, WriteBackType DEF GuardWrites, Commit, Goto, locals,
     historyVars
<1>3. TypeOK'
  BY <1>0, <1>2 DEF TypeOK, RegistryTypeOK, RequestPC, diskVars, watchVars
<1>4. /\ pc'[r] = "pin"
      /\ \A q \in Request \ {r} : pc'[q] = pc[q]
  BY <1>0, <1>2 DEF TypeOK
<1>5. /\ DiskInv' /\ WatchInv' /\ EpochInv' /\ BuildingHasOwner'
      /\ SleeperHasBuilder' /\ OneBuilderPerPage' /\ GuardInv'
  BY <1>0, <1>1, <1>3, <1>4, GuardWritesInd
<1>6. ThreadInv'
  <2> SUFFICES ASSUME NEW q \in Request PROVE ThreadInv!(q)'
    BY DEF ThreadInv
  <2>1. CASE q = r
    BY <1>0, <1>2, <1>4, <2>1 DEF ThreadInv, NotBegun, Owning, Running,
       Resolved, Ended
  <2>2. CASE q # r  BY <1>0, <1>2, <1>4, <2>2 DEF ThreadInv, diskVars
  <2> QED  BY <2>1, <2>2
<1>7. registered \subseteq Page  BY <1>0 DEF TypeOK, RegistryTypeOK
<1>8. FallbackExists'
  <2> SUFFICES ASSUME NEW p \in registered PROVE FallbackExists!(p)'
    BY <1>2 DEF FallbackExists
  <2>1. CASE p = page[r]
    BY <1>0, <1>1, <1>2, <2>1 DEF IndInv, FallbackExists
  <2>2. CASE p # page[r]
    BY <1>2, <1>7, <2>2 DEF IndInv, FallbackExists
  <2> QED  BY <2>1, <2>2
<1>9. PinFindsCurrent'
  BY <1>1, <1>2, <1>4, <1>7 DEF IndInv, PinFindsCurrent
<1>10. FreshWhenClean'
  <2> SUFFICES ASSUME NEW p \in registered PROVE FreshWhenClean!(p)'
    BY <1>2 DEF FreshWhenClean
  <2>1. CASE p = page[r]
    <3>1. slot'[p].current = r  BY <1>1, <1>2, <2>1
    <3>2. slot'[p].state = "Clean" /\ bornIn[r] = epoch[p]
             => built[r] >= announced[p]
      BY <1>0, <1>1, <1>2, <2>1 DEF IndInv, GuardInv, Owning, Resolved
    <3> QED  BY <1>2, <3>1, <3>2
  <2>2. CASE p # page[r]
    BY <1>2, <1>7, <2>2 DEF IndInv, FreshWhenClean
  <2> QED  BY <2>1, <2>2
<1>11. OrderInv'
  <2> SUFFICES ASSUME NEW p \in registered, epoch[p] = 1,
                      slot'[p].current # None
               PROVE  /\ built[slot'[p].current] <= written[p]
                      /\ \A q \in Request :
                           pc'[q] \in {"execute", "commit"} /\ page[q] = p
                             => built[slot'[p].current] <= built[q]
    BY <1>2 DEF OrderInv, diskVars
  <2>1. CASE p = page[r]
    <3>1. slot'[p].current = r  BY <1>1, <1>2, <2>1
    <3>2. built[r] <= written[p]  BY <1>0, <2>1 DEF ThreadInv
    <3>3. ASSUME NEW q \in Request, pc'[q] \in {"execute", "commit"},
                 page[q] = p
          PROVE  FALSE
      <4>1. q # r /\ pc[q] \in Owning /\ pc[r] \in Owning
        BY <1>0, <1>4, <3>3 DEF Owning, Running, Resolved
      <4> QED  BY <2>1, <3>3, <4>1 DEF IndInv, OneBuilderPerPage
    <3> QED  BY <3>1, <3>2, <3>3
  <2>2. CASE p # page[r]
    BY <1>2, <1>4, <1>7, <2>2 DEF IndInv, OrderInv
  <2> QED  BY <2>1, <2>2
<1> QED
  BY <1>3, <1>5, <1>6, <1>8, <1>9, <1>10, <1>11 DEF IndInv

-----------------------------------------------------------------------------
(* The theorems.                                                           *)

\* Every step preserves the invariant.
LEMMA NextInd == ASSUME IndInv, [Next]_vars PROVE IndInv'
<1>1. CASE Editor  BY <1>1, EditorInd
<1>2. CASE Watcher
  BY <1>2, WatchLocalInd, RegisterInd, UnregisterInd, MarkInd DEF Watcher
<1>3. ASSUME NEW r \in Request, NEW p \in Page, Arrive(r, p) PROVE IndInv'
  BY <1>3, ArriveInd
<1>4. ASSUME NEW r \in Request, Serve(r) PROVE IndInv'
  BY <1>4, BystanderSteps, BeginInd, PrepareInd, ResolveInd, AbandonInd,
     CommitInd DEF Serve
<1>5. CASE UNCHANGED vars
  <2>1. TypeOK'
    BY <1>5 DEF IndInv, TypeOK, RegistryTypeOK, vars, registryVars, diskVars,
       watchVars, requestVars, historyVars
  <2>2. DiskInv' /\ WatchInv'
    BY <1>5 DEF IndInv, DiskInv, WatchInv, RoutedIsRegistered, vars,
       registryVars, diskVars, watchVars, historyVars
  <2>3. ServeInv'
    BY <1>5, ServeFrame DEF IndInv, ServeInv, vars, diskVars, historyVars
  <2> QED  BY <2>1, <2>2, <2>3 DEF IndInv, ServeInv
<1> QED  BY <1>1, <1>2, <1>3, <1>4, <1>5 DEF Next

\* The strengthened invariant holds in every reachable state, for any number
\* of pages, requests and edits.
THEOREM Inductive == Spec => []IndInv
<1>1. Init => IndInv  BY InitInd
<1>2. IndInv /\ [Next]_vars => IndInv'  BY NextInd
<1> QED  BY <1>1, <1>2, PTL DEF Spec

\* The state of the registry, the watcher and the threads is well formed;
\* in particular no revision counts below zero.
THEOREM TypeCorrect == Spec => []TypeOK
<1>1. IndInv => TypeOK  BY DEF IndInv
<1> QED  BY <1>1, Inductive, PTL

\* mark_dirty is never lost to a racing build: what a Clean slot serves is at
\* least as new as the last change announced to it.
THEOREM NoLostInvalidation == Spec => []FreshWhenClean
<1>1. IndInv => FreshWhenClean  BY DEF IndInv
<1> QED  BY <1>1, Inductive, PTL

\* begin_build admits one builder at a time.
THEOREM BuildsDeduplicated == Spec => []OneBuilderPerPage
<1>1. IndInv => OneBuilderPerPage  BY DEF IndInv
<1> QED  BY <1>1, Inductive, PTL

\* A Building slot always has a live owner that will write it back.
THEOREM BuildingIsOwned == Spec => []BuildingHasOwner
<1>1. IndInv => BuildingHasOwner  BY DEF IndInv
<1> QED  BY <1>1, Inductive, PTL

\* InFlightBuild::wait never sleeps past the notification.
THEOREM NoLostWakeup == Spec => []SleeperHasBuilder
<1>1. IndInv => SleeperHasBuilder  BY DEF IndInv
<1> QED  BY <1>1, Inductive, PTL

\* current and last-known-good are set together, to successful builds.
THEOREM FallbackAlways == Spec => []FallbackExists
<1>1. IndInv => FallbackExists  BY DEF IndInv
<1> QED  BY <1>1, Inductive, PTL

\* reconcile_routes never exposes a route without a slot.
THEOREM RoutesHaveSlots == Spec => []RoutedIsRegistered
<1>1. IndInv => RoutedIsRegistered  BY DEF IndInv, WatchInv
<1> QED  BY <1>1, Inductive, PTL

\* The read after commit finds a body while the registration lasts.
THEOREM PinSafe == Spec => []PinFindsCurrent
<1>1. IndInv => PinFindsCurrent  BY DEF IndInv
<1> QED  BY <1>1, Inductive, PTL

\* A step that keeps the body of every slot keeps its version, too, unless it
\* writes into built; only the owner of an unresolved build does that.
LEMMA BodiesKept ==
    ASSUME IndInv, NEW r \in Request, shared[r] # "Ok", NEW p \in registered,
           slot[p].current # None, slot'[p].current = slot[p].current,
           \A q \in Request \ {r} : built'[q] = built[q]
    PROVE  built'[slot'[p].current] >= built[slot[p].current]
<1>1. slot[p].current \in Request \ {r}
  BY PublishedIsResolved DEF IndInv, TypeOK, RegistryTypeOK, PageSlot
<1>2. built[slot[p].current] \in Nat  BY <1>1 DEF IndInv, TypeOK
<1> QED  BY <1>1, <1>2

\* The body of a page that was registered once never gets older: commit
\* publishes only what OrderInv orders, and fail and drop publish nothing.
THEOREM NoRegression == Spec => PublishedNeverRegresses
<1> DEFINE Kept(p) == epoch[p] = 1 /\ slot[p].current # None
             => built'[slot'[p].current] >= built[slot[p].current]
<1>1. ASSUME IndInv, [Next]_vars, NEW p \in registered \cap registered'
      PROVE  Kept(p)
  <2> SUFFICES ASSUME epoch[p] = 1, slot[p].current # None
               PROVE  built'[slot'[p].current] >= built[slot[p].current]
    OBVIOUS
  <2>0. /\ p \in Page /\ slot[p].current \in Request
        /\ built[slot[p].current] \in Nat /\ slot \in [Page -> PageSlot]
    BY <1>1 DEF IndInv, TypeOK, RegistryTypeOK, PageSlot
  <2>1. ASSUME slot'[p].current = slot[p].current, built' = built
        PROVE  built'[slot'[p].current] >= built[slot[p].current]
    BY <2>0, <2>1
  <2>2. CASE slot' = slot /\ built' = built  BY <2>1, <2>2
  <2>3. CASE Editor
    BY <2>2, <2>3 DEF Editor, WriteSource, DeleteSource, registryVars,
       requestVars
  <2>4. CASE Watcher
    <3>1. ASSUME NEW q, mark_dirty(q), built' = built
          PROVE  built'[slot'[p].current] >= built[slot[p].current]
      <4>1. slot'[p].current = slot[p].current
        BY <2>0, <3>1 DEF mark_dirty, PageSlot
      <4> QED  BY <2>1, <3>1, <4>1
    <3>2. CASE WatchAddMark
      BY <3>1, <3>2 DEF WatchAddMark, requestVars
    <3>3. ASSUME NEW q \in Page, WatchMark(q) \/ WatchReplace(q)
          PROVE  built'[slot'[p].current] >= built[slot[p].current]
      BY <3>1, <3>3 DEF WatchMark, WatchReplace, requestVars
    <3>4. CASE WatchUnregister
      BY <1>1, <2>0, <2>1, <3>4 DEF WatchUnregister, unregister, requestVars
    <3>5. CASE WatchStart \/ WatchScan \/ WatchPrepareFails
      BY <2>2, <3>5 DEF WatchStart, WatchScan, WatchPrepareFails,
         registryVars, requestVars
    <3>6. CASE WatchAddRoute \/ WatchAffected \/ WatchFinish
      BY <2>2, <3>6 DEF WatchAddRoute, WatchAffected, WatchFinish,
         registryVars, requestVars
    <3>7. ASSUME NEW q \in Page, WatchRegister(q) \/ WatchUnroute(q)
          PROVE  built'[slot'[p].current] >= built[slot[p].current]
      BY <2>2, <3>7 DEF WatchRegister, WatchUnroute, register, registryVars,
         requestVars
    <3>8. ASSUME NEW u \in SUBSET Present, WatchSnapshot(u)
          PROVE  built'[slot'[p].current] >= built[slot[p].current]
      BY <2>2, <3>8 DEF WatchSnapshot, registryVars, requestVars
    <3> QED
      BY <2>4, <3>2, <3>3, <3>4, <3>5, <3>6, <3>7, <3>8 DEF Watcher
  <2>5. ASSUME NEW r \in Request, NEW q \in Page, Arrive(r, q)
        PROVE  built'[slot'[p].current] >= built[slot[p].current]
    BY <2>2, <2>5 DEF Arrive, registryVars
  <2>6. ASSUME NEW r \in Request, Serve(r)
        PROVE  built'[slot'[p].current] >= built[slot[p].current]
    <3>1. CASE \/ Dispatch(r) \/ BeginBuildRefused(r) \/ Pin(r) \/ Join(r)
               \/ Wait(r) \/ ServeCurrent(r) \/ ServeLkg(r) \/ PerRequest(r)
      BY <2>2, <3>1 DEF Dispatch, BeginBuildRefused, Pin, Join, Wait,
         ServeCurrent, ServeLkg, PerRequest, registryVars
    <3>2. CASE BuildSucceeds(r) \/ BuildFails(r) \/ BuildPanics(r)
      BY <2>2, <3>2 DEF BuildSucceeds, BuildFails, BuildPanics, ResolveBuild,
         resolve
    <3>3. CASE BeginBuild(r)
      <4>1. slot'[p].current = slot[p].current
        BY <2>0, <3>3 DEF BeginBuild, begin_build, PageSlot
      <4> QED  BY <2>1, <3>3, <4>1 DEF BeginBuild
    <3>4. CASE Prepare(r)
      <4>1. shared[r] # "Ok" /\ \A q \in Request \ {r} : built'[q] = built[q]
        BY <1>1, <3>4 DEF Prepare, IndInv, ThreadInv, TypeOK, Running
      <4> QED  BY <1>1, <3>4, <4>1, BodiesKept DEF Prepare, registryVars
    <3>5. CASE Fail(r) \/ Rollback(r)
      <4>1. shared[r] # "Ok" /\ \A q \in Request \ {r} : built'[q] = built[q]
        BY <1>1, <3>5 DEF Fail, Rollback, DropCandidate, IndInv, ThreadInv,
           TypeOK
      <4>2. slot'[p].current = slot[p].current
        <5>1. PICK st : write_back(page[r],
                                released(slot[page[r]], st, guardRev[r]))
          BY <3>5 DEF Fail, Rollback, fail, rollback
        <5> QED  BY <2>0, <5>1 DEF write_back, released, PageSlot
      <4> QED  BY <1>1, <4>1, <4>2, BodiesKept
    <3>6. CASE Commit(r)
      <4>0. built' = built  BY <3>6 DEF Commit
      <4>1. CASE page[r] = p
        <5>1. slot'[p].current = r
          BY <1>1, <2>0, <3>6, <4>1 DEF Commit, commit, write_back, released,
             PageSlot
        <5>2. built[slot[p].current] <= built[r]
          BY <1>1, <3>6, <4>1 DEF Commit, IndInv, OrderInv
        <5>3. built[r] \in Nat  BY <1>1 DEF IndInv, TypeOK
        <5> QED  BY <2>0, <4>0, <5>1, <5>2, <5>3
      <4>2. CASE page[r] # p
        <5>1. slot'[p] = slot[p]
          BY <2>0, <3>6, <4>2 DEF Commit, commit, write_back
        <5> QED  BY <2>1, <4>0, <5>1
      <4> QED  BY <4>1, <4>2
    <3> QED
      BY <2>6, <3>1, <3>2, <3>3, <3>4, <3>5, <3>6 DEF Serve
  <2>7. CASE UNCHANGED vars
    BY <2>2, <2>7 DEF vars, registryVars, requestVars
  <2> QED  BY <1>1, <2>3, <2>4, <2>5, <2>6, <2>7 DEF Next
<1>2. IndInv /\ [Next]_vars =>
        [\A p \in registered \cap registered' :
           epoch[p] = 1 /\ slot[p].current # None
             => built'[slot'[p].current] >= built[slot[p].current]]_vars
  BY <1>1
<1> QED  BY <1>2, Inductive, PTL DEF Spec, PublishedNeverRegresses
=============================================================================
