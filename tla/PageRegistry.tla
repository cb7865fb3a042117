---------------------------- MODULE PageRegistry ----------------------------
(***************************************************************************)
(* The page registry of the TSP host: one PageSlot per (route, method),    *)
(* behind one mutex, plus one InFlightBuild per running build, behind a    *)
(* mutex of its own (generation.rs).                                       *)
(*                                                                         *)
(* Every operator below is the body of ONE critical section of the code:   *)
(* an operation that takes two locks in turn (PublishGuard::commit, fail   *)
(* and drop first resolve the in-flight build and only then touch the      *)
(* slot) is two operators, so other threads can run between them.          *)
(*                                                                         *)
(* A generation is named by the request thread that builds it: ids are     *)
(* only compared for identity and a thread begins at most one build.  The  *)
(* generation_log (every id, in begin_build order) is never read back and  *)
(* is left out.  Payload text is left out: what a body contains is the     *)
(* version of the source its build read, kept by module HotReload.         *)
(***************************************************************************)
EXTENDS Integers

CONSTANTS
    Page,     \* the PageRefs (route + method) that may ever be registered
    Request,  \* the request threads, each one the name of its generation
    None      \* Option::None

ASSUME NoneAssumption == None \notin Request /\ None \notin Page

VARIABLES
    registered,   \* the keys of RegistryInner.slots
    slot,         \* slot[p]: the PageSlot of p (unloaded while p has none)
    shared        \* shared[r]: state of the InFlightBuild that r created

registryVars == <<registered, slot, shared>>

PageState == {"Unloaded", "Clean", "Dirty", "Building", "Failed"}

InFlightState == {"Unborn", "Running", "Ok", "Failed", "Abandoned"}

\* revision is u64 and wraps in the code; it counts file changes, so a wrap
\* is out of reach and it is a natural number here.
PageSlot ==
    [state: PageState, current: Request \cup {None}, lkg: Request \cup {None},
     inFlight: Request \cup {None}, revision: Nat,
     buildingRevision: Nat \cup {None}]

new_unloaded ==
    [state |-> "Unloaded", current |-> None, lkg |-> None,
     inFlight |-> None, revision |-> 0, buildingRevision |-> None]

RegistryTypeOK ==
    /\ registered \in SUBSET Page
    /\ slot \in [Page -> PageSlot]
    /\ shared \in [Request -> InFlightState]

RegistryInit(boot) ==
    /\ registered = boot
    /\ slot = [p \in Page |-> new_unloaded]
    /\ shared = [r \in Request |-> "Unborn"]

-----------------------------------------------------------------------------
(* Operations of the watcher thread.                                       *)

\* register: idempotent, an existing slot is kept with its state.
register(p) ==
    /\ registered' = registered \cup {p}
    /\ UNCHANGED <<slot, shared>>

\* unregister / unregister_path: the slot and everything in it is dropped;
\* guards and waiters that hold Arcs to its build keep them.
unregister(p) ==
    /\ registered' = registered \ {p}
    /\ slot' = [slot EXCEPT ![p] = new_unloaded]
    /\ UNCHANGED shared

\* Mutant: the revision is stepped the wrong way.
mark_dirty_CountsDown(p) ==
    /\ slot' = IF p \in registered
               THEN [slot EXCEPT
                       ![p].revision = @ - 1,
                       ![p].state = IF @ \in {"Clean", "Failed"}
                                    THEN "Dirty" ELSE @]
               ELSE slot
    /\ UNCHANGED <<registered, shared>>

\* mark_dirty: every arm counts the invalidation; only a slot that could be
\* served as it is turns Dirty.  An unknown page is left alone.
mark_dirty(p) ==
    /\ slot' = IF p \in registered
               THEN [slot EXCEPT
                       ![p].revision = @ + 1,
                       ![p].state = IF @ \in {"Clean", "Failed"}
                                    THEN "Dirty" ELSE @]
               ELSE slot
    /\ UNCHANGED <<registered, shared>>

-----------------------------------------------------------------------------
(* Operations of request threads.                                          *)

\* Mutant: a Building slot accepts a second build.
Buildable_WhileBuilding(p) == slot[p].state # "Clean"

Buildable(p) == slot[p].state \in {"Unloaded", "Dirty", "Failed"}

\* begin_build, the accepting arm: r becomes the in-flight build of p.
begin_build(p, r) ==
    /\ p \in registered
    /\ Buildable(p)
    /\ slot' = [slot EXCEPT
                  ![p].state = "Building",
                  ![p].inFlight = r,
                  ![p].buildingRevision = slot[p].revision]
    /\ shared' = [shared EXCEPT ![r] = "Running"]
    /\ UNCHANGED registered

\* First critical section of commit, fail and drop: resolve the in-flight
\* build.  The wake-up of its waiters is in HotReload, where they are.
resolve(r, outcome) ==
    /\ shared' = [shared EXCEPT ![r] = outcome]
    /\ UNCHANGED <<registered, slot>>

\* Mutant: the write-back does not look at the revision.
released_IgnoresRevision(s, undisturbed, guardRevision) ==
    [s EXCEPT !.state = undisturbed,
              !.inFlight = None,
              !.buildingRevision = None]

\* What a guard writes back into a slot, with the state for the case that no
\* invalidation arrived since begin_build.
released(s, undisturbed, guardRevision) ==
    [s EXCEPT !.state = IF s.revision = guardRevision
                        THEN undisturbed ELSE "Dirty",
              !.inFlight = None,
              !.buildingRevision = None]

\* A guard writes to whatever slot its page has NOW, if it has one.
write_back(p, s) ==
    /\ slot' = IF p \in registered THEN [slot EXCEPT ![p] = s] ELSE slot
    /\ UNCHANGED <<registered, shared>>

\* Mutant: the first load leaves no fallback.
commit_NoFallback(p, r, guardRevision) ==
    write_back(p,
        [released(slot[p], "Clean", guardRevision) EXCEPT
           !.current = r,
           !.lkg = slot[p].current])

\* Mutant: a candidate that a newer change has overtaken is thrown away.
commit_DropsOvertaken(p, r, guardRevision) ==
    write_back(p,
        LET s == released(slot[p], "Clean", guardRevision) IN
        IF s.state = "Clean" THEN [s EXCEPT !.current = r, !.lkg = r] ELSE s)

\* commit: the candidate becomes current.  The previous generation, when
\* there is one (a slot's current is always a successful build), becomes
\* last-known-good; otherwise the candidate is its own fallback.
commit(p, r, guardRevision) ==
    write_back(p,
        [released(slot[p], "Clean", guardRevision) EXCEPT
           !.current = r,
           !.lkg = IF slot[p].current # None THEN slot[p].current ELSE r])

\* Mutant: a failed build leaves the slot as it is.
fail_LeavesSlot(p, guardRevision) == UNCHANGED registryVars

\* fail: neither current nor last-known-good is touched.
fail(p, guardRevision) ==
    write_back(p, released(slot[p], "Failed", guardRevision))

\* drop of a guard that neither committed nor failed.
rollback(p, guardRevision) ==
    write_back(p, released(slot[p],
                           IF slot[p].current = None THEN "Unloaded"
                           ELSE "Dirty",
                           guardRevision))

=============================================================================
