--------------------------- MODULE MemorySessions ---------------------------
(***************************************************************************)
(* The in-memory session backend (session_backend.rs, MemoryBackend) under *)
(* the host's request threads.  The backend keeps the rows in a map and,   *)
(* behind a second mutex, the order in which they were created; one action *)
(* below is one critical section, so that other threads run between the    *)
(* sections of create and of regenerate exactly as they may in the code.   *)
(***************************************************************************)
EXTENDS SessionHost, Sequences, SequencesExt

CONSTANT Cap   \* MemoryBackend::cap

ASSUME CapAssumption == Cap \in Nat \ {0}   \* new() asserts cap > 0

VARIABLES
    store,   \* the map: id -> row
    order,   \* ids, oldest first
    moved,   \* moved[t]: the row regenerate holds between remove and insert
    fresh    \* fresh[t]: the id regenerate minted, until it becomes new_sid

vars == <<hostVars, mintVars, store, order, moved, fresh>>

\* A row is its data, and (history) the id its session was created under.
Row == [root : Sid, data : SUBSET Key]
NoRow == [root |-> NoSid, data |-> {}]

Init ==
    /\ HostInit
    /\ store = << >>
    /\ order = << >>
    /\ moved = [t \in Thread |-> NoRow]
    /\ fresh = [t \in Thread |-> NoSid]

Drop(f, S) == [s \in DOMAIN f \ S |-> f[s]]
Put(f, s, row) == [x \in DOMAIN f \cup {s} |-> IF x = s THEN row ELSE f[x]]

-----------------------------------------------------------------------------
(* resolve_session_view: lookup, else create.                              *)

Lookup(t) ==
    /\ pc[t] = "lookup"
    /\ \/ /\ cookie[t] \in DOMAIN store
          /\ view' = [view EXCEPT ![t] = cookie[t]]
          /\ Goto(t, "page")
       \/ /\ cookie[t] \notin DOMAIN store
          /\ Goto(t, "create")
          /\ UNCHANGED view
    /\ UNCHANGED <<jar, client, cookie, sid, left, mintVars, store, order, moved, fresh>>

\* create: mint_sid and the insert under the store mutex.
Insert(t) ==
    /\ pc[t] = "create"
    /\ Mint(t)
    /\ store' = Put(store, minted + 1, [root |-> minted + 1, data |-> {}])
    /\ view' = [view EXCEPT ![t] = minted + 1]
    /\ Goto(t, "push")
    /\ UNCHANGED <<jar, client, cookie, sid, left, order, moved, fresh>>

\* Mutant: the id pushed is new_sid, which the page has not set yet.
PushOrder_NewSid(t) ==
    /\ pc[t] = "push"
    /\ order' = Append(order, sid[t])
    /\ Goto(t, "enforce")
    /\ UNCHANGED <<jar, client, cookie, view, sid, left, mintVars, store, moved, fresh>>

\* create: push_order.
PushOrder(t) ==
    /\ pc[t] = "push"
    /\ order' = Append(RemoveFirst(order, view[t]), view[t])
    /\ Goto(t, "enforce")
    /\ UNCHANGED <<jar, client, cookie, view, sid, left, mintVars, store, moved, fresh>>

\* How many ids enforce_cap pops off the order: until the map fits, or the
\* order is exhausted.
Popped ==
    CHOOSE n \in 0..Len(order) :
        LET Fits(m) == \/ Cardinality(DOMAIN store \ Range(SubSeq(order, 1, m))) <= Cap
                       \/ m = Len(order)
        IN  Fits(n) /\ \A m \in 0..(n - 1) : ~Fits(m)

\* create: enforce_cap, under both mutexes.
EnforceCap(t) ==
    /\ pc[t] = "enforce"
    /\ store' = Drop(store, Range(SubSeq(order, 1, Popped)))
    /\ order' = SubSeq(order, Popped + 1, Len(order))
    /\ Goto(t, "page")
    /\ UNCHANGED <<jar, client, cookie, view, sid, left, mintVars, moved, fresh>>

-----------------------------------------------------------------------------
(* apply_writes: one write after another, against new_sid.                 *)

\* Thread t takes the next of the page's writes.
TakeWrite(t) ==
    /\ pc[t] = "apply"
    /\ left[t] > 0
    /\ left' = [left EXCEPT ![t] = @ - 1]

\* set, delete and clear: keys leave the row's data and keys join it.
\* Dropped when the id is empty or its row is gone.
Change(t, out, in) ==
    /\ TakeWrite(t)
    /\ store' = IF sid[t] \in DOMAIN store
                THEN [store EXCEPT ![sid[t]].data = (@ \ out) \cup in]
                ELSE store
    /\ UNCHANGED <<jar, pc, client, cookie, view, sid, mintVars, order, moved, fresh>>

SetKey(t, k) == Change(t, {}, {k})
DeleteKey(t, k) == Change(t, {k}, {})
Clear(t) == Change(t, Key, {})

\* Mutant: the row is copied and stays under the old id.
Regenerate_Copies(t) ==
    /\ TakeWrite(t)
    /\ sid[t] \in DOMAIN store
    /\ IdLeft
    /\ moved' = [moved EXCEPT ![t] = store[sid[t]]]
    /\ Goto(t, "reinsert")
    /\ UNCHANGED <<jar, client, cookie, view, sid, mintVars, store, order, fresh>>

\* regenerate: the row leaves the map; without one nothing happens.
Regenerate(t) ==
    /\ TakeWrite(t)
    /\ \/ /\ sid[t] \in DOMAIN store
          /\ IdLeft
          /\ moved' = [moved EXCEPT ![t] = store[sid[t]]]
          /\ store' = Drop(store, {sid[t]})
          /\ Goto(t, "reinsert")
       \/ /\ sid[t] \notin DOMAIN store
          /\ UNCHANGED <<moved, store, pc>>
    /\ UNCHANGED <<jar, client, cookie, view, sid, mintVars, order, fresh>>

\* regenerate: mint_sid, and the insert under the fresh id.
Reinsert(t) ==
    /\ pc[t] = "reinsert"
    /\ Mint(t)
    /\ store' = Put(store, minted + 1, moved[t])
    /\ moved' = [moved EXCEPT ![t] = NoRow]
    /\ fresh' = [fresh EXCEPT ![t] = minted + 1]
    /\ Goto(t, "reorder")
    /\ UNCHANGED <<jar, client, cookie, view, sid, left, order>>

\* regenerate: the old id leaves the order, the fresh one joins its end and
\* becomes new_sid.
Reorder(t) ==
    /\ pc[t] = "reorder"
    /\ order' = Append(RemoveFirst(order, sid[t]), fresh[t])
    /\ sid' = [sid EXCEPT ![t] = fresh[t]]
    /\ fresh' = [fresh EXCEPT ![t] = NoSid]
    /\ Goto(t, "apply")
    /\ UNCHANGED <<jar, client, cookie, view, left, mintVars, store, moved>>

\* Mutant: the id stays in the order.
Destroy_MapOnly(t) ==
    /\ TakeWrite(t)
    /\ store' = Drop(store, {sid[t]})
    /\ sid' = [sid EXCEPT ![t] = NoSid]
    /\ UNCHANGED <<jar, pc, client, cookie, view, mintVars, order, moved, fresh>>

\* destroy: map and order under both mutexes; new_sid becomes empty.
Destroy(t) ==
    /\ TakeWrite(t)
    /\ store' = Drop(store, {sid[t]})
    /\ order' = RemoveFirst(order, sid[t])
    /\ sid' = [sid EXCEPT ![t] = NoSid]
    /\ UNCHANGED <<jar, pc, client, cookie, view, mintVars, moved, fresh>>

BackendStep(t) ==
    \/ Lookup(t)
    \/ Insert(t)
    \/ PushOrder(t)
    \/ EnforceCap(t)
    \/ \E k \in Key : SetKey(t, k) \/ DeleteKey(t, k)
    \/ Clear(t)
    \/ Regenerate(t)
    \/ Reinsert(t)
    \/ Reorder(t)
    \/ Destroy(t)

Next ==
    \E t \in Thread : \/ HostStep(t) /\ UNCHANGED <<store, order, moved, fresh>>
                      \/ BackendStep(t)

Spec == Init /\ [][Next]_vars

-----------------------------------------------------------------------------
(* Properties.                                                             *)

TypeOK ==
    /\ HostTypeOK
    /\ pc \in [Thread -> {"idle", "lookup", "create", "push", "enforce", "page",
                          "apply", "reinsert", "reorder", "respond"}]
    /\ DOMAIN store \subseteq Sid
    /\ \A s \in DOMAIN store : store[s] \in Row
    /\ order \in Seq(Sid)
    /\ moved \in [Thread -> Row \cup {NoRow}]
    /\ fresh \in [Thread -> 0..MaxSid]

\* Ids the two mutexes disagree about because a thread is between sections.
Unordered == {view[t] : t \in {u \in Thread : pc[u] = "push"}}
               \cup {fresh[t] : t \in {u \in Thread : pc[u] = "reorder"}}
Departing == {sid[t] : t \in {u \in Thread : pc[u] \in {"reinsert", "reorder"}}}

\* The map and the order, which sit behind different mutexes, name the same
\* sessions up to the threads that are between two sections of create or of
\* regenerate: no row escapes eviction and no dead id is kept.
OrderTracksStore ==
    /\ DOMAIN store \ Range(order) \subseteq Unordered
    /\ Range(order) \ DOMAIN store \subseteq Departing
    /\ \A i, j \in DOMAIN order : order[i] = order[j] => i = j

\* The refinement mapping: a row is a session under its id, a row in the
\* hands of regenerate a session without one.
Abstract == INSTANCE SessionStore WITH
    Id   <- Sid,
    held <- {[root |-> store[s].root, id |-> s, data |-> store[s].data] : s \in DOMAIN store}
              \cup {[root |-> moved[t].root, id |-> NoSid, data |-> moved[t].data] :
                      t \in {u \in Thread : pc[u] = "reinsert"}},
    used <- 1..minted

\* The backend implements SessionStore: a write reaches the row of its own
\* session or none, regenerate moves the data intact and never leaves the
\* session under two ids, a destroyed or evicted session never comes back
\* ("we never resurrect a destroyed session"), eviction stops at the cap.
ImplementsSessionStore == Abstract!Spec
=============================================================================
