------------------------------ MODULE WorkerPool ------------------------------
(***************************************************************************)
(* How a request reaches a worker: restart_workers_after_reload            *)
(* (jsc_bridge.rs), admission and least-active dispatch (worker/pool.rs),  *)
(* and the recycle, deadline, retry and replacement logic that a           *)
(* WorkerManager runs under its mutex (worker/manager.rs).                 *)
(*                                                                         *)
(* Time is abstracted: a deadline may expire whenever the code looks at    *)
(* it, and a read with a timeout may time out whenever it waits.           *)
(***************************************************************************)
EXTENDS WorkerProcess, FiniteSets

CONSTANTS
    Unsafe,        \* threads whose method can_retry_request refuses (POST..)
    Timed,         \* threads whose page has a timeout (timeout_ms > 0)
    Limit,         \* max_in_flight
    RecycleAfter,  \* RecyclePolicy.max_requests
    AgePolicy,     \* whether max_age or max_memory_bytes is set
    MaxReload,     \* bound: how often the watcher bumps the generation
    MaxCrash       \* bound: how many children die by themselves

ASSUME RequestAssumption == Unsafe \subseteq Thread /\ Timed \subseteq Thread
ASSUME LimitAssumption == Limit \in Nat /\ Limit >= WorkerCount
ASSUME RecycleAssumption == RecycleAfter \in Nat \ {0} /\ AgePolicy \in BOOLEAN
ASSUME BoundAssumption == MaxReload \in Nat /\ MaxCrash \in Nat
ASSUME ThreadsFinite == IsFiniteSet(Thread)

VARIABLES
    \* the execution generation and the reload lock
    generation,   \* EXECUTION_GENERATION
    lastRestart,  \* LAST_WORKER_RESTART_GENERATION
    reloadLock,   \* owner of WORKER_RESTART_LOCK
    \* the pool
    inFlight,     \* Admission.in_flight
    active,       \* active[w]: WorkerSlot.active
    lock,         \* lock[w]: owner of WorkerSlot.manager
    \* the request threads
    pc,
    gen,          \* gen[t]: the generation t read
    slot,         \* slot[t]: the slot t works on
    attempt,      \* attempt[t]: Executes t has written
    then,         \* then[t]: where t goes once start_worker returns
    result,       \* result[t]: what execute will return
    \* history and bounds
    crashes       \* children that have died by themselves

reloadVars == <<generation, lastRestart, reloadLock>>
poolVars == <<inFlight, active, lock>>
threadVars == <<pc, gen, slot, attempt, then, result>>
vars == <<processVars, reloadVars, poolVars, threadVars, crashes>>

\* Threads that hold an AdmissionGuard; those counted in a slot's active; and
\* those inside a manager for a request of theirs.
InManager == {"enter", "deadline", "send", "resend", "read", "lost", "giveUp",
              "unlock"}
Outcome == {"ok", "failed", "timeout", "busy"}

ThreadPC ==
    {"idle", "reload", "reloadSlot", "reloadNext", "reloadFail", "starting",
     "acquire", "asleep", "awake", "late", "pick", "count", "lock", "uncount",
     "leave"} \cup InManager \cup Outcome

Continuation == {"reloadNext", "deadline", "send", "resend", "giveUp",
                 "unlock", None}

\* None stands for no slot, no outcome, no continuation and no request.
ASSUME NoneAssumption == /\ None \notin Slot /\ None \notin ThreadPC
                         /\ None \notin RequestId

TypeOK ==
    /\ ProcessTypeOK
    /\ generation \in Nat /\ lastRestart \in Nat
    /\ reloadLock \in Thread \cup {None}
    /\ inFlight \in 0 .. Limit
    /\ active \in [Slot -> Nat]
    /\ lock \in [Slot -> Thread \cup {None}]
    /\ pc \in [Thread -> ThreadPC]
    /\ gen \in [Thread -> Nat]
    /\ slot \in [Thread -> Slot \cup {None}]
    /\ attempt \in [Thread -> 0 .. 2]
    /\ then \in [Thread -> Continuation]
    /\ result \in [Thread -> Outcome \cup {None}]
    /\ crashes \in 0 .. MaxCrash

Init ==
    /\ generation = 1 /\ lastRestart = 0
    /\ ProcessInit(1)
    /\ reloadLock = None
    /\ inFlight = 0
    /\ active = [w \in Slot |-> 0]
    /\ lock = [w \in Slot |-> None]
    /\ pc = [t \in Thread |-> "idle"]
    /\ gen = [t \in Thread |-> 0]
    /\ slot = [t \in Thread |-> None]
    /\ attempt = [t \in Thread |-> 0]
    /\ then = [t \in Thread |-> None]
    /\ result = [t \in Thread |-> None]
    /\ crashes = 0

-----------------------------------------------------------------------------
(* Moving a thread.                                                        *)

Goto(t, label) ==
    /\ pc' = [pc EXCEPT ![t] = label]
    /\ UNCHANGED <<gen, slot, attempt, then, result>>

\* The manager call is decided: the outcome is kept until the guards are gone.
Decide(t, outcome, label) ==
    /\ pc' = [pc EXCEPT ![t] = label]
    /\ result' = [result EXCEPT ![t] = outcome]
    /\ UNCHANGED <<gen, slot, attempt, then>>

\* execute returns; the thread's locals go.
Return(t) ==
    /\ gen' = [gen EXCEPT ![t] = 0]
    /\ slot' = [slot EXCEPT ![t] = None]
    /\ attempt' = [attempt EXCEPT ![t] = 0]
    /\ then' = [then EXCEPT ![t] = None]
    /\ result' = [result EXCEPT ![t] = None]

\* restart_worker: stop, then start; `decided` is what the call will return
\* (None while that is open), `label` where it goes on.
Restart(t, decided, label) ==
    /\ stop_worker(slot[t])
    /\ pc' = [pc EXCEPT ![t] = "starting"]
    /\ then' = [then EXCEPT ![t] = label]
    /\ result' = [result EXCEPT ![t] = decided]
    /\ UNCHANGED <<gen, slot, attempt>>

-----------------------------------------------------------------------------
(* restart_workers_after_reload.                                           *)

\* The watcher has seen a change: bump_execution_generation.
Bump ==
    /\ generation <= MaxReload
    /\ generation' = generation + 1
    /\ UNCHANGED <<processVars, lastRestart, reloadLock, poolVars, threadVars,
                   crashes>>

Submit(t) ==
    /\ pc[t] = "idle"
    /\ gen' = [gen EXCEPT ![t] = generation]
    /\ pc' = [pc EXCEPT ![t] = IF lastRestart = generation
                               THEN "acquire" ELSE "reload"]
    /\ UNCHANGED <<processVars, reloadVars, poolVars, slot, attempt, then,
                   result, crashes>>

\* The check is repeated under the lock, against the generation read before.
LockReload(t) ==
    /\ pc[t] = "reload"
    /\ reloadLock = None
    /\ IF lastRestart = gen[t]
       THEN Goto(t, "acquire") /\ UNCHANGED reloadLock
       ELSE /\ reloadLock' = t
            /\ pc' = [pc EXCEPT ![t] = "reloadSlot"]
            /\ slot' = [slot EXCEPT ![t] = 1]
            /\ UNCHANGED <<gen, attempt, then, result>>
    /\ UNCHANGED <<processVars, generation, lastRestart, poolVars, crashes>>

\* restart_all: one manager after the other, each under its own mutex.
ReloadSlot(t) ==
    /\ pc[t] = "reloadSlot"
    /\ lock[slot[t]] = None
    /\ lock' = [lock EXCEPT ![slot[t]] = t]
    /\ Restart(t, None, "reloadNext")
    /\ UNCHANGED <<reloadVars, inFlight, active, crashes>>

\* Mutant: the generation counts as restarted after the first worker.
ReloadNext_StoresEarly(t) ==
    /\ pc[t] = "reloadNext"
    /\ lock' = [lock EXCEPT ![slot[t]] = None]
    /\ lastRestart' = gen[t]
    /\ IF slot[t] < WorkerCount
       THEN /\ slot' = [slot EXCEPT ![t] = @ + 1]
            /\ pc' = [pc EXCEPT ![t] = "reloadSlot"]
            /\ UNCHANGED reloadLock
       ELSE /\ slot' = [slot EXCEPT ![t] = None]
            /\ pc' = [pc EXCEPT ![t] = "acquire"]
            /\ reloadLock' = None
    /\ UNCHANGED <<processVars, generation, inFlight, active, gen, attempt,
                   then, result, crashes>>

ReloadNext(t) ==
    /\ pc[t] = "reloadNext"
    /\ lock' = [lock EXCEPT ![slot[t]] = None]
    /\ IF slot[t] < WorkerCount
       THEN /\ slot' = [slot EXCEPT ![t] = @ + 1]
            /\ pc' = [pc EXCEPT ![t] = "reloadSlot"]
            /\ UNCHANGED <<lastRestart, reloadLock>>
       ELSE /\ slot' = [slot EXCEPT ![t] = None]
            /\ pc' = [pc EXCEPT ![t] = "acquire"]
            /\ lastRestart' = gen[t]
            /\ reloadLock' = None
    /\ UNCHANGED <<processVars, generation, inFlight, active, gen, attempt,
                   then, result, crashes>>

\* A worker did not come up: the rest keep their processes, the generation is
\* not recorded, the request fails.
ReloadFail(t) ==
    /\ pc[t] = "reloadFail"
    /\ lock' = [lock EXCEPT ![slot[t]] = None]
    /\ reloadLock' = None
    /\ pc' = [pc EXCEPT ![t] = "failed"]
    /\ Return(t)
    /\ UNCHANGED <<processVars, generation, lastRestart, inFlight, active,
                   crashes>>

-----------------------------------------------------------------------------
(* WorkerPool::acquire and the drop of its guard.                          *)

\* Mutant: the limit is checked with <=.
Admit_OffByOne(t) ==
    /\ inFlight <= Limit
    /\ inFlight' = inFlight + 1
    /\ Goto(t, "pick")

Admit(t) ==
    /\ inFlight < Limit
    /\ inFlight' = inFlight + 1
    /\ Goto(t, "pick")

\* Mutant: a refused thread gives back a place it never had.
Refuse_GivesBack(t) ==
    /\ inFlight >= Limit
    /\ pc' = [pc EXCEPT ![t] = "busy"]
    /\ Return(t)
    /\ inFlight' = inFlight - 1

\* Backpressure: no guard was taken.
Refuse(t) ==
    /\ inFlight >= Limit
    /\ pc' = [pc EXCEPT ![t] = "busy"]
    /\ Return(t)
    /\ UNCHANGED inFlight

Sleep(t) ==
    /\ inFlight >= Limit
    /\ Goto(t, "asleep")
    /\ UNCHANGED inFlight

Acquire(t) ==
    /\ \/ /\ pc[t] = "acquire"
          /\ Admit(t) \/ Sleep(t)
       \/ /\ pc[t] = "awake"        \* notified; its deadline may be over
          /\ \/ Admit(t) \/ Sleep(t)
             \/ t \in Timed /\ Refuse(t)
       \/ /\ pc[t] = "late"         \* wait_timeout reported a timeout
          /\ Admit(t) \/ Refuse(t)
    /\ UNCHANGED <<processVars, reloadVars, active, lock, crashes>>

SleepTimesOut(t) ==
    /\ pc[t] = "asleep"
    /\ t \in Timed
    /\ Goto(t, "late")
    /\ UNCHANGED <<processVars, reloadVars, poolVars, crashes>>

Sleepers == {t \in Thread : pc[t] = "asleep"}

\* Mutant: the guard is dropped without a notification.
Leave_Silent(t) ==
    /\ pc[t] = "leave"
    /\ inFlight' = inFlight - 1
    /\ pc' = [pc EXCEPT ![t] = result[t]]
    /\ Return(t)
    /\ UNCHANGED <<processVars, reloadVars, active, lock, crashes>>

\* AdmissionGuard::drop: notify_one wakes some sleeper, if there is one.
Leave(t) ==
    /\ pc[t] = "leave"
    /\ inFlight' = inFlight - 1
    /\ \/ /\ Sleepers = {}
          /\ pc' = [pc EXCEPT ![t] = result[t]]
       \/ \E s \in Sleepers :
            pc' = [pc EXCEPT ![t] = result[t], ![s] = "awake"]
    /\ Return(t)
    /\ UNCHANGED <<processVars, reloadVars, active, lock, crashes>>

-----------------------------------------------------------------------------
(* WorkerPool::execute around the manager call.                            *)

\* min_by_key: the first of the least active slots.  Reading the counters and
\* adding to the chosen one are separate steps.
Pick(t) ==
    /\ pc[t] = "pick"
    /\ \E w \in Slot :
         /\ \A v \in Slot : IF v < w THEN active[v] > active[w]
                            ELSE active[v] >= active[w]
         /\ slot' = [slot EXCEPT ![t] = w]
    /\ pc' = [pc EXCEPT ![t] = "count"]
    /\ UNCHANGED <<processVars, reloadVars, poolVars, gen, attempt, then,
                   result, crashes>>

Count(t) ==
    /\ pc[t] = "count"
    /\ active' = [active EXCEPT ![slot[t]] = @ + 1]
    /\ Goto(t, "lock")
    /\ UNCHANGED <<processVars, reloadVars, inFlight, lock, crashes>>

LockManager(t) ==
    /\ pc[t] = "lock"
    /\ lock[slot[t]] = None
    /\ lock' = [lock EXCEPT ![slot[t]] = t]
    /\ Goto(t, "enter")
    /\ UNCHANGED <<processVars, reloadVars, inFlight, active, crashes>>

Unlock(t) ==
    /\ pc[t] = "unlock"
    /\ lock' = [lock EXCEPT ![slot[t]] = None]
    /\ Goto(t, "uncount")
    /\ UNCHANGED <<processVars, reloadVars, inFlight, active, crashes>>

\* Mutant: a failed call leaves its count behind.
Uncount_OnSuccess(t) ==
    /\ pc[t] = "uncount"
    /\ active' = IF result[t] = "ok"
                 THEN [active EXCEPT ![slot[t]] = @ - 1] ELSE active
    /\ Goto(t, "leave")
    /\ UNCHANGED <<processVars, reloadVars, inFlight, lock, crashes>>

Uncount(t) ==
    /\ pc[t] = "uncount"
    /\ active' = [active EXCEPT ![slot[t]] = @ - 1]
    /\ Goto(t, "leave")
    /\ UNCHANGED <<processVars, reloadVars, inFlight, lock, crashes>>

-----------------------------------------------------------------------------
(* The manager call: should_recycle, execute_with_timeout and execute.     *)

HasWorker(w) == worker[w].state # "none"

\* Mutant: the limit itself is still allowed.
should_recycle_OffByOne(w) ==
    HasWorker(w) /\ worker[w].completed > RecycleAfter

\* lifecycle::should_recycle by request count; by age or memory, if the policy
\* sets a limit, a worker may be recycled at any time.
should_recycle(w) == HasWorker(w) /\ worker[w].completed >= RecycleAfter

Enter(t) ==
    /\ pc[t] = "enter"
    /\ \/ /\ should_recycle(slot[t]) \/ (AgePolicy /\ HasWorker(slot[t]))
          /\ Restart(t, "failed", "deadline")
       \/ /\ ~should_recycle(slot[t])
          /\ Goto(t, "deadline")
          /\ UNCHANGED processVars
    /\ UNCHANGED <<reloadVars, poolVars, crashes>>

\* A deadline that is over already replaces the worker and fails the request.
Deadline(t) ==
    /\ pc[t] = "deadline"
    /\ \/ t \in Timed /\ Restart(t, "timeout", "unlock")
       \/ /\ HasWorker(slot[t])
          /\ Decide(t, None, "send")
          /\ UNCHANGED processVars
       \/ ~HasWorker(slot[t]) /\ Restart(t, "failed", "send")
    /\ UNCHANGED <<reloadVars, poolVars, crashes>>

\* start_worker_inner succeeds, or fails and leaves no worker.  After a
\* failure the call returns what it has, except that a last restart
\* (giveUp) is still tried.
StartWorker(t) ==
    /\ pc[t] = "starting"
    /\ \/ /\ start_worker(slot[t], generation)
          /\ pc' = [pc EXCEPT ![t] = then[t]]
       \/ /\ UNCHANGED processVars
          /\ pc' = [pc EXCEPT ![t] = CASE then[t] = "reloadNext" -> "reloadFail"
                                       [] then[t] = "giveUp" -> "giveUp"
                                       [] OTHER -> "unlock"]
    /\ then' = [then EXCEPT ![t] = None]
    /\ UNCHANGED <<reloadVars, poolVars, gen, slot, attempt, result, crashes>>

id(t) == [by |-> t, attempt |-> attempt[t]]

\* Writing to a child that is gone fails, or the read that follows does.
Send(t) ==
    /\ pc[t] = "send"
    /\ attempt' = [attempt EXCEPT ![t] = @ + 1]
    /\ write_execute(slot[t], [by |-> t, attempt |-> attempt[t] + 1])
    /\ pc' = [pc EXCEPT ![t] = IF worker[slot[t]].state = "up"
                               THEN "read" ELSE "lost"]
    /\ UNCHANGED <<reloadVars, poolVars, gen, slot, then, result, crashes>>

\* A reply with this id ends the call; any other is a protocol error.
Receive(t) ==
    /\ pc[t] = "read"
    /\ fromWorker[slot[t]] # <<>>
    /\ read_reply(slot[t], id(t))
    /\ LET m == Head(fromWorker[slot[t]]) IN
         CASE m = [id |-> id(t), kind |-> "Response"] -> Decide(t, "ok", "unlock")
           [] m = [id |-> id(t), kind |-> "Error"] -> Decide(t, "failed", "unlock")
           [] OTHER -> Goto(t, "lost")
    /\ UNCHANGED <<reloadVars, poolVars, crashes>>

EndOfStream(t) ==
    /\ pc[t] = "read"
    /\ worker[slot[t]].state = "dead" /\ fromWorker[slot[t]] = <<>>
    /\ Goto(t, "lost")
    /\ UNCHANGED <<processVars, reloadVars, poolVars, crashes>>

\* Mutant: the stuck worker is only told to cancel, which it ignores.
ReadTimesOut_KeepsWorker(t) ==
    /\ pc[t] = "read"
    /\ t \in Timed
    /\ Decide(t, "timeout", "unlock")
    /\ UNCHANGED <<processVars, reloadVars, poolVars, crashes>>

\* The read timed out: Cancel, 100 ms, and the whole process is replaced (a
\* second time when this was the retry, whose error also asks for a restart).
ReadTimesOut(t) ==
    /\ pc[t] = "read"
    /\ t \in Timed
    /\ Restart(t, "timeout", IF attempt[t] = 1 THEN "unlock" ELSE "giveUp")
    /\ UNCHANGED <<reloadVars, poolVars, crashes>>

\* Mutant: every method is retried.
can_retry_request_Any(t) == TRUE

can_retry_request(t) == t \notin Unsafe

\* The first loss is retried once on a fresh worker: by execute whatever the
\* method, by execute_with_timeout only when the method is safe.  After a
\* second loss execute_with_timeout replaces the worker, execute does not.
Lost(t) ==
    /\ pc[t] = "lost"
    /\ \/ /\ attempt[t] = 1
          /\ t \in Timed => can_retry_request(t)
          /\ Restart(t, "failed", "resend")
       \/ /\ attempt[t] = 1
          /\ t \in Timed /\ ~can_retry_request(t)
          /\ Decide(t, "failed", "unlock")
          /\ UNCHANGED processVars
       \/ /\ attempt[t] = 2
          /\ Decide(t, "failed", IF t \in Timed THEN "giveUp" ELSE "unlock")
          /\ UNCHANGED processVars
    /\ UNCHANGED <<reloadVars, poolVars, crashes>>

\* Before the retry the deadline is looked at again.
Resend(t) ==
    /\ pc[t] = "resend"
    /\ \/ Decide(t, None, "send")
       \/ t \in Timed /\ Decide(t, "timeout", "unlock")
    /\ UNCHANGED <<processVars, reloadVars, poolVars, crashes>>

GiveUp(t) ==
    /\ pc[t] = "giveUp"
    /\ Restart(t, result[t], "unlock")
    /\ UNCHANGED <<reloadVars, poolVars, crashes>>

-----------------------------------------------------------------------------
(* The specification.                                                      *)

Execute(w) ==
    /\ ChildExecutes(w) \/ ChildReplies(w)
    /\ UNCHANGED <<reloadVars, poolVars, threadVars, crashes>>

Crash(w) ==
    /\ crashes < MaxCrash
    /\ ChildDies(w)
    /\ crashes' = crashes + 1
    /\ UNCHANGED <<reloadVars, poolVars, threadVars>>

Step(t) ==
    \/ LockReload(t) \/ ReloadSlot(t) \/ ReloadNext(t) \/ ReloadFail(t)
    \/ Acquire(t) \/ SleepTimesOut(t) \/ Pick(t) \/ Count(t)
    \/ LockManager(t) \/ Enter(t) \/ Deadline(t) \/ StartWorker(t)
    \/ Send(t) \/ Receive(t) \/ EndOfStream(t) \/ ReadTimesOut(t)
    \/ Lost(t) \/ Resend(t) \/ GiveUp(t)
    \/ Unlock(t) \/ Uncount(t) \/ Leave(t)

Next ==
    \/ Bump
    \/ \E w \in Slot : Execute(w) \/ Crash(w)
    \/ \E t \in Thread : Submit(t) \/ Step(t)

Spec == Init /\ [][Next]_vars

\* A running thread keeps running and a child that runs a page eventually
\* replies.  Mutexes need no more: each thread takes each of them finitely
\* often.  Starting a worker is taken to end: its accept is bounded by
\* STARTUP_TIMEOUT, but the read of Ready is not (see the README).
FairSpec ==
    /\ Spec
    /\ \A t \in Thread : WF_vars(Step(t))
    /\ \A w \in Slot : WF_vars(Execute(w))

-----------------------------------------------------------------------------
(* Safety.                                                                 *)

Admitted == {"pick", "count", "lock", "uncount", "leave"} \cup InManager

\* A thread in start_worker is admitted unless it restarts for a reload.
HasGuard(t) ==
    \/ pc[t] \in Admitted
    \/ pc[t] = "starting" /\ then[t] # "reloadNext"

\* Admission is exact: in_flight counts the guards that exist, on every error,
\* timeout and retry path.
AdmissionExact ==
    inFlight = Cardinality({t \in Thread : HasGuard(t)})

\* A slot's active count is the number of requests dispatched to it, so least
\* active dispatch never avoids a worker because of a call that is over.
ActiveExact ==
    \A w \in Slot :
        active[w] = Cardinality({t \in Thread :
                        /\ HasGuard(t) /\ slot[t] = w
                        /\ pc[t] \notin {"count", "leave"}})

\* No lost wake-up at the limit: while a thread sleeps for admission, every
\* free place is matched by a thread that has been woken and will look again.
NoIdlePlace ==
    Sleepers # {} =>
        Limit - inFlight <=
            Cardinality({t \in Thread : pc[t] \in {"awake", "late"}})

\* The stream of a live worker holds nothing but the present request: what is
\* queued, running or answered there carries the id of the thread that is
\* reading, so no request is ever given the reply of another.
NoStaleReply ==
    \A w \in Slot : worker[w].state = "up" =>
        LET ids == {toWorker[w][i] : i \in DOMAIN toWorker[w]}
                   \cup {fromWorker[w][i].id : i \in DOMAIN fromWorker[w]}
                   \cup ({worker[w].running} \ {None})
        IN  \A m \in ids : /\ lock[w] = m.by
                           /\ pc[m.by] = "read"
                           /\ attempt[m.by] = m.attempt

\* Where can_retry_request is asked, which is for a page with a timeout, a
\* request whose method is not safe to repeat runs at most once, whatever
\* dies or times out around it; and a request whose method is safe at most
\* twice.  A page without a timeout goes through execute, which does not ask:
\* see UnsafeNeverReplayed.
BoundedEffects ==
    \A t \in Thread :
        /\ t \in Unsafe \cap Timed => effects[t] <= 1
        /\ t \notin Unsafe => effects[t] <= 2

\* "Only automatically retry methods whose HTTP semantics are safe"
\* (manager.rs:548-549): a POST whose worker died is never run again.
UnsafeNeverReplayed == \A t \in Unsafe : effects[t] <= 1

\* After a reload no request runs in a process from before it: the child that
\* runs a request was started in the generation the request read, or later.
RunsInFreshProcess ==
    \A t \in Thread : pc[t] = "read" => worker[slot[t]].born >= gen[t]

\* "A worker is never reused after it has crossed an operator-selected
\* request ... limit" (lifecycle.rs).
RecycledAtLimit ==
    \A w \in Slot : /\ worker[w].completed <= RecycleAfter
                    /\ worker[w].running # None
                         => worker[w].completed < RecycleAfter

-----------------------------------------------------------------------------
(* Liveness.                                                               *)

\* Every request gets an outcome: no thread is left waiting for a place, a
\* manager, a reload or a reply.
EveryRequestReturns ==
    \A t \in Thread : pc[t] # "idle" ~> pc[t] \in Outcome
=============================================================================
