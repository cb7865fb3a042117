-------------------------- MODULE WorkerPoolProofs --------------------------
(***************************************************************************)
(* The safety properties of WorkerPool, proved for any finite set of       *)
(* threads, any pool size, limit and recycle policy, and any number of     *)
(* reloads and crashes.                                                    *)
(*                                                                         *)
(* The argument.  A thread's locals and the locks say who works on a slot  *)
(* (ThreadInv, LockInv); since an owner is alone, the stream of the slot   *)
(* is quiet unless that owner reads, and then carries its request only     *)
(* (StreamInv).  So the child runs what its reader wrote, which bounds the *)
(* effects by the attempts (AttemptInv, EffectsInv), and completes no more *)
(* than was allowed when the call began (WorkerInv).  A reload moves a     *)
(* front of fresh workers through the slots (FreshInv).  The counters move *)
(* together with the sets they count, one thread at a time.                *)
(***************************************************************************)
EXTENDS WorkerPool, FiniteSetTheorems, TLAPS

\* Where a thread works on no slot, and where it holds a manager's mutex.
NoSlot == {"idle", "reload", "acquire", "asleep", "awake", "late", "pick"}
          \cup Outcome
Holding == InManager \cup {"starting", "reloadNext", "reloadFail"}

\* A thread's locals agree with the place it has reached.
ThreadInv ==
    \A t \in Thread :
        /\ slot[t] = None <=> pc[t] \in NoSlot
        /\ pc[t] = "starting" <=> then[t] # None
        /\ \/ pc[t] \in {"unlock", "uncount", "leave", "giveUp"}
           \/ then[t] \notin {None, "reloadNext"}
           => result[t] # None

\* What the number of Executes written may be at each place.
AttemptInv ==
    \A t \in Thread :
        /\ pc[t] \in {"read", "lost"} => attempt[t] \in {1, 2}
        /\ pc[t] = "send" =>
              attempt[t] = 0 \/ (attempt[t] = 1 /\ t \notin Unsafe \cap Timed)
        /\ pc[t] = "resend" \/ then[t] = "resend"
              => attempt[t] = 1 /\ t \notin Unsafe \cap Timed
        /\ pc[t] \notin {"send", "read", "lost", "resend", "giveUp", "unlock",
                         "uncount", "leave", "starting"} => attempt[t] = 0
        /\ then[t] \in {"reloadNext", "deadline", "send"} => attempt[t] = 0
        /\ t \in Unsafe \cap Timed => attempt[t] \in {0, 1}

\* The owners of the managers' mutexes and of the reload lock.
Holds(t, w) == slot[t] = w /\ pc[t] \in Holding
HoldsReload(t) == \/ pc[t] \in {"reloadSlot", "reloadNext", "reloadFail"}
                  \/ then[t] = "reloadNext"

LockInv ==
    /\ \A t \in Thread, w \in Slot : lock[w] = t <=> Holds(t, w)
    /\ \A t \in Thread : reloadLock = t <=> HoldsReload(t)

\* Nothing is on its way between a manager and its child; or just request m.
Quiet(w) == /\ toWorker[w] = <<>> /\ fromWorker[w] = <<>>
            /\ worker[w].running = None
Carries(w, m) ==
    \/ /\ toWorker[w] = <<m>> /\ fromWorker[w] = <<>>
       /\ worker[w].running = None
    \/ /\ toWorker[w] = <<>> /\ fromWorker[w] = <<>>
       /\ worker[w].running = m
    \/ /\ toWorker[w] = <<>> /\ worker[w].running = None
       /\ \E k \in {"Response", "Error"} :
            fromWorker[w] = <<[id |-> m, kind |-> k]>>

\* A stream is empty unless a thread at this slot waits for its reply.
StreamOK(w) ==
    \/ Quiet(w)
    \/ \E t \in Thread : slot[t] = w /\ pc[t] = "read" /\ Carries(w, id(t))
StreamInv == \A w \in Slot : StreamOK(w)

\* A request has run at most as often as it was written, and one that the
\* child has still to read has run less often.
EffectsInv ==
    \A t \in Thread :
        /\ pc[t] \notin Outcome => effects[t] <= attempt[t]
        /\ pc[t] = "read" /\ toWorker[slot[t]] # <<>>
              => effects[t] < attempt[t]

\* The handle a manager call works on.
WorkerInv ==
    /\ \A w \in Slot :
         /\ worker[w].state = "none" => worker[w] = no_worker
         /\ worker[w].state = "dead" =>
               toWorker[w] = <<>> /\ worker[w].running = None
    /\ \A t \in Thread :
         /\ pc[t] = "starting" => worker[slot[t]] = no_worker
         /\ pc[t] = "read" => worker[slot[t]].state # "none"
         /\ pc[t] \in {"deadline", "send", "read", "lost", "resend"}
              => worker[slot[t]].completed < RecycleAfter

\* The child of slot w, if there is one, was started in generation g or later.
Current(w, g) == worker[w].state # "none" => worker[w].born >= g

PastReload(t) ==
    /\ pc[t] \notin {"idle", "reload", "reloadSlot", "reloadNext",
                     "reloadFail"} \cup Outcome
    /\ then[t] # "reloadNext"

\* restart_all moves a front of fresh workers through the slots; past it, and
\* for every generation recorded as restarted, all workers are fresh.
FreshInv ==
    /\ lastRestart <= generation
    /\ \A w \in Slot : Current(w, lastRestart)
    /\ \A t \in Thread :
         /\ gen[t] <= generation
         /\ PastReload(t) => \A w \in Slot : Current(w, gen[t])
         /\ HoldsReload(t) =>
              \A w \in Slot : w < slot[t] => Current(w, gen[t])
         /\ pc[t] = "reloadNext" => Current(slot[t], gen[t])

IndInv ==
    /\ TypeOK
    /\ ThreadInv /\ AttemptInv /\ LockInv
    /\ AdmissionExact /\ ActiveExact /\ NoIdlePlace
    /\ StreamInv /\ EffectsInv /\ WorkerInv /\ FreshInv
    /\ BoundedEffects /\ RecycledAtLimit

USE ThreadAssumption, CountAssumption, RequestAssumption, LimitAssumption,
    RecycleAssumption, BoundAssumption, ThreadsFinite, NoneAssumption

-----------------------------------------------------------------------------
(* What a step does to the processes and to the other threads.             *)

\* A thread changes no local of another; Leave may wake one sleeper.
LEMMA ThreadFrame ==
    ASSUME TypeOK, NEW t \in Thread, Submit(t) \/ Step(t),
           NEW u \in Thread \ {t}
    PROVE  /\ \/ pc'[u] = pc[u]
              \/ Leave(t) /\ pc[u] = "asleep" /\ pc'[u] = "awake"
           /\ gen'[u] = gen[u] /\ slot'[u] = slot[u]
           /\ attempt'[u] = attempt[u] /\ then'[u] = then[u]
           /\ result'[u] = result[u]
<1> USE DEF TypeOK, Goto, Decide, Return, Restart, threadVars
<1>1. CASE Submit(t)  BY <1>1 DEF Submit
<1>2. CASE LockReload(t)  BY <1>2 DEF LockReload
<1>3. CASE ReloadSlot(t)  BY <1>3 DEF ReloadSlot
<1>4. CASE ReloadNext(t)  BY <1>4 DEF ReloadNext
<1>5. CASE ReloadFail(t)  BY <1>5 DEF ReloadFail
<1>6. CASE Acquire(t)  BY <1>6 DEF Acquire, Admit, Refuse, Sleep
<1>7. CASE SleepTimesOut(t)  BY <1>7 DEF SleepTimesOut
<1>8. CASE Pick(t)  BY <1>8 DEF Pick
<1>9. CASE Count(t)  BY <1>9 DEF Count
<1>10. CASE LockManager(t)  BY <1>10 DEF LockManager
<1>11. CASE Enter(t)  BY <1>11 DEF Enter
<1>12. CASE Deadline(t)  BY <1>12 DEF Deadline
<1>13. CASE StartWorker(t)  BY <1>13 DEF StartWorker
<1>14. CASE Send(t)  BY <1>14 DEF Send
<1>15. CASE Receive(t)  BY <1>15 DEF Receive
<1>16. CASE EndOfStream(t)  BY <1>16 DEF EndOfStream
<1>17. CASE ReadTimesOut(t)  BY <1>17 DEF ReadTimesOut
<1>18. CASE Lost(t)  BY <1>18 DEF Lost
<1>19. CASE Resend(t)  BY <1>19 DEF Resend
<1>20. CASE GiveUp(t)  BY <1>20 DEF GiveUp
<1>21. CASE Unlock(t)  BY <1>21 DEF Unlock
<1>22. CASE Uncount(t)  BY <1>22 DEF Uncount
<1>23. CASE Leave(t)  BY <1>23 DEF Leave, Sleepers
<1> QED
  BY <1>1, <1>2, <1>3, <1>4, <1>5, <1>6, <1>7, <1>8, <1>9, <1>10, <1>11,
     <1>12, <1>13, <1>14, <1>15, <1>16, <1>17, <1>18, <1>19, <1>20, <1>21,
     <1>22, <1>23 DEF Step

\* Only the watcher moves the generation.
LEMMA GenerationFrame ==
    ASSUME NEW t \in Thread, Submit(t) \/ Step(t)
    PROVE  generation' = generation
  BY DEF Step, Submit, LockReload, ReloadSlot, ReloadNext, ReloadFail, Acquire,
         SleepTimesOut, Pick, Count, LockManager, Enter, Deadline,
         StartWorker, Send, Receive, EndOfStream, ReadTimesOut, Lost, Resend,
         GiveUp, Unlock, Uncount, Leave, reloadVars

\* The things a thread's step can do to its worker.
LEMMA StepKinds ==
    ASSUME TypeOK, NEW t \in Thread, Submit(t) \/ Step(t)
    PROVE  \/ UNCHANGED processVars /\ pc[t] # "read"
           \/ /\ Restart(t, result'[t], then'[t])
              /\ pc[t] \notin NoSlot
              /\ pc[t] \in Holding \/ lock[slot[t]] = None
           \/ start_worker(slot[t], generation) /\ StartWorker(t)
           \/ Send(t) \/ Receive(t) \/ EndOfStream(t)
<1> USE DEF NoSlot, Outcome, Holding, InManager
<1>1. ASSUME NEW d, NEW l, Restart(t, d, l)
      PROVE  Restart(t, result'[t], then'[t])
  BY <1>1 DEF Restart, TypeOK
<1>2. CASE \/ Submit(t) \/ LockReload(t) \/ ReloadNext(t) \/ ReloadFail(t)
           \/ SleepTimesOut(t) \/ Pick(t) \/ Count(t) \/ LockManager(t)
           \/ Unlock(t) \/ Uncount(t) \/ Leave(t) \/ Resend(t)
  BY <1>2 DEF Submit, LockReload, ReloadNext, ReloadFail, SleepTimesOut, Pick,
              Count, LockManager, Unlock, Uncount, Leave, Resend
<1>3. CASE Acquire(t)  BY <1>3 DEF Acquire
<1>4. CASE ReloadSlot(t)  BY <1>1, <1>4 DEF ReloadSlot
<1>5. CASE Enter(t)  BY <1>1, <1>5 DEF Enter
<1>6. CASE Deadline(t)  BY <1>1, <1>6 DEF Deadline
<1>7. CASE StartWorker(t)  BY <1>7 DEF StartWorker
<1>8. CASE Send(t) \/ Receive(t) \/ EndOfStream(t)  BY <1>8
<1>9. CASE ReadTimesOut(t)  BY <1>1, <1>9 DEF ReadTimesOut
<1>10. CASE Lost(t)  BY <1>1, <1>10 DEF Lost
<1>11. CASE GiveUp(t)  BY <1>1, <1>11 DEF GiveUp
<1> QED
  BY <1>2, <1>3, <1>4, <1>5, <1>6, <1>7, <1>8, <1>9, <1>10, <1>11 DEF Step

\* The operations of a manager and of its child keep the types of the process
\* state.
LEMMA ProcessTypes ==
    ASSUME ProcessTypeOK, NEW w \in Slot
    PROVE  /\ stop_worker(w) => ProcessTypeOK'
           /\ \A g \in Nat : start_worker(w, g) => ProcessTypeOK'
           /\ \A m \in RequestId : /\ write_execute(w, m) => ProcessTypeOK'
                                   /\ fromWorker[w] # <<>> /\ read_reply(w, m)
                                        => ProcessTypeOK'
           /\ ChildExecutes(w) \/ ChildReplies(w) \/ ChildDies(w)
                => ProcessTypeOK'
<1> USE DEF ProcessTypeOK
<1>1. worker[w] \in WorkerHandle /\ worker \in [Slot -> WorkerHandle]
  OBVIOUS
<1>2. /\ no_worker \in WorkerHandle
      /\ \A g \in Nat : [no_worker EXCEPT !.state = "up", !.born = g]
                          \in WorkerHandle
  BY DEF no_worker, WorkerHandle
<1>3. ASSUME NEW h \in WorkerHandle, Replace(w, h) PROVE ProcessTypeOK'
  BY <1>3 DEF Replace
<1>4. stop_worker(w) => ProcessTypeOK'
  BY <1>2, <1>3 DEF stop_worker
<1>5. \A g \in Nat : start_worker(w, g) => ProcessTypeOK'
  BY <1>2, <1>3 DEF start_worker
<1>6. ASSUME NEW m \in RequestId, write_execute(w, m) PROVE ProcessTypeOK'
  BY <1>6 DEF write_execute
<1>7. ASSUME NEW m \in RequestId, fromWorker[w] # <<>>, read_reply(w, m)
      PROVE  ProcessTypeOK'
  <2> DEFINE n == worker[w].completed + 1
  <2>1. [worker[w] EXCEPT !.completed = n] \in WorkerHandle
    <3>1. n \in Nat  BY <1>1 DEF WorkerHandle
    <3> HIDE DEF n
    <3> QED  BY <1>1, <3>1 DEF WorkerHandle
  <2>4. \/ worker' = worker
        \/ worker' = [worker EXCEPT ![w].completed = @ + 1]
    BY <1>7 DEF read_reply
  <2>2. worker' \in [Slot -> WorkerHandle]
    BY <1>1, <2>1, <2>4
  <2>3. fromWorker' \in [Slot -> Seq(ReplyMessage)]
    BY <1>7 DEF read_reply
  <2> QED  BY <1>7, <2>2, <2>3 DEF read_reply
<1>8. CASE ChildExecutes(w)
  <2>1. Head(toWorker[w]) \in RequestId /\ Tail(toWorker[w]) \in Seq(RequestId)
    BY <1>8 DEF ChildExecutes
  <2>2. [worker[w] EXCEPT !.running = Head(toWorker[w])] \in WorkerHandle
    BY <1>1, <2>1 DEF WorkerHandle
  <2>3. worker' \in [Slot -> WorkerHandle]
    BY <1>1, <1>8, <2>2 DEF ChildExecutes
  <2>4. toWorker' \in [Slot -> Seq(RequestId)] /\ effects' \in [Thread -> Nat]
    BY <1>8, <2>1 DEF ChildExecutes, RequestId
  <2> QED  BY <1>8, <2>3, <2>4 DEF ChildExecutes
<1>9. CASE ChildReplies(w)
  <2>1. worker[w].running \in RequestId
    BY <1>1, <1>9 DEF ChildReplies, WorkerHandle
  <2>2. \A k \in {"Response", "Error"} :
           [id |-> worker[w].running, kind |-> k] \in ReplyMessage
    BY <2>1 DEF ReplyMessage
  <2>3. fromWorker' \in [Slot -> Seq(ReplyMessage)]
    BY <1>9, <2>2 DEF ChildReplies
  <2>4. [worker[w] EXCEPT !.running = None] \in WorkerHandle
    BY <1>1 DEF WorkerHandle
  <2>5. worker' \in [Slot -> WorkerHandle]
    BY <1>1, <1>9, <2>4 DEF ChildReplies
  <2> QED  BY <1>9, <2>3, <2>5 DEF ChildReplies
<1>10. CASE ChildDies(w)
  <2>1. [worker[w] EXCEPT !.state = "dead", !.running = None] \in WorkerHandle
    BY <1>1 DEF WorkerHandle
  <2>2. worker' \in [Slot -> WorkerHandle]
    BY <1>1, <1>10, <2>1 DEF ChildDies
  <2> QED  BY <1>10, <2>2 DEF ChildDies
<1> QED  BY <1>4, <1>5, <1>6, <1>7, <1>8, <1>9, <1>10

\* Slots are numbered from 1.
LEMMA SlotFacts ==
    /\ Slot \subseteq Nat /\ 1 \in Slot
    /\ \A w \in Slot : /\ w < WorkerCount => w + 1 \in Slot
                       /\ ~(w < WorkerCount) => w = WorkerCount
                       /\ 1 <= w /\ w <= WorkerCount
  BY DEF Slot

\* Where a thread works on a slot it knows which one.
LEMMA OnSlot ==
    ASSUME TypeOK, ThreadInv, NEW t \in Thread, pc[t] \notin NoSlot
    PROVE  slot[t] \in Slot
  BY DEF TypeOK, ThreadInv

-----------------------------------------------------------------------------
(* Types, locals and attempts.                                             *)

\* The worker processes keep their types.
LEMMA ProcessTypeStep == ASSUME IndInv, [Next]_vars PROVE ProcessTypeOK'
<1>1. TypeOK /\ ProcessTypeOK /\ ThreadInv  BY DEF IndInv, TypeOK
<1>2. CASE Bump \/ UNCHANGED vars
  BY <1>1, <1>2 DEF Bump, vars, processVars, ProcessTypeOK
<1>3. ASSUME NEW w \in Slot, Execute(w) \/ Crash(w) PROVE ProcessTypeOK'
  BY <1>1, <1>3, ProcessTypes DEF Execute, Crash
<1>4. ASSUME NEW t \in Thread, Submit(t) \/ Step(t) PROVE ProcessTypeOK'
  <2>1. CASE UNCHANGED processVars
    BY <1>1, <2>1 DEF processVars, ProcessTypeOK
  <2>2. CASE pc[t] \notin NoSlot /\ Restart(t, result'[t], then'[t])
    BY <1>1, <2>2, OnSlot, ProcessTypes DEF Restart
  <2>3. CASE start_worker(slot[t], generation) /\ StartWorker(t)
    BY <1>1, <2>3, OnSlot, ProcessTypes
       DEF StartWorker, NoSlot, Outcome, TypeOK
  <2>4. CASE Send(t)
    <3>1. attempt[t] < 2  BY <1>1, <2>4 DEF Send, IndInv, AttemptInv, TypeOK
    <3>2. [by |-> t, attempt |-> attempt[t] + 1] \in RequestId
      BY <1>1, <3>1 DEF TypeOK, RequestId
    <3>3. slot[t] \in Slot  BY <1>1, <2>4, OnSlot DEF Send, NoSlot, Outcome
    <3> QED  BY <1>1, <2>4, <3>2, <3>3, ProcessTypes DEF Send
  <2>5. CASE Receive(t)
    <3>1. pc[t] = "read" /\ fromWorker[slot[t]] # <<>>
      BY <2>5 DEF Receive
    <3>2. id(t) \in RequestId
      BY <3>1 DEF IndInv, AttemptInv, id, RequestId
    <3>3. slot[t] \in Slot  BY <1>1, <3>1, OnSlot DEF NoSlot, Outcome
    <3>4. read_reply(slot[t], id(t))  BY <2>5 DEF Receive
    <3> QED  BY <1>1, <3>1, <3>2, <3>3, <3>4, ProcessTypes
  <2>6. CASE EndOfStream(t)
    BY <1>1, <2>6 DEF EndOfStream, processVars, ProcessTypeOK
  <2> QED  BY <1>1, <1>4, <2>1, <2>2, <2>3, <2>4, <2>5, <2>6, StepKinds
<1> QED  BY <1>2, <1>3, <1>4 DEF Next

\* The guards and counts a thread gives back are there.
LEMMA CountsPositive ==
    ASSUME IndInv, NEW t \in Thread
    PROVE  /\ HasGuard(t) => inFlight >= 1
           /\ pc[t] = "uncount" => slot[t] \in Slot /\ active[slot[t]] >= 1
<1>1. ASSUME NEW S \in SUBSET Thread, t \in S PROVE Cardinality(S) >= 1
  BY <1>1, ThreadsFinite, FS_Subset, FS_CardinalityType, FS_EmptySet
<1>2. HasGuard(t) => inFlight >= 1
  BY <1>1 DEF IndInv, AdmissionExact
<1>3. ASSUME pc[t] = "uncount"
      PROVE  slot[t] \in Slot /\ active[slot[t]] >= 1
  <2>1. slot[t] \in Slot  BY <1>3, OnSlot DEF IndInv, NoSlot, Outcome
  <2>2. HasGuard(t)  BY <1>3 DEF HasGuard, Admitted
  <2> QED  BY <1>1, <1>3, <2>1, <2>2 DEF IndInv, ActiveExact
<1> QED  BY <1>2, <1>3

\* Every variable keeps its type.
LEMMA TypeStep == ASSUME IndInv, [Next]_vars PROVE TypeOK'
<1>p. ProcessTypeOK'  BY ProcessTypeStep
<1> USE DEF IndInv, TypeOK, ThreadPC, InManager, Outcome, Continuation,
           threadVars, Goto, Decide, Return, Restart, ThreadInv,
           AttemptInv, NoSlot, reloadVars, poolVars
<1>1. CASE Bump  BY <1>1, <1>p DEF Bump
<1>2. ASSUME NEW w \in Slot, Execute(w) \/ Crash(w) PROVE TypeOK'
  BY <1>2, <1>p DEF Execute, Crash
<1>4. ASSUME NEW t \in Thread, Submit(t) \/ Step(t) PROVE TypeOK'
  <2>1. CASE Submit(t)  BY <2>1, <1>p DEF Submit
  <2>2. CASE LockReload(t)  BY <2>2, <1>p, SlotFacts DEF LockReload
  <2>3. CASE ReloadSlot(t)  BY <2>3, <1>p DEF ReloadSlot
  <2>4. CASE ReloadNext(t)
    <3>1. slot[t] \in Slot  BY <2>4 DEF ReloadNext
    <3>2. slot[t] < WorkerCount => slot[t] + 1 \in Slot
      BY <3>1, SlotFacts
    <3> QED  BY <2>4, <1>p, <3>1, <3>2 DEF ReloadNext
  <2>5. CASE ReloadFail(t)  BY <2>5, <1>p DEF ReloadFail
  <2>6. CASE Acquire(t)  BY <2>6, <1>p DEF Acquire, Admit, Refuse, Sleep
  <2>7. CASE SleepTimesOut(t)  BY <2>7, <1>p DEF SleepTimesOut
  <2>8. CASE Pick(t)  BY <2>8, <1>p DEF Pick
  <2>9. CASE Count(t)  BY <2>9, <1>p DEF Count
  <2>10. CASE LockManager(t)  BY <2>10, <1>p DEF LockManager
  <2>11. CASE Enter(t)  BY <2>11, <1>p DEF Enter
  <2>12. CASE Deadline(t)  BY <2>12, <1>p DEF Deadline
  <2>13. CASE StartWorker(t)  BY <2>13, <1>p DEF StartWorker
  <2>14. CASE Send(t)  BY <2>14, <1>p DEF Send
  <2>15. CASE Receive(t)  BY <2>15, <1>p, ZenonT(30) DEF Receive
  <2>16. CASE EndOfStream(t)  BY <2>16, <1>p DEF EndOfStream
  <2>17. CASE ReadTimesOut(t)  BY <2>17, <1>p DEF ReadTimesOut
  <2>18. CASE Lost(t)  BY <2>18, <1>p DEF Lost
  <2>19. CASE Resend(t)  BY <2>19, <1>p DEF Resend
  <2>20. CASE GiveUp(t)  BY <2>20, <1>p DEF GiveUp
  <2>21. CASE Unlock(t)  BY <2>21, <1>p DEF Unlock
  <2>22. CASE Uncount(t)  BY <2>22, <1>p, CountsPositive DEF Uncount
  <2>23. CASE Leave(t)
    BY <2>23, <1>p, CountsPositive DEF Leave, Sleepers, HasGuard, Admitted
  <2> QED
    BY <1>4, <2>1, <2>2, <2>3, <2>4, <2>5, <2>6, <2>7, <2>8, <2>9, <2>10,
       <2>11, <2>12, <2>13, <2>14, <2>15, <2>16, <2>17, <2>18, <2>19, <2>20,
       <2>21, <2>22, <2>23
       DEF Step
<1>5. CASE UNCHANGED vars  BY <1>5, <1>p DEF vars
<1> QED  BY <1>1, <1>2, <1>4, <1>5 DEF Next

\* A thread's locals follow its place.
LEMMA ThreadStep == ASSUME IndInv, [Next]_vars PROVE ThreadInv'
<1> USE DEF IndInv, TypeOK, ThreadPC, InManager, Outcome, Continuation,
           threadVars, Goto, Decide, Return, Restart, ThreadInv,
           AttemptInv, NoSlot
<1>1. CASE Bump  BY <1>1 DEF Bump
<1>2. ASSUME NEW w \in Slot, Execute(w) \/ Crash(w) PROVE ThreadInv'
  BY <1>2 DEF Execute, Crash
<1>4. ASSUME NEW t \in Thread, Submit(t) \/ Step(t) PROVE ThreadInv'
  <2>1. CASE Submit(t)  BY <2>1 DEF Submit
  <2>2. CASE LockReload(t)  BY <2>2, SlotFacts DEF LockReload
  <2>3. CASE ReloadSlot(t)  BY <2>3 DEF ReloadSlot
  <2>4. CASE ReloadNext(t)
    <3>1. slot[t] \in Slot  BY <2>4 DEF ReloadNext
    <3>2. slot[t] < WorkerCount => slot[t] + 1 \in Slot
      BY <3>1, SlotFacts
    <3> QED  BY <2>4, <3>1, <3>2 DEF ReloadNext
  <2>5. CASE ReloadFail(t)  BY <2>5 DEF ReloadFail
  <2>6. CASE Acquire(t)  BY <2>6 DEF Acquire, Admit, Refuse, Sleep
  <2>7. CASE SleepTimesOut(t)  BY <2>7 DEF SleepTimesOut
  <2>8. CASE Pick(t)  BY <2>8 DEF Pick
  <2>9. CASE Count(t)  BY <2>9 DEF Count
  <2>10. CASE LockManager(t)  BY <2>10 DEF LockManager
  <2>11. CASE Enter(t)  BY <2>11 DEF Enter
  <2>12. CASE Deadline(t)  BY <2>12 DEF Deadline
  <2>13. CASE StartWorker(t)  BY <2>13 DEF StartWorker
  <2>14. CASE Send(t)  BY <2>14 DEF Send
  <2>15. CASE Receive(t)  BY <2>15 DEF Receive
  <2>16. CASE EndOfStream(t)  BY <2>16 DEF EndOfStream
  <2>17. CASE ReadTimesOut(t)  BY <2>17 DEF ReadTimesOut
  <2>18. CASE Lost(t)  BY <2>18 DEF Lost
  <2>19. CASE Resend(t)  BY <2>19 DEF Resend
  <2>20. CASE GiveUp(t)  BY <2>20 DEF GiveUp
  <2>21. CASE Unlock(t)  BY <2>21 DEF Unlock
  <2>22. CASE Uncount(t)  BY <2>22 DEF Uncount
  <2>23. CASE Leave(t)  BY <2>23 DEF Leave, Sleepers
  <2> QED
    BY <1>4, <2>1, <2>2, <2>3, <2>4, <2>5, <2>6, <2>7, <2>8, <2>9, <2>10,
       <2>11, <2>12, <2>13, <2>14, <2>15, <2>16, <2>17, <2>18, <2>19, <2>20,
       <2>21, <2>22, <2>23
       DEF Step
<1>5. CASE UNCHANGED vars  BY <1>5 DEF vars
<1> QED  BY <1>1, <1>2, <1>4, <1>5 DEF Next

\* At most two Executes are written, one if a repeat would be unsafe.
LEMMA AttemptStep == ASSUME IndInv, [Next]_vars PROVE AttemptInv'
<1> USE DEF IndInv, TypeOK, ThreadPC, InManager, Outcome, Continuation,
           threadVars, Goto, Decide, Return, Restart, ThreadInv,
           AttemptInv, can_retry_request
<1>1. CASE Bump  BY <1>1 DEF Bump
<1>2. ASSUME NEW w \in Slot, Execute(w) \/ Crash(w) PROVE AttemptInv'
  BY <1>2 DEF Execute, Crash
<1>4. ASSUME NEW t \in Thread, Submit(t) \/ Step(t) PROVE AttemptInv'
  <2>1. CASE Submit(t)  BY <2>1 DEF Submit
  <2>2. CASE LockReload(t)  BY <2>2 DEF LockReload
  <2>3. CASE ReloadSlot(t)  BY <2>3 DEF ReloadSlot
  <2>4. CASE ReloadNext(t)  BY <2>4 DEF ReloadNext
  <2>5. CASE ReloadFail(t)  BY <2>5 DEF ReloadFail
  <2>6. CASE Acquire(t)  BY <2>6 DEF Acquire, Admit, Refuse, Sleep
  <2>7. CASE SleepTimesOut(t)  BY <2>7 DEF SleepTimesOut
  <2>8. CASE Pick(t)  BY <2>8 DEF Pick
  <2>9. CASE Count(t)  BY <2>9 DEF Count
  <2>10. CASE LockManager(t)  BY <2>10 DEF LockManager
  <2>11. CASE Enter(t)  BY <2>11 DEF Enter
  <2>12. CASE Deadline(t)  BY <2>12 DEF Deadline
  <2>13. CASE StartWorker(t)  BY <2>13 DEF StartWorker
  <2>14. CASE Send(t)  BY <2>14 DEF Send
  <2>15. CASE Receive(t)  BY <2>15 DEF Receive
  <2>16. CASE EndOfStream(t)  BY <2>16 DEF EndOfStream
  <2>17. CASE ReadTimesOut(t)  BY <2>17 DEF ReadTimesOut
  <2>18. CASE Lost(t)  BY <2>18 DEF Lost
  <2>19. CASE Resend(t)  BY <2>19 DEF Resend
  <2>20. CASE GiveUp(t)  BY <2>20 DEF GiveUp
  <2>21. CASE Unlock(t)  BY <2>21 DEF Unlock
  <2>22. CASE Uncount(t)  BY <2>22 DEF Uncount
  <2>23. CASE Leave(t)  BY <2>23 DEF Leave, Sleepers
  <2> QED
    BY <1>4, <2>1, <2>2, <2>3, <2>4, <2>5, <2>6, <2>7, <2>8, <2>9, <2>10,
       <2>11, <2>12, <2>13, <2>14, <2>15, <2>16, <2>17, <2>18, <2>19, <2>20,
       <2>21, <2>22, <2>23
       DEF Step
<1>5. CASE UNCHANGED vars  BY <1>5 DEF vars
<1> QED  BY <1>1, <1>2, <1>4, <1>5 DEF Next

-----------------------------------------------------------------------------
(* Locks.                                                                  *)

\* What the threads other than t hold stays theirs.
LEMMA HoldsFrame ==
    ASSUME IndInv, NEW t \in Thread, Submit(t) \/ Step(t),
           NEW u \in Thread \ {t}
    PROVE  /\ \A w \in Slot : Holds(u, w)' <=> Holds(u, w)
           /\ HoldsReload(u)' <=> HoldsReload(u)
  BY ThreadFrame DEF IndInv, Holds, HoldsReload, Holding, InManager

\* Every mutex is owned by the thread that is inside it, and by no other.
LEMMA LockStep == ASSUME IndInv, [Next]_vars PROVE LockInv'
<1>1. /\ \A t \in Thread, w \in Slot : lock[w] = t <=> Holds(t, w)
      /\ \A t \in Thread : reloadLock = t <=> HoldsReload(t)
  BY DEF IndInv, LockInv
<1>2. CASE Bump \/ (\E w \in Slot : Execute(w) \/ Crash(w)) \/ UNCHANGED vars
  <2>1. UNCHANGED <<lock, reloadLock, slot, pc, then>>
    BY <1>2 DEF Bump, Execute, Crash, vars, poolVars, reloadVars, threadVars
  <2> QED  BY <2>1 DEF IndInv, LockInv, Holds, HoldsReload
<1>3. ASSUME NEW t \in Thread, Submit(t) \/ Step(t) PROVE LockInv'
  <2> USE DEF Holds, HoldsReload, Holding, InManager, Outcome, Goto, Decide,
              Return, Restart
  <2>t. TypeOK /\ ThreadInv /\ None # "reloadNext"
    BY NoneAssumption DEF IndInv, ThreadPC
  <2>f. \A u \in Thread \ {t} :
           /\ \A w \in Slot : Holds(u, w)' <=> Holds(u, w)
           /\ HoldsReload(u)' <=> HoldsReload(u)
    BY <1>3, HoldsFrame
  <2>1. ASSUME UNCHANGED <<lock, reloadLock>>,
               \A w \in Slot : Holds(t, w)' <=> Holds(t, w),
               HoldsReload(t)' <=> HoldsReload(t)
        PROVE  LockInv'
    <3> HIDE DEF Holds, HoldsReload
    <3>1. \A u \in Thread, w \in Slot : lock'[w] = u <=> Holds(u, w)'
      BY <1>1, <2>f, <2>1
    <3>2. \A u \in Thread : reloadLock' = u <=> HoldsReload(u)'
      BY <1>1, <2>f, <2>1
    <3> QED  BY <3>1, <3>2 DEF LockInv, Holds, HoldsReload
  <2>2. ASSUME NEW v \in Slot, lock[v] = None, lock' = [lock EXCEPT ![v] = t],
               slot'[t] = v, pc'[t] \in Holding, pc[t] \notin Holding,
               reloadLock' = reloadLock, HoldsReload(t)' <=> HoldsReload(t)
        PROVE  LockInv'
    <3>1. \A u \in Thread, w \in Slot : lock'[w] = u <=> Holds(u, w)'
      BY <1>1, <2>t, <2>f, <2>2 DEF TypeOK
    <3>2. \A u \in Thread : reloadLock' = u <=> HoldsReload(u)'
      BY <1>1, <2>f, <2>2
    <3> QED  BY <3>1, <3>2 DEF LockInv
  <2>3. ASSUME NEW v \in Slot, lock' = [lock EXCEPT ![v] = None],
               Holds(t, v), pc'[t] \notin Holding,
               \/ reloadLock' = reloadLock /\ (HoldsReload(t)' <=> HoldsReload(t))
               \/ reloadLock' = None /\ HoldsReload(t) /\ ~HoldsReload(t)'
        PROVE  LockInv'
    <3>1. \A u \in Thread, w \in Slot : lock'[w] = u <=> Holds(u, w)'
      BY <1>1, <2>t, <2>f, <2>3 DEF TypeOK
    <3> HIDE DEF Holds, HoldsReload
    <3>2. \A u \in Thread : reloadLock' = u <=> HoldsReload(u)'
      BY <1>1, <2>f, <2>3
    <3> QED  BY <3>1, <3>2 DEF LockInv, Holds, HoldsReload
  <2>4. CASE Submit(t)
    BY <2>1, <2>4, <2>t DEF Submit, TypeOK, poolVars, reloadVars
  <2>5. CASE LockReload(t)
    <3>1. pc[t] = "reload" /\ then' = then /\ lock' = lock
      BY <2>5 DEF LockReload, poolVars
    <3>2. CASE lastRestart = gen[t]
      BY <2>1, <2>5, <3>1, <3>2, <2>t DEF LockReload, TypeOK
    <3>3. CASE lastRestart # gen[t]
      <4>1. /\ reloadLock = None /\ reloadLock' = t /\ pc'[t] = "reloadSlot"
        BY <2>5, <2>t, <3>3 DEF LockReload, TypeOK
      <4>2. \A u \in Thread, w \in Slot : lock'[w] = u <=> Holds(u, w)'
        BY <1>1, <2>f, <3>1, <4>1
      <4>3. \A u \in Thread : reloadLock' = u <=> HoldsReload(u)'
        BY <1>1, <2>f, <4>1
      <4> QED  BY <4>2, <4>3 DEF LockInv
    <3> QED  BY <3>2, <3>3
  <2>6. CASE ReloadSlot(t)
    <3>1. slot[t] \in Slot  BY <2>t, <2>6, OnSlot DEF ReloadSlot, NoSlot
    <3> QED  BY <2>2, <2>6, <2>t, <3>1 DEF ReloadSlot, TypeOK, reloadVars
  <2>7. CASE ReloadNext(t)
    <3>1. slot[t] \in Slot  BY <2>t, <2>7, OnSlot DEF ReloadNext, NoSlot
    <3>2. pc'[t] = "reloadSlot" \/ (pc'[t] = "acquire" /\ then'[t] = None)
      BY <2>t, <2>7 DEF ReloadNext, TypeOK, ThreadInv
    <3> QED  BY <2>3, <2>7, <2>t, <3>1, <3>2 DEF ReloadNext, TypeOK
  <2>8. CASE ReloadFail(t)
    <3>1. slot[t] \in Slot  BY <2>t, <2>8, OnSlot DEF ReloadFail, NoSlot
    <3> QED  BY <2>3, <2>8, <2>t, <3>1 DEF ReloadFail, TypeOK
  <2>9. CASE Acquire(t)
    BY <2>1, <2>9, <2>t DEF Acquire, Admit, Refuse, Sleep, TypeOK,
       reloadVars, ThreadInv
  <2>10. CASE SleepTimesOut(t)
    BY <2>1, <2>10, <2>t DEF SleepTimesOut, TypeOK, poolVars, reloadVars
  <2>11. CASE Pick(t)
    BY <2>1, <2>11, <2>t DEF Pick, TypeOK, poolVars, reloadVars
  <2>12. CASE Count(t)
    BY <2>1, <2>12, <2>t DEF Count, TypeOK, reloadVars
  <2>13. CASE LockManager(t)
    <3>1. slot[t] \in Slot  BY <2>t, <2>13, OnSlot DEF LockManager, NoSlot
    <3> QED  BY <2>2, <2>13, <2>t, <3>1 DEF LockManager, TypeOK, reloadVars
  <2>14. CASE Enter(t)
    BY <2>1, <2>14, <2>t DEF Enter, TypeOK, ThreadInv, poolVars, reloadVars
  <2>15. CASE Deadline(t)
    BY <2>1, <2>15, <2>t DEF Deadline, TypeOK, ThreadInv, poolVars, reloadVars
  <2>16. CASE StartWorker(t)
    BY <2>1, <2>16, <2>t DEF StartWorker, TypeOK, ThreadInv, Continuation,
                             poolVars, reloadVars
  <2>17. CASE Send(t)
    BY <2>1, <2>17, <2>t DEF Send, TypeOK, poolVars, reloadVars
  <2>18. CASE Receive(t)
    BY <2>1, <2>18, <2>t DEF Receive, TypeOK, poolVars, reloadVars
  <2>19. CASE EndOfStream(t)
    BY <2>1, <2>19, <2>t DEF EndOfStream, TypeOK, poolVars, reloadVars
  <2>20. CASE ReadTimesOut(t)
    BY <2>1, <2>20, <2>t DEF ReadTimesOut, TypeOK, ThreadInv, poolVars,
       reloadVars
  <2>21. CASE Lost(t)
    BY <2>1, <2>21, <2>t DEF Lost, TypeOK, ThreadInv, poolVars, reloadVars
  <2>22. CASE Resend(t)
    BY <2>1, <2>22, <2>t DEF Resend, TypeOK, poolVars, reloadVars
  <2>23. CASE GiveUp(t)
    BY <2>1, <2>23, <2>t DEF GiveUp, TypeOK, ThreadInv, poolVars, reloadVars
  <2>24. CASE Unlock(t)
    <3>1. slot[t] \in Slot  BY <2>t, <2>24, OnSlot DEF Unlock, NoSlot
    <3> QED  BY <2>3, <2>24, <2>t, <3>1 DEF Unlock, TypeOK, reloadVars
  <2>25. CASE Uncount(t)
    BY <2>1, <2>25, <2>t DEF Uncount, TypeOK, reloadVars
  <2>26. CASE Leave(t)
    BY <2>1, <2>26, <2>t DEF Leave, Sleepers, TypeOK, ThreadInv, reloadVars
  <2> QED
    BY <1>3, <2>4, <2>5, <2>6, <2>7, <2>8, <2>9, <2>10, <2>11, <2>12, <2>13,
       <2>14, <2>15, <2>16, <2>17, <2>18, <2>19, <2>20, <2>21, <2>22, <2>23,
       <2>24, <2>25, <2>26 DEF Step
<1> QED  BY <1>2, <1>3 DEF Next

-----------------------------------------------------------------------------
(* The streams.                                                            *)

SameStream(w) == /\ worker'[w] = worker[w]
                 /\ toWorker'[w] = toWorker[w]
                 /\ fromWorker'[w] = fromWorker[w]

\* A thread touches the worker of its own slot only, and runs no page.
LEMMA StreamFrame ==
    ASSUME IndInv, NEW t \in Thread, Submit(t) \/ Step(t)
    PROVE  /\ \A w \in Slot : w # slot[t] => SameStream(w)
           /\ effects' = effects
<1>1. TypeOK /\ ProcessTypeOK  BY DEF IndInv, TypeOK
<1> USE <1>1 DEF SameStream, ProcessTypeOK
<1>2. CASE UNCHANGED processVars  BY <1>2 DEF processVars
<1>3. CASE Restart(t, result'[t], then'[t])
  BY <1>3 DEF Restart, stop_worker, Replace
<1>4. CASE start_worker(slot[t], generation)
  BY <1>4 DEF start_worker, Replace
<1>5. CASE Send(t)  BY <1>5 DEF Send, write_execute
<1>6. CASE Receive(t)
  <2>1. read_reply(slot[t], id(t))  BY <1>6 DEF Receive
  <2> QED  BY <2>1 DEF read_reply
<1>7. CASE EndOfStream(t)  BY <1>7 DEF EndOfStream, processVars
<1> QED  BY <1>2, <1>3, <1>4, <1>5, <1>6, <1>7, StepKinds

\* An owner is alone in its slot's manager.
LEMMA OneHolder ==
    ASSUME IndInv, NEW t \in Thread, NEW u \in Thread,
           pc[t] \in Holding, pc[u] \in Holding, slot[t] = slot[u]
    PROVE  t = u
<1>1. slot[t] \in Slot
  BY OnSlot DEF IndInv, Holding, InManager, NoSlot, Outcome
<1> QED  BY <1>1 DEF IndInv, LockInv, Holds

\* A stream that nobody has changed still carries its reader's request.
LEMMA StreamKept ==
    ASSUME IndInv, NEW w \in Slot, SameStream(w),
           \A u \in Thread : slot[u] = w /\ pc[u] = "read"
              => /\ slot'[u] = w /\ pc'[u] = "read"
                 /\ attempt'[u] = attempt[u]
    PROVE  StreamOK(w)'
<1>1. CASE Quiet(w)  BY <1>1 DEF StreamOK, Quiet, SameStream
<1>2. ASSUME NEW u \in Thread, slot[u] = w, pc[u] = "read", Carries(w, id(u))
      PROVE  StreamOK(w)'
  <2> DEFINE m == id(u)
  <2>1. m' = m  BY <1>2 DEF id
  <2>2. Carries(w, m)' <=> Carries(w, m)
    <3> HIDE DEF m
    <3> QED  BY <2>1 DEF Carries, SameStream
  <2> QED  BY <1>2, <2>2 DEF StreamOK
<1> QED  BY <1>1, <1>2 DEF IndInv, StreamInv, StreamOK

\* A thread that reads finds nothing or its own request.
LEMMA ReaderStream ==
    ASSUME IndInv, NEW t \in Thread, pc[t] = "read"
    PROVE  slot[t] \in Slot /\ (Quiet(slot[t]) \/ Carries(slot[t], id(t)))
<1>1. slot[t] \in Slot  BY OnSlot DEF IndInv, NoSlot, Outcome
<1>2. \A u \in Thread : slot[u] = slot[t] /\ pc[u] = "read" => u = t
  BY OneHolder DEF Holding, InManager
<1> QED  BY <1>1, <1>2 DEF IndInv, StreamInv, StreamOK

\* The child moves its one request along; when it dies only a reply that is
\* already written is left.
LEMMA StreamChild ==
    ASSUME IndInv, NEW w \in Slot, Execute(w) \/ Crash(w) PROVE StreamOK(w)'
<1>1. TypeOK /\ ProcessTypeOK /\ UNCHANGED <<pc, slot, attempt>>
  BY DEF IndInv, TypeOK, Execute, Crash, threadVars
<1>2. worker[w] \in WorkerHandle  BY <1>1 DEF ProcessTypeOK
<1>3. ASSUME NEW u \in Thread, slot[u] = w, pc[u] = "read", Carries(w, id(u))
      PROVE  StreamOK(w)'
  <2> DEFINE m == id(u)
  <2>1. m' = m  BY <1>1 DEF id
  <2>2. m # None
    <3>1. attempt[u] \in 1 .. 2  BY <1>3 DEF IndInv, AttemptInv
    <3> QED  BY <3>1, NoneAssumption DEF id, RequestId
  <2>3. Carries(w, m)  BY <1>3
  <2>4. Carries(w, m)' => StreamOK(w)'  BY <1>1, <1>3 DEF StreamOK
  <2> HIDE DEF m
  <2>5. CASE ChildExecutes(w)
    <3>1. toWorker[w] = <<m>> /\ fromWorker[w] = <<>>
      BY <2>3, <2>5 DEF Carries, ChildExecutes
    <3>2. toWorker'[w] = <<>> /\ fromWorker'[w] = <<>>
      BY <1>1, <2>5, <3>1 DEF ChildExecutes, ProcessTypeOK
    <3>3. worker'[w].running = m
      BY <1>1, <1>2, <2>5, <3>1 DEF ChildExecutes, ProcessTypeOK, WorkerHandle
    <3> QED  BY <2>1, <2>4, <3>2, <3>3 DEF Carries
  <2>6. CASE ChildReplies(w)
    <3>1. /\ toWorker[w] = <<>> /\ fromWorker[w] = <<>>
          /\ worker[w].running = m
      BY <2>3, <2>6 DEF Carries, ChildReplies
    <3>2. \E k \in {"Response", "Error"} :
             fromWorker'[w] = <<[id |-> m, kind |-> k]>>
      BY <1>1, <2>6, <3>1 DEF ChildReplies, ProcessTypeOK
    <3>3. toWorker'[w] = <<>> /\ worker'[w].running = None
      BY <1>1, <1>2, <2>6, <3>1
         DEF ChildReplies, ProcessTypeOK, WorkerHandle
    <3> QED  BY <2>1, <2>4, <3>2, <3>3 DEF Carries
  <2>7. CASE ChildDies(w)
    <3>1. /\ toWorker'[w] = <<>> /\ fromWorker'[w] = fromWorker[w]
          /\ worker'[w].running = None
      BY <1>1, <1>2, <2>7 DEF ChildDies, ProcessTypeOK, WorkerHandle
    <3> QED  BY <2>1, <2>3, <2>4, <3>1 DEF Carries, Quiet, StreamOK
  <2> QED  BY <2>5, <2>6, <2>7 DEF Execute, Crash
<1>4. CASE Quiet(w)
  <2>1. ChildDies(w)
    BY <1>4 DEF Quiet, Execute, Crash, ChildExecutes, ChildReplies
  <2>2. /\ toWorker'[w] = <<>> /\ fromWorker'[w] = fromWorker[w]
        /\ worker'[w].running = None
    BY <1>1, <1>2, <2>1 DEF ChildDies, ProcessTypeOK, WorkerHandle
  <2> QED  BY <1>4, <2>2 DEF Quiet, StreamOK
<1> QED  BY <1>3, <1>4 DEF IndInv, StreamInv, StreamOK

\* A manager starts on a quiet stream, waits on it alone and leaves it quiet.
LEMMA StreamThread ==
    ASSUME IndInv, NEW t \in Thread, Submit(t) \/ Step(t),
           NEW w \in Slot, slot[t] = w
    PROVE  StreamOK(w)'
<1>1. TypeOK /\ ProcessTypeOK /\ ThreadInv  BY DEF IndInv, TypeOK
<1>2. CASE UNCHANGED processVars /\ pc[t] # "read"
  <2>1. SameStream(w)  BY <1>2 DEF SameStream, processVars
  <2>2. \A u \in Thread \ {t} : pc[u] = "read" =>
           /\ slot'[u] = slot[u] /\ pc'[u] = "read"
           /\ attempt'[u] = attempt[u]
    BY <1>1, ThreadFrame
  <2> QED  BY <1>2, <2>1, <2>2, StreamKept
<1>3. CASE Restart(t, result'[t], then'[t])
  <2>1. Replace(w, no_worker)  BY <1>3 DEF Restart, stop_worker
  <2>2. /\ worker'[w] = no_worker
        /\ toWorker'[w] = <<>> /\ fromWorker'[w] = <<>>
    BY <1>1, <2>1 DEF Replace, ProcessTypeOK
  <2> QED  BY <2>2 DEF StreamOK, Quiet, no_worker
<1>4. CASE start_worker(slot[t], generation)
  <2> DEFINE h == [no_worker EXCEPT !.state = "up", !.born = generation]
  <2>1. /\ worker'[w] = h
        /\ toWorker'[w] = <<>> /\ fromWorker'[w] = <<>>
    BY <1>1, <1>4 DEF start_worker, Replace, ProcessTypeOK
  <2>2. h.running = None  BY DEF no_worker
  <2> HIDE DEF h
  <2> QED  BY <2>1, <2>2 DEF StreamOK, Quiet
<1>5. ASSUME pc[t] \in Holding, pc[t] # "read" PROVE Quiet(w)
  <2>1. \A u \in Thread : ~(slot[u] = w /\ pc[u] = "read")
    BY <1>5, OneHolder DEF Holding, InManager
  <2> QED  BY <2>1 DEF IndInv, StreamInv, StreamOK
<1>6. CASE Send(t)
  <2>1. Quiet(w)  BY <1>5, <1>6 DEF Send, Holding, InManager
  <2> DEFINE m == [by |-> t, attempt |-> attempt[t] + 1]
  <2>2. write_execute(w, m)  BY <1>6 DEF Send
  <2>3. CASE worker[w].state = "up"
    <3>1. pc'[t] = "read" /\ slot'[t] = w /\ id(t)' = m
      BY <1>1, <1>6, <2>3 DEF Send, TypeOK, id
    <3> HIDE DEF m
    <3>2. /\ toWorker'[w] = <<m>> /\ fromWorker'[w] = <<>>
          /\ worker'[w].running = None
      BY <1>1, <2>1, <2>2, <2>3 DEF write_execute, Quiet, ProcessTypeOK
    <3> QED  BY <3>1, <3>2 DEF StreamOK, Carries
  <2>4. CASE worker[w].state # "up"
    BY <2>1, <2>2, <2>4 DEF write_execute, Quiet, StreamOK
  <2> QED  BY <2>3, <2>4
<1>8. CASE Receive(t)
  <2> DEFINE m == id(t)
  <2>1. fromWorker[w] # <<>> /\ pc[t] = "read" /\ read_reply(w, m)
    BY <1>8 DEF Receive
  <2>2. Carries(w, m)  BY <2>1, ReaderStream DEF Quiet
  <2> HIDE DEF m
  <2>3. /\ toWorker[w] = <<>> /\ worker[w].running = None
        /\ \E k \in {"Response", "Error"} :
             fromWorker[w] = <<[id |-> m, kind |-> k]>>
    BY <2>1, <2>2 DEF Carries
  <2>4. fromWorker'[w] = <<>>
    BY <1>1, <2>1, <2>3 DEF read_reply, ProcessTypeOK
  <2>5. worker'[w].running = None
    <3>1. worker[w] \in WorkerHandle  BY <1>1 DEF ProcessTypeOK
    <3>2. \/ worker' = worker
          \/ worker' = [worker EXCEPT ![w].completed = @ + 1]
      BY <2>1 DEF read_reply
    <3> QED  BY <1>1, <2>3, <3>1, <3>2 DEF ProcessTypeOK, WorkerHandle
  <2> QED  BY <2>1, <2>3, <2>4, <2>5 DEF StreamOK, Quiet, read_reply
<1>9. CASE EndOfStream(t)
  <2>1. toWorker[w] = <<>> /\ fromWorker[w] = <<>> /\ worker[w].running = None
    BY <1>9 DEF EndOfStream, IndInv, WorkerInv
  <2> QED  BY <1>9, <2>1 DEF EndOfStream, processVars, StreamOK, Quiet
<1> QED
  BY <1>1, <1>2, <1>3, <1>4, <1>6, <1>8, <1>9, StepKinds

\* Nothing is ever on its way to a manager that is not waiting for it.
LEMMA StreamStep == ASSUME IndInv, [Next]_vars PROVE StreamInv'
<1> SUFFICES ASSUME NEW w \in Slot PROVE StreamOK(w)'
  BY DEF StreamInv
<1>1. TypeOK /\ ProcessTypeOK  BY DEF IndInv, TypeOK
<1>2. CASE Bump \/ UNCHANGED vars
  <2>1. SameStream(w) /\ UNCHANGED <<slot, pc, attempt>>
    BY <1>2 DEF Bump, vars, processVars, threadVars, SameStream
  <2> QED  BY <2>1, StreamKept
<1>3. ASSUME NEW v \in Slot, Execute(v) \/ Crash(v) PROVE StreamOK(w)'
  <2>1. CASE v = w  BY <1>3, <2>1, StreamChild
  <2>2. CASE v # w
    <3>1. UNCHANGED <<slot, pc, attempt>>
      BY <1>3 DEF Execute, Crash, threadVars
    <3>2. SameStream(w)
      BY <1>1, <1>3, <2>2 DEF Execute, Crash, ChildExecutes, ChildReplies,
                              ChildDies, SameStream, ProcessTypeOK
    <3> QED  BY <3>1, <3>2, StreamKept
  <2> QED  BY <2>1, <2>2
<1>4. ASSUME NEW t \in Thread, Submit(t) \/ Step(t) PROVE StreamOK(w)'
  <2>1. CASE slot[t] = w  BY <1>4, <2>1, StreamThread
  <2>2. CASE slot[t] # w
    <3>1. SameStream(w)  BY <1>4, <2>2, StreamFrame
    <3>2. \A u \in Thread \ {t} : pc[u] = "read" =>
             /\ slot'[u] = slot[u] /\ pc'[u] = "read"
             /\ attempt'[u] = attempt[u]
      BY <1>1, <1>4, ThreadFrame
    <3> QED  BY <2>2, <3>1, <3>2, StreamKept
  <2> QED  BY <2>1, <2>2
<1> QED  BY <1>2, <1>3, <1>4 DEF Next

-----------------------------------------------------------------------------
(* The workers behind the streams.                                         *)

\* Nobody touches the worker of a slot whose manager another thread holds.
LEMMA OwnerFrame ==
    ASSUME IndInv, NEW t \in Thread, Submit(t) \/ Step(t),
           NEW u \in Thread \ {t}, pc[u] \in Holding
    PROVE  slot[u] \in Slot /\ SameStream(slot[u])
<1>1. TypeOK /\ ThreadInv /\ slot[u] \in Slot
  BY OnSlot DEF IndInv, Holding, InManager, NoSlot, Outcome
<1>2. CASE slot[u] # slot[t]  BY <1>1, <1>2, StreamFrame
<1>3. CASE slot[u] = slot[t]
  <2>1. pc[t] \notin Holding  BY <1>3, OneHolder
  <2>2. lock[slot[t]] # None
    BY <1>1, <1>3, ThreadAssumption DEF IndInv, LockInv, Holds
  <2>3. UNCHANGED processVars
    BY <1>1, <2>1, <2>2, StepKinds
       DEF Holding, InManager, StartWorker, Send, Receive, EndOfStream
  <2> QED  BY <1>1, <2>3 DEF SameStream, processVars
<1> QED  BY <1>2, <1>3

\* What the invariant says of the handle that thread t works on.
HandleOK(t) ==
    /\ pc[t] = "starting" => worker[slot[t]] = no_worker
    /\ pc[t] = "read" => worker[slot[t]].state # "none"
    /\ pc[t] \in {"deadline", "send", "read", "lost", "resend"}
         => worker[slot[t]].completed < RecycleAfter

\* A manager call works on a fresh handle or on one that is not used up.
LEMMA HandleStep ==
    ASSUME IndInv, NEW t \in Thread, Submit(t) \/ Step(t) PROVE HandleOK(t)'
<1>1. TypeOK /\ ThreadInv /\ ProcessTypeOK /\ HandleOK(t)
  BY DEF IndInv, TypeOK, WorkerInv, HandleOK
<1>2. pc[t] \notin NoSlot => slot[t] \in Slot  BY <1>1, OnSlot
<1>3. ASSUME NEW d, NEW l, Restart(t, d, l), pc[t] \notin NoSlot
      PROVE  HandleOK(t)'
  <2>1. worker'[slot[t]] = no_worker /\ pc'[t] = "starting" /\ slot' = slot
    BY <1>1, <1>2, <1>3 DEF Restart, stop_worker, Replace, ProcessTypeOK,
       TypeOK
  <2> QED  BY <2>1 DEF HandleOK
<1>4. CASE start_worker(slot[t], generation) /\ StartWorker(t)
  <2>1. /\ slot[t] \in Slot /\ slot' = slot
        /\ pc'[t] # "starting"
    BY <1>1, <1>2, <1>4
       DEF StartWorker, NoSlot, Outcome, TypeOK, ThreadInv, Continuation
  <2>2. worker'[slot[t]] = [no_worker EXCEPT !.state = "up",
                                             !.born = generation]
    BY <1>1, <1>4, <2>1 DEF start_worker, Replace, ProcessTypeOK
  <2>3. worker'[slot[t]].completed = 0 /\ worker'[slot[t]].state = "up"
    BY <2>2 DEF no_worker
  <2> QED  BY <2>1, <2>3, RecycleAssumption DEF HandleOK
<1>5. CASE Send(t)
  <2>1. worker' = worker /\ slot' = slot /\ pc[t] = "send"
    BY <1>5 DEF Send, write_execute
  <2>2. pc'[t] = "lost" \/ (pc'[t] = "read" /\ worker[slot[t]].state = "up")
    BY <1>1, <1>5 DEF Send, TypeOK
  <2> QED  BY <1>1, <2>1, <2>2 DEF HandleOK
<1>6. CASE Receive(t)
  <2>1. /\ slot' = slot /\ pc[t] = "read" /\ read_reply(slot[t], id(t))
        /\ fromWorker[slot[t]] # <<>>
    BY <1>6 DEF Receive, Decide, Goto
  <2>2. \/ pc'[t] = "unlock"
        \/ /\ pc'[t] = "lost"
           /\ Head(fromWorker[slot[t]]) # [id |-> id(t), kind |-> "Response"]
    BY <1>1, <1>6 DEF Receive, Decide, Goto, TypeOK
  <2>3. pc'[t] = "lost" => worker' = worker
    BY <2>1, <2>2 DEF read_reply
  <2> QED  BY <1>1, <2>1, <2>2, <2>3 DEF HandleOK
<1>7. CASE EndOfStream(t)
  BY <1>1, <1>7 DEF EndOfStream, Goto, TypeOK, HandleOK, processVars
<1>8. CASE UNCHANGED processVars /\ pc[t] # "read"
  <2> USE <1>1, <1>8 DEF HandleOK, TypeOK, processVars, Goto, Decide, Return,
              NoSlot, Outcome
  <2>1. CASE Enter(t)
    <3>1. slot[t] \in Slot  BY <1>2, <2>1 DEF Enter
    <3>2. ~should_recycle(slot[t]) => worker[slot[t]].completed < RecycleAfter
      BY <3>1, RecycleAssumption
         DEF should_recycle, HasWorker, IndInv, WorkerInv, no_worker,
             ProcessTypeOK, WorkerHandle
    <3> QED  BY <1>3, <2>1, <3>2 DEF Enter
  <2>2. CASE Deadline(t)  BY <1>3, <2>2 DEF Deadline
  <2>3. CASE StartWorker(t)  BY <1>4, <2>3 DEF StartWorker
  <2>4. CASE Lost(t)  BY <1>3, <2>4 DEF Lost
  <2>5. CASE Resend(t)  BY <2>5 DEF Resend
  <2>6. CASE GiveUp(t)  BY <1>3, <2>6 DEF GiveUp
  <2>7. CASE ReloadSlot(t)  BY <1>3, <2>7 DEF ReloadSlot
  <2>8. CASE Submit(t) \/ LockReload(t) \/ ReloadNext(t) \/ ReloadFail(t)
    BY <2>8 DEF Submit, LockReload, ReloadNext, ReloadFail
  <2>9. CASE Acquire(t)  BY <2>9 DEF Acquire, Admit, Refuse, Sleep
  <2>10. CASE \/ SleepTimesOut(t) \/ Pick(t) \/ Count(t) \/ LockManager(t)
              \/ Unlock(t) \/ Uncount(t)
    BY <2>10 DEF SleepTimesOut, Pick, Count, LockManager, Unlock, Uncount
  <2>11. CASE Leave(t)
    BY <2>11 DEF Leave, Sleepers, Outcome, ThreadInv
  <2>12. CASE Send(t) \/ Receive(t) \/ EndOfStream(t)
    BY <2>12, <1>5, <1>6, <1>7
  <2>13. CASE ReadTimesOut(t)  BY <1>3, <2>13 DEF ReadTimesOut
  <2> QED
    BY <2>1, <2>2, <2>3, <2>4, <2>5, <2>6, <2>7, <2>8, <2>9, <2>10, <2>11,
       <2>12, <2>13 DEF Step
<1> QED  BY <1>1, <1>3, <1>4, <1>5, <1>6, <1>7, <1>8, StepKinds

\* A slot without a handle is blank, and a dead child reads and runs nothing.
SlotOK(w) ==
    /\ worker[w].state = "none" => worker[w] = no_worker
    /\ worker[w].state = "dead" =>
          toWorker[w] = <<>> /\ worker[w].running = None

\* Every step keeps that of every slot.
LEMMA SlotStep ==
    ASSUME IndInv, [Next]_vars, NEW w \in Slot PROVE SlotOK(w)'
<1>1. /\ TypeOK /\ ProcessTypeOK /\ SlotOK(w)
      /\ worker[w] \in WorkerHandle
  BY DEF IndInv, TypeOK, WorkerInv, SlotOK, ProcessTypeOK
<1>2. CASE SameStream(w)  BY <1>1, <1>2 DEF SlotOK, SameStream
<1>3. CASE Bump \/ UNCHANGED vars
  BY <1>2, <1>3 DEF Bump, vars, processVars, SameStream
<1>4. ASSUME NEW v \in Slot, Execute(v) \/ Crash(v) PROVE SlotOK(w)'
  <2> USE DEF ProcessTypeOK, WorkerHandle
  <2>1. CASE v # w
    BY <1>1, <1>2, <1>4, <2>1 DEF Execute, Crash, ChildExecutes, ChildReplies,
                                  ChildDies, SameStream
  <2>2. CASE ChildExecutes(w)
    BY <1>1, <2>2 DEF SlotOK, ChildExecutes
  <2>3. CASE ChildReplies(w)
    BY <1>1, <2>3 DEF SlotOK, ChildReplies, no_worker
  <2>4. CASE ChildDies(w)
    BY <1>1, <2>4 DEF SlotOK, ChildDies
  <2> QED  BY <1>4, <2>1, <2>2, <2>3, <2>4 DEF Execute, Crash
<1>5. ASSUME NEW t \in Thread, Submit(t) \/ Step(t) PROVE SlotOK(w)'
  <2>1. CASE slot[t] # w  BY <1>2, <1>5, <2>1, StreamFrame
  <2>2. CASE slot[t] = w /\ Restart(t, result'[t], then'[t])
    <3>1. worker'[w] = no_worker
      BY <1>1, <2>2 DEF Restart, stop_worker, Replace, ProcessTypeOK
    <3> QED  BY <3>1 DEF SlotOK, no_worker
  <2>3. CASE slot[t] = w /\ start_worker(slot[t], generation)
    <3>1. worker'[w] = [no_worker EXCEPT !.state = "up", !.born = generation]
      BY <1>1, <2>3 DEF start_worker, Replace, ProcessTypeOK
    <3>2. worker'[w].state = "up"  BY <3>1 DEF no_worker
    <3> QED  BY <3>2 DEF SlotOK
  <2>4. CASE slot[t] = w /\ Send(t)
    BY <1>1, <2>4 DEF Send, write_execute, SlotOK
  <2>5. CASE slot[t] = w /\ Receive(t)
    <3>1. pc[t] = "read" /\ read_reply(w, id(t))
      BY <2>5 DEF Receive
    <3>2. worker[w].state # "none"  BY <2>5, <3>1 DEF IndInv, WorkerInv
    <3>3. \/ worker' = worker
          \/ worker' = [worker EXCEPT ![w].completed = @ + 1]
      BY <3>1 DEF read_reply
    <3>4. worker'[w].state = worker[w].state
          /\ worker'[w].running = worker[w].running
      BY <1>1, <3>3 DEF ProcessTypeOK, WorkerHandle
    <3> QED  BY <1>1, <3>1, <3>2, <3>4 DEF SlotOK, read_reply
  <2>6. CASE EndOfStream(t) \/ UNCHANGED processVars
    BY <1>2, <2>6 DEF EndOfStream, processVars, SameStream
  <2> QED  BY <1>1, <1>5, <2>1, <2>2, <2>3, <2>4, <2>5, <2>6, StepKinds
<1> QED  BY <1>3, <1>4, <1>5 DEF Next

\* The child changes neither the handle's age nor what it has completed.
LEMMA ChildFrame ==
    ASSUME IndInv, NEW v \in Slot, Execute(v) \/ Crash(v), NEW w \in Slot
    PROVE  /\ worker'[w].completed = worker[w].completed
           /\ worker'[w].born = worker[w].born
           /\ worker'[w].state = "none" <=> worker[w].state = "none"
           /\ worker[w] = no_worker => worker'[w] = no_worker
           /\ UNCHANGED <<reloadVars, poolVars, threadVars>>
<1>1. ProcessTypeOK /\ worker[w] \in WorkerHandle
  BY DEF IndInv, TypeOK, ProcessTypeOK
<1> USE <1>1 DEF ProcessTypeOK, WorkerHandle
<1>2. UNCHANGED <<reloadVars, poolVars, threadVars>>
  BY DEF Execute, Crash
<1>3. CASE ChildExecutes(v)  BY <1>2, <1>3 DEF ChildExecutes, no_worker
<1>4. CASE ChildReplies(v)  BY <1>2, <1>4 DEF ChildReplies, no_worker
<1>5. CASE ChildDies(v)  BY <1>2, <1>5 DEF ChildDies, no_worker
<1> QED  BY <1>3, <1>4, <1>5 DEF Execute, Crash

\* The handles agree with the manager calls that work on them.
LEMMA WorkerStep == ASSUME IndInv, [Next]_vars PROVE WorkerInv'
<1> SUFFICES ASSUME NEW u \in Thread PROVE HandleOK(u)'
  BY SlotStep DEF WorkerInv, SlotOK, HandleOK
<1>1. TypeOK /\ ThreadInv /\ HandleOK(u)
  BY DEF IndInv, WorkerInv, HandleOK
<1>2. pc[u] \in Holding => slot[u] \in Slot
  BY <1>1, OnSlot DEF Holding, InManager, NoSlot, Outcome
<1>3. CASE Bump \/ UNCHANGED vars
  BY <1>1, <1>3 DEF Bump, vars, processVars, threadVars, HandleOK
<1>4. ASSUME NEW w \in Slot, Execute(w) \/ Crash(w) PROVE HandleOK(u)'
  <2>1. CASE pc[u] \in Holding
    BY <1>1, <1>2, <1>4, <2>1, ChildFrame DEF HandleOK, threadVars
  <2>2. CASE pc[u] \notin Holding
    BY <1>4, <2>2 DEF Execute, Crash, threadVars, HandleOK, Holding, InManager
  <2> QED  BY <2>1, <2>2
<1>5. ASSUME NEW t \in Thread, Submit(t) \/ Step(t) PROVE HandleOK(u)'
  <2>1. CASE t = u  BY <1>5, <2>1, HandleStep
  <2>2. CASE t # u
    <3>1. /\ pc'[u] = pc[u] \/ (pc[u] = "asleep" /\ pc'[u] = "awake")
          /\ slot'[u] = slot[u]
      BY <1>1, <1>5, <2>2, ThreadFrame
    <3>2. pc[u] \in Holding => worker'[slot[u]] = worker[slot[u]]
      BY <1>5, <2>2, OwnerFrame DEF SameStream
    <3> QED  BY <1>1, <3>1, <3>2 DEF HandleOK, Holding, InManager
  <2> QED  BY <2>1, <2>2
<1> QED  BY <1>3, <1>4, <1>5 DEF Next

-----------------------------------------------------------------------------
(* What runs, how often and in which process.                              *)

\* The child begins the request of the thread that reads at its slot, which
\* it had not read before.
LEMMA ExecutesReader ==
    ASSUME IndInv, NEW w \in Slot, ChildExecutes(w)
    PROVE  \E u \in Thread :
             /\ slot[u] = w /\ pc[u] = "read" /\ toWorker[w] = <<id(u)>>
             /\ effects[u] < attempt[u]
             /\ effects' = [effects EXCEPT ![u] = @ + 1]
             /\ toWorker'[w] = <<>>
<1>1. ProcessTypeOK  BY DEF IndInv, TypeOK
<1>2. toWorker[w] # <<>>  BY DEF ChildExecutes
<1>3. PICK u \in Thread : slot[u] = w /\ pc[u] = "read" /\ Carries(w, id(u))
  BY <1>2 DEF IndInv, StreamInv, StreamOK, Quiet
<1>4. toWorker[w] = <<id(u)>>  BY <1>2, <1>3 DEF Carries
<1>5. Head(toWorker[w]).by = u
  <2>1. Head(toWorker[w]) = id(u)  BY <1>4
  <2> QED  BY <2>1 DEF id
<1>6. effects' = [effects EXCEPT ![u] = @ + 1]
  <2>1. effects' = [effects EXCEPT ![Head(toWorker[w]).by] = @ + 1]
    BY DEF ChildExecutes
  <2> QED  BY <1>5, <2>1
<1>7. toWorker'[w] = <<>>  BY <1>1, <1>4 DEF ChildExecutes, ProcessTypeOK
<1>8. effects[u] < attempt[u]  BY <1>2, <1>3 DEF IndInv, EffectsInv
<1> QED  BY <1>3, <1>4, <1>6, <1>7, <1>8

\* Nothing else runs page code.
LEMMA EffectsFrame ==
    ASSUME IndInv, [Next]_vars, effects' # effects
    PROVE  \E w \in Slot : ChildExecutes(w) /\ UNCHANGED threadVars
<1>1. CASE Bump \/ UNCHANGED vars
  BY <1>1 DEF Bump, vars, processVars
<1>2. ASSUME NEW w \in Slot, Execute(w) \/ Crash(w)
      PROVE  ChildExecutes(w) /\ UNCHANGED threadVars
  BY <1>2 DEF Execute, Crash, ChildReplies, ChildDies
<1>3. ASSUME NEW t \in Thread, Submit(t) \/ Step(t) PROVE FALSE
  BY <1>3, StreamFrame
<1> QED  BY <1>1, <1>2, <1>3 DEF Next

\* The count of Executes only grows until the thread has its outcome, and a
\* thread that begins to read has just written one.
LEMMA AttemptGrows ==
    ASSUME IndInv, NEW t \in Thread, Submit(t) \/ Step(t)
    PROVE  /\ pc'[t] \notin Outcome =>
                 pc[t] \notin Outcome /\ attempt[t] <= attempt'[t]
           /\ pc'[t] = "read" => pc[t] = "send" /\ attempt'[t] = attempt[t] + 1
<1> USE DEF IndInv, TypeOK, Outcome, ThreadInv, Goto, Decide, Return, Restart
<1>1. CASE Submit(t)  BY <1>1 DEF Submit
<1>2. CASE LockReload(t)  BY <1>2 DEF LockReload
<1>3. CASE ReloadSlot(t)  BY <1>3 DEF ReloadSlot
<1>4. CASE ReloadNext(t)  BY <1>4 DEF ReloadNext
<1>5. CASE ReloadFail(t)  BY <1>5 DEF ReloadFail
<1>6. CASE Acquire(t)  BY <1>6 DEF Acquire, Admit, Refuse, Sleep
<1>7. CASE SleepTimesOut(t)  BY <1>7 DEF SleepTimesOut
<1>8. CASE Pick(t)  BY <1>8 DEF Pick
<1>9. CASE Count(t)  BY <1>9 DEF Count
<1>10. CASE LockManager(t)  BY <1>10 DEF LockManager
<1>11. CASE Enter(t)  BY <1>11 DEF Enter
<1>12. CASE Deadline(t)  BY <1>12 DEF Deadline
<1>13. CASE StartWorker(t)  BY <1>13 DEF StartWorker, Continuation
<1>14. CASE Send(t)  BY <1>14 DEF Send
<1>15. CASE Receive(t)
  <2>1. pc[t] = "read" /\ pc'[t] \in {"unlock", "lost"} /\ attempt' = attempt
    BY <1>15 DEF Receive
  <2> QED  BY <2>1
<1>16. CASE EndOfStream(t)
  <2>1. pc[t] = "read" /\ pc'[t] = "lost" /\ attempt' = attempt
    BY <1>16 DEF EndOfStream
  <2> QED  BY <2>1
<1>17. CASE ReadTimesOut(t)  BY <1>17 DEF ReadTimesOut
<1>18. CASE Lost(t)  BY <1>18 DEF Lost
<1>19. CASE Resend(t)  BY <1>19 DEF Resend
<1>20. CASE GiveUp(t)  BY <1>20 DEF GiveUp
<1>21. CASE Unlock(t)  BY <1>21 DEF Unlock
<1>22. CASE Uncount(t)  BY <1>22 DEF Uncount
<1>23. CASE Leave(t)  BY <1>23 DEF Leave, Sleepers
<1> QED
  BY <1>1, <1>2, <1>3, <1>4, <1>5, <1>6, <1>7, <1>8, <1>9, <1>10, <1>11,
     <1>12, <1>13, <1>14, <1>15, <1>16, <1>17, <1>18, <1>19, <1>20, <1>21,
     <1>22, <1>23 DEF Step

\* Every run of a page is paid for by an Execute that was written.
LEMMA EffectsStep == ASSUME IndInv, [Next]_vars PROVE EffectsInv'
<1> SUFFICES ASSUME NEW u \in Thread
             PROVE  (/\ pc[u] \notin Outcome => effects[u] <= attempt[u]
                     /\ pc[u] = "read" /\ toWorker[slot[u]] # <<>>
                           => effects[u] < attempt[u])'
  BY DEF EffectsInv
<1>1. /\ pc[u] \notin Outcome => effects[u] <= attempt[u]
      /\ pc[u] = "read" /\ toWorker[slot[u]] # <<>>
            => effects[u] < attempt[u]
      /\ effects[u] \in Nat /\ attempt[u] \in Nat
  <2>1. effects[u] \in Nat /\ attempt[u] \in Nat
    BY DEF IndInv, TypeOK, ProcessTypeOK
  <2> QED  BY <2>1 DEF IndInv, EffectsInv
<1>t. attempt'[u] \in Nat  BY TypeStep DEF TypeOK
<1>2. CASE Bump \/ UNCHANGED vars
  BY <1>1, <1>2 DEF Bump, vars, processVars, threadVars
<1>3. ASSUME NEW w \in Slot, ChildExecutes(w), UNCHANGED threadVars
      PROVE  (/\ pc[u] \notin Outcome => effects[u] <= attempt[u]
              /\ pc[u] = "read" /\ toWorker[slot[u]] # <<>>
                    => effects[u] < attempt[u])'
  <2>1. PICK r \in Thread :
             /\ slot[r] = w /\ pc[r] = "read"
             /\ effects[r] < attempt[r]
             /\ effects' = [effects EXCEPT ![r] = @ + 1]
             /\ toWorker'[w] = <<>>
    BY <1>3, ExecutesReader
  <2>2. ProcessTypeOK  BY DEF IndInv, TypeOK
  <2>3. CASE u = r
    BY <1>1, <1>3, <2>1, <2>2, <2>3 DEF threadVars, ProcessTypeOK
  <2>4. CASE u # r
    <3>1. pc[u] = "read" => slot[u] # w
      BY <2>1, <2>4, OneHolder DEF Holding, InManager
    <3>2. toWorker' = [toWorker EXCEPT ![w] = Tail(@)]
      BY <1>3 DEF ChildExecutes
    <3>3. pc[u] = "read" => slot[u] \in Slot
      BY OnSlot DEF IndInv, NoSlot, Outcome
    <3> QED
      BY <1>1, <1>3, <2>1, <2>2, <2>4, <3>1, <3>2, <3>3
         DEF threadVars, ProcessTypeOK
  <2> QED  BY <2>3, <2>4
<1>4. ASSUME NEW w \in Slot, Execute(w) \/ Crash(w)
      PROVE  (/\ pc[u] \notin Outcome => effects[u] <= attempt[u]
              /\ pc[u] = "read" /\ toWorker[slot[u]] # <<>>
                    => effects[u] < attempt[u])'
  <2>1. CASE ChildExecutes(w)  BY <1>3, <1>4, <2>1 DEF Execute, Crash
  <2>2. CASE ChildReplies(w)
    BY <1>1, <1>4, <2>2 DEF Execute, Crash, ChildReplies, threadVars
  <2>3. CASE ChildDies(w)
    <3>1. pc[u] = "read" => slot[u] \in Slot
      BY OnSlot DEF IndInv, NoSlot, Outcome
    <3> QED
      BY <1>1, <1>4, <2>3, <3>1 DEF Execute, Crash, ChildDies, threadVars,
                                    IndInv, TypeOK, ProcessTypeOK
  <2> QED  BY <1>4, <2>1, <2>2, <2>3 DEF Execute, Crash
<1>5. ASSUME NEW t \in Thread, Submit(t) \/ Step(t)
      PROVE  (/\ pc[u] \notin Outcome => effects[u] <= attempt[u]
              /\ pc[u] = "read" /\ toWorker[slot[u]] # <<>>
                    => effects[u] < attempt[u])'
  <2>1. effects' = effects  BY <1>5, StreamFrame
  <2>2. CASE u = t
    BY <1>1, <1>t, <1>5, <2>1, <2>2, AttemptGrows DEF Outcome
  <2>3. CASE u # t
    <3>1. /\ pc'[u] = pc[u] \/ (pc[u] = "asleep" /\ pc'[u] = "awake")
          /\ slot'[u] = slot[u] /\ attempt'[u] = attempt[u]
      BY <1>5, <2>3, ThreadFrame DEF IndInv
    <3>2. pc[u] = "read" => toWorker'[slot[u]] = toWorker[slot[u]]
      BY <1>5, <2>3, OwnerFrame DEF SameStream, Holding, InManager
    <3> QED  BY <1>1, <2>1, <3>1, <3>2 DEF Outcome
  <2> QED  BY <2>2, <2>3
<1> QED  BY <1>2, <1>4, <1>5 DEF Next

\* A finished request runs no more, and an unfinished one has run at most as
\* often as it was written.
LEMMA BoundedStep == ASSUME IndInv, [Next]_vars PROVE BoundedEffects'
<1>1. TypeOK /\ ProcessTypeOK /\ AttemptInv  BY DEF IndInv, TypeOK
<1>2. CASE effects' = effects
  BY <1>2 DEF IndInv, BoundedEffects
<1>3. CASE effects' # effects
  <2>1. PICK w \in Slot : ChildExecutes(w) /\ UNCHANGED threadVars
    BY <1>3, EffectsFrame
  <2>2. PICK r \in Thread : /\ effects[r] < attempt[r]
                            /\ effects' = [effects EXCEPT ![r] = @ + 1]
    BY <2>1, ExecutesReader
  <2>3. /\ attempt[r] \in 0 .. 2 /\ effects[r] \in Nat
        /\ r \in Unsafe \cap Timed => attempt[r] <= 1
    BY <1>1 DEF TypeOK, ProcessTypeOK, AttemptInv
  <2> QED
    BY <1>1, <2>2, <2>3 DEF IndInv, BoundedEffects, ProcessTypeOK
<1> QED  BY <1>2, <1>3

\* A child completes a request only below its limit, and is not given another
\* one at it.
LEMMA RecycleStep == ASSUME IndInv, [Next]_vars PROVE RecycledAtLimit'
<1> SUFFICES ASSUME NEW w \in Slot
             PROVE  /\ worker'[w].completed <= RecycleAfter
                    /\ worker'[w].running # None
                         => worker'[w].completed < RecycleAfter
  BY DEF RecycledAtLimit
<1>1. /\ worker[w].completed <= RecycleAfter
      /\ worker[w].running # None => worker[w].completed < RecycleAfter
      /\ ProcessTypeOK /\ worker[w] \in WorkerHandle
      /\ worker[w].completed \in Nat
  BY DEF IndInv, TypeOK, RecycledAtLimit, ProcessTypeOK, WorkerHandle
<1>2. CASE worker'[w] = worker[w]  BY <1>1, <1>2
<1>3. CASE Bump \/ UNCHANGED vars
  BY <1>2, <1>3 DEF Bump, vars, processVars
<1>4. ASSUME NEW v \in Slot, Execute(v) \/ Crash(v)
      PROVE  /\ worker'[w].completed <= RecycleAfter
             /\ worker'[w].running # None
                  => worker'[w].completed < RecycleAfter
  <2>1. worker'[w].completed = worker[w].completed  BY <1>4, ChildFrame
  <2>2. CASE ChildExecutes(v)
    <3>1. CASE v = w
      BY <1>1, <2>1, <2>2, <3>1, ExecutesReader DEF IndInv, WorkerInv
    <3>2. CASE v # w
      BY <1>1, <1>2, <2>2, <3>2 DEF ChildExecutes, ProcessTypeOK
    <3> QED  BY <3>1, <3>2
  <2>3. CASE ChildReplies(v) \/ ChildDies(v)
    <3>1. CASE v = w
      <4>1. worker'[w].running = None
        BY <1>1, <2>3, <3>1
           DEF ChildReplies, ChildDies, ProcessTypeOK, WorkerHandle
      <4> QED  BY <1>1, <2>1, <4>1
    <3>2. CASE v # w
      BY <1>1, <1>2, <2>3, <3>2 DEF ChildReplies, ChildDies, ProcessTypeOK
    <3> QED  BY <3>1, <3>2
  <2> QED  BY <1>4, <2>2, <2>3 DEF Execute, Crash
<1>5. ASSUME NEW t \in Thread, Submit(t) \/ Step(t)
      PROVE  /\ worker'[w].completed <= RecycleAfter
             /\ worker'[w].running # None
                  => worker'[w].completed < RecycleAfter
  <2>1. CASE slot[t] # w  BY <1>2, <1>5, <2>1, StreamFrame DEF SameStream
  <2>2. CASE slot[t] = w /\ Restart(t, result'[t], then'[t])
    <3>1. worker'[w] = no_worker
      BY <1>1, <2>2 DEF Restart, stop_worker, Replace, ProcessTypeOK
    <3> QED  BY <3>1, RecycleAssumption DEF no_worker
  <2>3. CASE slot[t] = w /\ start_worker(slot[t], generation)
    <3>1. worker'[w] = [no_worker EXCEPT !.state = "up", !.born = generation]
      BY <1>1, <2>3 DEF start_worker, Replace, ProcessTypeOK
    <3>2. worker'[w].completed = 0  BY <3>1 DEF no_worker
    <3> QED  BY <3>2, RecycleAssumption
  <2>4. CASE slot[t] = w /\ Receive(t)
    <3> DEFINE m == id(t)
    <3>1. /\ pc[t] = "read" /\ read_reply(w, m) /\ fromWorker[w] # <<>>
          /\ worker[w].completed < RecycleAfter
      BY <2>4 DEF Receive, IndInv, WorkerInv
    <3>2. Carries(w, m)  BY <2>4, <3>1, ReaderStream DEF Quiet
    <3> HIDE DEF m
    <3>3. worker[w].running = None  BY <3>1, <3>2 DEF Carries
    <3>4. \/ worker' = worker
          \/ worker' = [worker EXCEPT ![w].completed = @ + 1]
      BY <3>1 DEF read_reply
    <3>5. /\ worker'[w].running = None
          /\ \/ worker'[w].completed = worker[w].completed
             \/ worker'[w].completed = worker[w].completed + 1
      BY <1>1, <3>3, <3>4 DEF ProcessTypeOK, WorkerHandle
    <3> QED  BY <1>1, <3>1, <3>5, RecycleAssumption
  <2>5. CASE Send(t) \/ EndOfStream(t) \/ UNCHANGED processVars
    BY <1>2, <2>5 DEF Send, write_execute, EndOfStream, processVars
  <2> QED  BY <1>5, <2>1, <2>2, <2>3, <2>4, <2>5, StepKinds DEF IndInv
<1> QED  BY <1>3, <1>4, <1>5 DEF Next

\* A handle of generation g or later is only ever replaced by a later one.
LEMMA CurrentStep ==
    ASSUME IndInv, [Next]_vars, NEW w \in Slot, NEW g \in Nat,
           g <= generation, Current(w, g)
    PROVE  Current(w, g)'
<1>1. TypeOK /\ ProcessTypeOK  BY DEF IndInv, TypeOK
<1>2. CASE worker'[w] = worker[w]  BY <1>2 DEF Current
<1>3. CASE Bump \/ UNCHANGED vars
  BY <1>2, <1>3 DEF Bump, vars, processVars
<1>4. ASSUME NEW v \in Slot, Execute(v) \/ Crash(v) PROVE Current(w, g)'
  BY <1>4, ChildFrame DEF Current
<1>5. ASSUME NEW t \in Thread, Submit(t) \/ Step(t) PROVE Current(w, g)'
  <2>1. CASE slot[t] # w  BY <1>2, <1>5, <2>1, StreamFrame DEF SameStream
  <2>2. CASE slot[t] = w /\ Restart(t, result'[t], then'[t])
    <3>1. worker'[w] = no_worker
      BY <1>1, <2>2 DEF Restart, stop_worker, Replace, ProcessTypeOK
    <3> QED  BY <3>1 DEF no_worker, Current
  <2>3. CASE slot[t] = w /\ start_worker(slot[t], generation)
    <3>1. worker'[w] = [no_worker EXCEPT !.state = "up", !.born = generation]
      BY <1>1, <2>3 DEF start_worker, Replace, ProcessTypeOK
    <3>2. worker'[w].born = generation  BY <3>1 DEF no_worker
    <3> QED  BY <1>1, <3>2 DEF Current, TypeOK
  <2>4. CASE slot[t] = w /\ Receive(t)
    <3>1. \/ worker' = worker
          \/ worker' = [worker EXCEPT ![w].completed = @ + 1]
      BY <2>4 DEF Receive, read_reply
    <3>2. worker'[w].born = worker[w].born /\ worker'[w].state = worker[w].state
      BY <1>1, <3>1 DEF ProcessTypeOK, WorkerHandle
    <3> QED  BY <3>2 DEF Current
  <2>5. CASE Send(t) \/ EndOfStream(t) \/ UNCHANGED processVars
    BY <1>2, <2>5 DEF Send, write_execute, EndOfStream, processVars
  <2> QED  BY <1>1, <1>5, <2>1, <2>2, <2>3, <2>4, <2>5, StepKinds
<1> QED  BY <1>3, <1>4, <1>5 DEF Next

\* What FreshInv says of one thread.
FreshFor(t) ==
    /\ gen[t] <= generation
    /\ PastReload(t) => \A w \in Slot : Current(w, gen[t])
    /\ HoldsReload(t) => \A w \in Slot : w < slot[t] => Current(w, gen[t])
    /\ pc[t] = "reloadNext" => Current(slot[t], gen[t])

\* The front of fresh workers moves only forward, and a thread passes the
\* reload only when every worker is as fresh as the generation it has read.
LEMMA FreshThread ==
    ASSUME IndInv, NEW t \in Thread, Submit(t) \/ Step(t)
    PROVE  /\ FreshFor(t)' /\ lastRestart' <= generation'
           /\ \A w \in Slot : Current(w, lastRestart)'
<1> DEFINE Goal == /\ FreshFor(t)' /\ lastRestart' <= generation'
                   /\ \A w \in Slot : Current(w, lastRestart)'
<1>1. /\ TypeOK /\ ThreadInv /\ FreshFor(t) /\ None # "reloadNext"
      /\ lastRestart <= generation
      /\ \A w \in Slot : Current(w, lastRestart)
  BY NoneAssumption DEF IndInv, FreshInv, FreshFor, ThreadPC
<1>2. /\ generation \in Nat /\ lastRestart \in Nat /\ gen[t] \in Nat
      /\ \A w \in Slot, g \in Nat :
            g <= generation /\ Current(w, g)
              => (worker'[w].state # "none" => worker'[w].born >= g)
  <2>1. [Next]_vars  BY DEF Next
  <2>2. \A w \in Slot, g \in Nat :
           g <= generation /\ Current(w, g) => Current(w, g)'
    BY <2>1, CurrentStep
  <2> QED  BY <1>1, <2>2 DEF TypeOK, Current
<1>3. ASSUME UNCHANGED <<generation, lastRestart>>, gen'[t] = gen[t],
             PastReload(t), ~HoldsReload(t)'
      PROVE  Goal
  <2>1. pc'[t] # "reloadNext"  BY <1>3 DEF HoldsReload
  <2> QED  BY <1>1, <1>2, <1>3, <2>1 DEF FreshFor, Current
<1>4. ASSUME UNCHANGED <<generation, lastRestart>>, gen'[t] = 0,
             pc'[t] \in Outcome, ~HoldsReload(t)'
      PROVE  Goal
  <2>1. pc'[t] # "reloadNext" /\ ~PastReload(t)'
    BY <1>4 DEF PastReload, Outcome
  <2> QED  BY <1>1, <1>2, <1>4, <2>1 DEF FreshFor, Current
<1> USE DEF HoldsReload, PastReload, Goto, Decide, Return, Restart
<1>5. CASE Submit(t)
  <2>1. /\ UNCHANGED <<generation, lastRestart>>
        /\ gen'[t] = generation /\ then'[t] = None
        /\ \/ pc'[t] = "acquire" /\ lastRestart = generation
           \/ pc'[t] = "reload"
    BY <1>1, <1>5 DEF Submit, TypeOK, ThreadInv, reloadVars
  <2> QED  BY <1>1, <1>2, <2>1 DEF FreshFor, Current
<1>6. CASE LockReload(t)
  <2>1. /\ UNCHANGED <<generation, lastRestart>>
        /\ gen'[t] = gen[t] /\ then'[t] = None
        /\ \/ pc'[t] = "acquire" /\ lastRestart = gen[t]
           \/ pc'[t] = "reloadSlot" /\ slot'[t] = 1
    BY <1>1, <1>6 DEF LockReload, TypeOK, ThreadInv
  <2>2. \A w \in Slot : ~(w < 1)  BY SlotFacts
  <2> QED  BY <1>1, <1>2, <2>1, <2>2 DEF FreshFor, Current
<1>7. CASE ReloadSlot(t)
  <2>1. /\ UNCHANGED <<generation, lastRestart>>
        /\ gen'[t] = gen[t] /\ then'[t] = "reloadNext"
        /\ pc'[t] = "starting" /\ slot'[t] = slot[t] /\ pc[t] = "reloadSlot"
    BY <1>1, <1>7 DEF ReloadSlot, TypeOK, reloadVars
  <2> QED  BY <1>1, <1>2, <2>1 DEF FreshFor, Current
<1>8. CASE ReloadNext(t)
  <2>1. slot[t] \in Slot /\ slot[t] \in Nat
    BY <1>1, <1>8, OnSlot, SlotFacts DEF ReloadNext, NoSlot, Outcome
  <2>2. generation' = generation /\ gen'[t] = gen[t] /\ then'[t] = None
    BY <1>1, <1>8 DEF ReloadNext, TypeOK, ThreadInv
  <2>3. \A w \in Slot : w <= slot[t] => Current(w, gen[t])
    BY <1>1, <1>8, <2>1, SlotFacts DEF ReloadNext, FreshFor
  <2>4. CASE slot[t] < WorkerCount
    <3>1. /\ lastRestart' = lastRestart /\ pc'[t] = "reloadSlot"
          /\ slot'[t] = slot[t] + 1
      BY <1>1, <1>8, <2>4 DEF ReloadNext, TypeOK
    <3>2. \A w \in Slot : w < slot'[t] => w <= slot[t]
      BY <2>1, <3>1, SlotFacts
    <3> QED  BY <1>1, <1>2, <2>2, <2>3, <3>1, <3>2 DEF FreshFor, Current
  <2>5. CASE ~(slot[t] < WorkerCount)
    <3>1. lastRestart' = gen[t] /\ pc'[t] = "acquire"
      BY <1>1, <1>8, <2>5 DEF ReloadNext, TypeOK
    <3>2. \A w \in Slot : w <= slot[t]  BY <2>1, <2>5, SlotFacts
    <3> QED  BY <1>1, <1>2, <2>2, <2>3, <3>1, <3>2 DEF FreshFor, Current
  <2> QED  BY <2>4, <2>5
<1>9. CASE ReloadFail(t)
  BY <1>1, <1>4, <1>9 DEF ReloadFail, TypeOK, Outcome
<1>10. CASE StartWorker(t)
  <2>1. /\ UNCHANGED <<generation, lastRestart>> /\ pc[t] = "starting"
        /\ gen'[t] = gen[t] /\ then'[t] = None /\ slot'[t] = slot[t]
        /\ slot[t] \in Slot
    BY <1>1, <1>10, OnSlot DEF StartWorker, TypeOK, reloadVars, NoSlot, Outcome
  <2>2. CASE then[t] # "reloadNext"
    <3>1. pc'[t] \notin {"reloadSlot", "reloadNext", "reloadFail"}
      BY <1>1, <1>10, <2>2 DEF StartWorker, TypeOK, Continuation, ThreadPC
    <3> QED  BY <1>1, <1>3, <2>1, <2>2, <3>1 DEF Outcome
  <2>3. CASE then[t] = "reloadNext" /\ pc'[t] = "reloadFail"
    BY <1>1, <1>2, <2>1, <2>3 DEF FreshFor, Current
  <2>4. CASE /\ then[t] = "reloadNext" /\ pc'[t] = "reloadNext"
             /\ start_worker(slot[t], generation)
    <3>1. worker'[slot[t]] = [no_worker EXCEPT !.state = "up",
                                               !.born = generation]
      BY <1>1, <2>1, <2>4 DEF start_worker, Replace, TypeOK, ProcessTypeOK
    <3>2. worker'[slot[t]].born = generation  BY <3>1 DEF no_worker
    <3> QED  BY <1>1, <1>2, <2>1, <2>4, <3>2 DEF FreshFor, Current
  <2> QED  BY <1>1, <1>10, <2>2, <2>3, <2>4 DEF StartWorker, TypeOK
<1>11. CASE Acquire(t)
  BY <1>1, <1>3, <1>4, <1>11
     DEF Acquire, Admit, Refuse, Sleep, TypeOK, ThreadInv, reloadVars, Outcome
<1>12. CASE Leave(t)
  BY <1>1, <1>4, <1>12
     DEF Leave, Sleepers, TypeOK, ThreadInv, reloadVars, Outcome
<1> USE <1>1, <1>3 DEF TypeOK, ThreadInv, reloadVars, Outcome
<1>13. CASE \/ SleepTimesOut(t) \/ Pick(t) \/ Count(t) \/ LockManager(t)
            \/ Unlock(t) \/ Uncount(t)
  BY <1>13 DEF SleepTimesOut, Pick, Count, LockManager, Unlock, Uncount
<1>14. CASE Enter(t)  BY <1>14 DEF Enter
<1>15. CASE Deadline(t)  BY <1>15 DEF Deadline
<1>16. CASE Send(t)  BY <1>16 DEF Send
<1>17. CASE Receive(t)  BY <1>17 DEF Receive
<1>18. CASE EndOfStream(t)  BY <1>18 DEF EndOfStream
<1>19. CASE ReadTimesOut(t)  BY <1>19 DEF ReadTimesOut
<1>20. CASE Lost(t)  BY <1>20 DEF Lost
<1>21. CASE Resend(t)  BY <1>21 DEF Resend
<1>22. CASE GiveUp(t)  BY <1>22 DEF GiveUp
<1> QED
  BY <1>5, <1>6, <1>7, <1>8, <1>9, <1>10, <1>11, <1>12, <1>13, <1>14, <1>15,
     <1>16, <1>17, <1>18, <1>19, <1>20, <1>21, <1>22 DEF Step

\* After a reload every worker is fresh.
LEMMA FreshStep == ASSUME IndInv, [Next]_vars PROVE FreshInv'
<1>1. /\ TypeOK /\ lastRestart <= generation
      /\ generation \in Nat /\ lastRestart \in Nat
      /\ \A w \in Slot : Current(w, lastRestart)
      /\ \A u \in Thread : FreshFor(u) /\ gen[u] \in Nat
  BY DEF IndInv, TypeOK, FreshInv, FreshFor
<1>2. \A w \in Slot, g \in Nat :
         g <= generation /\ Current(w, g)
           => (worker'[w].state # "none" => worker'[w].born >= g)
  <2>1. \A w \in Slot, g \in Nat :
           g <= generation /\ Current(w, g) => Current(w, g)'
    BY CurrentStep
  <2> QED  BY <2>1 DEF Current
<1>3. ASSUME NEW u \in Thread, generation' >= generation,
             generation' \in Nat, gen'[u] = gen[u],
             slot'[u] = slot[u], then'[u] = then[u],
             pc'[u] = pc[u] \/ (pc[u] = "asleep" /\ pc'[u] = "awake")
      PROVE  FreshFor(u)'
  <2>1. /\ PastReload(u)' => PastReload(u)
        /\ HoldsReload(u)' => HoldsReload(u)
        /\ pc'[u] = "reloadNext" => pc[u] = "reloadNext" /\ slot[u] \in Slot
    BY <1>1, <1>3, OnSlot DEF PastReload, HoldsReload, Outcome, IndInv, NoSlot
  <2> HIDE DEF PastReload, HoldsReload
  <2> QED  BY <1>1, <1>2, <1>3, <2>1 DEF FreshFor, Current
<1>4. CASE \/ Bump \/ UNCHANGED vars
           \/ \E w \in Slot : Execute(w) \/ Crash(w)
  <2>1. /\ generation' >= generation /\ generation' \in Nat
        /\ lastRestart' = lastRestart
        /\ UNCHANGED <<gen, slot, then, pc>>
    BY <1>1, <1>4 DEF Bump, Execute, Crash, vars, threadVars, reloadVars
  <2>2. \A u \in Thread : FreshFor(u)'  BY <1>3, <2>1
  <2>3. \A w \in Slot : Current(w, lastRestart)'
    BY <1>1, <1>2, <2>1 DEF Current
  <2> QED  BY <1>1, <2>1, <2>2, <2>3 DEF FreshInv, FreshFor
<1>5. ASSUME NEW t \in Thread, Submit(t) \/ Step(t) PROVE FreshInv'
  <2>1. generation' = generation  BY <1>5, GenerationFrame
  <2>2. \A u \in Thread \ {t} : FreshFor(u)'
    BY <1>1, <1>3, <1>5, <2>1, ThreadFrame
  <2> QED  BY <1>5, <2>2, FreshThread DEF FreshInv, FreshFor
<1> QED  BY <1>4, <1>5 DEF Next

-----------------------------------------------------------------------------
(* Counting.                                                               *)

\* Two sets of threads that agree on all threads but t.
LEMMA CountOne ==
    ASSUME NEW A \in SUBSET Thread, NEW B \in SUBSET Thread,
           NEW t \in Thread, \A u \in Thread \ {t} : u \in A <=> u \in B
    PROVE  /\ Cardinality(A) \in Nat /\ Cardinality(B) \in Nat
           /\ (t \in A <=> t \in B) => Cardinality(B) = Cardinality(A)
           /\ t \notin A /\ t \in B => Cardinality(B) = Cardinality(A) + 1
           /\ t \in A /\ t \notin B => Cardinality(B) = Cardinality(A) - 1
<1>1. IsFiniteSet(A) /\ IsFiniteSet(B)  BY ThreadsFinite, FS_Subset
<1>2. Cardinality(A) \in Nat /\ Cardinality(B) \in Nat
  BY <1>1, FS_CardinalityType
<1>3. ASSUME t \in A <=> t \in B PROVE B = A  BY <1>3
<1>4. ASSUME t \notin A, t \in B PROVE B = A \cup {t}  BY <1>4
<1>5. ASSUME t \in A, t \notin B PROVE B = A \ {t}  BY <1>5
<1>6. t \notin A => Cardinality(A \cup {t}) = Cardinality(A) + 1
  BY <1>1, FS_AddElement
<1>7. t \in A => Cardinality(A \ {t}) = Cardinality(A) - 1
  BY <1>1, FS_RemoveElement
<1> QED  BY <1>2, <1>3, <1>4, <1>5, <1>6, <1>7

\* The requests dispatched to slot w, whose count active[w] should be.
Dispatched(t, w) ==
    HasGuard(t) /\ slot[t] = w /\ pc[t] \notin {"count", "leave"}

\* How thread t's step moves in_flight together with its guard, and the count
\* of a slot together with its place there.
GuardMoves(t) ==
    \/ inFlight' = inFlight /\ (HasGuard(t)' <=> HasGuard(t))
    \/ inFlight' = inFlight + 1 /\ ~HasGuard(t) /\ HasGuard(t)'
    \/ inFlight' = inFlight - 1 /\ HasGuard(t) /\ ~HasGuard(t)'
ActiveMoves(t, w) ==
    \/ active'[w] = active[w] /\ (Dispatched(t, w)' <=> Dispatched(t, w))
    \/ active'[w] = active[w] + 1 /\ ~Dispatched(t, w) /\ Dispatched(t, w)'
    \/ active'[w] = active[w] - 1 /\ Dispatched(t, w) /\ ~Dispatched(t, w)'

\* A thread's step moves both counts with the thread.
LEMMA CountMoves ==
    ASSUME IndInv, NEW t \in Thread, Submit(t) \/ Step(t)
    PROVE  GuardMoves(t) /\ \A w \in Slot : ActiveMoves(t, w)
<1>1. TypeOK /\ ThreadInv /\ None # "reloadNext"
  BY NoneAssumption DEF IndInv, ThreadPC
<1> USE <1>1 DEF GuardMoves, ActiveMoves, Dispatched, HasGuard, Admitted,
        InManager, Outcome, TypeOK, ThreadInv, Goto, Decide, Return, Restart,
        poolVars
<1>2. CASE Submit(t)  BY <1>2 DEF Submit
<1>3. CASE LockReload(t)  BY <1>3 DEF LockReload
<1>4. CASE ReloadSlot(t)  BY <1>4 DEF ReloadSlot
<1>5. CASE ReloadNext(t)  BY <1>5 DEF ReloadNext
<1>6. CASE ReloadFail(t)  BY <1>6 DEF ReloadFail
<1>7. CASE Acquire(t)  BY <1>7 DEF Acquire, Admit, Refuse, Sleep, NoSlot
<1>8. CASE SleepTimesOut(t)  BY <1>8 DEF SleepTimesOut
<1>9. CASE Pick(t)  BY <1>9 DEF Pick, NoSlot
<1>10. CASE Count(t)  BY <1>10 DEF Count, NoSlot
<1>11. CASE LockManager(t)  BY <1>11 DEF LockManager
<1>12. CASE Enter(t)  BY <1>12 DEF Enter
<1>13. CASE Deadline(t)  BY <1>13 DEF Deadline
<1>14. CASE StartWorker(t)  BY <1>14 DEF StartWorker, Continuation
<1>15. CASE Send(t)  BY <1>15 DEF Send
<1>16. CASE Receive(t)  BY <1>16 DEF Receive
<1>17. CASE EndOfStream(t)  BY <1>17 DEF EndOfStream
<1>18. CASE ReadTimesOut(t)  BY <1>18 DEF ReadTimesOut
<1>19. CASE Lost(t)  BY <1>19 DEF Lost
<1>20. CASE Resend(t)  BY <1>20 DEF Resend
<1>21. CASE GiveUp(t)  BY <1>21 DEF GiveUp
<1>22. CASE Unlock(t)  BY <1>22 DEF Unlock
<1>23. CASE Uncount(t)  BY <1>23 DEF Uncount, NoSlot
<1>24. CASE Leave(t)  BY <1>24 DEF Leave, Sleepers
<1> QED
  BY <1>2, <1>3, <1>4, <1>5, <1>6, <1>7, <1>8, <1>9, <1>10, <1>11, <1>12,
     <1>13, <1>14, <1>15, <1>16, <1>17, <1>18, <1>19, <1>20, <1>21, <1>22,
     <1>23, <1>24 DEF Step

\* in_flight and active count exactly the guards and the dispatched requests.
LEMMA CountStep ==
    ASSUME IndInv, [Next]_vars PROVE AdmissionExact' /\ ActiveExact'
<1>1. CASE \/ Bump \/ UNCHANGED vars
           \/ \E w \in Slot : Execute(w) \/ Crash(w)
  <2>1. UNCHANGED <<inFlight, active, pc, then, slot>>
    BY <1>1 DEF Bump, Execute, Crash, vars, threadVars, poolVars
  <2> QED  BY <2>1 DEF IndInv, AdmissionExact, ActiveExact, HasGuard
<1>2. ASSUME NEW t \in Thread, Submit(t) \/ Step(t)
      PROVE  AdmissionExact' /\ ActiveExact'
  <2>1. TypeOK /\ inFlight \in Nat /\ \A w \in Slot : active[w] \in Nat
    BY LimitAssumption DEF IndInv, TypeOK
  <2>2. \A u \in Thread \ {t} :
           /\ HasGuard(u)' <=> HasGuard(u)
           /\ \A w \in Slot : Dispatched(u, w)' <=> Dispatched(u, w)
    BY <1>2, <2>1, ThreadFrame DEF HasGuard, Dispatched, Admitted, InManager
  <2>3. AdmissionExact'
    <3> DEFINE A == {u \in Thread : HasGuard(u)}
               B == {u \in Thread : HasGuard(u)'}
    <3>1. inFlight = Cardinality(A)  BY DEF IndInv, AdmissionExact
    <3>2. /\ (t \in A <=> t \in B) => Cardinality(B) = Cardinality(A)
          /\ t \notin A /\ t \in B => Cardinality(B) = Cardinality(A) + 1
          /\ t \in A /\ t \notin B => Cardinality(B) = Cardinality(A) - 1
      BY <2>2, CountOne
    <3>3. GuardMoves(t)  BY <1>2, CountMoves
    <3>4. inFlight' = Cardinality(B)
      <4>1. (t \in A <=> HasGuard(t)) /\ (t \in B <=> HasGuard(t)')
        OBVIOUS
      <4> HIDE DEF A, B
      <4> QED  BY <3>1, <3>2, <3>3, <4>1 DEF GuardMoves
    <3> QED  BY <3>4 DEF AdmissionExact
  <2>4. ASSUME NEW w \in Slot
        PROVE  active'[w] = Cardinality({u \in Thread : Dispatched(u, w)'})
    <3> DEFINE A == {u \in Thread : Dispatched(u, w)}
               B == {u \in Thread : Dispatched(u, w)'}
    <3>1. active[w] = Cardinality(A)
      BY DEF IndInv, ActiveExact, Dispatched
    <3>2. /\ (t \in A <=> t \in B) => Cardinality(B) = Cardinality(A)
          /\ t \notin A /\ t \in B => Cardinality(B) = Cardinality(A) + 1
          /\ t \in A /\ t \notin B => Cardinality(B) = Cardinality(A) - 1
      BY <2>2, CountOne
    <3>3. ActiveMoves(t, w)  BY <1>2, CountMoves
    <3>4. (t \in A <=> Dispatched(t, w)) /\ (t \in B <=> Dispatched(t, w)')
      OBVIOUS
    <3> HIDE DEF A, B
    <3>5. active'[w] = Cardinality(B)
      BY <3>1, <3>2, <3>3, <3>4 DEF ActiveMoves
    <3> QED  BY <3>5 DEF B
  <2>5. ActiveExact'  BY <2>4 DEF ActiveExact, Dispatched
  <2> QED  BY <2>3, <2>5
<1> QED  BY <1>1, <1>2 DEF Next

Waiting == {"asleep", "awake", "late"}

\* Only acquire, its timeout and the drop of a guard concern those who wait.
LEMMA WaitMoves ==
    ASSUME IndInv, NEW t \in Thread, Submit(t) \/ Step(t)
    PROVE  \/ Acquire(t) \/ SleepTimesOut(t) \/ Leave(t)
           \/ /\ inFlight' = inFlight
              /\ pc[t] \notin Waiting /\ pc'[t] \notin Waiting
<1>1. TypeOK /\ ThreadInv  BY DEF IndInv
<1> USE <1>1 DEF Waiting, TypeOK, ThreadInv, Goto, Decide, Return, Restart,
        poolVars
<1>2. CASE Submit(t)  BY <1>2 DEF Submit
<1>3. CASE LockReload(t)  BY <1>3 DEF LockReload
<1>4. CASE ReloadSlot(t)  BY <1>4 DEF ReloadSlot
<1>5. CASE ReloadNext(t)  BY <1>5 DEF ReloadNext
<1>6. CASE ReloadFail(t)  BY <1>6 DEF ReloadFail
<1>7. CASE Pick(t)  BY <1>7 DEF Pick
<1>8. CASE Count(t)  BY <1>8 DEF Count
<1>9. CASE LockManager(t)  BY <1>9 DEF LockManager
<1>10. CASE Enter(t)  BY <1>10 DEF Enter
<1>11. CASE Deadline(t)  BY <1>11 DEF Deadline
<1>12. CASE StartWorker(t)  BY <1>12 DEF StartWorker, Continuation
<1>13. CASE Send(t)  BY <1>13 DEF Send
<1>14. CASE Receive(t)  BY <1>14 DEF Receive
<1>15. CASE EndOfStream(t)  BY <1>15 DEF EndOfStream
<1>16. CASE ReadTimesOut(t)  BY <1>16 DEF ReadTimesOut
<1>17. CASE Lost(t)  BY <1>17 DEF Lost
<1>18. CASE Resend(t)  BY <1>18 DEF Resend
<1>19. CASE GiveUp(t)  BY <1>19 DEF GiveUp
<1>20. CASE Unlock(t)  BY <1>20 DEF Unlock
<1>21. CASE Uncount(t)  BY <1>21 DEF Uncount
<1> QED
  BY <1>2, <1>3, <1>4, <1>5, <1>6, <1>7, <1>8, <1>9, <1>10, <1>11, <1>12,
     <1>13, <1>14, <1>15, <1>16, <1>17, <1>18, <1>19, <1>20, <1>21 DEF Step

\* Every place that is given back wakes a sleeper, and only a woken thread
\* may take it from the others.
LEMMA NoIdleStep == ASSUME IndInv, [Next]_vars PROVE NoIdlePlace'
<1>1. CASE \/ Bump \/ UNCHANGED vars
           \/ \E w \in Slot : Execute(w) \/ Crash(w)
  <2>1. UNCHANGED <<inFlight, pc>>
    BY <1>1 DEF Bump, Execute, Crash, vars, threadVars, poolVars
  <2> QED  BY <2>1 DEF IndInv, NoIdlePlace, Sleepers
<1>2. ASSUME NEW t \in Thread, Submit(t) \/ Step(t) PROVE NoIdlePlace'
  <2> DEFINE A == {u \in Thread : pc[u] \in {"awake", "late"}}
             B == {u \in Thread : pc'[u] \in {"awake", "late"}}
  <2>1. /\ TypeOK /\ ThreadInv /\ inFlight \in Nat /\ Limit \in Nat
        /\ Sleepers # {} => Limit - inFlight <= Cardinality(A)
    BY LimitAssumption DEF IndInv, TypeOK, NoIdlePlace
  <2>2. ASSUME Sleepers' # {} => Limit - inFlight' <= Cardinality(B)
        PROVE  NoIdlePlace'
    BY <2>2 DEF NoIdlePlace
  <2>3. Cardinality(A) \in Nat /\ Cardinality(B) \in Nat
    BY ThreadsFinite, FS_Subset, FS_CardinalityType
  <2>4. \A u \in Thread \ {t} : Leave(t) \/ pc'[u] = pc[u]
    BY <1>2, <2>1, ThreadFrame
  <2>5. ASSUME ~Leave(t)
        PROVE  /\ (t \in A <=> t \in B) => Cardinality(B) = Cardinality(A)
               /\ t \notin A /\ t \in B => Cardinality(B) = Cardinality(A) + 1
               /\ t \in A /\ t \notin B => Cardinality(B) = Cardinality(A) - 1
    BY <2>4, <2>5, CountOne
  <2>6. ASSUME ~Leave(t), pc'[t] # "asleep" PROVE Sleepers' \subseteq Sleepers
    BY <2>4, <2>6 DEF Sleepers
  <2>7. (t \in A <=> pc[t] \in {"awake", "late"})
        /\ (t \in B <=> pc'[t] \in {"awake", "late"})
    OBVIOUS
  <2>8. CASE Leave(t)
    <3>1. /\ inFlight' = inFlight - 1 /\ pc[t] = "leave"
          /\ result[t] \in Outcome
      BY <2>1, <2>8 DEF Leave, TypeOK, ThreadInv
    <3>2. CASE Sleepers = {} /\ pc' = [pc EXCEPT ![t] = result[t]]
      <4>1. Sleepers' = {}
        BY <2>1, <3>1, <3>2 DEF Sleepers, TypeOK, Outcome
      <4> QED  BY <2>2, <4>1
    <3>3. ASSUME NEW s \in Sleepers,
                 pc' = [pc EXCEPT ![t] = result[t], ![s] = "awake"]
          PROVE  NoIdlePlace'
      <4>1. s \in Thread /\ pc[s] = "asleep" /\ s # t
        BY <3>1, <3>3 DEF Sleepers
      <4>2. /\ pc'[s] = "awake" /\ pc'[t] = result[t]
            /\ \A u \in Thread \ {s, t} : pc'[u] = pc[u]
        BY <2>1, <3>3, <4>1 DEF TypeOK
      <4>3. s \notin A /\ s \in B /\ \A u \in Thread \ {s} : u \in A <=> u \in B
        BY <3>1, <4>1, <4>2 DEF Outcome
      <4>4. Cardinality(B) = Cardinality(A) + 1  BY <4>1, <4>3, CountOne
      <4>5. Sleepers # {}  BY <3>3
      <4> HIDE DEF A, B
      <4> QED  BY <2>1, <2>2, <2>3, <3>1, <4>4, <4>5
    <3> QED  BY <2>8, <3>2, <3>3 DEF Leave
  <2>9. CASE Acquire(t)
    <3>1. ~Leave(t)  BY <2>9 DEF Acquire, Leave
    <3>2. CASE inFlight >= Limit /\ inFlight' = inFlight
      <4> HIDE DEF A, B
      <4> QED  BY <2>1, <2>2, <2>3, <3>2
    <3>3. CASE inFlight' = inFlight + 1 /\ pc'[t] = "pick"
      <4>1. Cardinality(B) >= Cardinality(A) - 1
        <5> HIDE DEF A, B
        <5> QED  BY <2>3, <2>5, <3>1
      <4>2. Sleepers' \subseteq Sleepers  BY <2>6, <3>1, <3>3
      <4> HIDE DEF A, B
      <4> QED  BY <2>1, <2>2, <2>3, <3>3, <4>1, <4>2
    <3> QED
      BY <2>1, <2>9, <3>2, <3>3
         DEF Acquire, Admit, Sleep, Refuse, Goto, TypeOK
  <2>10. CASE SleepTimesOut(t)
    <3>1. pc[t] = "asleep" /\ pc'[t] = "late" /\ inFlight' = inFlight
      BY <2>1, <2>10 DEF SleepTimesOut, Goto, TypeOK, poolVars
    <3>2. ~Leave(t)  BY <3>1 DEF Leave
    <3>3. Cardinality(B) = Cardinality(A) + 1  BY <2>5, <2>7, <3>1, <3>2
    <3>4. t \in Sleepers  BY <3>1 DEF Sleepers
    <3> HIDE DEF A, B
    <3> QED  BY <2>1, <2>2, <2>3, <3>1, <3>3, <3>4
  <2>11. CASE /\ inFlight' = inFlight /\ ~Leave(t)
              /\ pc[t] \notin Waiting /\ pc'[t] \notin Waiting
    <3>1. Cardinality(B) = Cardinality(A)  BY <2>5, <2>7, <2>11 DEF Waiting
    <3>2. Sleepers' \subseteq Sleepers  BY <2>6, <2>11 DEF Waiting
    <3> HIDE DEF A, B
    <3> QED  BY <2>1, <2>2, <2>11, <3>1, <3>2
  <2> QED  BY <1>2, <2>8, <2>9, <2>10, <2>11, WaitMoves
<1> QED  BY <1>1, <1>2 DEF Next

-----------------------------------------------------------------------------
(* The invariant and the theorems.                                         *)

\* WorkerPool::start leaves every worker up, fresh and quiet.
LEMMA InitInd == Init => IndInv
<1> SUFFICES ASSUME Init PROVE IndInv
  OBVIOUS
<1> USE DEF Init, ProcessInit
<1> DEFINE h == [no_worker EXCEPT !.state = "up", !.born = 1]
<1>1. /\ h \in WorkerHandle /\ h.state = "up" /\ h.born = 1
      /\ h.completed = 0 /\ h.running = None
  BY DEF no_worker, WorkerHandle
<1>2. /\ worker \in [Slot -> WorkerHandle]
      /\ \A w \in Slot : worker[w] = h
  BY <1>1
<1> HIDE DEF h
<1>3. \A t \in Thread : ~HasGuard(t)
  BY NoneAssumption DEF HasGuard, Admitted, InManager, ThreadPC
<1>4. TypeOK
  <2>1. /\ toWorker \in [Slot -> Seq(RequestId)]
        /\ fromWorker \in [Slot -> Seq(ReplyMessage)]
        /\ effects \in [Thread -> Nat]
    OBVIOUS
  <2> QED
    BY <1>2, <2>1, LimitAssumption, BoundAssumption
       DEF TypeOK, ProcessTypeOK, ThreadPC, Continuation
<1>t. \A t \in Thread :
         /\ pc[t] = "idle" /\ slot[t] = None /\ then[t] = None
         /\ attempt[t] = 0 /\ result[t] = None /\ gen[t] = 0
  OBVIOUS
<1>5. ThreadInv /\ AttemptInv
  <2>1. None \notin {"reloadNext", "deadline", "send", "resend", "starting"}
    BY NoneAssumption DEF ThreadPC, InManager
  <2> HIDE DEF Init, ProcessInit
  <2>2. ThreadInv  BY <1>t, <2>1 DEF ThreadInv, NoSlot
  <2>3. ASSUME NEW t \in Thread
        PROVE  /\ pc[t] \notin {"read", "lost", "send", "resend"}
               /\ then[t] # "resend" /\ attempt[t] = 0
    BY <1>t, <2>1
  <2>4. AttemptInv  BY <1>4, <2>3 DEF AttemptInv, TypeOK
  <2> QED  BY <2>2, <2>4
<1>6. LockInv
  BY ThreadAssumption, NoneAssumption
     DEF LockInv, Holds, HoldsReload, Holding, InManager, ThreadPC
<1>7. AdmissionExact /\ ActiveExact
  <2>1. {t \in Thread : HasGuard(t)} = {}  BY <1>3
  <2>2. \A w \in Slot :
           {t \in Thread : /\ HasGuard(t) /\ slot[t] = w
                           /\ pc[t] \notin {"count", "leave"}} = {}
    BY <1>3
  <2> QED  BY <2>1, <2>2, FS_EmptySet DEF AdmissionExact, ActiveExact
<1>8. NoIdlePlace  BY DEF NoIdlePlace, Sleepers
<1>9. StreamInv  BY <1>1, <1>2 DEF StreamInv, StreamOK, Quiet
<1>10. EffectsInv /\ BoundedEffects  BY DEF EffectsInv, BoundedEffects
<1>11. WorkerInv /\ RecycledAtLimit
  <2> HIDE DEF Init, ProcessInit
  <2>1. WorkerInv  BY <1>1, <1>2, <1>t DEF WorkerInv
  <2>2. RecycledAtLimit
    BY <1>1, <1>2, RecycleAssumption DEF RecycledAtLimit
  <2> QED  BY <2>1, <2>2
<1>12. FreshInv
  <2>3. lastRestart = 0 /\ generation = 1  OBVIOUS
  <2> HIDE DEF Init, ProcessInit
  <2>1. \A w \in Slot, g \in {0, 1} : Current(w, g)
    BY <1>1, <1>2 DEF Current
  <2>2. \A t \in Thread : ~HoldsReload(t) /\ ~PastReload(t)
    BY <1>t, NoneAssumption DEF HoldsReload, PastReload, ThreadPC
  <2> QED  BY <1>t, <2>1, <2>2, <2>3 DEF FreshInv
<1> QED
  BY <1>4, <1>5, <1>6, <1>7, <1>8, <1>9, <1>10, <1>11, <1>12 DEF IndInv

\* The invariant is inductive.
THEOREM Invariance == Spec => []IndInv
<1>1. IndInv /\ [Next]_vars => IndInv'
  BY TypeStep, ThreadStep, AttemptStep, LockStep, CountStep, NoIdleStep,
     StreamStep, EffectsStep, WorkerStep, FreshStep, BoundedStep, RecycleStep
     DEF IndInv
<1> QED  BY <1>1, InitInd, PTL DEF Spec

\* Every variable keeps its type: attempts stay within two, in_flight within
\* the limit, and no counter of a slot becomes negative.
THEOREM TypeCorrect == Spec => []TypeOK
<1>1. IndInv => TypeOK  BY DEF IndInv
<1> QED  BY <1>1, Invariance, PTL

\* in_flight is the number of AdmissionGuards, whatever path drops them.
THEOREM AdmissionIsExact == Spec => []AdmissionExact
<1>1. IndInv => AdmissionExact  BY DEF IndInv
<1> QED  BY <1>1, Invariance, PTL

\* WorkerSlot.active is the number of requests dispatched to the slot.
THEOREM ActiveIsExact == Spec => []ActiveExact
<1>1. IndInv => ActiveExact  BY DEF IndInv
<1> QED  BY <1>1, Invariance, PTL

\* notify_one per dropped guard loses no place, for any number of sleepers.
THEOREM NoPlaceIsLost == Spec => []NoIdlePlace
<1>1. IndInv => NoIdlePlace  BY DEF IndInv
<1> QED  BY <1>1, Invariance, PTL

\* No request is given the reply of another: a restart after a timeout or a
\* loss leaves nothing behind in the stream.
THEOREM RepliesAreCurrent == Spec => []NoStaleReply
<1>1. IndInv => NoStaleReply
  <2> SUFFICES ASSUME IndInv, NEW w \in Slot
               PROVE  LET ids == {toWorker[w][i] : i \in DOMAIN toWorker[w]}
                               \cup {fromWorker[w][i].id :
                                        i \in DOMAIN fromWorker[w]}
                               \cup ({worker[w].running} \ {None})
                      IN  \A m \in ids : /\ lock[w] = m.by
                                         /\ pc[m.by] = "read"
                                         /\ attempt[m.by] = m.attempt
    BY DEF NoStaleReply
  <2> DEFINE ids == {toWorker[w][i] : i \in DOMAIN toWorker[w]}
                    \cup {fromWorker[w][i].id : i \in DOMAIN fromWorker[w]}
                    \cup ({worker[w].running} \ {None})
  <2>1. CASE Quiet(w)
    <3>1. ids = {}  BY <2>1 DEF Quiet
    <3> QED  BY <3>1
  <2>2. ASSUME NEW t \in Thread, slot[t] = w, pc[t] = "read",
               Carries(w, id(t))
        PROVE  ids \subseteq {id(t)} /\ lock[w] = t
    <3>1. lock[w] = t
      BY <2>2 DEF IndInv, LockInv, Holds, Holding, InManager
    <3> DEFINE m == id(t)
    <3>2. Carries(w, m)  BY <2>2
    <3> HIDE DEF m
    <3>3. ids \subseteq {m}  BY <3>2 DEF Carries
    <3> QED  BY <3>1, <3>3 DEF m
  <2>3. \A t \in Thread : id(t).by = t /\ id(t).attempt = attempt[t]
    BY DEF id
  <2> QED  BY <2>1, <2>2, <2>3 DEF IndInv, StreamInv, StreamOK
<1> QED  BY <1>1, Invariance, PTL

\* A page with a timeout runs a request that must not be repeated at most
\* once, and any request at most twice, over all losses and restarts.
THEOREM EffectsAreBounded == Spec => []BoundedEffects
<1>1. IndInv => BoundedEffects  BY DEF IndInv
<1> QED  BY <1>1, Invariance, PTL

\* After restart_workers_after_reload a request only ever runs in a child of
\* its own generation or a later one.
THEOREM ProcessesAreFresh == Spec => []RunsInFreshProcess
<1>1. IndInv => RunsInFreshProcess
  <2> SUFFICES ASSUME IndInv, NEW t \in Thread, pc[t] = "read"
               PROVE  worker[slot[t]].born >= gen[t]
    BY DEF RunsInFreshProcess
  <2>1. slot[t] \in Slot  BY OnSlot DEF IndInv, NoSlot, Outcome
  <2>2. worker[slot[t]].state # "none"  BY DEF IndInv, WorkerInv
  <2>3. PastReload(t)
    BY NoneAssumption DEF PastReload, IndInv, ThreadInv, Outcome, ThreadPC
  <2> QED  BY <2>1, <2>2, <2>3 DEF IndInv, FreshInv, Current
<1> QED  BY <1>1, Invariance, PTL

\* No child completes, or begins, a request beyond the operator's limit.
THEOREM WorkersAreRecycled == Spec => []RecycledAtLimit
<1>1. IndInv => RecycledAtLimit  BY DEF IndInv
<1> QED  BY <1>1, Invariance, PTL
=============================================================================
