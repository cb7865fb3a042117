--------------------------- MODULE WorkerProcess ---------------------------
(***************************************************************************)
(* One worker slot as its WorkerManager sees it (worker/manager.rs): the   *)
(* handle of the child process, if there is one, and the two directions of *)
(* the IPC stream; and the child itself (tsp_worker.rs: serve_stream),     *)
(* which takes one Execute after the other, runs it and writes its reply.  *)
(*                                                                         *)
(* A request is named by the thread that issues it and the number of the   *)
(* attempt: the manager draws a fresh id for every Execute it writes.      *)
(* Hello/Ready are part of starting; a Cancel is read and ignored by the   *)
(* child; a Shutdown is followed by a kill: none of them is a message here.*)
(***************************************************************************)
EXTENDS Integers, Sequences

CONSTANTS
    Thread,        \* the request threads
    WorkerCount,   \* pool size; the slots are 1 .. WorkerCount
    None

ASSUME ThreadAssumption == None \notin Thread
ASSUME CountAssumption == WorkerCount \in Nat \ {0}

VARIABLES
    worker,      \* worker[w]: the WorkerHandle and the child behind it
    toWorker,    \* toWorker[w]: Executes the child has not read yet
    fromWorker,  \* fromWorker[w]: replies the manager has not read yet
    effects      \* history: how often thread t's page code was run

processVars == <<worker, toWorker, fromWorker, effects>>

Slot == 1 .. WorkerCount

RequestId == [by: Thread, attempt: 1 .. 2]

ReplyMessage == [id: RequestId, kind: {"Response", "Error"}]

\* "none": no handle; "dead": the handle of a child that has exited.
WorkerHandle ==
    [state: {"none", "up", "dead"}, born: Nat, completed: Nat,
     running: RequestId \cup {None}]

no_worker == [state |-> "none", born |-> 0, completed |-> 0, running |-> None]

ProcessTypeOK ==
    /\ worker \in [Slot -> WorkerHandle]
    /\ toWorker \in [Slot -> Seq(RequestId)]
    /\ fromWorker \in [Slot -> Seq(ReplyMessage)]
    /\ effects \in [Thread -> Nat]

\* WorkerPool::start has brought every child up before the host serves.
ProcessInit(generation) ==
    /\ worker = [w \in Slot |->
                   [no_worker EXCEPT !.state = "up", !.born = generation]]
    /\ toWorker = [w \in Slot |-> <<>>]
    /\ fromWorker = [w \in Slot |-> <<>>]
    /\ effects = [t \in Thread |-> 0]

-----------------------------------------------------------------------------
(* What a manager does, holding its mutex.                                 *)

\* A new handle comes with a new stream.
Replace(w, handle) ==
    /\ worker' = [worker EXCEPT ![w] = handle]
    /\ toWorker' = [toWorker EXCEPT ![w] = <<>>]
    /\ fromWorker' = [fromWorker EXCEPT ![w] = <<>>]
    /\ UNCHANGED effects

\* stop_worker: kill and reap the child, drop the handle and its stream.
stop_worker(w) == Replace(w, no_worker)

\* start_worker: spawn, accept, Hello and Ready succeed.
start_worker(w, generation) ==
    Replace(w, [no_worker EXCEPT !.state = "up", !.born = generation])

\* Message::Execute is written; a child that is gone reads nothing.
write_execute(w, id) ==
    /\ toWorker' = IF worker[w].state = "up"
                   THEN [toWorker EXCEPT ![w] = Append(@, id)] ELSE toWorker
    /\ UNCHANGED <<worker, fromWorker, effects>>

\* The next reply is read; only a Response counts as a completed request.
read_reply(w, id) ==
    /\ fromWorker' = [fromWorker EXCEPT ![w] = Tail(@)]
    /\ worker' = IF Head(fromWorker[w]) = [id |-> id, kind |-> "Response"]
                 THEN [worker EXCEPT ![w].completed = @ + 1] ELSE worker
    /\ UNCHANGED <<toWorker, effects>>

-----------------------------------------------------------------------------
(* What the child does.                                                    *)

\* Message::Execute is read and the page's code begins to run.
ChildExecutes(w) ==
    /\ worker[w].state = "up"
    /\ worker[w].running = None
    /\ toWorker[w] # <<>>
    /\ worker' = [worker EXCEPT ![w].running = Head(toWorker[w])]
    /\ toWorker' = [toWorker EXCEPT ![w] = Tail(@)]
    /\ effects' = [effects EXCEPT ![Head(toWorker[w]).by] = @ + 1]
    /\ UNCHANGED fromWorker

\* The code has returned or thrown and the reply is written.
ChildReplies(w) ==
    /\ worker[w].running # None
    /\ \E kind \in {"Response", "Error"} :
         fromWorker' = [fromWorker EXCEPT
                          ![w] = Append(@, [id |-> worker[w].running,
                                            kind |-> kind])]
    /\ worker' = [worker EXCEPT ![w].running = None]
    /\ UNCHANGED <<toWorker, effects>>

\* The child dies; what it has written can still be read.
ChildDies(w) ==
    /\ worker[w].state = "up"
    /\ worker' = [worker EXCEPT ![w].state = "dead", ![w].running = None]
    /\ toWorker' = [toWorker EXCEPT ![w] = <<>>]
    /\ UNCHANGED <<fromWorker, effects>>
=============================================================================
