---------------------------- MODULE MCWorkerPool ----------------------------
(* Instances of WorkerPool for TLC.                                        *)
EXTENDS WorkerPool, TLC

\* Threads with the same kind of request are interchangeable: slots, not
\* threads, are ordered.
SameKind ==
    {f \in Permutations(Thread) :
        \A t \in Thread : /\ f[t] \in Unsafe <=> t \in Unsafe
                          /\ f[t] \in Timed <=> t \in Timed}
=============================================================================
