-------------------------- MODULE MCMemorySessions --------------------------
(* Instances of MemorySessions for TLC.                                    *)
EXTENDS MemorySessions

\* Threads, clients and keys are interchangeable; ids are ordered.
Interchangeable == Permutations(Thread) \cup Permutations(Client) \cup Permutations(Key)
=============================================================================
