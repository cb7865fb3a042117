---------------------------- MODULE SessionStore ----------------------------
(***************************************************************************)
(* What a session backend promises (trait SessionBackend, spec section     *)
(* 16), with no threads, locks or bookkeeping in sight.  A session is born *)
(* under a fresh id, keeps its data while its id is replaced, and ends for *)
(* good; no id is ever used for a second session; a session that nobody    *)
(* destroyed is dropped only to bring the store down to its capacity.      *)
(***************************************************************************)
EXTENDS Integers, FiniteSets

CONSTANTS
    Id,    \* the ids there are
    Key,   \* keys of session data
    Cap    \* sessions the store keeps without evicting

VARIABLES
    held,  \* the sessions: birth id, current id (0 while it is replaced), data
    used   \* every id handed out so far

vars == <<held, used>>

Session == [root : Id, id : Id \cup {0}, data : SUBSET Key]

Init == held = {} /\ used = {}

\* create
Open(s) ==
    /\ s \in Id \ used
    /\ held' = held \cup {[root |-> s, id |-> s, data |-> {}]}
    /\ used' = used \cup {s}

\* set, delete and clear reach a session through its current id only
Write(x, d) ==
    /\ x.id # 0
    /\ held' = (held \ {x}) \cup {[x EXCEPT !.data = d]}
    /\ UNCHANGED used

\* regenerate: the old id stops working, then a fresh one starts
Detach(x) ==
    /\ x.id # 0
    /\ held' = (held \ {x}) \cup {[x EXCEPT !.id = 0]}
    /\ UNCHANGED used

Attach(x, s) ==
    /\ x.id = 0
    /\ s \in Id \ used
    /\ held' = (held \ {x}) \cup {[x EXCEPT !.id = s]}
    /\ used' = used \cup {s}

\* destroy
Close(x) ==
    /\ x.id # 0
    /\ held' = held \ {x}
    /\ UNCHANGED used

\* Eviction never takes the store below its capacity.
Evict(X) ==
    /\ \A x \in X : x.id # 0
    /\ Cardinality(held \ X) >= Cap
    /\ held' = held \ X
    /\ UNCHANGED used

Next ==
    \/ \E s \in Id : Open(s)
    \/ \E x \in held : \/ \E d \in SUBSET Key : Write(x, d)
                       \/ Detach(x)
                       \/ \E s \in Id : Attach(x, s)
                       \/ Close(x)
    \/ \E X \in SUBSET held : Evict(X)

Spec == Init /\ [][Next]_vars
=============================================================================
