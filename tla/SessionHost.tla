---------------------------- MODULE SessionHost -----------------------------
(***************************************************************************)
(* The host's half of a session (host.rs, spec section 16): a connection   *)
(* thread reads the client's tsp_sid cookie, resolves it to a session view *)
(* through the SessionService, runs the page, applies the page's session   *)
(* writes, and answers, planting a new cookie when the id changed.  What   *)
(* the service does with its store is a backend's affair: MemorySessions   *)
(* and RedisSessions extend this module with theirs.                       *)
(*                                                                         *)
(* A session id is the number its mint counter gave it (the hex form is a  *)
(* one-to-one rendering of the counter); 0 is the empty string, i.e. no    *)
(* cookie.                                                                 *)
(***************************************************************************)
EXTENDS Integers, FiniteSets

CONSTANTS
    Client,     \* browsers, each with one cookie jar
    Thread,     \* connection threads of the host
    Key,        \* keys a page may store in its session
    MaxSid,     \* bound: ids the counter hands out
    MaxWrites,  \* bound: session writes one page returns
    None        \* no client

ASSUME SessionHostAssumption ==
    /\ MaxSid \in Nat \ {0}
    /\ MaxWrites \in Nat
    /\ None \notin Client

\* A server has finitely many connection threads.
ASSUME ThreadsFinite == IsFiniteSet(Thread)

VARIABLES
    jar,      \* jar[c]: the tsp_sid value client c would send, 0 for none
    pc,       \* pc[t]: the next step of thread t
    client,   \* client[t]: whose request t serves
    cookie,   \* cookie[t]: original_sid, the id the request carried
    view,     \* view[t]: the id of ctx.session, resolved before the page ran
    sid,      \* sid[t]: new_sid, the id apply_writes will return
    left,     \* left[t]: session writes the page may still have returned
    minted,   \* next_counter: ids minted so far
    owner     \* history: owner[s], the client for whose request s was minted

hostVars == <<jar, pc, client, cookie, view, sid, left>>
mintVars == <<minted, owner>>

Sid == 1..MaxSid
NoSid == 0

HostInit ==
    /\ jar = [c \in Client |-> NoSid]
    /\ pc = [t \in Thread |-> "idle"]
    /\ client = [t \in Thread |-> None]
    /\ cookie = [t \in Thread |-> NoSid]
    /\ view = [t \in Thread |-> NoSid]
    /\ sid = [t \in Thread |-> NoSid]
    /\ left = [t \in Thread |-> 0]
    /\ minted = 0
    /\ owner = [s \in Sid |-> None]

Goto(t, step) == pc' = [pc EXCEPT ![t] = step]

\* Threads that may still need an id from the counter.
Minting == {t \in Thread : pc[t] \in {"lookup", "create", "reinsert"}}

\* The bound on the counter: a new need for an id may arise only while one
\* is left, so that no thread is caught halfway by the bound.
IdLeft == minted + Cardinality(Minting) < MaxSid

\* Mutant: the counter is loaded and stored, and an increment may be lost.
Mint_Torn(t) ==
    /\ minted' \in {minted, minted + 1}
    /\ owner' = [owner EXCEPT ![minted + 1] = client[t]]

\* fetch_add on the counter, for the request of thread t.
Mint(t) ==
    /\ minted' = minted + 1
    /\ owner' = [owner EXCEPT ![minted + 1] = client[t]]

(***************************************************************************)
(* A request of client c reaches thread t with the cookie the jar holds    *)
(* now.  Without a cookie resolve_session_view goes straight to create.    *)
(***************************************************************************)
Arrive(t, c) ==
    /\ pc[t] = "idle"
    /\ IdLeft
    /\ client' = [client EXCEPT ![t] = c]
    /\ cookie' = [cookie EXCEPT ![t] = jar[c]]
    /\ Goto(t, IF jar[c] = NoSid THEN "create" ELSE "lookup")
    /\ UNCHANGED <<jar, view, sid, left, mintVars>>

\* The page has run; apply_writes starts from the resolved view's id.
PageReturns(t) ==
    /\ pc[t] = "page"
    /\ sid' = [sid EXCEPT ![t] = view[t]]
    /\ left' = [left EXCEPT ![t] = MaxWrites]
    /\ Goto(t, "apply")
    /\ UNCHANGED <<jar, client, cookie, view, mintVars>>

\* The end of the list of writes.
WritesDone(t) ==
    /\ pc[t] = "apply"
    /\ Goto(t, "respond")
    /\ UNCHANGED <<jar, client, cookie, view, sid, left, mintVars>>

\* Thread t forgets its request.
Forget(t) ==
    /\ Goto(t, "idle")
    /\ client' = [client EXCEPT ![t] = None]
    /\ cookie' = [cookie EXCEPT ![t] = NoSid]
    /\ view' = [view EXCEPT ![t] = NoSid]
    /\ sid' = [sid EXCEPT ![t] = NoSid]
    /\ left' = [left EXCEPT ![t] = 0]

\* build_session_cookie: a Set-Cookie line only when the id the host ends
\* with is not the one the request carried; the empty id expires the cookie.
Respond(t) ==
    /\ pc[t] = "respond"
    /\ jar' = IF sid[t] = cookie[t] THEN jar ELSE [jar EXCEPT ![client[t]] = sid[t]]
    /\ Forget(t)
    /\ UNCHANGED mintVars

\* The client is gone (write_all fails), or the development error page
\* replaced the response and its headers: the cookie never arrives.
ResponseLost(t) ==
    /\ pc[t] = "respond"
    /\ Forget(t)
    /\ UNCHANGED <<jar, mintVars>>

\* 404, 405, OPTIONS and HEAD over GET: the session was resolved, perhaps
\* created, but no write is applied and no cookie is planted.
RespondBare(t) ==
    /\ pc[t] = "page"
    /\ Forget(t)
    /\ UNCHANGED <<jar, mintVars>>

\* What every backend shares with the host.
HostStep(t) ==
    \/ \E c \in Client : Arrive(t, c)
    \/ PageReturns(t)
    \/ WritesDone(t)
    \/ Respond(t)
    \/ ResponseLost(t)
    \/ RespondBare(t)

HostTypeOK ==
    /\ jar \in [Client -> 0..MaxSid]
    /\ client \in [Thread -> Client \cup {None}]
    /\ cookie \in [Thread -> 0..MaxSid]
    /\ view \in [Thread -> 0..MaxSid]
    /\ sid \in [Thread -> 0..MaxSid]
    /\ left \in [Thread -> 0..MaxWrites]
    /\ minted \in 0..MaxSid
    /\ owner \in [Sid -> Client \cup {None}]

\* A request works with, and a jar holds, only ids minted for its own
\* client: sessions are not shared (services.rs, SessionService::create:
\* "predictable but unique").
SessionsNotShared ==
    /\ \A c \in Client : jar[c] = NoSid \/ owner[jar[c]] = c
    /\ \A t \in Thread : \A s \in {view[t], sid[t]} : s = NoSid \/ owner[s] = client[t]
=============================================================================
