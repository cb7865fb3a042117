--------------------------- MODULE RedisSessions ----------------------------
(***************************************************************************)
(* The Redis session backend (session_backend.rs, RedisBackend) under the  *)
(* host's request threads of one process.  All threads share one TCP       *)
(* stream behind a mutex; one action is one critical section, that is one  *)
(* round trip.  A reply that misses the 500 ms read timeout stays in the   *)
(* stream, and whoever reads next gets it.                                 *)
(***************************************************************************)
EXTENDS SessionHost, Sequences

CONSTANT MaxFault   \* bound: late replies, broken streams and failed dials

VARIABLES
    redis,      \* external: the server's map, id -> stored view
    conn,       \* the stream: "none", "open" or "broken"
    late,       \* replies sent on the stream that nobody has read yet
    available,  \* the flag of is_available
    op,         \* op[t]: what thread t calls the backend for
    after,      \* after[t]: where t goes on once a failure is cleaned up
    fetched,    \* fetched[t]: the view the last lookup returned
    faults      \* faults so far

linkVars == <<redis, conn, late, available, faults>>
localVars == <<op, after, fetched>>
vars == <<hostVars, mintVars, linkVars, localVars>>

Stored == [id : Sid, data : SUBSET Key]
NoView == [id |-> NoSid, data |-> {}]
Op == {"resolve", "create", "writes", "set", "delete", "clear", "regenerate", "destroy"}

\* Replies: a status or integer, nil, or a stored view.
Ok == [kind |-> "ok", view |-> NoView]
Nil == [kind |-> "nil", view |-> NoView]
Blob(v) == [kind |-> "blob", view |-> v]
Failed == [kind |-> "err", view |-> NoView]

Init ==
    /\ HostInit
    /\ redis = << >>
    /\ conn = "none"
    /\ late = << >>
    /\ available = FALSE
    /\ op = [t \in Thread |-> "resolve"]
    /\ after = [t \in Thread |-> "idle"]
    /\ fetched = [t \in Thread |-> NoView]
    /\ faults = 0

Put(v) == [s \in DOMAIN redis \cup {v.id} |-> IF s = v.id THEN v ELSE redis[s]]
Drop(s) == [x \in DOMAIN redis \ {s} |-> redis[x]]

-----------------------------------------------------------------------------
(* The link.                                                               *)

Fault == faults < MaxFault /\ faults' = faults + 1

\* round_trip, under the connection mutex: the server turns its map into
\* answered and sends reply; the caller reads the first unread reply, or
\* times out and leaves what was sent in the stream.
RoundTrip(answered, reply, got) ==
    /\ UNCHANGED available
    /\ \/ /\ conn = "open"
          /\ redis' = answered
          /\ got = Head(Append(late, reply))
          /\ late' = Tail(Append(late, reply))
          /\ UNCHANGED <<conn, faults>>
       \/ /\ conn = "open"
          /\ Fault
          /\ redis' = answered
          /\ got = Failed
          /\ late' = Append(late, reply)
          /\ UNCHANGED conn
       \/ /\ conn # "open"
          /\ got = Failed
          /\ UNCHANGED <<redis, conn, late, faults>>

Replies == {Ok, Nil, Failed} \cup {Blob(v) : v \in Stored}

\* The server or the network drops the stream.
Break ==
    /\ conn = "open"
    /\ Fault
    /\ conn' = "broken"
    /\ late' = << >>
    /\ UNCHANGED <<hostVars, mintVars, redis, available, localVars>>

\* A call of the backend starts with is_available.
Call(t, o) ==
    /\ op' = [op EXCEPT ![t] = o]
    /\ Goto(t, "avail")

\* Where is_available sends the caller.
WhenReady(o) ==
    CASE o = "create" -> "put"
      [] o = "writes" -> "write"
      [] OTHER -> "get"
WhenDown(o) ==
    CASE o = "resolve" -> "create"
      [] o = "create" -> "page"
      [] o = "writes" -> "respond"
      [] OTHER -> "write"

\* is_available: is there a stream, and is the flag up?
CheckLink(t) ==
    /\ pc[t] = "avail"
    /\ Goto(t, IF conn = "none" THEN "dial" ELSE "flag")
    /\ UNCHANGED <<jar, client, cookie, view, sid, left, mintVars, linkVars, localVars>>

\* dial: the new stream replaces whatever is there by now.
Dial(t) ==
    /\ pc[t] = "dial"
    /\ \/ /\ conn' = "open"
          /\ late' = << >>
          /\ available' = TRUE
          /\ Goto(t, "flag")
          /\ UNCHANGED faults
       \/ /\ Fault
          /\ Goto(t, WhenDown(op[t]))
          /\ UNCHANGED <<conn, late, available>>
    /\ UNCHANGED <<jar, client, cookie, view, sid, left, mintVars, redis, localVars>>

CheckFlag(t) ==
    /\ pc[t] = "flag"
    /\ Goto(t, IF available THEN WhenReady(op[t]) ELSE "ping")
    /\ UNCHANGED <<jar, client, cookie, view, sid, left, mintVars, linkVars, localVars>>

Ping(t) ==
    /\ pc[t] = "ping"
    /\ \E got \in Replies :
        /\ RoundTrip(redis, Ok, got)
        /\ Goto(t, IF got.kind \in {"err", "nil"} THEN "hangup" ELSE "raise")
    /\ UNCHANGED <<jar, client, cookie, view, sid, left, mintVars, localVars>>

\* The PING worked: raise the flag.  It did not: drop the stream.
AfterPing(t) ==
    /\ \/ /\ pc[t] = "raise"
          /\ available' = TRUE
          /\ Goto(t, WhenReady(op[t]))
          /\ UNCHANGED <<conn, late>>
       \/ /\ pc[t] = "hangup"
          /\ conn' = "none"
          /\ late' = << >>
          /\ Goto(t, WhenDown(op[t]))
          /\ UNCHANGED available
    /\ UNCHANGED <<jar, client, cookie, view, sid, left, mintVars, redis, faults, localVars>>

\* A failed command: drop the stream, then lower the flag, in two steps that
\* come after the mutex of the failed round trip was released.
DropLink(t) ==
    /\ pc[t] = "drop"
    /\ conn' = "none"
    /\ late' = << >>
    /\ Goto(t, "lower")
    /\ UNCHANGED <<jar, client, cookie, view, sid, left, mintVars, redis, available, faults, localVars>>

LowerFlag(t) ==
    /\ pc[t] = "lower"
    /\ available' = FALSE
    /\ Goto(t, after[t])
    /\ UNCHANGED <<jar, client, cookie, view, sid, left, mintVars, redis, conn, late, faults, localVars>>

\* Go on at step, or clean up the failure first.
Resume(t, failed, step) ==
    /\ after' = [after EXCEPT ![t] = step]
    /\ Goto(t, IF failed THEN "drop" ELSE step)

-----------------------------------------------------------------------------
(* lookup, create and apply_writes.                                        *)

Lookup(t) ==
    /\ pc[t] = "lookup"
    /\ Call(t, "resolve")
    /\ UNCHANGED <<jar, client, cookie, view, sid, left, mintVars, linkVars, after, fetched>>

\* create: the view is the fresh id whether or not Redis takes the row.
Create(t) ==
    /\ pc[t] = "create"
    /\ minted < MaxSid
    /\ Mint(t)
    /\ view' = [view EXCEPT ![t] = minted + 1]
    /\ fetched' = [fetched EXCEPT ![t] = [id |-> minted + 1, data |-> {}]]
    /\ Call(t, "create")
    /\ UNCHANGED <<jar, client, cookie, sid, left, linkVars, after>>

\* GET: of the cookie's id when resolving, else of current_sid.  A reply
\* that is not a stored view is a miss.  regenerate then mints its id.
Get(t) ==
    /\ pc[t] = "get"
    /\ op[t] = "regenerate" => minted < MaxSid
    /\ LET key == IF op[t] = "resolve" THEN cookie[t] ELSE view[t]
       IN  \E got \in Replies :
            /\ RoundTrip(redis, IF key \in DOMAIN redis THEN Blob(redis[key]) ELSE Nil, got)
            /\ \/ /\ got.kind = "blob"
                  /\ op[t] = "resolve"
                  /\ view' = [view EXCEPT ![t] = got.view.id]
                  /\ Resume(t, FALSE, "page")
                  /\ UNCHANGED <<fetched, mintVars>>
               \/ /\ got.kind = "blob"
                  /\ op[t] \in {"set", "delete", "clear"}
                  /\ fetched' = [fetched EXCEPT ![t] = got.view]
                  /\ Resume(t, FALSE, "put")
                  /\ UNCHANGED <<view, mintVars>>
               \/ /\ got.kind = "blob"
                  /\ op[t] = "regenerate"
                  /\ Mint(t)
                  /\ fetched' = [fetched EXCEPT ![t] = [got.view EXCEPT !.id = minted + 1]]
                  /\ Resume(t, FALSE, "put")
                  /\ UNCHANGED view
               \/ /\ got.kind # "blob"
                  /\ Resume(t, got = Failed, WhenDown(op[t]))
                  /\ UNCHANGED <<view, fetched, mintVars>>
    /\ UNCHANGED <<jar, client, cookie, sid, left, op>>

\* The data a write stores: the fetched map with one key set or removed.
NewData(t) ==
    CASE op[t] = "set" -> {fetched[t].data \cup {k} : k \in Key}
      [] op[t] = "delete" -> {fetched[t].data \ {k} : k \in Key}
      [] op[t] = "clear" -> {{}}
      [] OTHER -> {fetched[t].data}

\* SET of the whole view under its own id.  A failed regenerate ends the
\* writes with the old id.
PutView(t) ==
    /\ pc[t] = "put"
    /\ \E d \in NewData(t), got \in Replies :
        /\ RoundTrip(Put([fetched[t] EXCEPT !.data = d]), Ok, got)
        /\ LET failed == got.kind \in {"err", "nil"}
           IN  Resume(t, failed, CASE op[t] = "create" -> "page"
                                   [] op[t] = "regenerate" /\ failed -> "respond"
                                   [] op[t] = "regenerate" /\ ~failed -> "del"
                                   [] OTHER -> "write")
    /\ UNCHANGED <<jar, client, cookie, view, sid, left, mintVars, op, fetched>>

\* DEL of current_sid.  regenerate ignores how it went and keeps the stream.
Del(t) ==
    /\ pc[t] = "del"
    /\ \E got \in Replies :
        /\ RoundTrip(Drop(view[t]), Ok, got)
        /\ Resume(t, op[t] = "destroy" /\ got.kind \in {"err", "nil"}, "write")
    /\ sid' = [sid EXCEPT ![t] = IF op[t] = "destroy" THEN NoSid ELSE fetched[t].id]
    /\ UNCHANGED <<jar, client, cookie, view, left, mintVars, op, fetched>>

\* apply_writes with a list that is not empty.
BeginWrites(t) ==
    /\ pc[t] = "apply"
    /\ left[t] > 0
    /\ Call(t, "writes")
    /\ UNCHANGED <<jar, client, cookie, view, sid, left, mintVars, linkVars, after, fetched>>

NextWrite(t) ==
    /\ pc[t] = "write"
    /\ left[t] > 0
    /\ left' = [left EXCEPT ![t] = @ - 1]
    /\ \/ \E o \in {"set", "delete", "clear", "regenerate"} : Call(t, o)
       \/ op' = [op EXCEPT ![t] = "destroy"] /\ Goto(t, "del")
    /\ UNCHANGED <<jar, client, cookie, view, sid, mintVars, linkVars, after, fetched>>

EndWrites(t) ==
    /\ pc[t] = "write"
    /\ Goto(t, "respond")
    /\ UNCHANGED <<jar, client, cookie, view, sid, left, mintVars, linkVars, localVars>>

BackendStep(t) ==
    \/ CheckLink(t) \/ Dial(t) \/ CheckFlag(t) \/ Ping(t) \/ AfterPing(t)
    \/ DropLink(t) \/ LowerFlag(t)
    \/ Lookup(t) \/ Create(t) \/ Get(t) \/ PutView(t) \/ Del(t)
    \/ BeginWrites(t) \/ NextWrite(t) \/ EndWrites(t)

Next ==
    \/ Break
    \/ \E t \in Thread : \/ HostStep(t) /\ UNCHANGED <<linkVars, localVars>>
                         \/ BackendStep(t)

Spec == Init /\ [][Next]_vars

\* A lookup that found a session found the one the request's cookie names:
\* round_trip pairs every command with its own reply ("Locking only the
\* write and read separately would allow another caller to insert a command
\* between them and desynchronise the RESP stream").
LookupAnswersItsCookie ==
    \A t \in Thread : pc[t] = "page" /\ op[t] = "resolve" => view[t] = cookie[t]
=============================================================================
