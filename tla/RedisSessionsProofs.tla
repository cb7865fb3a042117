------------------------ MODULE RedisSessionsProofs -------------------------
(***************************************************************************)
(* What is left of the Redis backend's promises when replies miss their    *)
(* timeout, for any clients, keys, threads and number of faults.  The run  *)
(* redis_reply shows that a lookup may then answer with another session;   *)
(* the proofs show the one way this happens, and what it cannot do: no     *)
(* view is stored under another view's id, and a fresh id is no session's. *)
(*                                                                         *)
(* The argument.  Whatever reply a round trip returns, its own or one left *)
(* unread, carries the id of a view that some thread stored (RedisInv), so *)
(* every id in use is one the counter gave out (IdInv).  A thread that     *)
(* goes on to store a view holds one with an id (ThreadOK).  A page is     *)
(* reached with the view of a lookup only from the GET itself: a failed    *)
(* call leads back through create (WhenFacts, AnswerStep).                 *)
(***************************************************************************)
EXTENDS RedisSessions, TLAPS

LinkPC == {"avail", "dial", "flag", "ping", "raise", "hangup"}
RedisPC == LinkPC \cup {"idle", "lookup", "create", "page", "apply", "respond", "drop",
                        "lower", "get", "put", "del", "write"}

\* Where a call that failed returns to.
Return == {"create", "page", "respond", "write"}

\* A view in a thread's hands.
View == [id : 0..MaxSid, data : SUBSET Key]

TypeInv ==
    /\ HostTypeOK
    /\ pc \in [Thread -> RedisPC]
    /\ op \in [Thread -> Op]
    /\ after \in [Thread -> RedisPC]
    /\ fetched \in [Thread -> View]

\* Redis holds each view under the view's own id, and the ids in it and in the
\* replies nobody has read yet were handed out by the counter.
RedisInv ==
    /\ DOMAIN redis \subseteq Sid
    /\ \A s \in DOMAIN redis : redis[s] \in Stored /\ redis[s].id = s /\ s <= minted
    /\ late \in Seq(Replies)
    /\ \A i \in DOMAIN late : late[i].view.id <= minted

\* So was every id in use.
IdInv ==
    /\ \A c \in Client : jar[c] <= minted
    /\ \A t \in Thread : /\ cookie[t] <= minted /\ view[t] <= minted
                         /\ sid[t] <= minted /\ fetched[t].id <= minted

\* Thread t is going to store, or has just stored, the view it holds.
Storing(t) ==
    \/ pc[t] = "put"
    \/ pc[t] = "del" /\ op[t] # "destroy"
    \/ pc[t] \in LinkPC /\ op[t] = "create"

\* What a thread holds, and where a failed call leaves it.
ThreadOK(t) ==
    /\ pc[t] # "idle" => client[t] \in Client
    /\ Storing(t) => fetched[t].id # NoSid
    /\ pc[t] \in {"drop", "lower"} =>
          after[t] \in Return /\ (op[t] = "resolve" => after[t] # "page")

ThreadInv == \A t \in Thread : ThreadOK(t)

IndInv ==
    /\ TypeInv
    /\ RedisInv
    /\ IdInv
    /\ ThreadInv
-----------------------------------------------------------------------------

\* The replies that carry no view.
LEMMA PlainReplies ==
    ASSUME IndInv
    PROVE  /\ Ok \in Replies /\ Nil \in Replies /\ Failed \in Replies
           /\ Ok.view.id <= minted /\ Nil.view.id <= minted /\ Failed.view.id <= minted
<1>1. NoSid <= minted  BY DEF IndInv, TypeInv, HostTypeOK, NoSid
<1> QED  BY <1>1 DEF Replies, Ok, Nil, Failed, NoView

\* What is left unread stays or is thrown away.
LEMMA Unread ==
    ASSUME IndInv, late' = late \/ late' = << >>
    PROVE  late' \in Seq(Replies) /\ \A i \in DOMAIN late' : late'[i].view.id <= minted
<1>1. CASE late' = late  BY <1>1 DEF IndInv, RedisInv
<1>2. CASE late' = << >>  BY <1>2
<1> QED  BY <1>1, <1>2

\* A reply of kind blob carries a stored view.
LEMMA BlobFacts ==
    ASSUME NEW got \in Replies, got.kind = "blob"
    PROVE  got.view \in Stored
BY DEF Replies, Ok, Nil, Failed, Blob

\* A round trip returns its own reply or an older one or fails, and leaves in
\* the stream what it did not read.
LEMMA ReplyFacts ==
    ASSUME IndInv, NEW answered, NEW reply \in Replies, reply.view.id <= minted,
           NEW got, RoundTrip(answered, reply, got)
    PROVE  /\ redis' = answered \/ redis' = redis
           /\ got.view.id <= minted
           /\ late' \in Seq(Replies)
           /\ \A i \in DOMAIN late' : late'[i].view.id <= minted
<1>1. PICK R : R = Replies  OBVIOUS
<1>2. /\ late \in Seq(R) /\ reply \in R
      /\ \A i \in DOMAIN late : late[i].view.id <= minted
  BY <1>1 DEF IndInv, RedisInv
<1>3. PICK q : q = Append(late, reply)  OBVIOUS
<1>4. /\ q \in Seq(R) /\ q # << >>
      /\ \A i \in DOMAIN q : q[i] = reply \/ (i \in DOMAIN late /\ q[i] = late[i])
  BY <1>2, <1>3
<1>5. \A i \in DOMAIN q : q[i].view.id <= minted  BY <1>2, <1>4
<1>6. /\ Head(q) = q[1] /\ 1 \in DOMAIN q
      /\ Tail(q) \in Seq(R)
      /\ \A i \in DOMAIN Tail(q) : i + 1 \in DOMAIN q /\ Tail(q)[i] = q[i + 1]
  BY <1>4
<1>7. CASE got = Head(q) /\ late' = Tail(q) /\ redis' = answered
  BY <1>1, <1>4, <1>5, <1>6, <1>7
<1>8. CASE got = Failed /\ late' \in {q, late} /\ (redis' = answered \/ redis' = redis)
  BY <1>1, <1>2, <1>4, <1>5, <1>8, PlainReplies
<1> QED  BY <1>3, <1>7, <1>8 DEF RoundTrip

\* With nothing left unread it is its own.
LEMMA PairedReply ==
    ASSUME NEW answered, NEW reply, NEW got, RoundTrip(answered, reply, got),
           late = << >>
    PROVE  got = reply \/ got = Failed
<1>1. Head(Append(late, reply)) = reply  OBVIOUS
<1> QED  BY <1>1 DEF RoundTrip

\* Where is_available leads.
LEMMA WhenFacts ==
    ASSUME NEW o \in Op
    PROVE  /\ WhenReady(o) \in {"put", "write", "get"}
           /\ WhenReady(o) = "put" => o = "create"
           /\ WhenDown(o) \in Return
           /\ WhenDown(o) = "page" => o = "create"
BY DEF Op, WhenReady, WhenDown, Return

\* A step of a thread with a request that changes neither ids nor views.
LEMMA MoveInd ==
    ASSUME IndInv, NEW t \in Thread, NEW step \in RedisPC \ {"idle"},
           pc[t] # "idle", Goto(t, step),
           UNCHANGED <<jar, client, cookie, view, sid, mintVars, op, fetched>>,
           left' \in [Thread -> 0..MaxWrites],
           after' \in [Thread -> RedisPC],
           \A u \in Thread : u # t => after'[u] = after[u],
           RedisInv',
           step = "put" \/ (step = "del" /\ op[t] # "destroy")
                        \/ (step \in LinkPC /\ op[t] = "create") => Storing(t),
           step \in {"drop", "lower"} =>
              after'[t] \in Return /\ (op[t] = "resolve" => after'[t] # "page")
    PROVE  IndInv'
<1>1. /\ pc' \in [Thread -> RedisPC] /\ pc'[t] = step
      /\ \A u \in Thread : u # t => pc'[u] = pc[u]
  BY DEF Goto, IndInv, TypeInv
<1>2. TypeInv'
  BY <1>1 DEF IndInv, TypeInv, HostTypeOK, mintVars
<1>3. IdInv'  BY DEF IndInv, IdInv, mintVars
<1>4. ThreadOK(t)'
  <2>1. Storing(t)' => Storing(t)  BY <1>1 DEF Storing
  <2>2. ThreadOK(t)  BY DEF IndInv, ThreadInv
  <2> QED  BY <1>1, <2>1, <2>2 DEF ThreadOK, mintVars
<1>5. ASSUME NEW u \in Thread, u # t PROVE ThreadOK(u)'
  BY <1>1, <1>5 DEF IndInv, ThreadInv, ThreadOK, Storing, mintVars
<1>6. ThreadInv'  BY <1>4, <1>5 DEF ThreadInv
<1> QED  BY <1>2, <1>3, <1>6 DEF IndInv

\* The host's own steps: a request arrives, its page returns, it is answered.
LEMMA HostInd ==
    ASSUME IndInv, NEW t \in Thread, HostStep(t), UNCHANGED <<linkVars, localVars>>
    PROVE  IndInv'
<1>1. RedisInv'
  BY DEF HostStep, Arrive, PageReturns, WritesDone, Respond, ResponseLost, RespondBare,
         IndInv, RedisInv, linkVars, mintVars
<1>2. CASE WritesDone(t)
  <2>1. "respond" \in RedisPC \ {"idle"} /\ "respond" \notin LinkPC
    BY DEF RedisPC, LinkPC
  <2> QED
    BY <1>1, <1>2, <2>1, MoveInd
       DEF WritesDone, IndInv, TypeInv, HostTypeOK, localVars
<1>3. ASSUME NEW c \in Client, Arrive(t, c) PROVE IndInv'
  <2> USE <1>3 DEF Arrive, Goto, localVars, mintVars
  <2>1. /\ pc' \in [Thread -> RedisPC] /\ pc'[t] \in {"create", "lookup"}
        /\ \A u \in Thread : u # t => pc'[u] = pc[u]
    BY DEF IndInv, TypeInv, RedisPC
  <2>2. /\ client'[t] = c /\ cookie'[t] = jar[c]
        /\ \A u \in Thread : u # t => client'[u] = client[u] /\ cookie'[u] = cookie[u]
    BY DEF IndInv, TypeInv, HostTypeOK
  <2>3. TypeInv'  BY <2>1 DEF IndInv, TypeInv, HostTypeOK
  <2>4. IdInv'  BY <2>2 DEF IndInv, IdInv
  <2>6. ThreadInv'
    BY <2>1, <2>2 DEF IndInv, ThreadInv, ThreadOK, Storing, LinkPC
  <2> QED  BY <1>1, <2>3, <2>4, <2>6 DEF IndInv
<1>4. CASE PageReturns(t)
  <2> USE <1>4 DEF PageReturns, Goto, localVars, mintVars
  <2>1. /\ pc' \in [Thread -> RedisPC] /\ pc[t] = "page" /\ pc'[t] = "apply"
        /\ \A u \in Thread : u # t => pc'[u] = pc[u]
    BY DEF IndInv, TypeInv, RedisPC
  <2>2. /\ sid'[t] = view[t]
        /\ \A u \in Thread : u # t => sid'[u] = sid[u]
    BY DEF IndInv, TypeInv, HostTypeOK
  <2>3. TypeInv'
    BY <2>1, SessionHostAssumption DEF IndInv, TypeInv, HostTypeOK
  <2>4. IdInv'  BY <2>2 DEF IndInv, IdInv
  <2>6. ThreadInv'
    BY <2>1, <2>2 DEF IndInv, ThreadInv, ThreadOK, Storing, LinkPC
  <2> QED  BY <1>1, <2>3, <2>4, <2>6 DEF IndInv
<1>5. CASE Respond(t) \/ ResponseLost(t) \/ RespondBare(t)
  <2> USE DEF Forget, Goto, localVars, mintVars
  <2>1. /\ Forget(t) /\ UNCHANGED <<mintVars, op, after, fetched>>
        /\ pc[t] # "idle"
        /\ jar' = jar \/ jar' = [jar EXCEPT ![client[t]] = sid[t]]
    BY <1>5 DEF Respond, ResponseLost, RespondBare
  <2>2. /\ pc' \in [Thread -> RedisPC] /\ pc'[t] = "idle"
        /\ \A u \in Thread : u # t => pc'[u] = pc[u]
    BY <2>1 DEF IndInv, TypeInv, RedisPC
  <2>3. /\ cookie'[t] = NoSid /\ view'[t] = NoSid /\ sid'[t] = NoSid
        /\ \A u \in Thread : u # t =>
              /\ client'[u] = client[u] /\ cookie'[u] = cookie[u]
              /\ view'[u] = view[u] /\ sid'[u] = sid[u]
    BY <2>1 DEF IndInv, TypeInv, HostTypeOK
  <2>4. client[t] \in Client
    BY <2>1 DEF IndInv, ThreadInv, ThreadOK
  <2>5. TypeInv'
    BY <2>1, <2>2, <2>4, SessionHostAssumption
       DEF IndInv, TypeInv, HostTypeOK, NoSid
  <2>6. IdInv'
    BY <2>1, <2>3, <2>4 DEF IndInv, IdInv, TypeInv, HostTypeOK, NoSid
  <2>8. ThreadInv'
    BY <2>1, <2>2, <2>3 DEF IndInv, ThreadInv, ThreadOK, Storing, LinkPC
  <2> QED  BY <1>1, <2>5, <2>6, <2>8 DEF IndInv
<1> QED  BY <1>2, <1>3, <1>4, <1>5 DEF HostStep

\* The steps of is_available and of the clean-up after a failure.
LEMMA LinkInd ==
    ASSUME IndInv, NEW t \in Thread,
           \/ CheckLink(t) \/ Dial(t) \/ CheckFlag(t) \/ Ping(t) \/ AfterPing(t)
           \/ DropLink(t) \/ LowerFlag(t)
    PROVE  IndInv'
<1>1. /\ UNCHANGED <<jar, client, cookie, view, sid, left, mintVars, op, after, fetched>>
      /\ left \in [Thread -> 0..MaxWrites] /\ after \in [Thread -> RedisPC]
      /\ op[t] \in Op
  BY DEF CheckLink, Dial, CheckFlag, Ping, AfterPing, DropLink, LowerFlag, localVars,
         IndInv, TypeInv, HostTypeOK
<1>2. /\ redis' = redis /\ minted' = minted
      /\ late' \in Seq(Replies) /\ \A i \in DOMAIN late' : late'[i].view.id <= minted
  <2>1. CASE Ping(t)
    <3>1. PICK got : RoundTrip(redis, Ok, got)  BY <2>1 DEF Ping
    <3> QED  BY <1>1, <3>1, ReplyFacts, PlainReplies DEF mintVars
  <2>2. CASE ~Ping(t)
    <3>1. redis' = redis /\ (late' = late \/ late' = << >>)
      BY <2>2 DEF CheckLink, Dial, CheckFlag, AfterPing, DropLink, LowerFlag, linkVars
    <3> QED  BY <1>1, <3>1, Unread DEF mintVars
  <2> QED  BY <2>1, <2>2
<1>3. RedisInv'  BY <1>2 DEF IndInv, RedisInv
<1>4. PICK step : /\ Goto(t, step)
                  /\ \/ pc[t] \in LinkPC /\ step \in LinkPC
                     \/ pc[t] \in LinkPC /\ step \in {WhenReady(op[t]), WhenDown(op[t])}
                     \/ pc[t] = "drop" /\ step = "lower"
                     \/ pc[t] = "lower" /\ step = after[t]
  BY DEF CheckLink, Dial, CheckFlag, Ping, AfterPing, DropLink, LowerFlag, LinkPC
<1>5. pc[t] # "idle" /\ step \in RedisPC \ {"idle"}
  BY <1>1, <1>4, WhenFacts
     DEF IndInv, ThreadInv, ThreadOK, LinkPC, RedisPC, Return
<1>7. step = "put" \/ (step = "del" /\ op[t] # "destroy")
                   \/ (step \in LinkPC /\ op[t] = "create") => Storing(t)
  BY <1>1, <1>4, WhenFacts
     DEF IndInv, ThreadInv, ThreadOK, LinkPC, Return, Storing
<1>8. step \in {"drop", "lower"} =>
         after[t] \in Return /\ (op[t] = "resolve" => after[t] # "page")
  BY <1>1, <1>4, WhenFacts DEF IndInv, ThreadInv, ThreadOK, LinkPC, Return
<1> QED  BY <1>1, <1>3, <1>4, <1>5, <1>7, <1>8, MoveInd

\* A call of the backend: the view that create is going to store is ready.
LEMMA CallInd ==
    ASSUME IndInv, NEW t \in Thread, Lookup(t) \/ BeginWrites(t) \/ NextWrite(t)
    PROVE  IndInv'
<1>1. /\ UNCHANGED <<jar, client, cookie, view, sid, mintVars, redis, late, after, fetched>>
      /\ left' \in [Thread -> 0..MaxWrites]
      /\ pc[t] \in {"lookup", "apply", "write"}
  <2>1. CASE NextWrite(t)
    <3>1. left[t] \in 0..MaxWrites /\ left[t] > 0 /\ MaxWrites \in Nat
      BY <2>1, SessionHostAssumption DEF NextWrite, IndInv, TypeInv, HostTypeOK
    <3>2. left[t] - 1 \in 0..MaxWrites  BY <3>1
    <3> QED  BY <2>1, <3>2 DEF NextWrite, IndInv, TypeInv, HostTypeOK, linkVars
  <2> QED
    BY <2>1 DEF Lookup, BeginWrites, linkVars, IndInv, TypeInv, HostTypeOK
<1>2. PICK o \in Op \ {"create"}, step \in {"avail", "del"} :
         /\ op' = [op EXCEPT ![t] = o] /\ pc' = [pc EXCEPT ![t] = step]
         /\ step = "del" => o = "destroy"
  BY DEF Lookup, BeginWrites, NextWrite, Call, Goto, Op
<1>3. /\ pc' \in [Thread -> RedisPC] /\ op' \in [Thread -> Op]
      /\ pc'[t] = step /\ op'[t] = o
      /\ \A u \in Thread : u # t => pc'[u] = pc[u] /\ op'[u] = op[u]
  BY <1>2 DEF IndInv, TypeInv, RedisPC, LinkPC
<1>4. TypeInv'  BY <1>1, <1>3 DEF IndInv, TypeInv, HostTypeOK, mintVars
<1>5. RedisInv' /\ IdInv'
  BY <1>1 DEF IndInv, RedisInv, IdInv, mintVars
<1>6. ThreadInv'
  <2>1. ThreadOK(t)'
    BY <1>1, <1>2, <1>3 DEF IndInv, ThreadInv, ThreadOK, Storing, LinkPC
  <2>2. ASSUME NEW u \in Thread, u # t PROVE ThreadOK(u)'
    BY <1>1, <1>3, <2>2 DEF IndInv, ThreadInv, ThreadOK, Storing, mintVars
  <2> QED  BY <2>1, <2>2 DEF ThreadInv
<1> QED  BY <1>4, <1>5, <1>6 DEF IndInv

\* The end of the writes.
LEMMA EndWritesInd ==
    ASSUME IndInv, NEW t \in Thread, EndWrites(t)
    PROVE  IndInv'
<1>1. "respond" \in RedisPC \ {"idle"} /\ "respond" \notin LinkPC
  BY DEF RedisPC, LinkPC
<1>2. RedisInv'  BY DEF EndWrites, IndInv, RedisInv, linkVars, mintVars
<1> QED
  BY <1>1, <1>2, MoveInd DEF EndWrites, IndInv, TypeInv, HostTypeOK, localVars

\* The counter hands out an id.
LEMMA MintFacts ==
    ASSUME IndInv, NEW t \in Thread, minted < MaxSid, Mint(t)
    PROVE  /\ minted \in Nat /\ minted' = minted + 1
           /\ minted + 1 \in Sid /\ minted + 1 \in 0..MaxSid /\ minted + 1 # NoSid
           /\ owner' \in [Sid -> Client \cup {None}]
<1>1. minted \in Nat /\ minted + 1 \in Sid /\ minted + 1 \in 0..MaxSid
  BY SessionHostAssumption DEF IndInv, TypeInv, HostTypeOK, Sid
<1>2. /\ owner \in [Sid -> Client \cup {None}] /\ client[t] \in Client \cup {None}
      /\ minted' = minted + 1
      /\ owner' = [owner EXCEPT ![minted + 1] = client[t]]
  BY DEF IndInv, TypeInv, HostTypeOK, Mint
<1> QED  BY <1>1, <1>2 DEF NoSid

\* A step of thread t that mints an id and puts it into the view it holds.
LEMMA FreshInd ==
    ASSUME IndInv, NEW t \in Thread, minted < MaxSid, Mint(t),
           NEW o \in {"create", "regenerate"}, op' = [op EXCEPT ![t] = o],
           Goto(t, IF o = "create" THEN "avail" ELSE "put"),
           client[t] \in Client,
           NEW data \in SUBSET Key,
           fetched' = [fetched EXCEPT ![t] = [id |-> minted + 1, data |-> data]],
           view' = view \/ view' = [view EXCEPT ![t] = minted + 1],
           after' \in [Thread -> RedisPC],
           \A u \in Thread : u # t => after'[u] = after[u],
           redis' = redis, late' \in Seq(Replies),
           \A i \in DOMAIN late' : late'[i].view.id <= minted,
           UNCHANGED <<jar, client, cookie, sid, left>>
    PROVE  IndInv'
<1>1. /\ minted \in Nat /\ minted' = minted + 1 /\ minted + 1 \in 0..MaxSid
      /\ minted + 1 # NoSid /\ owner' \in [Sid -> Client \cup {None}]
  BY MintFacts
<1>2. PICK step \in {"avail", "put"} :
         /\ pc' \in [Thread -> RedisPC] /\ op' \in [Thread -> Op]
         /\ pc'[t] = step /\ op'[t] = o
         /\ \A u \in Thread : u # t => pc'[u] = pc[u] /\ op'[u] = op[u]
  BY DEF Goto, IndInv, TypeInv, RedisPC, LinkPC, Op
<1>3. /\ fetched' \in [Thread -> View] /\ fetched'[t].id = minted + 1
      /\ \A u \in Thread : u # t => fetched'[u] = fetched[u]
  <2>1. [id |-> minted + 1, data |-> data] \in View  BY <1>1 DEF View
  <2>2. fetched \in [Thread -> View]  BY DEF IndInv, TypeInv
  <2> QED  BY <2>1, <2>2
<1>4. /\ view' \in [Thread -> 0..MaxSid] /\ view'[t] \in {view[t], minted + 1}
      /\ \A u \in Thread : u # t => view'[u] = view[u]
  <2>1. view \in [Thread -> 0..MaxSid]  BY DEF IndInv, TypeInv, HostTypeOK
  <2> QED  BY <1>1, <2>1
<1>5. TypeInv'  BY <1>1, <1>2, <1>3, <1>4 DEF IndInv, TypeInv, HostTypeOK
<1>6. /\ \A c \in Client : jar[c] \in 0..minted
      /\ \A u \in Thread : /\ cookie[u] \in 0..minted /\ view[u] \in 0..minted
                           /\ sid[u] \in 0..minted /\ fetched[u].id \in 0..minted
  <2>1. \A u \in Thread : fetched[u].id \in 0..MaxSid
    BY DEF IndInv, TypeInv, View
  <2>2. MaxSid \in Nat  BY SessionHostAssumption
  <2> QED  BY <1>1, <2>1, <2>2 DEF IndInv, IdInv, TypeInv, HostTypeOK
<1>7. IdInv'  BY <1>1, <1>3, <1>4, <1>6 DEF IdInv
<1>8. RedisInv'
  <2>1. \A s \in DOMAIN redis : s <= minted + 1
    <3>1. \A s \in DOMAIN redis : s \in Nat /\ s <= minted
      BY SessionHostAssumption DEF IndInv, RedisInv, Sid
    <3> QED  BY <1>1, <3>1
  <2>2. \A i \in DOMAIN late' : late'[i].view.id <= minted + 1
    <3>1. \A i \in DOMAIN late' : late'[i].view.id \in Int
      <4>1. \A r \in Replies : r.view.id \in Int
        BY DEF Replies, Ok, Nil, Failed, Blob, NoView, NoSid, Stored, Sid
      <4> QED  BY <4>1
    <3> QED  BY <1>1, <3>1
  <2> QED  BY <1>1, <2>1, <2>2 DEF IndInv, RedisInv
<1>10. ThreadOK(t)'  BY <1>1, <1>2, <1>3 DEF ThreadOK
<1>11. ASSUME NEW u \in Thread, u # t PROVE ThreadOK(u)'
  <2>1. Storing(u)' => Storing(u)  BY <1>2, <1>11 DEF Storing
  <2>2. ThreadOK(u)  BY DEF IndInv, ThreadInv
  <2> QED  BY <1>2, <1>3, <1>11, <2>1, <2>2 DEF ThreadOK
<1> QED  BY <1>5, <1>7, <1>8, <1>10, <1>11 DEF IndInv, ThreadInv

\* create: the view is the fresh id.
LEMMA CreateInd ==
    ASSUME IndInv, NEW t \in Thread, Create(t)
    PROVE  IndInv'
<1>1. /\ minted < MaxSid /\ Mint(t) /\ pc[t] = "create"
      /\ view' = [view EXCEPT ![t] = minted + 1]
      /\ fetched' = [fetched EXCEPT ![t] = [id |-> minted + 1, data |-> {}]]
      /\ op' = [op EXCEPT ![t] = "create"] /\ Goto(t, "avail")
      /\ UNCHANGED <<jar, client, cookie, sid, left, redis, late, after>>
  BY DEF Create, Call, linkVars
<1>2. client[t] \in Client /\ after \in [Thread -> RedisPC]
  BY <1>1 DEF IndInv, ThreadInv, ThreadOK, TypeInv
<1>3. late \in Seq(Replies) /\ \A i \in DOMAIN late : late[i].view.id <= minted
  BY DEF IndInv, RedisInv
<1>4. {} \in SUBSET Key  OBVIOUS
<1> QED  BY <1>1, <1>2, <1>3, <1>4, FreshInd

\* SET of the view in hand.
LEMMA PutInd ==
    ASSUME IndInv, NEW t \in Thread, PutView(t)
    PROVE  IndInv'
<1>1. PICK d \in NewData(t), got \in Replies :
         /\ RoundTrip(Put([fetched[t] EXCEPT !.data = d]), Ok, got)
         /\ LET failed == got.kind \in {"err", "nil"}
            IN  Resume(t, failed, CASE op[t] = "create" -> "page"
                                    [] op[t] = "regenerate" /\ failed -> "respond"
                                    [] op[t] = "regenerate" /\ ~failed -> "del"
                                    [] OTHER -> "write")
  BY DEF PutView
<1>2. /\ pc[t] = "put" /\ op[t] \in Op
      /\ UNCHANGED <<jar, client, cookie, view, sid, left, mintVars, op, fetched>>
      /\ left \in [Thread -> 0..MaxWrites] /\ after \in [Thread -> RedisPC]
  BY DEF PutView, IndInv, TypeInv, HostTypeOK
<1>3. PICK v \in Stored : v = [fetched[t] EXCEPT !.data = d]
  <2>1. fetched[t] \in View /\ fetched[t].id # NoSid
    BY <1>2 DEF IndInv, TypeInv, ThreadInv, ThreadOK, Storing
  <2>2. d \in SUBSET Key
    BY <1>2, <2>1 DEF NewData, View, Op
  <2>3. fetched[t].id \in Sid
    BY <2>1, SessionHostAssumption DEF View, Sid, NoSid
  <2> QED  BY <2>1, <2>2, <2>3 DEF View, Stored
<1>4. /\ redis' = Put(v) \/ redis' = redis
      /\ late' \in Seq(Replies) /\ \A i \in DOMAIN late' : late'[i].view.id <= minted
  BY <1>1, <1>3, ReplyFacts, PlainReplies
<1>5. RedisInv'
  <2>1. CASE redis' = redis  BY <1>2, <1>4, <2>1 DEF IndInv, RedisInv, mintVars
  <2>2. CASE redis' = Put(v)
    <3>1. v.id \in Sid /\ v.id <= minted
      <4>1. fetched[t] \in View  BY DEF IndInv, TypeInv
      <4>2. v.id = fetched[t].id  BY <1>3, <4>1 DEF View
      <4> QED  BY <4>2 DEF Stored, IndInv, IdInv
    <3>2. /\ DOMAIN redis' = DOMAIN redis \cup {v.id}
          /\ \A s \in DOMAIN redis' : redis'[s] = IF s = v.id THEN v ELSE redis[s]
      BY <2>2 DEF Put
    <3> QED  BY <1>2, <1>4, <3>1, <3>2 DEF IndInv, RedisInv, mintVars
  <2> QED  BY <1>4, <2>1, <2>2
<1>6. PICK step \in {"page", "respond", "del", "write"} : \E to \in {"drop", step} :
         /\ after' = [after EXCEPT ![t] = step] /\ Goto(t, to)
         /\ step = "page" => op[t] = "create"
         /\ step = "del" => to = "del"
  <2> DEFINE failed == got.kind \in {"err", "nil"}
  <2>1. CASE op[t] = "create"
    <3>1. Resume(t, failed, "page")  BY <1>1, <2>1
    <3> QED  BY <2>1, <3>1 DEF Resume
  <2>2. CASE op[t] = "regenerate" /\ failed
    <3>1. Resume(t, failed, "respond")  BY <1>1, <2>2
    <3> QED  BY <3>1 DEF Resume
  <2>3. CASE op[t] = "regenerate" /\ ~failed
    <3>1. Resume(t, failed, "del")  BY <1>1, <2>3
    <3>2. after' = [after EXCEPT ![t] = "del"] /\ Goto(t, "del")
      BY <2>3, <3>1 DEF Resume
    <3> QED  BY <3>2
  <2>4. CASE op[t] \notin {"create", "regenerate"}
    <3>1. Resume(t, failed, "write")  BY <1>1, <2>4
    <3> QED  BY <3>1 DEF Resume
  <2> QED  BY <2>1, <2>2, <2>3, <2>4
<1>7. PICK to \in {"drop", step} :
         /\ after' = [after EXCEPT ![t] = step] /\ Goto(t, to)
         /\ step = "page" => op[t] = "create"
         /\ step = "del" => to = "del"
  BY <1>6
<1>8. /\ after' \in [Thread -> RedisPC] /\ after'[t] = step
      /\ \A u \in Thread : u # t => after'[u] = after[u]
  BY <1>2, <1>7 DEF RedisPC
<1>9. /\ to \in RedisPC \ {"idle"}
      /\ Storing(t)
      /\ to \in {"drop", "lower"} =>
            after'[t] \in Return /\ (op[t] = "resolve" => after'[t] # "page")
  BY <1>2, <1>7, <1>8 DEF RedisPC, Storing, Return
<1> QED  BY <1>2, <1>5, <1>7, <1>8, <1>9, MoveInd

\* DEL of the old id, after which a regenerate goes on with the new one.
LEMMA DelInd ==
    ASSUME IndInv, NEW t \in Thread, Del(t)
    PROVE  IndInv'
<1>1. PICK got \in Replies :
         /\ RoundTrip(Drop(view[t]), Ok, got)
         /\ Resume(t, op[t] = "destroy" /\ got.kind \in {"err", "nil"}, "write")
  BY DEF Del
<1>2. /\ pc[t] = "del"
      /\ sid' = [sid EXCEPT ![t] = IF op[t] = "destroy" THEN NoSid ELSE fetched[t].id]
      /\ UNCHANGED <<jar, client, cookie, view, left, mintVars, op, fetched>>
  BY DEF Del
<1>3. RedisInv'
  <2>1. /\ redis' = Drop(view[t]) \/ redis' = redis
        /\ late' \in Seq(Replies) /\ \A i \in DOMAIN late' : late'[i].view.id <= minted
    BY <1>1, ReplyFacts, PlainReplies
  <2> QED  BY <1>2, <2>1 DEF IndInv, RedisInv, Drop, mintVars
<1>4. PICK step \in {"drop", "write"} :
         pc' = [pc EXCEPT ![t] = step] /\ after' = [after EXCEPT ![t] = "write"]
  BY <1>1 DEF Resume, Goto
<1>5. /\ pc' \in [Thread -> RedisPC] /\ pc'[t] = step
      /\ after' \in [Thread -> RedisPC] /\ after'[t] = "write"
      /\ \A u \in Thread : u # t => pc'[u] = pc[u] /\ after'[u] = after[u]
  BY <1>4 DEF IndInv, TypeInv, RedisPC
<1>6. PICK s \in 0..MaxSid :
         /\ sid' = [sid EXCEPT ![t] = s]
         /\ s <= minted
  <2>1. CASE op[t] = "destroy"
    <3>1. NoSid \in 0..MaxSid /\ NoSid <= minted
      BY SessionHostAssumption DEF IndInv, TypeInv, HostTypeOK, NoSid
    <3> QED  BY <1>2, <2>1, <3>1
  <2>2. CASE op[t] # "destroy"
    <3>1. fetched[t].id \in 0..MaxSid /\ fetched[t].id <= minted
      BY DEF IndInv, TypeInv, View, IdInv
    <3> QED  BY <1>2, <2>2, <3>1
  <2> QED  BY <2>1, <2>2
<1>7. /\ sid' \in [Thread -> 0..MaxSid] /\ sid'[t] = s
      /\ \A u \in Thread : u # t => sid'[u] = sid[u]
  BY <1>6 DEF IndInv, TypeInv, HostTypeOK
<1>8. TypeInv'  BY <1>2, <1>5, <1>7 DEF IndInv, TypeInv, HostTypeOK, mintVars
<1>9. IdInv'  BY <1>2, <1>6, <1>7 DEF IndInv, IdInv, mintVars
<1>11. ThreadInv'
  <2>1. ThreadOK(t)'
    BY <1>2, <1>4, <1>5 DEF IndInv, ThreadInv, ThreadOK, Storing, LinkPC, Return
  <2>2. ASSUME NEW u \in Thread, u # t PROVE ThreadOK(u)'
    BY <1>2, <1>5, <1>7, <2>2 DEF IndInv, ThreadInv, ThreadOK, Storing, mintVars
  <2> QED  BY <2>1, <2>2 DEF ThreadInv
<1> QED  BY <1>3, <1>8, <1>9, <1>11 DEF IndInv

\* GET: of the cookie's session when resolving, else of the current one.
LEMMA GetInd ==
    ASSUME IndInv, NEW t \in Thread, Get(t)
    PROVE  IndInv'
<1>1. PICK key : key = IF op[t] = "resolve" THEN cookie[t] ELSE view[t]  OBVIOUS
<1>2. /\ pc[t] = "get" /\ op[t] \in Op
      /\ op[t] = "regenerate" => minted < MaxSid
      /\ UNCHANGED <<jar, client, cookie, sid, left, op>>
      /\ client[t] \in Client
      /\ left \in [Thread -> 0..MaxWrites] /\ after \in [Thread -> RedisPC]
  BY DEF Get, IndInv, TypeInv, HostTypeOK, ThreadInv, ThreadOK
<1>3. PICK got \in Replies :
        /\ RoundTrip(redis, IF key \in DOMAIN redis THEN Blob(redis[key]) ELSE Nil, got)
        /\ \/ /\ got.kind = "blob"
              /\ op[t] = "resolve"
              /\ view' = [view EXCEPT ![t] = got.view.id]
              /\ Resume(t, FALSE, "page")
              /\ UNCHANGED <<fetched, mintVars>>
           \/ /\ got.kind = "blob"
              /\ op[t] \in {"set", "delete", "clear"}
              /\ fetched' = [fetched EXCEPT ![t] = got.view]
              /\ Resume(t, FALSE, "put")
              /\ UNCHANGED <<view, mintVars>>
           \/ /\ got.kind = "blob"
              /\ op[t] = "regenerate"
              /\ Mint(t)
              /\ fetched' = [fetched EXCEPT ![t] = [got.view EXCEPT !.id = minted + 1]]
              /\ Resume(t, FALSE, "put")
              /\ UNCHANGED view
           \/ /\ got.kind # "blob"
              /\ Resume(t, got = Failed, WhenDown(op[t]))
              /\ UNCHANGED <<view, fetched, mintVars>>
  BY <1>1 DEF Get
<1>4. /\ redis' = redis /\ got.view.id <= minted
      /\ late' \in Seq(Replies) /\ \A i \in DOMAIN late' : late'[i].view.id <= minted
  <2>1. PICK reply : reply = IF key \in DOMAIN redis THEN Blob(redis[key]) ELSE Nil
    OBVIOUS
  <2>2. reply \in Replies /\ reply.view.id <= minted
    <3>1. CASE key \in DOMAIN redis
      BY <2>1, <3>1 DEF IndInv, RedisInv, Replies, Blob
    <3>2. CASE key \notin DOMAIN redis  BY <2>1, <3>2, PlainReplies
    <3> QED  BY <3>1, <3>2
  <2>3. RoundTrip(redis, reply, got)  BY <1>3, <2>1
  <2> QED  BY <2>2, <2>3, ReplyFacts
<1>5. minted' = minted => RedisInv'
  BY <1>4 DEF IndInv, RedisInv
<1>6. got.kind = "blob" =>
         got.view \in Stored /\ got.view.id \in Sid /\ got.view.id # NoSid
  <2>1. SUFFICES ASSUME got.kind = "blob"
                 PROVE  got.view \in Stored /\ got.view.id \in Sid /\ got.view.id # NoSid
    OBVIOUS
  <2>2. got.view \in Stored  BY <2>1, BlobFacts
  <2> QED  BY <2>2, SessionHostAssumption DEF Stored, Sid, NoSid
<1>7. ASSUME got.kind = "blob", op[t] = "resolve",
             view' = [view EXCEPT ![t] = got.view.id], Resume(t, FALSE, "page"),
             UNCHANGED <<fetched, mintVars>>
      PROVE  IndInv'
  <2>1. got.view.id \in 0..MaxSid
    BY <1>6, <1>7, SessionHostAssumption DEF Sid
  <2>2. /\ view' \in [Thread -> 0..MaxSid] /\ view'[t] = got.view.id
        /\ \A u \in Thread : u # t => view'[u] = view[u]
    BY <1>7, <2>1 DEF IndInv, TypeInv, HostTypeOK
  <2>3. /\ pc' \in [Thread -> RedisPC] /\ pc'[t] = "page"
        /\ after' \in [Thread -> RedisPC]
        /\ \A u \in Thread : u # t => pc'[u] = pc[u] /\ after'[u] = after[u]
    BY <1>7 DEF Resume, Goto, IndInv, TypeInv, RedisPC
  <2>4. TypeInv'  BY <1>2, <1>7, <2>2, <2>3 DEF IndInv, TypeInv, HostTypeOK, mintVars
  <2>5. IdInv'  BY <1>2, <1>4, <1>7, <2>2 DEF IndInv, IdInv, mintVars
  <2>6. RedisInv'  BY <1>5, <1>7 DEF mintVars
  <2>7. ThreadInv'
    <3>1. ThreadOK(t)'
      BY <1>2, <2>1, <2>2, <2>3 DEF ThreadOK, Storing, LinkPC
    <3>2. ASSUME NEW u \in Thread, u # t PROVE ThreadOK(u)'
      BY <1>2, <1>7, <2>2, <2>3, <3>2
         DEF IndInv, ThreadInv, ThreadOK, Storing, mintVars
    <3> QED  BY <3>1, <3>2 DEF ThreadInv
  <2> QED  BY <2>4, <2>5, <2>6, <2>7 DEF IndInv
<1>8. ASSUME got.kind = "blob", op[t] \in {"set", "delete", "clear"},
             fetched' = [fetched EXCEPT ![t] = got.view], Resume(t, FALSE, "put"),
             UNCHANGED <<view, mintVars>>
      PROVE  IndInv'
  <2>1. got.view \in View /\ got.view.id # NoSid
    BY <1>6, <1>8, SessionHostAssumption DEF Stored, View, Sid
  <2>2. /\ fetched' \in [Thread -> View] /\ fetched'[t] = got.view
        /\ \A u \in Thread : u # t => fetched'[u] = fetched[u]
    BY <1>8, <2>1 DEF IndInv, TypeInv
  <2>3. /\ pc' \in [Thread -> RedisPC] /\ pc'[t] = "put"
        /\ after' \in [Thread -> RedisPC]
        /\ \A u \in Thread : u # t => pc'[u] = pc[u] /\ after'[u] = after[u]
    BY <1>8 DEF Resume, Goto, IndInv, TypeInv, RedisPC
  <2>4. TypeInv'  BY <1>2, <1>8, <2>2, <2>3 DEF IndInv, TypeInv, HostTypeOK, mintVars
  <2>5. IdInv'  BY <1>2, <1>4, <1>8, <2>2 DEF IndInv, IdInv, mintVars
  <2>6. RedisInv'  BY <1>5, <1>8 DEF mintVars
  <2>7. ThreadInv'
    <3>1. ThreadOK(t)'
      BY <1>2, <1>6, <1>8, <2>1, <2>2, <2>3 DEF ThreadOK, mintVars
    <3>2. ASSUME NEW u \in Thread, u # t PROVE ThreadOK(u)'
      BY <1>2, <1>8, <2>2, <2>3, <3>2
         DEF IndInv, ThreadInv, ThreadOK, Storing, mintVars
    <3> QED  BY <3>1, <3>2 DEF ThreadInv
  <2> QED  BY <2>4, <2>5, <2>6, <2>7 DEF IndInv
<1>9. ASSUME got.kind = "blob", op[t] = "regenerate", Mint(t),
             fetched' = [fetched EXCEPT ![t] = [got.view EXCEPT !.id = minted + 1]],
             Resume(t, FALSE, "put"), UNCHANGED view
      PROVE  IndInv'
  <2>1. got.view \in Stored  BY <1>6, <1>9
  <2>2. PICK data \in SUBSET Key :
           [got.view EXCEPT !.id = minted + 1] = [id |-> minted + 1, data |-> data]
    BY <2>1 DEF Stored
  <2>3. op' = [op EXCEPT ![t] = "regenerate"]
    BY <1>2, <1>9 DEF IndInv, TypeInv
  <2>4. /\ Goto(t, "put") /\ after' \in [Thread -> RedisPC]
        /\ \A u \in Thread : u # t => after'[u] = after[u]
    BY <1>2, <1>9 DEF Resume, RedisPC
  <2> QED  BY <1>2, <1>4, <1>9, <2>2, <2>3, <2>4, FreshInd
<1>10. ASSUME Resume(t, got = Failed, WhenDown(op[t])),
              UNCHANGED <<view, fetched, mintVars>>
       PROVE  IndInv'
  <2>1. PICK back \in Return : /\ back = WhenDown(op[t])
                               /\ back = "page" => op[t] = "create"
    BY <1>2, WhenFacts
  <2>2. PICK to \in {"drop", back} :
           Goto(t, to) /\ after' = [after EXCEPT ![t] = back]
    BY <1>10, <2>1 DEF Resume
  <2>3. /\ after' \in [Thread -> RedisPC] /\ after'[t] = back
        /\ \A u \in Thread : u # t => after'[u] = after[u]
    BY <1>2, <2>2 DEF Return, RedisPC
  <2>4. /\ to \in RedisPC \ {"idle"} /\ to \notin LinkPC \cup {"put", "del"}
        /\ op[t] = "resolve" => after'[t] # "page"
    BY <2>1, <2>2, <2>3 DEF Return, RedisPC, LinkPC
  <2>5. RedisInv'  BY <1>5, <1>10 DEF mintVars
  <2> QED  BY <1>2, <1>10, <2>2, <2>3, <2>4, <2>5, MoveInd
<1> QED  BY <1>3, <1>7, <1>8, <1>9, <1>10

-----------------------------------------------------------------------------

\* An empty server and no requests.
LEMMA InitInd == Init => IndInv
<1> SUFFICES ASSUME Init PROVE IndInv  OBVIOUS
<1> USE DEF Init, HostInit
<1>1. NoSid \in 0..MaxSid /\ 0 \in 0..MaxWrites /\ 0 \in 0..MaxSid /\ NoSid <= 0
  BY SessionHostAssumption DEF NoSid
<1>2. NoView \in View /\ NoView.id = NoSid  BY <1>1 DEF NoView, View
<1>3. TypeInv  BY <1>1, <1>2 DEF TypeInv, HostTypeOK, RedisPC, Op
<1>4. RedisInv  BY DEF RedisInv
<1>5. IdInv  BY <1>1, <1>2 DEF IdInv
<1>6. ThreadInv  BY DEF ThreadInv, ThreadOK, Storing, LinkPC
<1> QED  BY <1>3, <1>4, <1>5, <1>6 DEF IndInv

\* Every step keeps the invariant.
LEMMA NextInd ==
    ASSUME IndInv, [Next]_vars
    PROVE  IndInv'
<1>1. CASE UNCHANGED vars \/ Break
  <2>1. /\ UNCHANGED <<hostVars, mintVars, redis, localVars>>
        /\ late' = late \/ late' = << >>
    BY <1>1 DEF vars, linkVars, Break
  <2>2. TypeInv' /\ IdInv' /\ ThreadInv'
    BY <2>1 DEF hostVars, mintVars, localVars, IndInv, TypeInv, HostTypeOK,
                IdInv, ThreadInv, ThreadOK, Storing
  <2>3. late' \in Seq(Replies) /\ \A i \in DOMAIN late' : late'[i].view.id <= minted
    BY <2>1, Unread
  <2>4. RedisInv'  BY <2>1, <2>3 DEF mintVars, IndInv, RedisInv
  <2> QED  BY <2>2, <2>4 DEF IndInv
<1>2. ASSUME NEW t \in Thread, HostStep(t), UNCHANGED <<linkVars, localVars>>
      PROVE  IndInv'
  BY <1>2, HostInd
<1>3. ASSUME NEW t \in Thread, BackendStep(t) PROVE IndInv'
  <2>1. CASE \/ CheckLink(t) \/ Dial(t) \/ CheckFlag(t) \/ Ping(t) \/ AfterPing(t)
             \/ DropLink(t) \/ LowerFlag(t)
    BY <2>1, LinkInd
  <2>2. CASE Lookup(t) \/ BeginWrites(t) \/ NextWrite(t)  BY <2>2, CallInd
  <2>3. CASE Create(t)  BY <2>3, CreateInd
  <2>4. CASE Get(t)  BY <2>4, GetInd
  <2>5. CASE PutView(t)  BY <2>5, PutInd
  <2>6. CASE Del(t)  BY <2>6, DelInd
  <2>7. CASE EndWrites(t)  BY <2>7, EndWritesInd
  <2> QED  BY <1>3, <2>1, <2>2, <2>3, <2>4, <2>5, <2>6, <2>7 DEF BackendStep
<1> QED  BY <1>1, <1>2, <1>3 DEF Next

-----------------------------------------------------------------------------
(* The one way to the wrong session.                                       *)

\* A step of one thread leaves the others where they are.
LEMMA OthersStay ==
    ASSUME IndInv, NEW t \in Thread, NEW u \in Thread, u # t,
           \/ HostStep(t) /\ UNCHANGED <<linkVars, localVars>>
           \/ BackendStep(t)
    PROVE  pc'[u] = pc[u] /\ op'[u] = op[u] /\ view'[u] = view[u] /\ cookie'[u] = cookie[u]
<1> USE DEF IndInv, TypeInv, HostTypeOK, Goto, localVars
<1>1. CASE HostStep(t) /\ UNCHANGED <<linkVars, localVars>>
  BY <1>1 DEF HostStep, Arrive, PageReturns, WritesDone, Respond, ResponseLost,
              RespondBare, Forget
<1>2. CASE CheckLink(t) \/ Dial(t) \/ CheckFlag(t) \/ Ping(t) \/ AfterPing(t)
           \/ DropLink(t) \/ LowerFlag(t)
  BY <1>2 DEF CheckLink, Dial, CheckFlag, Ping, AfterPing, DropLink, LowerFlag
<1>3. CASE Lookup(t) \/ Create(t) \/ BeginWrites(t) \/ NextWrite(t) \/ EndWrites(t)
  BY <1>3 DEF Lookup, Create, BeginWrites, NextWrite, EndWrites, Call
<1>4. CASE Get(t)  BY <1>4 DEF Get, Resume
<1>5. CASE PutView(t) \/ Del(t)  BY <1>5 DEF PutView, Del, Resume
<1> QED  BY <1>1, <1>2, <1>3, <1>4, <1>5 DEF BackendStep

\* A thread reaches its page after a lookup only from the GET, and when no
\* reply was left unread this GET got the view stored under the cookie's id.
LEMMA AnswerStep ==
    ASSUME IndInv, [Next]_vars, LookupAnswersItsCookie, late = << >>
    PROVE  LookupAnswersItsCookie'
<1>1. SUFFICES ASSUME NEW u \in Thread, pc'[u] = "page", op'[u] = "resolve"
               PROVE  view'[u] = cookie'[u]
  BY DEF LookupAnswersItsCookie
<1>2. pc[u] = "page" /\ op[u] = "resolve" => view[u] = cookie[u]
  BY DEF LookupAnswersItsCookie
<1>3. CASE UNCHANGED <<pc, op, view, cookie>>  BY <1>1, <1>2, <1>3
<1>4. ASSUME NEW t \in Thread, t # u,
             \/ HostStep(t) /\ UNCHANGED <<linkVars, localVars>>
             \/ BackendStep(t)
      PROVE  view'[u] = cookie'[u]
  BY <1>1, <1>2, <1>4, OthersStay
<1>5. op[u] \in Op /\ ThreadOK(u) /\ pc \in [Thread -> RedisPC] /\ op \in [Thread -> Op]
  BY DEF IndInv, TypeInv, ThreadInv
<1>6. CASE HostStep(u)
  BY <1>1, <1>5, <1>6 DEF HostStep, Arrive, PageReturns, WritesDone, Respond, ResponseLost,
                     RespondBare, Forget, Goto
<1>7. CASE CheckLink(u) \/ Dial(u) \/ CheckFlag(u) \/ Ping(u) \/ AfterPing(u)
           \/ DropLink(u) \/ LowerFlag(u)
  <2>1. PICK step : /\ Goto(u, step) /\ op' = op
                    /\ \/ step \in LinkPC \cup {WhenReady(op[u]), WhenDown(op[u]), "lower"}
                       \/ pc[u] = "lower" /\ step = after[u]
    BY <1>7 DEF CheckLink, Dial, CheckFlag, Ping, AfterPing, DropLink, LowerFlag, LinkPC,
                localVars
  <2>2. step = "page" /\ op[u] = "resolve"  BY <1>1, <1>5, <2>1 DEF Goto
  <2>3. step \notin LinkPC \cup {WhenReady(op[u]), WhenDown(op[u]), "lower"}
    BY <1>5, <2>2, WhenFacts DEF LinkPC
  <2> QED  BY <1>5, <2>1, <2>2, <2>3 DEF ThreadOK
<1>8. CASE Lookup(u) \/ Create(u) \/ BeginWrites(u) \/ NextWrite(u) \/ EndWrites(u)
  BY <1>1, <1>5, <1>8 DEF Lookup, Create, BeginWrites, NextWrite, EndWrites, Call, Goto
<1>9. CASE PutView(u)
  <2>1. op[u] = "resolve"  BY <1>1, <1>9 DEF PutView
  <2>2. PICK failed : Resume(u, failed, "write")
    <3>1. PICK got : LET failed == got.kind \in {"err", "nil"}
                     IN  Resume(u, failed, CASE op[u] = "create" -> "page"
                                   [] op[u] = "regenerate" /\ failed -> "respond"
                                   [] op[u] = "regenerate" /\ ~failed -> "del"
                                   [] OTHER -> "write")
      BY <1>9 DEF PutView
    <3> QED  BY <2>1, <3>1
  <2> QED  BY <1>1, <1>5, <2>2 DEF Resume, Goto
<1>10. CASE Del(u)
  BY <1>1, <1>5, <1>10 DEF Del, Resume, Goto
<1>11. CASE Get(u)
  <2>1. op[u] = "resolve" /\ cookie' = cookie  BY <1>1, <1>11 DEF Get
  <2>2. PICK reply : reply = IF cookie[u] \in DOMAIN redis THEN Blob(redis[cookie[u]])
                             ELSE Nil
    OBVIOUS
  <2>3. PICK got \in Replies :
          /\ RoundTrip(redis, reply, got)
          /\ \/ got.kind = "blob" /\ view' = [view EXCEPT ![u] = got.view.id]
             \/ \E failed : Resume(u, failed, WhenDown("resolve"))
    BY <1>11, <2>1, <2>2 DEF Get
  <2>4. CASE \E failed : Resume(u, failed, WhenDown("resolve"))
    BY <1>1, <1>5, <2>4 DEF Resume, Goto, WhenDown
  <2>5. CASE got.kind = "blob" /\ view' = [view EXCEPT ![u] = got.view.id]
    <3>1. RoundTrip(redis, reply, got)  BY <2>3
    <3>2. got = reply \/ got = Failed  BY <3>1, PairedReply
    <3>3. got = reply /\ cookie[u] \in DOMAIN redis  BY <2>2, <2>5, <3>2 DEF Failed, Nil
    <3>4. got.view = redis[cookie[u]]  BY <2>2, <3>3 DEF Blob
    <3>5. got.view.id = cookie[u]  BY <3>3, <3>4 DEF IndInv, RedisInv
    <3>6. view \in [Thread -> 0..MaxSid]  BY DEF IndInv, TypeInv, HostTypeOK
    <3> QED  BY <2>1, <2>5, <3>5, <3>6
  <2> QED  BY <2>3, <2>4, <2>5
<1>12. \/ UNCHANGED <<pc, op, view, cookie>>
       \/ \E t \in Thread : \/ HostStep(t) /\ UNCHANGED <<linkVars, localVars>>
                            \/ BackendStep(t)
  BY DEF Next, Break, vars, hostVars, localVars
<1> QED
  BY <1>3, <1>4, <1>6, <1>7, <1>8, <1>9, <1>10, <1>11, <1>12 DEF BackendStep

-----------------------------------------------------------------------------

\* Every reachable state satisfies the invariant, whatever replies are late.
THEOREM Invariance == Spec => []IndInv
<1>1. IndInv /\ [Next]_vars => IndInv'  BY NextInd
<1> QED  BY InitInd, <1>1, PTL DEF Spec

\* Whatever view a late reply hands to a thread, the SET that follows stores
\* it under its own id: no row is overwritten with a view of another id.
THEOREM StoredUnderOwnId == Spec => [](\A s \in DOMAIN redis : redis[s].id = s)
<1>1. IndInv => \A s \in DOMAIN redis : redis[s].id = s  BY DEF IndInv, RedisInv
<1> QED  BY Invariance, <1>1, PTL

\* The id that create or regenerate takes next from the counter is no row's,
\* no cookie's and in no reply under way, so a new session never takes over
\* one that exists, also after replies were mixed up.
THEOREM FreshIdIsUnused ==
    Spec => [](/\ minted + 1 \notin DOMAIN redis
               /\ \A c \in Client : jar[c] # minted + 1
               /\ \A t \in Thread : minted + 1 \notin {cookie[t], view[t], fetched[t].id}
               /\ \A i \in DOMAIN late : late[i].view.id # minted + 1)
<1>1. ASSUME IndInv
      PROVE  /\ minted + 1 \notin DOMAIN redis
             /\ \A c \in Client : jar[c] # minted + 1
             /\ \A t \in Thread : minted + 1 \notin {cookie[t], view[t], fetched[t].id}
             /\ \A i \in DOMAIN late : late[i].view.id # minted + 1
  <2>1. minted \in Nat /\ ~(minted + 1 <= minted)
    BY <1>1, SessionHostAssumption DEF IndInv, TypeInv, HostTypeOK
  <2>2. PICK m : m = minted + 1 /\ ~(m <= minted)  BY <2>1
  <2> QED  BY <1>1, <2>2 DEF IndInv, RedisInv, IdInv
<1> QED  BY Invariance, <1>1, PTL

\* The one cause of what redis_reply shows: a step may make a lookup answer
\* with another session than its cookie's only if it began with a reply that
\* round_trip had left unread in the stream.  Broken streams, failed dials and
\* the other threads' commands cannot.
THEOREM OnlyLateRepliesMislead ==
    Spec => [][LookupAnswersItsCookie /\ late = << >> => LookupAnswersItsCookie']_vars
<1>1. IndInv /\ [Next]_vars =>
        [LookupAnswersItsCookie /\ late = << >> => LookupAnswersItsCookie']_vars
  BY AnswerStep
<1> QED  BY Invariance, <1>1, PTL DEF Spec
=============================================================================
