------------------------ MODULE MemorySessionsProofs ------------------------
(***************************************************************************)
(* Proofs about the in-memory session backend, for any finite set of       *)
(* connection threads, any clients and keys, and any capacity.             *)
(*                                                                         *)
(* OrderTracksStore and OvershootBound are not inductive by themselves:    *)
(* they lean on SecretInv: between the section that puts a row into the    *)
(* map and the one that puts its id into the order, only the thread at     *)
(* work knows the id, so no other request can destroy, regenerate or evict *)
(* the row.  SecretInv leans on IdInv (the counter's next id is in         *)
(* nobody's hands) and on ThreadInv (which ids a thread holds at which     *)
(* step).  The refinement needs RootInv besides: no two rows, in the map   *)
(* or in a thread's hands, are the same session.                           *)
(***************************************************************************)
EXTENDS MemorySessions, FiniteSetTheorems, SequenceTheorems, WellFoundedInduction, TLAPS

\* No thread is caught halfway by the bound on the counter.
MintInv == minted + Cardinality(Minting) <= MaxSid

\* Every id in use was handed out by the counter.
IdInv ==
    /\ \A s \in DOMAIN store : s <= minted
    /\ \A s \in Range(order) : s <= minted
    /\ \A c \in Client : jar[c] <= minted
    /\ \A t \in Thread : /\ cookie[t] <= minted /\ view[t] <= minted
                         /\ sid[t] <= minted /\ fresh[t] <= minted

\* What thread t holds at each step of a request.
ThreadOK(t) ==
    /\ pc[t] # "idle" => client[t] \in Client
    /\ pc[t] \in {"idle", "lookup", "create"} => view[t] = NoSid
    /\ pc[t] \notin {"apply", "reinsert", "reorder", "respond"} => sid[t] = NoSid
    /\ pc[t] = "idle" => cookie[t] = NoSid
    /\ pc[t] = "push" => view[t] # NoSid
    /\ fresh[t] # NoSid <=> pc[t] = "reorder"
    /\ moved[t] \in Row <=> pc[t] = "reinsert"
    /\ pc[t] \in {"reinsert", "reorder"} => sid[t] # NoSid /\ sid[t] \notin DOMAIN store

\* For all threads.
ThreadInv == \A t \in Thread : ThreadOK(t)

\* The ids of t's request were minted for its client.
OwnerOK(t) ==
    \A s \in {cookie[t], view[t], sid[t], fresh[t]} : s = NoSid \/ owner[s] = client[t]

\* So were those of every request and every cookie jar.
OwnerInv ==
    /\ \A c \in Client : jar[c] = NoSid \/ owner[jar[c]] = c
    /\ \A t \in Thread : OwnerOK(t)

\* t has put s into the map and not yet into the order.
Secret(t, s) == \/ pc[t] = "push" /\ view[t] = s
                \/ pc[t] = "reorder" /\ fresh[t] = s

\* Its row is there and nobody but t knows s.
SecretOK(t, s) ==
    /\ s \in DOMAIN store
    /\ s \notin Range(order)
    /\ \A c \in Client : jar[c] # s
    /\ \A u \in Thread : /\ cookie[u] # s /\ sid[u] # s
                         /\ view[u] = s => u = t /\ pc[t] = "push"
                         /\ fresh[u] = s => u = t

\* So it is for every id between the two sections.
SecretInv == \A t \in Thread, s \in Sid : Secret(t, s) => SecretOK(t, s)

\* No two rows, in the map or in a thread's hands, are the same session.
RootInv ==
    /\ \A s \in DOMAIN store : store[s].root <= minted
    /\ \A s, r \in DOMAIN store : store[s].root = store[r].root => s = r
    /\ \A t \in Thread : pc[t] = "reinsert" =>
          /\ moved[t].root <= minted
          /\ \A s \in DOMAIN store : store[s].root # moved[t].root
          /\ \A u \in Thread : pc[u] = "reinsert" /\ moved[u].root = moved[t].root => u = t

\* enforce_cap runs only in create; regenerate removes a row, lets others fill
\* its place, and re-inserts without it.  Rows above the capacity are paid for
\* by a create that has yet to enforce it or by another thread.
OvershootBound ==
    LET In(S) == Cardinality({t \in Thread : pc[t] \in S})
    IN  Cardinality(DOMAIN store) + In({"reinsert"})
          <= Cap + In({"push", "enforce"}) + Cardinality(Thread) - 1

\* The inductive invariant.
IndInv ==
    /\ TypeOK
    /\ MintInv
    /\ IdInv
    /\ ThreadInv
    /\ OwnerInv
    /\ SecretInv
    /\ OrderTracksStore
    /\ RootInv
    /\ OvershootBound

-----------------------------------------------------------------------------
(* The order as a sequence.                                                *)

\* A non-empty set of natural numbers has a least element.
LEMMA Least ==
    ASSUME NEW T \in SUBSET Nat, T # {}
    PROVE  \E x \in T : \A y \in T : x <= y
<1>1. PICK x \in T : \A y \in T : ~(<<y, x>> \in OpToRel(<, Nat))
  BY NatLessThanWellFounded, WFMin, Zenon
<1>2. \A y \in T : ~(y < x)
  BY <1>1 DEF OpToRel
<1> QED  BY <1>2

\* A slice of a sequence.
LEMMA Slice ==
    ASSUME NEW S, NEW s \in Seq(S), NEW m \in 1..(Len(s) + 1), NEW n \in (m - 1)..Len(s)
    PROVE  /\ SubSeq(s, m, n) \in Seq(S)
           /\ Len(SubSeq(s, m, n)) = n - m + 1
           /\ \A i \in 1..(n - m + 1) : SubSeq(s, m, n)[i] = s[m + i - 1]
<1>1. m \in Int /\ n \in Int /\ Len(s) \in Nat /\ (m <= n \/ n = m - 1)  OBVIOUS
<1>2. \A i \in m..n : s[i] \in S  BY <1>1
<1> QED  BY <1>1, <1>2, SubSeqProperties

\* No id twice.
OneToOne(s) == \A i, j \in DOMAIN s : s[i] = s[j] => i = j

\* Retaining by id (order.retain) removes exactly that id.
LEMMA RemoveFirstFacts ==
    ASSUME NEW S, NEW s \in Seq(S), OneToOne(s), NEW e
    PROVE  /\ RemoveFirst(s, e) \in Seq(S)
           /\ Range(RemoveFirst(s, e)) = Range(s) \ {e}
           /\ OneToOne(RemoveFirst(s, e))
<1>1. CASE ~ \E i \in 1..Len(s) : s[i] = e
  <2>1. RemoveFirst(s, e) = s  BY <1>1 DEF RemoveFirst
  <2>2. e \notin Range(s)  BY <1>1 DEF Range
  <2> QED  BY <2>1, <2>2
<1>2. CASE \E i \in 1..Len(s) : s[i] = e
  <2> DEFINE I == {i \in 1..Len(s) : s[i] = e}
             k == Min(I)
             r == SubSeq(s, 1, k - 1) \o SubSeq(s, k + 1, Len(s))
  <2>1. I \in SUBSET Nat /\ I # {}  BY <1>2
  <2>2. k \in I
    <3>1. \E x \in I : \A y \in I : x <= y  BY <2>1, Least
    <3> HIDE DEF I
    <3> QED  BY <3>1 DEF Min
  <2>3. RemoveFirst(s, e) = r
    BY <1>2, <2>1 DEF RemoveFirst, RemoveAt, SelectInSeq
  <2>4. k \in 1..Len(s) /\ s[k] = e /\ Len(s) \in Nat  BY <2>2
  <2> HIDE DEF k, I
  <2>5. /\ r \in Seq(S) /\ Len(r) = Len(s) - 1
        /\ \A i \in 1..Len(r) : r[i] = IF i < k THEN s[i] ELSE s[i + 1]
    <3> DEFINE a == SubSeq(s, 1, k - 1)
               b == SubSeq(s, k + 1, Len(s))
    <3>1. /\ a \in Seq(S) /\ Len(a) = k - 1
          /\ \A i \in 1..(k - 1) : a[i] = s[i]
      <4>1. 1 \in 1..(Len(s) + 1) /\ k - 1 \in (1 - 1)..Len(s)  BY <2>4
      <4> QED  BY <2>4, <4>1, Slice
    <3>2. /\ b \in Seq(S) /\ Len(b) = Len(s) - k
          /\ \A i \in 1..(Len(s) - k) : b[i] = s[k + i]
      <4>1. k + 1 \in 1..(Len(s) + 1) /\ Len(s) \in ((k + 1) - 1)..Len(s)
        BY <2>4
      <4> QED  BY <2>4, <4>1, Slice
    <3> HIDE DEF a, b
    <3>3. /\ a \o b \in Seq(S) /\ Len(a \o b) = Len(a) + Len(b)
          /\ \A i \in 1..(Len(a) + Len(b)) :
                (a \o b)[i] = IF i <= Len(a) THEN a[i] ELSE b[i - Len(a)]
      BY <3>1, <3>2, ConcatProperties
    <3>4. r = a \o b  BY DEF a, b
    <3> HIDE DEF r
    <3>a. /\ r \in Seq(S) /\ Len(r) = Len(a) + Len(b)
          /\ \A i \in 1..(Len(a) + Len(b)) :
                r[i] = IF i <= Len(a) THEN a[i] ELSE b[i - Len(a)]
      BY <3>3, <3>4, Zenon
    <3>b. /\ Len(r) = (k - 1) + (Len(s) - k)
          /\ \A i \in 1..((k - 1) + (Len(s) - k)) :
                r[i] = IF i <= k - 1 THEN a[i] ELSE b[i - (k - 1)]
      BY <3>1, <3>2, <3>a, Zenon
    <3>5. Len(r) = Len(s) - 1  BY <2>4, <3>b
    <3>6. ASSUME NEW i \in 1..(Len(s) - 1)
          PROVE  r[i] = IF i < k THEN s[i] ELSE s[i + 1]
      <4>0. i \in 1..((k - 1) + (Len(s) - k))  BY <2>4
      <4>1. CASE i < k  BY <2>4, <3>1, <3>b, <4>0, <4>1
      <4>2. CASE ~(i < k)
        <5>1. i - (k - 1) \in 1..(Len(s) - k) /\ k + (i - (k - 1)) = i + 1
          BY <2>4, <4>2
        <5>2. ~(i <= k - 1)  BY <2>4, <4>2
        <5> QED  BY <2>4, <3>2, <3>b, <4>0, <4>2, <5>1, <5>2
      <4> QED  BY <4>1, <4>2
    <3> QED  BY <3>a, <3>5, <3>6
  <2> HIDE DEF r
  <2>6. OneToOne(r)
    <3> SUFFICES ASSUME NEW i \in 1..Len(r), NEW j \in 1..Len(r), r[i] = r[j]
                 PROVE  i = j
      BY <2>5 DEF OneToOne
    <3> DEFINE at(x) == IF x < k THEN x ELSE x + 1
    <3>1. ASSUME NEW x \in 1..Len(r) PROVE at(x) \in 1..Len(s) /\ r[x] = s[at(x)]
      <4>0. /\ r[x] = (IF x < k THEN s[x] ELSE s[x + 1]) /\ x \in 1..(Len(s) - 1)
            /\ k \in Int /\ Len(s) \in Int
        BY <2>4, <2>5
      <4>1. CASE x < k  BY <4>0, <4>1
      <4>2. CASE ~(x < k)  BY <4>0, <4>2
      <4> QED  BY <4>1, <4>2
    <3>2. DOMAIN s = 1..Len(s)  OBVIOUS
    <3>3. at(i) = at(j)
      <4> HIDE DEF at
      <4> QED  BY <3>1, <3>2 DEF OneToOne
    <3>4. i \in Int /\ j \in Int /\ k \in Int  BY <2>4
    <3> QED  BY <3>3, <3>4
  <2>7. Range(r) = Range(s) \ {e}
    <3>1. ASSUME NEW i \in 1..Len(r) PROVE r[i] \in Range(s) \ {e}
      <4>1. \E j \in 1..Len(s) : j # k /\ r[i] = s[j]  BY <2>4, <2>5
      <4> QED  BY <2>4, <4>1 DEF OneToOne, Range
    <3>2. ASSUME NEW j \in 1..Len(s), s[j] # e PROVE s[j] \in Range(r)
      <4>1. \E i \in 1..Len(r) : r[i] = s[j]
        <5>1. CASE j < k  BY <2>4, <2>5, <5>1
        <5>2. CASE j > k
          <6>1. j - 1 \in 1..Len(r) /\ ~(j - 1 < k) /\ (j - 1) + 1 = j
            BY <2>4, <2>5, <5>2
          <6> QED  BY <2>5, <6>1
        <5> QED  BY <2>4, <3>2, <5>1, <5>2
      <4> QED  BY <2>5, <4>1 DEF Range
    <3> QED  BY <2>5, <3>1, <3>2 DEF Range
  <2> QED  BY <2>3, <2>5, <2>6, <2>7
<1> QED  BY <1>1, <1>2

\* push_back of an id that is not in the order.
LEMMA AppendFacts ==
    ASSUME NEW S, NEW s \in Seq(S), OneToOne(s), NEW e \in S, e \notin Range(s)
    PROVE  /\ Append(s, e) \in Seq(S)
           /\ Range(Append(s, e)) = Range(s) \cup {e}
           /\ OneToOne(Append(s, e))
<1>1. /\ Append(s, e) \in Seq(S) /\ Len(Append(s, e)) = Len(s) + 1 /\ Len(s) \in Nat
      /\ \A i \in 1..Len(s) : Append(s, e)[i] = s[i]
      /\ Append(s, e)[Len(s) + 1] = e
      /\ DOMAIN s = 1..Len(s) /\ DOMAIN Append(s, e) = 1..(Len(s) + 1)
  OBVIOUS
<1>2. \A i \in 1..(Len(s) + 1) : i \in 1..Len(s) \/ i = Len(s) + 1  BY <1>1
<1>3. \A i \in 1..Len(s) : s[i] # e  BY <1>1 DEF Range
<1>4. Range(Append(s, e)) = Range(s) \cup {e}
  <2> HIDE DEF Range
  <2>1. \A x : x \in Range(Append(s, e)) <=> \E i \in 1..(Len(s) + 1) : Append(s, e)[i] = x
    BY <1>1 DEF Range
  <2>2. \A x : x \in Range(s) <=> \E i \in 1..Len(s) : s[i] = x
    BY <1>1 DEF Range
  <2>3. Len(s) + 1 \in 1..(Len(s) + 1) /\ \A i \in 1..Len(s) : i \in 1..(Len(s) + 1)
    BY <1>1
  <2> QED  BY <1>1, <1>2, <2>1, <2>2, <2>3
<1>5. OneToOne(Append(s, e))
  BY <1>1, <1>2, <1>3 DEF OneToOne
<1> QED  BY <1>1, <1>4, <1>5

\* The first m ids of the order, and the others.
LEMMA PrefixFacts ==
    ASSUME NEW S, NEW s \in Seq(S), OneToOne(s), NEW m \in 0..Len(s)
    PROVE  /\ Range(SubSeq(s, 1, m)) = {s[i] : i \in 1..m}
           /\ SubSeq(s, m + 1, Len(s)) \in Seq(S)
           /\ OneToOne(SubSeq(s, m + 1, Len(s)))
           /\ Range(SubSeq(s, m + 1, Len(s))) = Range(s) \ {s[i] : i \in 1..m}
<1>0. Len(s) \in Nat /\ m \in Nat /\ m <= Len(s) /\ DOMAIN s = 1..Len(s)  OBVIOUS
<1> DEFINE a == SubSeq(s, 1, m)
           b == SubSeq(s, m + 1, Len(s))
<1>1. a \in Seq(S) /\ Len(a) = m /\ \A i \in 1..m : a[i] = s[i]
  <2>1. 1 \in 1..(Len(s) + 1) /\ m \in (1 - 1)..Len(s)  BY <1>0
  <2>2. /\ a \in Seq(S) /\ Len(a) = m - 1 + 1
        /\ \A i \in 1..(m - 1 + 1) : a[i] = s[1 + i - 1]
    BY <2>1, Slice
  <2>3. m - 1 + 1 = m /\ \A i \in 1..m : 1 + i - 1 = i  BY <1>0
  <2> HIDE DEF a
  <2>4. Len(a) = m /\ \A i \in 1..m : a[i] = s[1 + i - 1]  BY <2>2, <2>3, Zenon
  <2>5. \A i \in 1..m : a[i] = s[i]  BY <2>3, <2>4, Zenon
  <2> QED  BY <2>2, <2>4, <2>5
<1>2. /\ b \in Seq(S) /\ Len(b) = Len(s) - m
      /\ \A i \in 1..(Len(s) - m) : b[i] = s[m + i]
  <2>1. m + 1 \in 1..(Len(s) + 1) /\ Len(s) \in ((m + 1) - 1)..Len(s)  BY <1>0
  <2>2. /\ b \in Seq(S) /\ Len(b) = Len(s) - (m + 1) + 1
        /\ \A i \in 1..(Len(s) - (m + 1) + 1) : b[i] = s[m + 1 + i - 1]
    BY <2>1, Slice
  <2>3. /\ Len(s) - (m + 1) + 1 = Len(s) - m
        /\ \A i \in 1..(Len(s) - m) : m + 1 + i - 1 = m + i
    BY <1>0
  <2> HIDE DEF b
  <2>4. Len(b) = Len(s) - m /\ \A i \in 1..(Len(s) - m) : b[i] = s[m + 1 + i - 1]
    BY <2>2, <2>3, Zenon
  <2>5. \A i \in 1..(Len(s) - m) : b[i] = s[m + i]  BY <2>3, <2>4, Zenon
  <2> QED  BY <2>2, <2>4, <2>5
<1> HIDE DEF a, b
<1>3. DOMAIN a = 1..m  BY <1>1
<1>4. Range(a) = {s[i] : i \in 1..m}  BY <1>1, <1>3 DEF Range
<1>5. DOMAIN b = 1..(Len(s) - m)  BY <1>2
<1>6. OneToOne(b)
  <2> SUFFICES ASSUME NEW i \in 1..(Len(s) - m), NEW j \in 1..(Len(s) - m), b[i] = b[j]
               PROVE  i = j
    BY <1>5 DEF OneToOne
  <2>1. m + i \in DOMAIN s /\ m + j \in DOMAIN s /\ s[m + i] = s[m + j]
    BY <1>0, <1>2
  <2>2. m + i = m + j  BY <2>1 DEF OneToOne
  <2> QED  BY <1>0, <2>2
<1>7. Range(b) = Range(s) \ {s[i] : i \in 1..m}
  <2>1. ASSUME NEW i \in 1..(Len(s) - m)
        PROVE  b[i] \in Range(s) /\ \A j \in 1..m : b[i] # s[j]
    <3>1. m + i \in DOMAIN s /\ b[i] = s[m + i] /\ \A j \in 1..m : j \in DOMAIN s /\ j # m + i
      BY <1>0, <1>2
    <3> QED  BY <3>1 DEF OneToOne, Range
  <2>2. ASSUME NEW i \in 1..Len(s), \A j \in 1..m : s[i] # s[j]
        PROVE  s[i] \in Range(b)
    <3>1. i > m  BY <1>0, <2>2
    <3>2. i - m \in 1..(Len(s) - m) /\ m + (i - m) = i  BY <1>0, <3>1
    <3>3. b[i - m] = s[i]  BY <1>2, <3>2
    <3> QED  BY <1>5, <3>2, <3>3 DEF Range
  <2>3. \A x : x \in Range(b) <=> \E i \in 1..(Len(s) - m) : b[i] = x
    BY <1>5 DEF Range
  <2>4. \A x : x \in Range(s) <=> \E i \in 1..Len(s) : s[i] = x
    BY <1>0 DEF Range
  <2>5. \A x : x \in {s[i] : i \in 1..m} <=> \E i \in 1..m : s[i] = x  OBVIOUS
  <2>6. \A x : x \in Range(b) => x \in Range(s) /\ x \notin {s[i] : i \in 1..m}
    BY <2>1, <2>3, <2>5
  <2>7. \A x : x \in Range(s) /\ x \notin {s[i] : i \in 1..m} => x \in Range(b)
    BY <2>2, <2>4, <2>5
  <2> QED  BY <2>6, <2>7
<1> QED  BY <1>2, <1>4, <1>6, <1>7 DEF a, b

\* The ids enforce_cap takes off the order.
Evicted == {order[i] : i \in 1..Popped}

\* It takes enough of them, or all, and no more than it must.
LEMMA PoppedFacts ==
    ASSUME order \in Seq(Sid), OneToOne(order), IsFiniteSet(DOMAIN store)
    PROVE  /\ Popped \in 0..Len(order)
           /\ \/ Cardinality(DOMAIN store \ Evicted) <= Cap
              \/ Evicted = Range(order)
           /\ \/ Evicted = {}
              \/ Cardinality(DOMAIN store \ Evicted) >= Cap
<1> DEFINE first(m) == {order[i] : i \in 1..m}
           Fits(m) == \/ Cardinality(DOMAIN store \ Range(SubSeq(order, 1, m))) <= Cap
                      \/ m = Len(order)
           least(n) == Fits(n) /\ \A m \in 0..(n - 1) : ~Fits(m)
<1>0. Len(order) \in Nat /\ DOMAIN order = 1..Len(order)  OBVIOUS
<1>1. \A m \in 0..Len(order) : Range(SubSeq(order, 1, m)) = first(m)
  BY PrefixFacts
<1>2. Popped = CHOOSE n \in 0..Len(order) : least(n)
  BY DEF Popped
<1>3. \E n \in 0..Len(order) : least(n)
  <2> DEFINE T == {n \in 0..Len(order) : Fits(n)}
  <2>1. T \in SUBSET Nat /\ Len(order) \in T  BY <1>0
  <2>2. PICK x \in T : \A y \in T : x <= y  BY <2>1, Least
  <2>3. x \in 0..Len(order) /\ Fits(x)  BY <2>2
  <2> HIDE DEF Fits
  <2>4. \A m \in 0..(x - 1) : m \in 0..Len(order) /\ ~(x <= m)  BY <1>0, <2>3
  <2>5. \A m \in 0..(x - 1) : ~Fits(m)  BY <2>2, <2>4
  <2> QED  BY <2>3, <2>5
<1>4. Popped \in 0..Len(order) /\ least(Popped)
  <2> HIDE DEF least
  <2> QED  BY <1>2, <1>3
<1> DEFINE n == Popped
<1>5. Evicted = first(n)  BY DEF Evicted
<1>6. first(Len(order)) = Range(order)  BY <1>0 DEF Range
<1>7. Cardinality(DOMAIN store \ Evicted) <= Cap \/ Evicted = Range(order)
  <2>1. Fits(n)  BY <1>4
  <2>2. Range(SubSeq(order, 1, n)) = first(n)  BY <1>1, <1>4
  <2> HIDE DEF n, first
  <2> QED  BY <1>5, <1>6, <2>1, <2>2
<1>8. ASSUME n # 0 PROVE Cardinality(DOMAIN store \ Evicted) >= Cap
  <2>1. n - 1 \in 0..(n - 1) /\ n \in Nat /\ n >= 1
    <3>1. n \in 0..Len(order)  BY <1>4
    <3> HIDE DEF n
    <3> QED  BY <1>0, <1>8, <3>1
  <2>2. ~(Cardinality(DOMAIN store \ first(n - 1)) <= Cap)
    <3>1. ~Fits(n - 1)  BY <1>4, <2>1
    <3>2. n - 1 \in 0..Len(order)
      <4>1. n \in 0..Len(order)  BY <1>4
      <4> HIDE DEF n
      <4> QED  BY <1>0, <2>1, <4>1
    <3>3. Range(SubSeq(order, 1, n - 1)) = first(n - 1)  BY <1>1, <3>2
    <3> HIDE DEF n, first
    <3> QED  BY <3>1, <3>3
  <2>3. first(n) = first(n - 1) \cup {order[n]}
    <3>1. \A i : i \in 1..n <=> i \in 1..(n - 1) \/ i = n  BY <2>1
    <3> QED  BY <3>1
  <2>4. DOMAIN store \ first(n) = (DOMAIN store \ first(n - 1)) \ {order[n]}
    BY <2>3
  <2> DEFINE R == DOMAIN store \ first(n - 1)
  <2>5. IsFiniteSet(R) /\ Cardinality(R) \in Nat
    BY FS_Difference, FS_CardinalityType
  <2>6. Cardinality(R \ {order[n]}) >= Cardinality(R) - 1
    <3> HIDE DEF R, n
    <3>1. Cardinality(R \ {order[n]}) =
             IF order[n] \in R THEN Cardinality(R) - 1 ELSE Cardinality(R)
      BY <2>5, FS_RemoveElement
    <3> QED  BY <2>5, <3>1
  <2> HIDE DEF R
  <2>7. Cardinality(R \ {order[n]}) \in Nat
    BY <2>5, FS_RemoveElement, FS_CardinalityType
  <2>8. Cardinality(R \ {order[n]}) >= Cap
    BY <2>2, <2>5, <2>6, <2>7, CapAssumption DEF R
  <2> QED  BY <1>5, <2>4, <2>8 DEF R
<1>9. n = 0 => Evicted = {}  BY <1>5
<1> QED  BY <1>4, <1>7, <1>8, <1>9

-----------------------------------------------------------------------------
(* Steps.                                                                  *)

\* The steps of one thread; set, delete and clear are one case.
Step(t) ==
    \/ HostStep(t) /\ UNCHANGED <<store, order, moved, fresh>>
    \/ Lookup(t)
    \/ Insert(t)
    \/ PushOrder(t)
    \/ EnforceCap(t)
    \/ \E out, in \in SUBSET Key : Change(t, out, in)
    \/ Regenerate(t)
    \/ Reinsert(t)
    \/ Reorder(t)
    \/ Destroy(t)

\* Every step is one of these.
LEMMA Steps ==
    ASSUME Next
    PROVE  \E t \in Thread : Step(t)
<1>1. \A t \in Thread : \A k \in Key :
         SetKey(t, k) \/ DeleteKey(t, k) => \E out, in \in SUBSET Key : Change(t, out, in)
  BY DEF SetKey, DeleteKey
<1>2. \A t \in Thread : Clear(t) => \E out, in \in SUBSET Key : Change(t, out, in)
  BY DEF Clear
<1> QED  BY <1>1, <1>2 DEF Next, BackendStep, Step

\* The steps of a thread.
PC == {"idle", "lookup", "create", "push", "enforce", "page", "apply", "reinsert",
       "reorder", "respond"}

\* A step of t leaves the other threads alone.
Others(t) ==
    \A u \in Thread \ {t} :
        /\ pc'[u] = pc[u] /\ client'[u] = client[u] /\ cookie'[u] = cookie[u]
        /\ view'[u] = view[u] /\ sid'[u] = sid[u]
        /\ moved'[u] = moved[u] /\ fresh'[u] = fresh[u]

\* What any step does: t moves, everybody else stays.
LEMMA Frame ==
    ASSUME TypeOK, NEW t \in Thread, Step(t)
    PROVE  Others(t)
<1> USE DEF TypeOK, HostTypeOK, Others
<1>1. CASE HostStep(t) /\ UNCHANGED <<store, order, moved, fresh>>
  BY <1>1 DEF HostStep, Arrive, PageReturns, WritesDone, Respond,
     ResponseLost, RespondBare,
              Forget, Goto
<1>2. CASE Lookup(t)  BY <1>2 DEF Lookup, Goto
<1>3. CASE Insert(t)  BY <1>3 DEF Insert, Goto
<1>4. CASE PushOrder(t)  BY <1>4 DEF PushOrder, Goto
<1>5. CASE EnforceCap(t)  BY <1>5 DEF EnforceCap, Goto
<1>6. ASSUME NEW out \in SUBSET Key, NEW in \in SUBSET Key, Change(t, out, in)
      PROVE  Others(t)
  BY <1>6 DEF Change
<1>7. CASE Regenerate(t)  BY <1>7 DEF Regenerate, Goto
<1>8. CASE Reinsert(t)  BY <1>8 DEF Reinsert, Goto
<1>9. CASE Reorder(t)  BY <1>9 DEF Reorder, Goto
<1>10. CASE Destroy(t)  BY <1>10 DEF Destroy
<1> QED
  BY <1>1, <1>2, <1>3, <1>4, <1>5, <1>6, <1>7, <1>8, <1>9, <1>10 DEF Step

\* How many threads are at one of some steps.
In(S) == Cardinality({u \in Thread : pc[u] \in S})

\* One thread moves: the count follows it.
LEMMA CountMoves ==
    ASSUME TypeOK, NEW t \in Thread, NEW S, NEW x, pc' = [pc EXCEPT ![t] = x]
    PROVE  /\ In(S) \in Nat /\ In(S)' \in Nat
           /\ x \in S /\ pc[t] \in S => In(S)' = In(S)
           /\ x \notin S /\ pc[t] \notin S => In(S)' = In(S)
           /\ x \in S /\ pc[t] \notin S => In(S)' = In(S) + 1
           /\ x \notin S /\ pc[t] \in S => In(S)' = In(S) - 1 /\ In(S) >= 1
<1> DEFINE A == {u \in Thread : pc[u] \in S}
           B == {u \in Thread : pc'[u] \in S}
<1>1. \A u \in Thread : pc'[u] = IF u = t THEN x ELSE pc[u]
  BY DEF TypeOK
<1>2. IsFiniteSet(A) /\ IsFiniteSet(B) /\ Cardinality(A) \in Nat /\ Cardinality(B) \in Nat
  BY ThreadsFinite, FS_Subset, FS_CardinalityType
<1>3. In(S) = Cardinality(A) /\ In(S)' = Cardinality(B)  BY DEF In
<1>4. B = IF x \in S THEN A \cup {t} ELSE A \ {t}  BY <1>1
<1>5. t \in A <=> pc[t] \in S  OBVIOUS
<1> HIDE DEF A, B
<1>6. /\ Cardinality(A \cup {t}) = IF t \in A THEN Cardinality(A) ELSE Cardinality(A) + 1
      /\ Cardinality(A \ {t}) = IF t \in A THEN Cardinality(A) - 1 ELSE Cardinality(A)
  BY <1>2, FS_AddElement, FS_RemoveElement
<1> QED  BY <1>2, <1>3, <1>4, <1>5, <1>6

\* The counter stays within its bound.
LEMMA MintStep ==
    ASSUME IndInv, NEW p \in Thread, Step(p)
    PROVE  MintInv' /\ minted' \in 0..MaxSid /\ minted <= minted'
<1> DEFINE W == {"lookup", "create", "reinsert"}
           Goal == MintInv' /\ minted' \in 0..MaxSid /\ minted <= minted'
<1>0. /\ TypeOK /\ minted \in Nat /\ MaxSid \in Nat /\ minted <= MaxSid
      /\ minted + In(W) <= MaxSid
      /\ Cardinality(Minting) = In(W) /\ (MintInv' <=> minted' + In(W)' <= MaxSid)
      /\ In(W) \in Nat
  <2>1. TypeOK /\ minted + In(W) <= MaxSid
    BY DEF IndInv, MintInv, Minting, In
  <2>2. IsFiniteSet({u \in Thread : pc[u] \in W})  BY ThreadsFinite, FS_Subset
  <2>3. In(W) \in Nat  BY <2>2, FS_CardinalityType DEF In
  <2>4. Cardinality(Minting) = In(W) /\ (MintInv' <=> minted' + In(W)' <= MaxSid)
    BY DEF MintInv, Minting, In
  <2>5. minted \in Nat /\ MaxSid \in Nat /\ minted <= MaxSid
    BY <2>1, SessionHostAssumption DEF TypeOK, HostTypeOK
  <2> QED  BY <2>1, <2>3, <2>4, <2>5
<1> HIDE DEF W
<1>m. ASSUME NEW t \in Thread, NEW x, pc' = [pc EXCEPT ![t] = x]
      PROVE  /\ In(W) \in Nat /\ In(W)' \in Nat
             /\ x \in W /\ pc[t] \in W => In(W)' = In(W)
             /\ x \notin W /\ pc[t] \notin W => In(W)' = In(W)
             /\ x \in W /\ pc[t] \notin W => In(W)' = In(W) + 1
             /\ x \notin W /\ pc[t] \in W => In(W)' = In(W) - 1 /\ In(W) >= 1
  BY <1>0, <1>m, CountMoves
<1>a. ASSUME NEW t \in Thread, NEW x \in PC \ W, pc' = [pc EXCEPT ![t] = x], minted' = minted
      PROVE  Goal
  <2>1. In(W) \in Nat /\ In(W)' \in Nat /\ (In(W)' = In(W) \/ In(W)' = In(W) - 1)
    BY <1>a, <1>m
  <2> QED  BY <1>0, <1>a, <2>1
<1>b. ASSUME NEW t \in Thread, NEW x \in W, pc[t] \in W \/ IdLeft,
             pc' = [pc EXCEPT ![t] = x], minted' = minted
      PROVE  Goal
  <2>1. IdLeft => minted + In(W) < MaxSid  BY <1>0 DEF IdLeft
  <2>2. In(W)' \in Nat /\ (In(W)' = In(W) \/ (IdLeft /\ In(W)' = In(W) + 1))
    BY <1>0, <1>b, <1>m
  <2> QED  BY <1>0, <1>b, <2>1, <2>2
<1>c. ASSUME NEW t \in Thread, NEW x \in PC \ W, pc[t] \in W,
             pc' = [pc EXCEPT ![t] = x], minted' = minted + 1
      PROVE  Goal
  <2>1. In(W)' \in Nat /\ In(W) >= 1 /\ In(W)' = In(W) - 1  BY <1>0, <1>c, <1>m
  <2> QED  BY <1>0, <1>c, <2>1
<1>d. ASSUME pc' = pc, minted' = minted PROVE Goal
  BY <1>0, <1>d DEF In
<1> USE DEF W
<1> HIDE DEF Goal
<1> SUFFICES Goal  BY DEF Goal
<1>1. ASSUME NEW t \in Thread, HostStep(t) PROVE Goal
  <2>1. ASSUME NEW c \in Client, Arrive(t, c) PROVE Goal
    BY <1>b, <2>1 DEF Arrive, Goto, mintVars
  <2> QED
    BY <1>1, <1>a, <2>1 DEF HostStep, PageReturns, WritesDone, Respond,
       ResponseLost,
       RespondBare, Forget, Goto, mintVars, PC
<1>2. ASSUME NEW t \in Thread, Lookup(t) PROVE Goal
  BY <1>2, <1>a, <1>b DEF Lookup, Goto, mintVars, PC
<1>3. ASSUME NEW t \in Thread, Insert(t) \/ Reinsert(t) PROVE Goal
  BY <1>3, <1>c DEF Insert, Reinsert, Goto, Mint, PC
<1>4. ASSUME NEW t \in Thread, PushOrder(t) \/ EnforceCap(t) \/ Reorder(t) PROVE Goal
  BY <1>4, <1>a DEF PushOrder, EnforceCap, Reorder, Goto, mintVars, PC
<1>5. ASSUME NEW t \in Thread, Destroy(t) \/ \E out, in \in SUBSET Key : Change(t, out, in)
      PROVE  Goal
  BY <1>5, <1>d DEF Destroy, Change, mintVars
<1>6. ASSUME NEW t \in Thread, Regenerate(t) PROVE Goal
  BY <1>6, <1>b, <1>d DEF Regenerate, Goto, mintVars
<1> QED  BY <1>1, <1>2, <1>3, <1>4, <1>5, <1>6 DEF Step

-----------------------------------------------------------------------------
(* The map.                                                                *)

\* Removing rows.
LEMMA DropFacts ==
    ASSUME NEW f, NEW S
    PROVE  /\ DOMAIN Drop(f, S) = DOMAIN f \ S
           /\ \A s \in DOMAIN f \ S : Drop(f, S)[s] = f[s]
BY DEF Drop

\* What is left is still made of rows.
LEMMA DropTypes ==
    ASSUME NEW f, NEW S, DOMAIN f \subseteq Sid, \A s \in DOMAIN f : f[s] \in Row
    PROVE  /\ DOMAIN Drop(f, S) \subseteq Sid
           /\ \A s \in DOMAIN Drop(f, S) : Drop(f, S)[s] \in Row
<1>1. DOMAIN Drop(f, S) = DOMAIN f \ S  BY DropFacts
<1>2. \A s \in DOMAIN f \ S : Drop(f, S)[s] = f[s]  BY DropFacts
<1> HIDE DEF Drop
<1> QED  BY <1>1, <1>2

\* Inserting a row.
LEMMA PutFacts ==
    ASSUME NEW f, NEW s, NEW row
    PROVE  /\ DOMAIN Put(f, s, row) = DOMAIN f \cup {s}
           /\ Put(f, s, row)[s] = row
           /\ \A r \in DOMAIN f : r # s => Put(f, s, row)[r] = f[r]
BY DEF Put

\* The map stays one of rows.
LEMMA PutTypes ==
    ASSUME NEW f, NEW n \in Sid, NEW row \in Row,
           DOMAIN f \subseteq Sid, \A s \in DOMAIN f : f[s] \in Row
    PROVE  /\ DOMAIN Put(f, n, row) \subseteq Sid
           /\ \A s \in DOMAIN Put(f, n, row) : Put(f, n, row)[s] \in Row
<1>1. DOMAIN Put(f, n, row) = DOMAIN f \cup {n}  BY PutFacts
<1>2. Put(f, n, row)[n] = row  BY DEF Put
<1>3. \A r \in DOMAIN f : r # n => Put(f, n, row)[r] = f[r]  BY DEF Put
<1>4. ASSUME NEW s \in DOMAIN f \cup {n} PROVE Put(f, n, row)[s] \in Row
  BY <1>2, <1>3
<1> QED  BY <1>1, <1>4

\* A write changes no id, no birth id and, of the data, only its own row's.
LEMMA ChangeFacts ==
    ASSUME TypeOK, NEW t \in Thread, NEW out \in SUBSET Key, NEW in \in SUBSET Key,
           Change(t, out, in)
    PROVE  /\ DOMAIN store' = DOMAIN store
           /\ \A s \in DOMAIN store : store'[s] \in Row /\ store'[s].root = store[s].root
           /\ \A s \in DOMAIN store : s # sid[t] => store'[s] = store[s]
<1>1. \A s \in DOMAIN store : store[s] \in Row /\ store[s].data \in SUBSET Key
  BY DEF TypeOK, Row
<1>2. CASE sid[t] \in DOMAIN store
  <2> DEFINE s == sid[t]
             d == (store[s].data \ out) \cup in
  <2>1. store' = [store EXCEPT ![s].data = d]  BY <1>2 DEF Change
  <2>2. d \in SUBSET Key  BY <1>1, <1>2
  <2> HIDE DEF d
  <2>3. /\ DOMAIN store' = DOMAIN store
        /\ store'[s] = [store[s] EXCEPT !.data = d]
        /\ \A r \in DOMAIN store : r # s => store'[r] = store[r]
    BY <1>2, <2>1
  <2>4. store'[s] \in Row /\ store'[s].root = store[s].root
    BY <1>1, <1>2, <2>2, <2>3 DEF Row
  <2> QED  BY <1>1, <2>3, <2>4
<1>3. CASE sid[t] \notin DOMAIN store
  BY <1>1, <1>3 DEF Change
<1> QED  BY <1>2, <1>3

\* enforce_cap drops the same ids from the map and from the order.
LEMMA EnforceFacts ==
    ASSUME IndInv, NEW t \in Thread, EnforceCap(t)
    PROVE  /\ store' = Drop(store, Evicted)
           /\ DOMAIN store' = DOMAIN store \ Evicted
           /\ order' \in Seq(Sid) /\ OneToOne(order')
           /\ Range(order') = Range(order) \ Evicted
           /\ Evicted \subseteq Range(order)
           /\ IsFiniteSet(DOMAIN store)
           /\ Cardinality(DOMAIN store \ Evicted) <= Cap \/ Evicted = Range(order)
           /\ Evicted = {} \/ Cardinality(DOMAIN store \ Evicted) >= Cap
<1>1. order \in Seq(Sid) /\ OneToOne(order) /\ Len(order) \in Nat
  BY DEF IndInv, TypeOK, OrderTracksStore, OneToOne
<1>2. IsFiniteSet(DOMAIN store)
  <2>1. IsFiniteSet(Sid)  BY SessionHostAssumption, FS_Interval DEF Sid
  <2>2. DOMAIN store \in SUBSET Sid  BY DEF IndInv, TypeOK
  <2> QED  BY <2>1, <2>2, FS_Subset
<1>3. /\ Popped \in 0..Len(order)
      /\ Cardinality(DOMAIN store \ Evicted) <= Cap \/ Evicted = Range(order)
      /\ Evicted = {} \/ Cardinality(DOMAIN store \ Evicted) >= Cap
  BY <1>1, <1>2, PoppedFacts
<1>4. /\ Range(SubSeq(order, 1, Popped)) = Evicted
      /\ SubSeq(order, Popped + 1, Len(order)) \in Seq(Sid)
      /\ OneToOne(SubSeq(order, Popped + 1, Len(order)))
      /\ Range(SubSeq(order, Popped + 1, Len(order))) = Range(order) \ Evicted
  BY <1>1, <1>3, PrefixFacts DEF Evicted
<1>5. Evicted \subseteq Range(order)
  BY <1>1, <1>3 DEF Evicted, Range
<1>6. store' = Drop(store, Evicted)  BY <1>4 DEF EnforceCap
<1>7. order' = SubSeq(order, Popped + 1, Len(order))  BY DEF EnforceCap
<1> QED  BY <1>2, <1>3, <1>4, <1>5, <1>6, <1>7, DropFacts

-----------------------------------------------------------------------------
(* Types.                                                                  *)

\* Every step keeps the type invariant.
LEMMA TypeStep ==
    ASSUME IndInv, NEW p \in Thread, Step(p)
    PROVE  TypeOK'
<1>0. /\ TypeOK /\ MaxSid \in Nat /\ MaxWrites \in Nat
      /\ minted' \in 0..MaxSid /\ OneToOne(order)
      /\ NoSid \in 0..MaxSid /\ 0 \in 0..MaxWrites /\ MaxWrites \in 0..MaxWrites
  BY MintStep, SessionHostAssumption DEF IndInv, OrderTracksStore, OneToOne,
     NoSid
<1>1. ASSUME NEW t \in Thread, HostStep(t), UNCHANGED <<store, order, moved, fresh>>
      PROVE  TypeOK'
  <2>1. pc[t] = "respond" => client[t] \in Client
    BY DEF IndInv, ThreadInv, ThreadOK
  <2>2. ASSUME NEW c \in Client, Arrive(t, c) PROVE TypeOK'
    BY <1>0, <1>1, <2>2 DEF TypeOK, HostTypeOK, Arrive, Goto, mintVars
  <2>3. CASE PageReturns(t)
    BY <1>0, <1>1, <2>3 DEF TypeOK, HostTypeOK, PageReturns, Goto, mintVars
  <2>4. CASE WritesDone(t)
    BY <1>0, <1>1, <2>4 DEF TypeOK, HostTypeOK, WritesDone, Goto, mintVars
  <2>5. CASE Respond(t)
    <3>1. jar' \in [Client -> 0..MaxSid]
      BY <1>0, <2>1, <2>5 DEF TypeOK, HostTypeOK, Respond
    <3> QED
      BY <1>0, <1>1, <2>5, <3>1 DEF TypeOK, HostTypeOK, Respond, Forget,
         Goto, mintVars
  <2>6. CASE ResponseLost(t) \/ RespondBare(t)
    <3>1. Forget(t) /\ UNCHANGED <<jar, mintVars>>
      BY <2>6 DEF ResponseLost, RespondBare
    <3> QED  BY <1>0, <1>1, <3>1 DEF TypeOK, HostTypeOK, Forget, Goto, mintVars
  <2> QED  BY <1>1, <2>2, <2>3, <2>4, <2>5, <2>6 DEF HostStep
<1>2. ASSUME NEW t \in Thread, Lookup(t) PROVE TypeOK'
  BY <1>0, <1>2 DEF TypeOK, HostTypeOK, Lookup, Goto, mintVars
<1>a. ASSUME NEW t \in Thread, Mint(t)
      PROVE  /\ minted + 1 \in Sid /\ minted + 1 \in 0..MaxSid
             /\ owner' \in [Sid -> Client \cup {None}]
  <2>1. minted + 1 \in Sid  BY <1>0, <1>a DEF Mint, TypeOK, HostTypeOK, Sid
  <2> QED  BY <1>0, <1>a, <2>1 DEF Mint, TypeOK, HostTypeOK, Sid
<1>3. ASSUME NEW t \in Thread, Insert(t) PROVE TypeOK'
  <2> DEFINE n == minted + 1
  <2>1. /\ n \in Sid /\ n \in 0..MaxSid /\ owner' \in [Sid -> Client \cup {None}]
    BY <1>3, <1>a DEF Insert
  <2> HIDE DEF n
  <2>2. store' = Put(store, n, [root |-> n, data |-> {}])
    BY <1>3 DEF Insert, n
  <2>3. [root |-> n, data |-> {}] \in Row  BY <2>1 DEF Row
  <2>4. DOMAIN store' \subseteq Sid /\ \A s \in DOMAIN store' : store'[s] \in Row
    BY <1>0, <2>1, <2>2, <2>3, PutTypes DEF TypeOK
  <2>5. view' = [view EXCEPT ![t] = n]  BY <1>3 DEF Insert, n
  <2>6. Goto(t, "push") /\ UNCHANGED <<jar, client, cookie, sid, left, order, moved, fresh>>
    BY <1>3 DEF Insert
  <2> QED  BY <1>0, <2>1, <2>4, <2>5, <2>6 DEF TypeOK, HostTypeOK, Goto
<1>4. ASSUME NEW t \in Thread, PushOrder(t) PROVE TypeOK'
  <2>1. view[t] \in Sid
    BY <1>0, <1>4, SessionHostAssumption
       DEF PushOrder, IndInv, ThreadInv, ThreadOK, TypeOK, HostTypeOK, NoSid, Sid
  <2>2. RemoveFirst(order, view[t]) \in Seq(Sid)
    BY <1>0, RemoveFirstFacts DEF TypeOK
  <2>3. order' \in Seq(Sid)  BY <1>4, <2>1, <2>2 DEF PushOrder
  <2> QED
    BY <1>0, <1>4, <2>3 DEF TypeOK, HostTypeOK, PushOrder, Goto, mintVars
<1>5. ASSUME NEW t \in Thread, EnforceCap(t) PROVE TypeOK'
  <2>1. /\ order' \in Seq(Sid)
        /\ DOMAIN store' \subseteq Sid /\ \A s \in DOMAIN store' : store'[s] \in Row
    BY <1>0, <1>5, EnforceFacts, DropTypes DEF TypeOK
  <2> QED
    BY <1>0, <1>5, <2>1 DEF TypeOK, HostTypeOK, EnforceCap, Goto, mintVars
<1>b. ASSUME NEW t \in Thread, TakeWrite(t) PROVE left' \in [Thread -> 0..MaxWrites]
  BY <1>0, <1>b DEF TakeWrite, TypeOK, HostTypeOK
<1>6. ASSUME NEW t \in Thread, NEW out \in SUBSET Key, NEW in \in SUBSET Key,
             Change(t, out, in)
      PROVE  TypeOK'
  <2>1. DOMAIN store' \subseteq Sid /\ \A s \in DOMAIN store' : store'[s] \in Row
    BY <1>0, <1>6, ChangeFacts DEF TypeOK
  <2>2. left' \in [Thread -> 0..MaxWrites]  BY <1>6, <1>b DEF Change
  <2> QED  BY <1>0, <1>6, <2>1, <2>2 DEF TypeOK, HostTypeOK, Change, mintVars
<1>7. ASSUME NEW t \in Thread, Regenerate(t) PROVE TypeOK'
  <2>1. left' \in [Thread -> 0..MaxWrites]  BY <1>7, <1>b DEF Regenerate
  <2>2. CASE sid[t] \in DOMAIN store /\ store' = Drop(store, {sid[t]})
             /\ moved' = [moved EXCEPT ![t] = store[sid[t]]] /\ Goto(t, "reinsert")
    <3>1. DOMAIN store' \subseteq Sid /\ \A s \in DOMAIN store' : store'[s] \in Row
      BY <1>0, <2>2, DropTypes DEF TypeOK
    <3>2. moved' \in [Thread -> Row \cup {NoRow}]  BY <1>0, <2>2 DEF TypeOK
    <3> QED
      BY <1>0, <1>7, <2>1, <2>2, <3>1, <3>2 DEF TypeOK, HostTypeOK,
         Regenerate, Goto, mintVars
  <2>3. CASE UNCHANGED <<moved, store, pc>>
    BY <1>0, <1>7, <2>1, <2>3 DEF TypeOK, HostTypeOK, Regenerate, mintVars
  <2> QED  BY <1>7, <2>2, <2>3 DEF Regenerate
<1>8. ASSUME NEW t \in Thread, Reinsert(t) PROVE TypeOK'
  <2> DEFINE n == minted + 1
  <2>1. /\ n \in Sid /\ n \in 0..MaxSid /\ owner' \in [Sid -> Client \cup {None}]
    BY <1>8, <1>a DEF Reinsert
  <2> HIDE DEF n
  <2>2. store' = Put(store, n, moved[t]) /\ fresh' = [fresh EXCEPT ![t] = n]
    BY <1>8 DEF Reinsert, n
  <2>3. moved[t] \in Row  BY <1>8 DEF Reinsert, IndInv, ThreadInv, ThreadOK
  <2>4. DOMAIN store' \subseteq Sid /\ \A s \in DOMAIN store' : store'[s] \in Row
    BY <1>0, <2>1, <2>2, <2>3, PutTypes DEF TypeOK
  <2>5. moved' \in [Thread -> Row \cup {NoRow}]  BY <1>0, <1>8 DEF Reinsert, TypeOK
  <2>6. fresh' \in [Thread -> 0..MaxSid]  BY <1>0, <2>1, <2>2 DEF TypeOK
  <2>7. Goto(t, "reorder") /\ UNCHANGED <<jar, client, cookie, view, sid, left, order>>
    BY <1>8 DEF Reinsert
  <2> QED
    BY <1>0, <2>1, <2>4, <2>5, <2>6, <2>7 DEF TypeOK, HostTypeOK, Goto
<1>9. ASSUME NEW t \in Thread, Reorder(t) PROVE TypeOK'
  <2>1. fresh[t] \in Sid
    BY <1>0, <1>9, SessionHostAssumption
       DEF Reorder, IndInv, ThreadInv, ThreadOK, TypeOK, NoSid, Sid
  <2>2. RemoveFirst(order, sid[t]) \in Seq(Sid)
    BY <1>0, RemoveFirstFacts DEF TypeOK
  <2>3. order' \in Seq(Sid)  BY <1>9, <2>1, <2>2 DEF Reorder
  <2> QED
    BY <1>0, <1>9, <2>3 DEF TypeOK, HostTypeOK, Reorder, Goto, mintVars
<1>10. ASSUME NEW t \in Thread, Destroy(t) PROVE TypeOK'
  <2>1. left' \in [Thread -> 0..MaxWrites]  BY <1>10, <1>b DEF Destroy
  <2>2. DOMAIN store' \subseteq Sid /\ \A s \in DOMAIN store' : store'[s] \in Row
    BY <1>0, <1>10, DropTypes DEF TypeOK, Destroy
  <2>3. order' \in Seq(Sid)
    BY <1>0, <1>10, RemoveFirstFacts DEF TypeOK, Destroy
  <2> QED
    BY <1>0, <1>10, <2>1, <2>2, <2>3 DEF TypeOK, HostTypeOK, Destroy, mintVars
<1> QED
  BY <1>1, <1>2, <1>3, <1>4, <1>5, <1>6, <1>7, <1>8, <1>9, <1>10 DEF Step

-----------------------------------------------------------------------------
(* Where ids come from and where they go.                                  *)

\* The order after push_order, after the last section of regenerate and
\* after destroy.
LEMMA OrderFacts ==
    ASSUME IndInv, NEW t \in Thread
    PROVE  /\ PushOrder(t) =>
                 /\ Range(order') = Range(order) \cup {view[t]} /\ OneToOne(order')
                 /\ store' = store /\ minted' = minted
           /\ Reorder(t) =>
                 /\ Range(order') = (Range(order) \ {sid[t]}) \cup {fresh[t]}
                 /\ OneToOne(order')
                 /\ store' = store /\ minted' = minted
           /\ Destroy(t) =>
                 /\ Range(order') = Range(order) \ {sid[t]} /\ OneToOne(order')
                 /\ DOMAIN store' = DOMAIN store \ {sid[t]} /\ minted' = minted
<1>0. /\ order \in Seq(Sid) /\ OneToOne(order) /\ TypeOK
      /\ view[t] \in 0..MaxSid /\ fresh[t] \in 0..MaxSid
      /\ \A s \in 0..MaxSid : s # NoSid => s \in Sid
  BY SessionHostAssumption
     DEF IndInv, TypeOK, HostTypeOK, OrderTracksStore, OneToOne, NoSid, Sid
<1>1. ASSUME NEW x
      PROVE  /\ RemoveFirst(order, x) \in Seq(Sid)
             /\ Range(RemoveFirst(order, x)) = Range(order) \ {x}
             /\ OneToOne(RemoveFirst(order, x))
  BY <1>0, RemoveFirstFacts
<1>2. ASSUME PushOrder(t)
      PROVE  /\ Range(order') = Range(order) \cup {view[t]} /\ OneToOne(order')
             /\ store' = store /\ minted' = minted
  <2>1. order' = Append(RemoveFirst(order, view[t]), view[t])
        /\ store' = store /\ minted' = minted
    BY <1>2 DEF PushOrder, mintVars
  <2>2. view[t] \in Sid
    BY <1>0, <1>2 DEF PushOrder, IndInv, ThreadInv, ThreadOK
  <2> DEFINE o == RemoveFirst(order, view[t])
  <2>3. o \in Seq(Sid) /\ Range(o) = Range(order) \ {view[t]} /\ OneToOne(o)
    BY <1>1
  <2> HIDE DEF o
  <2>4. Range(Append(o, view[t])) = Range(o) \cup {view[t]} /\ OneToOne(Append(o, view[t]))
    BY <2>2, <2>3, AppendFacts
  <2>5. Range(o) \cup {view[t]} = Range(order) \cup {view[t]}  BY <2>3
  <2> QED  BY <2>1, <2>4, <2>5 DEF o
<1>3. ASSUME Reorder(t)
      PROVE  /\ Range(order') = (Range(order) \ {sid[t]}) \cup {fresh[t]}
             /\ OneToOne(order')
             /\ store' = store /\ minted' = minted
  <2>1. order' = Append(RemoveFirst(order, sid[t]), fresh[t])
        /\ store' = store /\ minted' = minted
    BY <1>3 DEF Reorder, mintVars
  <2>2. fresh[t] \in Sid
    BY <1>0, <1>3 DEF Reorder, IndInv, ThreadInv, ThreadOK
  <2>3. fresh[t] \notin Range(order)
    BY <1>3, <2>2 DEF Reorder, IndInv, SecretInv, Secret, SecretOK
  <2> DEFINE o == RemoveFirst(order, sid[t])
  <2>4. o \in Seq(Sid) /\ Range(o) = Range(order) \ {sid[t]} /\ OneToOne(o)
    BY <1>1
  <2> HIDE DEF o
  <2>5. Range(Append(o, fresh[t])) = Range(o) \cup {fresh[t]} /\ OneToOne(Append(o, fresh[t]))
    BY <2>2, <2>3, <2>4, AppendFacts
  <2> QED  BY <2>1, <2>4, <2>5 DEF o
<1>4. ASSUME Destroy(t)
      PROVE  /\ Range(order') = Range(order) \ {sid[t]} /\ OneToOne(order')
             /\ DOMAIN store' = DOMAIN store \ {sid[t]} /\ minted' = minted
  BY <1>1, <1>4, DropFacts DEF Destroy, mintVars
<1> QED  BY <1>2, <1>3, <1>4

\* A step that takes the next id from the counter.
Mints == minted' = minted + 1

\* What a step of t does to the map, the order and the counter.
Shelf(t) ==
    /\ \A s \in DOMAIN store' : s \in DOMAIN store \/ (Mints /\ s = minted + 1)
    /\ \A s \in DOMAIN store : s \in DOMAIN store' \/ s \in Range(order) \/ s = sid[t]
    /\ \A s \in Range(order') : \/ s \in Range(order)
                                \/ pc[t] = "push" /\ s = view[t]
                                \/ pc[t] = "reorder" /\ s = fresh[t]
    /\ OneToOne(order')
    /\ \/ minted' = minted /\ owner' = owner
       \/ /\ Mints /\ minted + 1 \in DOMAIN store'
          /\ owner' = [owner EXCEPT ![minted + 1] = client[t]]

\* Every step does that.
LEMMA ShelfStep ==
    ASSUME IndInv, NEW t \in Thread, Step(t)
    PROVE  Shelf(t)
<1>0. OneToOne(order)  BY DEF IndInv, OrderTracksStore, OneToOne
<1>1. CASE HostStep(t) /\ UNCHANGED <<store, order, moved, fresh>>
  <2>1. minted' = minted /\ owner' = owner
    BY <1>1 DEF HostStep, Arrive, PageReturns, WritesDone, Respond,
       ResponseLost,
                RespondBare, mintVars
  <2> QED  BY <1>0, <1>1, <2>1 DEF Shelf
<1>2. CASE Lookup(t)  BY <1>0, <1>2 DEF Lookup, Shelf, mintVars
<1>3. CASE Insert(t)
  <2> DEFINE row == [root |-> minted + 1, data |-> {}]
  <2>1. /\ store' = Put(store, minted + 1, row) /\ order' = order /\ Mints
        /\ owner' = [owner EXCEPT ![minted + 1] = client[t]]
    BY <1>3 DEF Insert, Mint, Mints
  <2> HIDE DEF row
  <2>2. DOMAIN store' = DOMAIN store \cup {minted + 1}  BY <2>1, PutFacts
  <2> QED  BY <1>0, <2>1, <2>2 DEF Shelf
<1>4. CASE PushOrder(t)
  <2>1. owner' = owner /\ pc[t] = "push"  BY <1>4 DEF PushOrder, mintVars
  <2> QED  BY <1>4, <2>1, OrderFacts DEF Shelf
<1>5. CASE EnforceCap(t)
  <2>1. owner' = owner /\ minted' = minted  BY <1>5 DEF EnforceCap, mintVars
  <2>2. /\ DOMAIN store' = DOMAIN store \ Evicted /\ OneToOne(order')
        /\ Range(order') = Range(order) \ Evicted /\ Evicted \subseteq Range(order)
    BY <1>5, EnforceFacts
  <2> QED  BY <2>1, <2>2 DEF Shelf
<1>6. ASSUME NEW out \in SUBSET Key, NEW in \in SUBSET Key, Change(t, out, in)
      PROVE  Shelf(t)
  <2>1. DOMAIN store' = DOMAIN store  BY <1>6, ChangeFacts DEF IndInv
  <2> QED  BY <1>0, <1>6, <2>1 DEF Change, Shelf, mintVars
<1>7. CASE Regenerate(t)
  <2>1. DOMAIN store' = DOMAIN store \ {sid[t]} \/ store' = store
    BY <1>7, DropFacts DEF Regenerate
  <2> QED  BY <1>0, <1>7, <2>1 DEF Regenerate, Shelf, mintVars
<1>8. CASE Reinsert(t)
  <2>1. /\ store' = Put(store, minted + 1, moved[t]) /\ order' = order /\ Mints
        /\ owner' = [owner EXCEPT ![minted + 1] = client[t]]
    BY <1>8 DEF Reinsert, Mint, Mints
  <2>2. DOMAIN store' = DOMAIN store \cup {minted + 1}  BY <2>1, PutFacts
  <2> QED  BY <1>0, <2>1, <2>2 DEF Shelf
<1>9. CASE Reorder(t)
  <2>1. owner' = owner /\ pc[t] = "reorder"  BY <1>9 DEF Reorder, mintVars
  <2> QED  BY <1>9, <2>1, OrderFacts DEF Shelf
<1>10. CASE Destroy(t)
  <2>1. owner' = owner  BY <1>10 DEF Destroy, mintVars
  <2> QED  BY <1>10, <2>1, OrderFacts DEF Shelf
<1> QED
  BY <1>1, <1>2, <1>3, <1>4, <1>5, <1>6, <1>7, <1>8, <1>9, <1>10 DEF Step

\* Thread t goes from one step to another, with these ids from now on.
Moves(t, from, to, v, s, f) ==
    /\ pc[t] = from /\ pc'[t] = to
    /\ view'[t] = v /\ sid'[t] = s /\ fresh'[t] = f
    /\ client'[t] = client[t] /\ cookie'[t] = cookie[t]
    /\ jar' = jar

\* Where the ids of a step come from: the jar of the client, the request's
\* own ids, or the counter.
Flow(t) ==
    \/ /\ pc[t] = "idle" /\ pc'[t] \in {"lookup", "create"}
       /\ \E c \in Client : client'[t] = c /\ cookie'[t] = jar[c]
       /\ view'[t] = view[t] /\ sid'[t] = sid[t] /\ fresh'[t] = fresh[t]
       /\ jar' = jar /\ minted' = minted
    \/ /\ pc[t] \in {"page", "respond"} /\ pc'[t] = "idle"
       /\ cookie'[t] = NoSid /\ view'[t] = NoSid /\ sid'[t] = NoSid
       /\ fresh'[t] = fresh[t] /\ minted' = minted
       /\ \A c \in Client : \/ jar'[c] = jar[c]
                            \/ pc[t] = "respond" /\ c = client[t] /\ jar'[c] = sid[t]
    \/ Moves(t, "lookup", "page", cookie[t], sid[t], fresh[t]) /\ minted' = minted
    \/ Moves(t, "lookup", "create", view[t], sid[t], fresh[t]) /\ minted' = minted
    \/ Moves(t, "create", "push", minted + 1, sid[t], fresh[t]) /\ Mints
    \/ Moves(t, "push", "enforce", view[t], sid[t], fresh[t]) /\ minted' = minted
    \/ Moves(t, "enforce", "page", view[t], sid[t], fresh[t]) /\ minted' = minted
    \/ Moves(t, "page", "apply", view[t], view[t], fresh[t]) /\ minted' = minted
    \/ Moves(t, "apply", "respond", view[t], sid[t], fresh[t]) /\ minted' = minted
    \/ Moves(t, "apply", "apply", view[t], sid[t], fresh[t]) /\ minted' = minted
    \/ Moves(t, "apply", "apply", view[t], NoSid, fresh[t]) /\ minted' = minted
    \/ /\ Moves(t, "apply", "reinsert", view[t], sid[t], fresh[t]) /\ minted' = minted
       /\ sid[t] \in DOMAIN store /\ sid[t] \notin DOMAIN store'
    \/ Moves(t, "reinsert", "reorder", view[t], sid[t], minted + 1) /\ Mints
    \/ Moves(t, "reorder", "apply", view[t], fresh[t], NoSid) /\ minted' = minted

\* Every step moves ids that way.
LEMMA FlowStep ==
    ASSUME TypeOK, ThreadInv, NEW t \in Thread, Step(t)
    PROVE  Flow(t)
<1>0. /\ pc \in [Thread -> PC] /\ client \in [Thread -> Client \cup {None}]
      /\ cookie \in [Thread -> 0..MaxSid] /\ view \in [Thread -> 0..MaxSid]
      /\ sid \in [Thread -> 0..MaxSid] /\ fresh \in [Thread -> 0..MaxSid]
      /\ jar \in [Client -> 0..MaxSid]
  BY DEF TypeOK, HostTypeOK, PC
<1>1. CASE HostStep(t) /\ UNCHANGED <<store, order, moved, fresh>>
  <2>1. ASSUME NEW c \in Client, Arrive(t, c) PROVE Flow(t)
    BY <1>0, <1>1, <2>1 DEF Arrive, Goto, mintVars, Flow
  <2>2. CASE PageReturns(t)
    BY <1>0, <1>1, <2>2 DEF PageReturns, Goto, mintVars, Flow, Moves
  <2>3. CASE WritesDone(t)
    BY <1>0, <1>1, <2>3 DEF WritesDone, Goto, mintVars, Flow, Moves
  <2>4. CASE Respond(t) \/ ResponseLost(t) \/ RespondBare(t)
    <3>1. /\ pc[t] \in {"page", "respond"} /\ Forget(t) /\ minted' = minted
          /\ \A c \in Client : \/ jar'[c] = jar[c]
                               \/ pc[t] = "respond" /\ c = client[t] /\ jar'[c] = sid[t]
      BY <1>0, <2>4 DEF Respond, ResponseLost, RespondBare, mintVars
    <3> QED  BY <1>0, <1>1, <3>1 DEF Forget, Goto, Flow
  <2> QED  BY <1>1, <2>1, <2>2, <2>3, <2>4 DEF HostStep
<1>2. CASE Lookup(t)
  <2>1. /\ pc[t] = "lookup" /\ minted' = minted
        /\ UNCHANGED <<jar, client, cookie, sid, fresh>>
    BY <1>2 DEF Lookup, mintVars
  <2>2. \/ pc'[t] = "page" /\ view'[t] = cookie[t]
        \/ pc'[t] = "create" /\ view'[t] = view[t]
    BY <1>0, <1>2 DEF Lookup, Goto
  <2> QED  BY <2>1, <2>2 DEF Flow, Moves
<1>3. CASE Insert(t)  BY <1>0, <1>3 DEF Insert, Mint, Goto, Flow, Moves, Mints
<1>4. CASE PushOrder(t)
  BY <1>0, <1>4 DEF PushOrder, Goto, mintVars, Flow, Moves
<1>5. CASE EnforceCap(t)
  BY <1>0, <1>5 DEF EnforceCap, Goto, mintVars, Flow, Moves
<1>6. ASSUME NEW out \in SUBSET Key, NEW in \in SUBSET Key, Change(t, out, in)
      PROVE  Flow(t)
  BY <1>0, <1>6 DEF Change, TakeWrite, mintVars, Flow, Moves
<1>7. CASE Regenerate(t)
  <2>1. /\ pc[t] = "apply" /\ minted' = minted
        /\ UNCHANGED <<jar, client, cookie, view, sid, fresh>>
    BY <1>7 DEF Regenerate, TakeWrite, mintVars
  <2>2. CASE sid[t] \in DOMAIN store /\ store' = Drop(store, {sid[t]}) /\ Goto(t, "reinsert")
    <3>0. DOMAIN store' = DOMAIN store \ {sid[t]}  BY <2>2, DropFacts
    <3>1. sid[t] \notin DOMAIN store'  BY <3>0
    <3>2. pc'[t] = "reinsert"  BY <1>0, <2>2 DEF Goto
    <3> QED  BY <2>1, <2>2, <3>1, <3>2 DEF Flow, Moves
  <2>3. CASE UNCHANGED pc  BY <2>1, <2>3 DEF Flow, Moves
  <2> QED  BY <1>7, <2>2, <2>3 DEF Regenerate
<1>8. CASE Reinsert(t)
  BY <1>0, <1>8 DEF Reinsert, Mint, Goto, Flow, Moves, Mints
<1>9. CASE Reorder(t)  BY <1>0, <1>9 DEF Reorder, Goto, mintVars, Flow, Moves
<1>10. CASE Destroy(t)
  BY <1>0, <1>10 DEF Destroy, TakeWrite, mintVars, Flow, Moves
<1> QED
  BY <1>1, <1>2, <1>3, <1>4, <1>5, <1>6, <1>7, <1>8, <1>9, <1>10 DEF Step

\* Ids in use come from the counter.
LEMMA IdStep ==
    ASSUME IndInv, NEW t \in Thread, Step(t)
    PROVE  IdInv'
<1>0. /\ Flow(t) /\ Shelf(t) /\ Others(t) /\ IdInv /\ minted \in Nat
      /\ \A s \in DOMAIN store : s \in Nat
      /\ \A s \in Range(order) : s \in Nat
      /\ \A c \in Client : jar[c] \in Nat
      /\ \A u \in Thread : cookie[u] \in Nat /\ view[u] \in Nat /\ sid[u] \in Nat
                           /\ fresh[u] \in Nat
  <2>1. \A s \in Range(order) : s \in Sid  BY DEF IndInv, TypeOK, Range
  <2>2. \A s \in DOMAIN store : s \in Sid  BY DEF IndInv, TypeOK
  <2>3. \A s \in Sid : s \in Nat  BY SessionHostAssumption DEF Sid
  <2>4. \A s \in 0..MaxSid : s \in Nat  BY SessionHostAssumption
  <2> QED
    BY <2>1, <2>2, <2>3, <2>4, FlowStep, ShelfStep, Frame DEF IndInv, TypeOK,
       HostTypeOK
<1>1. minted' = minted \/ minted' = minted + 1  BY <1>0 DEF Shelf, Mints
<1>2. \A s \in Nat : s <= minted => s <= minted'  BY <1>0, <1>1
<1>3. Mints => minted + 1 <= minted'  BY <1>0 DEF Mints
<1>4. NoSid <= minted'  BY <1>0, <1>1 DEF NoSid
<1>5. \A s \in DOMAIN store' : s <= minted'
  BY <1>0, <1>2, <1>3 DEF Shelf, IdInv
<1>6. \A s \in Range(order') : s <= minted'
  BY <1>0, <1>2 DEF Shelf, IdInv
<1>7. \A c \in Client : jar'[c] <= minted'
  BY <1>0, <1>2 DEF Flow, Moves, IdInv
<1>8. ASSUME NEW u \in Thread, u # t
      PROVE  /\ cookie'[u] <= minted' /\ view'[u] <= minted'
             /\ sid'[u] <= minted' /\ fresh'[u] <= minted'
  BY <1>0, <1>2, <1>8 DEF Others, IdInv
<1>9. /\ cookie'[t] <= minted' /\ view'[t] <= minted'
      /\ sid'[t] <= minted' /\ fresh'[t] <= minted'
  <2>1. \A x \in Nat : x <= minted => x <= minted'  BY <1>2
  <2> HIDE DEF Mints
  <2> QED  BY <1>0, <2>1, <1>3, <1>4 DEF Flow, Moves, IdInv
<1> QED  BY <1>5, <1>6, <1>7, <1>8, <1>9 DEF IdInv

\* Every id in use was minted for the client that uses it.
LEMMA OwnerStep ==
    ASSUME IndInv, NEW t \in Thread, Step(t)
    PROVE  OwnerInv'
<1>0. /\ Flow(t) /\ Shelf(t) /\ Others(t) /\ IdInv /\ OwnerInv /\ ThreadInv
      /\ minted \in Nat
      /\ \A c \in Client : jar[c] \in 0..MaxSid
      /\ \A u \in Thread : cookie[u] \in 0..MaxSid /\ view[u] \in 0..MaxSid
                           /\ sid[u] \in 0..MaxSid /\ fresh[u] \in 0..MaxSid
  <2>1. Flow(t) /\ Shelf(t) /\ Others(t)
    BY FlowStep, ShelfStep, Frame DEF IndInv
  <2>2. TypeOK /\ IdInv /\ OwnerInv /\ ThreadInv  BY DEF IndInv
  <2>3. minted \in Nat  BY <2>2, SessionHostAssumption DEF TypeOK, HostTypeOK
  <2> QED  BY <2>1, <2>2, <2>3 DEF TypeOK, HostTypeOK
<1>1. ASSUME NEW s \in 0..MaxSid, s <= minted, s # NoSid
      PROVE  owner'[s] = owner[s]
  <2>1. s \in Sid /\ s # minted + 1
    BY <1>0, <1>1, SessionHostAssumption DEF NoSid, Sid
  <2>2. DOMAIN owner = Sid  BY DEF IndInv, TypeOK, HostTypeOK
  <2> QED  BY <1>0, <2>1, <2>2 DEF Shelf
<1>2. Mints => owner'[minted + 1] = client[t]
  <2>1. Mints => minted + 1 \in Sid
    <3>1. minted' \in 0..MaxSid /\ minted \in Nat  BY <1>0, MintStep
    <3> QED  BY <3>1, SessionHostAssumption DEF Mints, Sid
  <2>2. DOMAIN owner = Sid  BY DEF IndInv, TypeOK, HostTypeOK
  <2>3. Mints => minted' # minted  BY <1>0 DEF Mints
  <2> QED  BY <1>0, <2>1, <2>2, <2>3 DEF Shelf, Mints
<1>3. \A c \in Client : jar'[c] = NoSid \/ owner'[jar'[c]] = c
  <2>1. \A c \in Client : jar[c] = NoSid \/ owner'[jar[c]] = c
    BY <1>0, <1>1 DEF IdInv, OwnerInv
  <2>2. sid[t] = NoSid \/ owner'[sid[t]] = client[t]
    BY <1>0, <1>1 DEF IdInv, OwnerInv, OwnerOK
  <2> QED  BY <1>0, <2>1, <2>2 DEF Flow, Moves
<1>4. ASSUME NEW u \in Thread
      PROVE  \A s \in {cookie[u], view[u], sid[u], fresh[u]} :
                s = NoSid \/ owner'[s] = client[u]
  BY <1>0, <1>1 DEF IdInv, OwnerInv, OwnerOK
<1>5. ASSUME NEW u \in Thread, u # t
      PROVE  \A s \in {cookie'[u], view'[u], sid'[u], fresh'[u]} :
                s = NoSid \/ owner'[s] = client'[u]
  BY <1>0, <1>4, <1>5 DEF Others
<1>6. \A s \in {cookie'[t], view'[t], sid'[t], fresh'[t]} :
         s = NoSid \/ owner'[s] = client'[t]
  <2>1. CASE pc[t] = "idle"
    <3>1. view[t] = NoSid /\ sid[t] = NoSid /\ fresh[t] = NoSid
      BY <1>0, <2>1 DEF ThreadInv, ThreadOK
    <3>2. \A c \in Client : jar[c] = NoSid \/ owner'[jar[c]] = c
      BY <1>0, <1>1 DEF IdInv, OwnerInv
    <3> QED  BY <1>0, <2>1, <3>1, <3>2 DEF Flow, Moves
  <2>2. CASE pc'[t] = "idle"
    <3>1. fresh[t] = NoSid  BY <1>0, <2>2 DEF Flow, Moves, ThreadInv, ThreadOK
    <3> QED  BY <1>0, <2>2, <3>1 DEF Flow, Moves
  <2>3. CASE pc[t] # "idle" /\ pc'[t] # "idle"
    <3>1. /\ client'[t] = client[t] /\ cookie'[t] = cookie[t]
          /\ view'[t] \in {view[t], cookie[t]} \/ (Mints /\ view'[t] = minted + 1)
          /\ sid'[t] \in {sid[t], view[t], fresh[t], NoSid}
          /\ fresh'[t] \in {fresh[t], NoSid} \/ (Mints /\ fresh'[t] = minted + 1)
      BY <1>0, <2>3 DEF Flow, Moves
    <3> QED  BY <1>2, <1>4, <3>1
  <2> QED  BY <2>1, <2>2, <2>3
<1> QED  BY <1>3, <1>5, <1>6 DEF OwnerInv, OwnerOK

\* An id that a thread has put into the map and not yet into the order is
\* known to nobody else, so nothing removes it in between.
LEMMA SecretStep ==
    ASSUME IndInv, NEW t \in Thread, Step(t)
    PROVE  SecretInv'
<1>0. /\ Flow(t) /\ Shelf(t) /\ Others(t) /\ TypeOK /\ IdInv /\ SecretInv /\ ThreadInv
      /\ minted \in Nat
  <2>1. Flow(t) /\ Shelf(t) /\ Others(t)
    BY FlowStep, ShelfStep, Frame DEF IndInv
  <2>2. TypeOK /\ IdInv /\ SecretInv /\ ThreadInv  BY DEF IndInv
  <2>3. minted \in Nat  BY <2>2, SessionHostAssumption DEF TypeOK, HostTypeOK
  <2> QED  BY <2>1, <2>2, <2>3
<1>n. ASSUME NEW s, s <= minted PROVE s # minted + 1
  BY <1>0, <1>n
<1>1. ASSUME NEW u \in Thread, NEW s \in Sid, u # t, Secret(u, s)'
      PROVE  SecretOK(u, s)'
  <2>1. Secret(u, s) /\ pc'[u] = pc[u]  BY <1>0, <1>1 DEF Secret, Others
  <2>2. SecretOK(u, s)  BY <1>0, <2>1 DEF SecretInv
  <2>3. s # NoSid /\ s # minted + 1
    <3>1. s <= minted  BY <1>0, <2>2 DEF SecretOK, IdInv
    <3> QED  BY <1>0, <3>1, SessionHostAssumption DEF NoSid, Sid
  <2>4. s \in DOMAIN store'  BY <1>0, <2>2 DEF SecretOK, Shelf
  <2>5. s \notin Range(order')  BY <1>0, <1>1, <2>2 DEF SecretOK, Shelf
  <2>6. \A c \in Client : jar'[c] # s  BY <1>0, <2>2 DEF SecretOK, Flow, Moves
  <2>7. ASSUME NEW w \in Thread, w # t
        PROVE  /\ cookie'[w] # s /\ sid'[w] # s
               /\ view'[w] = s => w = u /\ pc'[u] = "push"
               /\ fresh'[w] = s => w = u
    BY <1>0, <2>1, <2>2, <2>7 DEF SecretOK, Others
  <2>8. cookie'[t] # s /\ sid'[t] # s /\ view'[t] # s /\ fresh'[t] # s
    <3>1. /\ cookie[t] # s /\ sid[t] # s /\ view[t] # s /\ fresh[t] # s
          /\ \A c \in Client : jar[c] # s
      BY <1>1, <2>2 DEF SecretOK
    <3> QED  BY <1>0, <2>3, <3>1 DEF Flow, Moves
  <2> QED  BY <2>4, <2>5, <2>6, <2>7, <2>8 DEF SecretOK
<1>2. ASSUME NEW s \in Sid, Secret(t, s)'
      PROVE  SecretOK(t, s)'
  <2>1. /\ s = minted + 1 /\ Mints /\ jar' = jar
        /\ pc[t] # "push" /\ pc[t] # "reorder"
        /\ cookie'[t] = cookie[t] /\ sid'[t] = sid[t]
        /\ \/ pc'[t] = "push" /\ fresh'[t] = fresh[t]
           \/ pc'[t] = "reorder" /\ view'[t] = view[t]
    BY <1>0, <1>2 DEF Flow, Moves, Secret
  <2>2. minted' # minted  BY <1>0, <2>1 DEF Mints
  <2>3. s \in DOMAIN store'  BY <1>0, <2>1, <2>2 DEF Shelf
  <2>4. s \notin Range(order')  BY <1>0, <1>n, <2>1 DEF Shelf, IdInv
  <2>5. \A c \in Client : jar'[c] # s  BY <1>0, <1>n, <2>1 DEF IdInv
  <2>6. \A u \in Thread : cookie[u] # s /\ sid[u] # s /\ view[u] # s /\ fresh[u] # s
    BY <1>0, <1>n, <2>1 DEF IdInv
  <2>7. ASSUME NEW w \in Thread
        PROVE  /\ cookie'[w] # s /\ sid'[w] # s
               /\ view'[w] = s => w = t /\ pc'[t] = "push"
               /\ fresh'[w] = s => w = t
    BY <1>0, <2>1, <2>6 DEF Others
  <2> QED  BY <2>3, <2>4, <2>5, <2>7 DEF SecretOK
<1> QED  BY <1>1, <1>2 DEF SecretInv

\* A thread holds a row exactly between the two halves of regenerate.
LEMMA MovedStep ==
    ASSUME IndInv, NEW t \in Thread, Step(t)
    PROVE  moved'[t] \in Row <=> pc'[t] = "reinsert"
<1>0. /\ pc \in [Thread -> PC] /\ moved \in [Thread -> Row \cup {NoRow}]
      /\ moved[t] \in Row <=> pc[t] = "reinsert"
      /\ \A s \in DOMAIN store : store[s] \in Row
  BY DEF IndInv, TypeOK, PC, ThreadInv, ThreadOK
<1>1. NoRow \notin Row
  BY SessionHostAssumption DEF NoRow, Row, NoSid, Sid
<1>2. ASSUME moved' = moved, pc[t] # "reinsert", NEW x, x # "reinsert",
             pc' = [pc EXCEPT ![t] = x] \/ pc' = pc
      PROVE  moved'[t] \in Row <=> pc'[t] = "reinsert"
  BY <1>0, <1>2
<1>3. CASE HostStep(t) /\ UNCHANGED <<store, order, moved, fresh>>
  <2>1. /\ moved' = moved /\ pc[t] # "reinsert"
        /\ \E x : x # "reinsert" /\ pc' = [pc EXCEPT ![t] = x]
    BY <1>3 DEF HostStep, Arrive, PageReturns, WritesDone, Respond,
       ResponseLost,
                RespondBare, Forget, Goto
  <2> QED  BY <1>2, <2>1
<1>4. CASE Lookup(t) \/ Insert(t) \/ PushOrder(t) \/ EnforceCap(t) \/ Reorder(t)
  <2>1. /\ moved' = moved /\ pc[t] # "reinsert"
        /\ \E x : x # "reinsert" /\ pc' = [pc EXCEPT ![t] = x]
    BY <1>4 DEF Lookup, Insert, PushOrder, EnforceCap, Reorder, Goto
  <2> QED  BY <1>2, <2>1
<1>5. CASE Destroy(t) \/ \E out, in \in SUBSET Key : Change(t, out, in)
  <2>1. moved' = moved /\ pc[t] # "reinsert" /\ pc' = pc
    BY <1>5 DEF Destroy, Change, TakeWrite
  <2> QED  BY <1>0, <2>1
<1>6. CASE Regenerate(t)
  BY <1>0, <1>6 DEF Regenerate, TakeWrite, Goto
<1>7. CASE Reinsert(t)
  BY <1>0, <1>1, <1>7 DEF Reinsert, Goto
<1> QED  BY <1>3, <1>4, <1>5, <1>6, <1>7 DEF Step

\* Which ids and rows a thread holds follows from the step it is at.
LEMMA ThreadStep ==
    ASSUME IndInv, NEW t \in Thread, Step(t)
    PROVE  ThreadInv'
<1>0. /\ Flow(t) /\ Shelf(t) /\ Others(t) /\ TypeOK /\ IdInv /\ ThreadInv
      /\ minted \in Nat /\ NoSid \notin DOMAIN store /\ minted + 1 # NoSid
  <2>1. Flow(t) /\ Shelf(t) /\ Others(t)
    BY FlowStep, ShelfStep, Frame DEF IndInv
  <2>2. TypeOK /\ IdInv /\ ThreadInv  BY DEF IndInv
  <2>3. minted \in Nat  BY <2>2, SessionHostAssumption DEF TypeOK, HostTypeOK
  <2>4. NoSid \notin Sid  BY SessionHostAssumption DEF Sid, NoSid
  <2> QED  BY <2>1, <2>2, <2>3, <2>4 DEF TypeOK, NoSid
<1>1. ASSUME NEW u \in Thread, sid[u] \notin DOMAIN store
      PROVE  sid[u] \notin DOMAIN store'
  <2>1. sid[u] # minted + 1  BY <1>0 DEF IdInv
  <2> QED  BY <1>0, <1>1, <2>1 DEF Shelf
<1>2. ASSUME NEW u \in Thread, u # t PROVE ThreadOK(u)'
  BY <1>0, <1>1, <1>2 DEF ThreadInv, ThreadOK, Others
<1>3. ThreadOK(t)'
  <2>1. ThreadOK(t)  BY <1>0 DEF ThreadInv
  <2>2. moved'[t] \in Row <=> pc'[t] = "reinsert"  BY MovedStep
  <2>3. /\ pc'[t] # "idle" => client'[t] \in Client
        /\ pc'[t] = "idle" => cookie'[t] = NoSid
    BY <1>0, <2>1 DEF Flow, Moves, ThreadOK
  <2>4. /\ pc'[t] \in {"idle", "lookup", "create"} => view'[t] = NoSid
        /\ pc'[t] = "push" => view'[t] # NoSid
    BY <1>0, <2>1 DEF Flow, Moves, ThreadOK
  <2>5. pc'[t] \notin {"apply", "reinsert", "reorder", "respond"} => sid'[t] = NoSid
    BY <1>0, <2>1 DEF Flow, Moves, ThreadOK
  <2>6. fresh'[t] # NoSid <=> pc'[t] = "reorder"
    BY <1>0, <2>1 DEF Flow, Moves, ThreadOK
  <2>7. pc'[t] \in {"reinsert", "reorder"} => sid'[t] # NoSid /\ sid'[t] \notin DOMAIN store'
    BY <1>0, <1>1, <2>1 DEF Flow, Moves, ThreadOK
  <2> QED  BY <2>2, <2>3, <2>4, <2>5, <2>6, <2>7 DEF ThreadOK
<1> QED  BY <1>2, <1>3 DEF ThreadInv

\* How far a step of t keeps map and order in line.
Sync(t) ==
    /\ \A s \in Range(order) : s \in Range(order') \/ s \notin DOMAIN store'
    /\ \A s \in DOMAIN store : \/ s \in DOMAIN store' \/ s \notin Range(order')
                               \/ s = sid[t] /\ sid'[t] = s /\ pc'[t] = "reinsert"
    /\ pc[t] = "push" => view[t] \in Range(order')
    /\ pc[t] = "reorder" => fresh[t] \in Range(order') /\ sid[t] \notin Range(order')

\* Every step does.
LEMMA SyncStep ==
    ASSUME IndInv, NEW t \in Thread, Step(t)
    PROVE  Sync(t)
<1>1. CASE HostStep(t) /\ UNCHANGED <<store, order, moved, fresh>>
  <2>1. pc[t] # "push" /\ pc[t] # "reorder"
    BY <1>1 DEF HostStep, Arrive, PageReturns, WritesDone, Respond,
       ResponseLost, RespondBare
  <2> QED  BY <1>1, <2>1 DEF Sync
<1>2. CASE Lookup(t)  BY <1>2 DEF Lookup, Sync
<1>3. CASE Insert(t)
  <2> DEFINE row == [root |-> minted + 1, data |-> {}]
  <2>1. store' = Put(store, minted + 1, row) /\ order' = order /\ pc[t] = "create"
    BY <1>3 DEF Insert
  <2> HIDE DEF row
  <2>2. DOMAIN store' = DOMAIN store \cup {minted + 1}  BY <2>1, PutFacts
  <2> QED  BY <2>1, <2>2 DEF Sync
<1>4. CASE PushOrder(t)
  <2>1. pc[t] = "push"  BY <1>4 DEF PushOrder
  <2> QED  BY <1>4, <2>1, OrderFacts DEF Sync
<1>5. CASE EnforceCap(t)
  <2>1. /\ DOMAIN store' = DOMAIN store \ Evicted
        /\ Range(order') = Range(order) \ Evicted
    BY <1>5, EnforceFacts
  <2>2. pc[t] = "enforce"  BY <1>5 DEF EnforceCap
  <2> QED  BY <2>1, <2>2 DEF Sync
<1>6. ASSUME NEW out \in SUBSET Key, NEW in \in SUBSET Key, Change(t, out, in)
      PROVE  Sync(t)
  <2>1. DOMAIN store' = DOMAIN store  BY <1>6, ChangeFacts DEF IndInv
  <2> QED  BY <1>6, <2>1 DEF Change, TakeWrite, Sync
<1>7. CASE Regenerate(t)
  <2>1. pc[t] = "apply" /\ order' = order /\ sid' = sid
    BY <1>7 DEF Regenerate, TakeWrite
  <2>2. CASE store' = Drop(store, {sid[t]}) /\ Goto(t, "reinsert")
    <3>1. DOMAIN store' = DOMAIN store \ {sid[t]}  BY <2>2, DropFacts
    <3>2. pc'[t] = "reinsert"  BY <2>2 DEF Goto, IndInv, TypeOK
    <3> QED  BY <2>1, <3>1, <3>2 DEF Sync
  <2>3. CASE store' = store  BY <2>1, <2>3 DEF Sync
  <2> QED  BY <1>7, <2>2, <2>3 DEF Regenerate
<1>8. CASE Reinsert(t)
  <2>1. store' = Put(store, minted + 1, moved[t]) /\ order' = order /\ pc[t] = "reinsert"
    BY <1>8 DEF Reinsert
  <2>2. DOMAIN store' = DOMAIN store \cup {minted + 1}  BY <2>1, PutFacts
  <2> QED  BY <2>1, <2>2 DEF Sync
<1>9. CASE Reorder(t)
  <2>1. pc[t] = "reorder"  BY <1>9 DEF Reorder
  <2>2. sid[t] \notin DOMAIN store /\ fresh[t] # NoSid /\ fresh[t] \in 0..MaxSid
    BY <2>1 DEF IndInv, ThreadInv, ThreadOK, TypeOK
  <2>3. fresh[t] \in Sid  BY <2>2, SessionHostAssumption DEF Sid, NoSid
  <2>4. sid[t] # fresh[t]
    BY <2>1, <2>3 DEF IndInv, SecretInv, Secret, SecretOK
  <2> QED  BY <1>9, <2>1, <2>2, <2>4, OrderFacts DEF Sync
<1>10. CASE Destroy(t)
  <2>1. pc[t] = "apply"  BY <1>10 DEF Destroy, TakeWrite
  <2> QED  BY <1>10, <2>1, OrderFacts DEF Sync
<1> QED
  BY <1>1, <1>2, <1>3, <1>4, <1>5, <1>6, <1>7, <1>8, <1>9, <1>10 DEF Step

\* The map and the order name the same sessions, up to the threads that are
\* between two sections.
LEMMA OrderStep ==
    ASSUME IndInv, NEW t \in Thread, Step(t)
    PROVE  OrderTracksStore'
<1>0. /\ Flow(t) /\ Shelf(t) /\ Others(t) /\ Sync(t)
      /\ TypeOK /\ SecretInv /\ ThreadInv /\ OrderTracksStore
  BY FlowStep, ShelfStep, Frame, SyncStep DEF IndInv
<1>1. \A s : s \in Unordered <=> \E u \in Thread : Secret(u, s)
  BY DEF Unordered, Secret
<1>2. \A s : s \in Unordered' <=> \E u \in Thread : Secret(u, s)'
  BY DEF Unordered, Secret
<1>3. ASSUME NEW u \in Thread, NEW s, u # t, Secret(u, s) PROVE Secret(u, s)'
  BY <1>0, <1>3 DEF Others, Secret
<1>4. ASSUME NEW s \in DOMAIN store', s \notin Range(order') PROVE s \in Unordered'
  <2>1. CASE s \in DOMAIN store
    <3>1. s \notin Range(order)  BY <1>0, <1>4 DEF Sync
    <3>2. PICK u \in Thread : Secret(u, s)
      BY <1>0, <1>1, <2>1, <3>1 DEF OrderTracksStore
    <3>3. u # t  BY <1>0, <1>4, <3>2 DEF Secret, Sync
    <3> QED  BY <1>2, <1>3, <3>2, <3>3
  <2>2. CASE Mints /\ s = minted + 1
    <3>0. minted' # minted
      BY <1>0, <2>2, SessionHostAssumption DEF Mints, TypeOK, HostTypeOK
    <3>1. Secret(t, s)'  BY <1>0, <2>2, <3>0 DEF Flow, Moves, Secret
    <3> QED  BY <1>2, <3>1
  <2> QED  BY <1>0, <2>1, <2>2 DEF Shelf
<1>5. ASSUME NEW s \in Range(order'), s \notin DOMAIN store' PROVE s \in Departing'
  <2>1. \A u \in Thread : pc'[u] \in {"reinsert", "reorder"} => sid'[u] \in Departing'
    BY DEF Departing
  <2>2. CASE s \in Range(order) /\ s \notin DOMAIN store
    <3>1. PICK u \in Thread : pc[u] \in {"reinsert", "reorder"} /\ sid[u] = s
      BY <1>0, <2>2 DEF OrderTracksStore, Departing
    <3>2. CASE u = t
      <4>1. pc[t] # "reorder"  BY <1>0, <1>5, <3>1, <3>2 DEF Sync
      <4>2. pc'[t] = "reorder" /\ sid'[t] = s
        BY <1>0, <3>1, <3>2, <4>1 DEF Flow, Moves
      <4> QED  BY <2>1, <4>2
    <3>3. CASE u # t  BY <1>0, <2>1, <3>1, <3>3 DEF Others
    <3> QED  BY <3>2, <3>3
  <2>3. CASE s \in DOMAIN store  BY <1>0, <1>5, <2>1, <2>3 DEF Sync
  <2>4. CASE s \notin Range(order)
    <3>1. Secret(t, s)  BY <1>0, <1>5, <2>4 DEF Shelf, Secret
    <3>2. s \in Sid
      <4>1. s \in 0..MaxSid /\ s # NoSid
        BY <1>0, <3>1 DEF Secret, ThreadInv, ThreadOK, TypeOK, HostTypeOK
      <4> QED  BY <4>1, SessionHostAssumption DEF Sid, NoSid
    <3>3. SecretOK(t, s)  BY <1>0, <3>1, <3>2 DEF SecretInv
    <3> QED  BY <1>0, <1>5, <3>3 DEF SecretOK, Shelf
  <2> QED  BY <2>2, <2>3, <2>4
<1>6. OneToOne(order')  BY <1>0 DEF Shelf
<1> QED  BY <1>4, <1>5, <1>6 DEF OrderTracksStore, OneToOne

-----------------------------------------------------------------------------
(* Sessions and capacity.                                                  *)

\* No two rows, in the map or in a thread's hands, are the same session.
LEMMA RootStep ==
    ASSUME IndInv, NEW t \in Thread, Step(t)
    PROVE  RootInv'
<1>0. /\ TypeOK /\ RootInv /\ Others(t) /\ pc \in [Thread -> PC]
      /\ moved \in [Thread -> Row \cup {NoRow}]
      /\ \A s \in DOMAIN store : store[s] \in Row /\ store[s].root \in Nat /\ s <= minted
      /\ \A u \in Thread : pc[u] = "reinsert" => moved[u].root \in Nat
      /\ minted \in Nat
  <2>1. TypeOK /\ RootInv /\ ThreadInv /\ IdInv  BY DEF IndInv
  <2>2. Others(t)  BY <2>1, Frame
  <2>3. \A row \in Row : row.root \in Nat
    BY SessionHostAssumption DEF Row, Sid
  <2>4. minted \in Nat  BY <2>1, SessionHostAssumption DEF TypeOK, HostTypeOK
  <2> QED  BY <2>1, <2>2, <2>3, <2>4 DEF TypeOK, PC, ThreadInv, ThreadOK, IdInv
<1>a. ASSUME \A s \in DOMAIN store' : s \in DOMAIN store /\ store'[s].root = store[s].root,
             \A u \in Thread : pc'[u] = "reinsert" =>
                  pc[u] = "reinsert" /\ moved'[u] = moved[u],
             minted' = minted
      PROVE  RootInv'
  BY <1>0, <1>a DEF RootInv
<1>b. ASSUME \A s \in DOMAIN store' : s \in DOMAIN store /\ store'[s].root = store[s].root,
             moved' = moved, pc'[t] # "reinsert", minted' = minted
      PROVE  RootInv'
  BY <1>0, <1>a, <1>b DEF Others
<1>1. CASE HostStep(t) /\ UNCHANGED <<store, order, moved, fresh>>
  <2>1. pc'[t] # "reinsert" /\ minted' = minted
    BY <1>0, <1>1 DEF HostStep, Arrive, PageReturns, WritesDone, Respond,
       ResponseLost,
       RespondBare, Forget, Goto, mintVars
  <2> QED  BY <1>1, <1>b, <2>1
<1>2. CASE Lookup(t)
  <2>1. pc'[t] # "reinsert" /\ minted' = minted
    BY <1>0, <1>2 DEF Lookup, Goto, mintVars
  <2> QED  BY <1>2, <1>b, <2>1 DEF Lookup
<1>c. ASSUME NEW row, store' = Put(store, minted + 1, row), Mints
      PROVE  /\ DOMAIN store' = DOMAIN store \cup {minted + 1}
             /\ store'[minted + 1] = row
             /\ \A s \in DOMAIN store : s # minted + 1 /\ store'[s] = store[s]
             /\ \A n \in Nat : n <= minted => n <= minted' /\ n # minted + 1
             /\ minted + 1 <= minted'
  <2>1. DOMAIN store' = DOMAIN store \cup {minted + 1}  BY <1>c, PutFacts
  <2>2. store'[minted + 1] = row  BY <1>c DEF Put
  <2>3. \A s \in DOMAIN store : s # minted + 1  BY <1>0
  <2>4. \A s \in DOMAIN store : store'[s] = store[s]  BY <1>c, <2>3 DEF Put
  <2>5. \A n \in Nat : n <= minted => n <= minted' /\ n # minted + 1
    BY <1>0, <1>c DEF Mints
  <2>6. minted + 1 <= minted'  BY <1>0, <1>c DEF Mints
  <2> QED  BY <2>1, <2>2, <2>3, <2>4, <2>5, <2>6
<1>3. CASE Insert(t)
  <2> DEFINE n == minted + 1
             row == [root |-> n, data |-> {}]
  <2>1. /\ store' = Put(store, minted + 1, row) /\ moved' = moved /\ Mints
        /\ pc'[t] # "reinsert"
    BY <1>0, <1>3 DEF Insert, Mint, Mints, Goto
  <2>2. row.root = n  OBVIOUS
  <2> HIDE DEF row
  <2>3. /\ DOMAIN store' = DOMAIN store \cup {n} /\ store'[n].root = n
        /\ \A s \in DOMAIN store : s # n /\ store'[s] = store[s]
        /\ \A m \in Nat : m <= minted => m <= minted' /\ m # n
        /\ n <= minted'
    BY <1>c, <2>1, <2>2
  <2>4. \A u \in Thread : pc'[u] = "reinsert" => pc[u] = "reinsert" /\ moved'[u] = moved[u]
    BY <1>0, <2>1 DEF Others
  <2> HIDE DEF n
  <2>5. \A s \in DOMAIN store' : store'[s].root <= minted'
    BY <1>0, <2>3 DEF RootInv
  <2>6. \A s, r \in DOMAIN store' : store'[s].root = store'[r].root => s = r
    BY <1>0, <2>3 DEF RootInv
  <2>7. ASSUME NEW u \in Thread, pc'[u] = "reinsert"
        PROVE  /\ moved'[u].root <= minted'
               /\ \A s \in DOMAIN store' : store'[s].root # moved'[u].root
               /\ \A w \in Thread :
                     pc'[w] = "reinsert" /\ moved'[w].root = moved'[u].root => w = u
    BY <1>0, <2>3, <2>4, <2>7 DEF RootInv
  <2> QED  BY <2>5, <2>6, <2>7 DEF RootInv
<1>4. CASE PushOrder(t) \/ Reorder(t)
  <2>1. pc'[t] # "reinsert" /\ minted' = minted /\ store' = store /\ moved' = moved
    BY <1>0, <1>4 DEF PushOrder, Reorder, Goto, mintVars
  <2> QED  BY <1>b, <2>1
<1>5. CASE EnforceCap(t)
  <2>1. pc'[t] # "reinsert" /\ minted' = minted /\ moved' = moved
    BY <1>0, <1>5 DEF EnforceCap, Goto, mintVars
  <2>2. store' = Drop(store, Evicted)  BY <1>5, EnforceFacts
  <2>3. \A s \in DOMAIN store' : s \in DOMAIN store /\ store'[s] = store[s]
    BY <2>2 DEF Drop
  <2> QED  BY <1>b, <2>1, <2>3
<1>6. ASSUME NEW out \in SUBSET Key, NEW in \in SUBSET Key, Change(t, out, in)
      PROVE  RootInv'
  <2>1. pc'[t] # "reinsert" /\ minted' = minted /\ moved' = moved
    BY <1>6 DEF Change, TakeWrite, mintVars
  <2>2. \A s \in DOMAIN store' : s \in DOMAIN store /\ store'[s].root = store[s].root
    BY <1>0, <1>6, ChangeFacts
  <2> QED  BY <1>b, <2>1, <2>2
<1>7. CASE Regenerate(t)
  <2>1. pc[t] = "apply" /\ minted' = minted
    BY <1>7 DEF Regenerate, TakeWrite, mintVars
  <2>2. CASE /\ sid[t] \in DOMAIN store /\ moved' = [moved EXCEPT ![t] = store[sid[t]]]
             /\ store' = Drop(store, {sid[t]})
    <3>1. /\ \A s \in DOMAIN store' : s \in DOMAIN store /\ s # sid[t] /\ store'[s] = store[s]
          /\ moved'[t] = store[sid[t]]
      BY <1>0, <2>2 DEF Drop
    <3>2. \A u \in Thread : u # t => pc'[u] = pc[u] /\ moved'[u] = moved[u]
      BY <1>0 DEF Others
    <3>3. \A s \in DOMAIN store' : store'[s].root <= minted'
      BY <1>0, <2>1, <3>1 DEF RootInv
    <3>4. \A s, r \in DOMAIN store' : store'[s].root = store'[r].root => s = r
      BY <1>0, <3>1 DEF RootInv
    <3>5. ASSUME NEW u \in Thread, pc'[u] = "reinsert"
          PROVE  /\ moved'[u].root <= minted'
                 /\ \A s \in DOMAIN store' : store'[s].root # moved'[u].root
                 /\ \A w \in Thread :
                       pc'[w] = "reinsert" /\ moved'[w].root = moved'[u].root => w = u
      <4> DEFINE root == store[sid[t]].root
      <4>0. /\ moved'[t].root = root /\ root <= minted
            /\ \A s \in DOMAIN store' : store'[s].root # root
            /\ \A w \in Thread : pc[w] = "reinsert" => moved[w].root # root
        <5>1. moved'[t].root = root /\ root <= minted
          BY <1>0, <2>2, <3>1 DEF RootInv
        <5>2. ASSUME NEW s \in DOMAIN store' PROVE store'[s].root # root
          <6>1. s \in DOMAIN store /\ s # sid[t] /\ store'[s] = store[s]
            BY <3>1
          <6>2. store[s].root # store[sid[t]].root
            BY <1>0, <2>2, <6>1, Zenon DEF RootInv
          <6> QED  BY <6>1, <6>2
        <5>3. \A w \in Thread : pc[w] = "reinsert" => moved[w].root # root
          BY <1>0, <2>2 DEF RootInv
        <5> QED  BY <5>1, <5>2, <5>3
      <4> HIDE DEF root
      <4>1. CASE u = t  BY <2>1, <3>2, <4>0, <4>1
      <4>2. CASE u # t
        <5>1. /\ pc[u] = "reinsert" /\ moved'[u] = moved[u]
              /\ moved[u].root <= minted /\ moved[u].root # root
              /\ \A s \in DOMAIN store : store[s].root # moved[u].root
              /\ \A w \in Thread :
                    pc[w] = "reinsert" /\ moved[w].root = moved[u].root => w = u
          BY <1>0, <3>2, <3>5, <4>0, <4>2 DEF RootInv
        <5> QED  BY <2>1, <3>1, <3>2, <4>0, <4>2, <5>1
      <4> QED  BY <4>1, <4>2
    <3> QED  BY <3>3, <3>4, <3>5 DEF RootInv
  <2>3. CASE UNCHANGED <<moved, store, pc>>  BY <1>b, <2>1, <2>3
  <2> QED  BY <1>7, <2>2, <2>3 DEF Regenerate
<1>8. CASE Reinsert(t)
  <2> DEFINE n == minted + 1
  <2>1. /\ store' = Put(store, minted + 1, moved[t]) /\ Mints
        /\ pc[t] = "reinsert" /\ pc'[t] # "reinsert"
    BY <1>0, <1>8 DEF Reinsert, Mint, Mints, Goto
  <2>2. /\ DOMAIN store' = DOMAIN store \cup {n} /\ store'[n] = moved[t]
        /\ \A s \in DOMAIN store : s # n /\ store'[s] = store[s]
        /\ \A m \in Nat : m <= minted => m <= minted' /\ m # n
    BY <1>c, <2>1
  <2>3. \A u \in Thread : pc'[u] = "reinsert" =>
                             u # t /\ pc[u] = "reinsert" /\ moved'[u] = moved[u]
    BY <1>0, <2>1 DEF Others
  <2> HIDE DEF n
  <2>5. \A s \in DOMAIN store' : store'[s].root <= minted'
    BY <1>0, <2>1, <2>2 DEF RootInv
  <2>6. \A s, r \in DOMAIN store' : store'[s].root = store'[r].root => s = r
    BY <1>0, <2>1, <2>2 DEF RootInv
  <2>7. ASSUME NEW u \in Thread, pc'[u] = "reinsert"
        PROVE  /\ moved'[u].root <= minted'
               /\ \A s \in DOMAIN store' : store'[s].root # moved'[u].root
               /\ \A w \in Thread :
                     pc'[w] = "reinsert" /\ moved'[w].root = moved'[u].root => w = u
    BY <1>0, <2>1, <2>2, <2>3, <2>7 DEF RootInv
  <2> QED  BY <2>5, <2>6, <2>7 DEF RootInv
<1>9. CASE Destroy(t)
  <2>1. pc'[t] # "reinsert" /\ minted' = minted /\ moved' = moved
    BY <1>0, <1>9 DEF Destroy, TakeWrite, mintVars
  <2>2. \A s \in DOMAIN store' : s \in DOMAIN store /\ store'[s] = store[s]
    BY <1>9 DEF Destroy, Drop
  <2> QED  BY <1>b, <2>1, <2>2
<1> QED  BY <1>1, <1>2, <1>3, <1>4, <1>5, <1>6, <1>7, <1>8, <1>9 DEF Step

\* When enforce_cap has emptied the order, what is left in the map belongs
\* to threads that have yet to add their row to it, one row each.
LEMMA LeftoversAreFew ==
    ASSUME IndInv, NEW R \in SUBSET DOMAIN store, R \cap Range(order) = {}
    PROVE  IsFiniteSet(R) /\ Cardinality(R) <= In({"push", "reorder"})
<1> DEFINE B == {u \in Thread : pc[u] \in {"push", "reorder"}}
           g == [s \in R |-> CHOOSE u \in B : Secret(u, s)]
<1>1. IsFiniteSet(B)  BY ThreadsFinite, FS_Subset
<1>2. ASSUME NEW s \in R PROVE \E u \in B : Secret(u, s)
  BY DEF IndInv, OrderTracksStore, Unordered, Secret
<1>3. ASSUME NEW s \in R PROVE g[s] \in B /\ Secret(g[s], s)
  BY <1>2
<1> HIDE DEF g
<1>4. \A u \in B : \A s, r : Secret(u, s) /\ Secret(u, r) => s = r
  BY DEF Secret
<1> HIDE DEF B
<1>5. \A s, r \in R : g[s] = g[r] => s = r  BY <1>3, <1>4
<1>6. g \in [R -> B]
  <2>1. g = [s \in R |-> g[s]]  BY DEF g
  <2> QED  BY <1>3, <2>1
<1>7. g \in Injection(R, B)
  BY <1>5, <1>6 DEF Injection, IsInjective
<1>8. IsFiniteSet(R) /\ Cardinality(R) <= Cardinality(B)
  BY <1>1, <1>7, FS_Injection
<1> QED  BY <1>8 DEF In, B

\* Threads at the steps of S and of T, and thread t elsewhere.
LEMMA CountApart ==
    ASSUME NEW t \in Thread, NEW S, NEW T, S \cap T = {}, pc[t] \notin S, pc[t] \notin T
    PROVE  In(S) \in Nat /\ In(T) \in Nat /\ In(S) + In(T) <= Cardinality(Thread) - 1
<1> DEFINE A == {u \in Thread : pc[u] \in S}
           B == {u \in Thread : pc[u] \in T}
<1>1. /\ IsFiniteSet(A) /\ IsFiniteSet(B) /\ IsFiniteSet(Thread \ {t})
      /\ Cardinality(Thread \ {t}) = Cardinality(Thread) - 1
  BY ThreadsFinite, FS_Subset, FS_RemoveElement
<1>2. A \cap B = {} /\ A \cup B \in SUBSET (Thread \ {t})  OBVIOUS
<1>3. In(S) = Cardinality(A) /\ In(T) = Cardinality(B)  BY DEF In
<1> HIDE DEF A, B
<1>4. Cardinality(A \cup B) <= Cardinality(Thread \ {t})
  BY <1>1, <1>2, FS_Subset
<1>5. Cardinality(A \cup B) = Cardinality(A) + Cardinality(B) - Cardinality(A \cap B)
  BY <1>1, FS_Union
<1>6. Cardinality(A \cap B) = 0  BY <1>2, FS_EmptySet
<1>7. Cardinality(A) \in Nat /\ Cardinality(B) \in Nat /\ Cardinality(Thread) \in Nat
  BY <1>1, ThreadsFinite, FS_CardinalityType
<1> QED  BY <1>1, <1>3, <1>4, <1>5, <1>6, <1>7

\* The bound on the map that the gaps of regenerate leave.
LEMMA CapStep ==
    ASSUME IndInv, NEW t \in Thread, Step(t)
    PROVE  OvershootBound'
<1> DEFINE RS == {"reinsert"}
           PS == {"push", "enforce"}
<1>0. /\ TypeOK /\ IsFiniteSet(DOMAIN store) /\ IsFiniteSet(DOMAIN store')
  <2>1. TypeOK /\ TypeOK'  BY TypeStep DEF IndInv
  <2>2. IsFiniteSet(Sid)  BY SessionHostAssumption, FS_Interval DEF Sid
  <2>3. DOMAIN store \in SUBSET Sid /\ DOMAIN store' \in SUBSET Sid
    BY <2>1 DEF TypeOK
  <2> QED  BY <2>1, <2>2, <2>3, FS_Subset
<1>f. ASSUME NEW S PROVE In(S) \in Nat /\ In(S)' \in Nat
  <2>1. /\ IsFiniteSet({u \in Thread : pc[u] \in S})
        /\ IsFiniteSet({u \in Thread : pc'[u] \in S})
    BY ThreadsFinite, FS_Subset
  <2> QED  BY <2>1, FS_CardinalityType DEF In
<1>k. PICK n1 \in Nat, n2 \in Nat, c \in Nat :
         /\ n1 = Cardinality(DOMAIN store) /\ n2 = Cardinality(DOMAIN store')
         /\ c = Cardinality(Thread)
  BY <1>0, ThreadsFinite, FS_CardinalityType
<1>l. PICK r1 \in Nat, r2 \in Nat, p1 \in Nat, p2 \in Nat :
         r1 = In(RS) /\ r2 = In(RS)' /\ p1 = In(PS) /\ p2 = In(PS)'
  BY <1>f
<1>i. n1 + r1 <= Cap + p1 + c - 1  BY <1>k, <1>l DEF IndInv, OvershootBound, In
<1>g. OvershootBound' <=> n2 + r2 <= Cap + p2 + c - 1  BY <1>k, <1>l DEF OvershootBound, In
<1>c. Cap \in Nat /\ Cap >= 1  BY CapAssumption
<1>r. ASSUME NEW x, Goto(t, x)
      PROVE  /\ x = "reinsert" /\ pc[t] # "reinsert" => r2 = r1 + 1
             /\ x # "reinsert" /\ pc[t] = "reinsert" => r2 = r1 - 1
             /\ x # "reinsert" /\ pc[t] # "reinsert" => r2 = r1
  BY <1>0, <1>l, <1>r, CountMoves DEF Goto
<1>p. ASSUME NEW x, Goto(t, x)
      PROVE  /\ x \in PS /\ pc[t] \notin PS => p2 = p1 + 1
             /\ x \notin PS /\ pc[t] \in PS => p2 = p1 - 1 /\ p1 >= 1
             /\ (x \in PS <=> pc[t] \in PS) => p2 = p1
  BY <1>0, <1>l, <1>p, CountMoves DEF Goto
<1>q. pc' = pc => r2 = r1 /\ p2 = p1  BY <1>l DEF In
<1>h. ASSUME r2 = r1, p2 = p1, n2 <= n1 PROVE OvershootBound'
  BY <1>i, <1>g, <1>c, <1>h
<1>1. CASE HostStep(t) /\ UNCHANGED <<store, order, moved, fresh>>
  <2>1. \E x : /\ x \notin {"push", "enforce", "reinsert"} /\ Goto(t, x)
               /\ pc[t] \notin {"push", "enforce", "reinsert"}
    BY <1>1 DEF HostStep, Arrive, PageReturns, WritesDone, Respond,
       ResponseLost,
       RespondBare, Forget
  <2>2. r2 = r1 /\ p2 = p1  BY <1>r, <1>p, <2>1
  <2>3. n2 = n1  BY <1>1, <1>k
  <2> QED  BY <1>h, <2>2, <2>3
<1>2. CASE Lookup(t)
  <2>1. \E x : /\ x \notin {"push", "enforce", "reinsert"} /\ Goto(t, x)
               /\ pc[t] \notin {"push", "enforce", "reinsert"}
    BY <1>2 DEF Lookup
  <2>2. r2 = r1 /\ p2 = p1  BY <1>r, <1>p, <2>1
  <2>3. n2 = n1  BY <1>2, <1>k DEF Lookup
  <2> QED  BY <1>h, <2>2, <2>3
<1>a. ASSUME NEW s, DOMAIN store' = DOMAIN store \cup {s} PROVE n2 <= n1 + 1
  <2>1. n2 = IF s \in DOMAIN store THEN n1 ELSE n1 + 1
    BY <1>0, <1>a, <1>k, FS_AddElement
  <2> QED  BY <1>0, <2>1
<1>3. CASE Insert(t)
  <2> DEFINE row == [root |-> minted + 1, data |-> {}]
  <2>1. /\ store' = Put(store, minted + 1, row) /\ pc[t] = "create"
        /\ Goto(t, "push")
    BY <1>3 DEF Insert
  <2> HIDE DEF row
  <2>2. DOMAIN store' = DOMAIN store \cup {minted + 1}  BY <2>1, PutFacts
  <2>3. r2 = r1 /\ p2 = p1 + 1  BY <1>r, <1>p, <2>1
  <2>4. n2 <= n1 + 1  BY <1>a, <2>2
  <2> QED  BY <1>i, <1>g, <1>c, <2>3, <2>4
<1>4. CASE PushOrder(t)
  <2>1. store' = store /\ pc[t] = "push" /\ Goto(t, "enforce")
    BY <1>4 DEF PushOrder
  <2>2. r2 = r1 /\ p2 = p1  BY <1>r, <1>p, <2>1
  <2>3. n2 = n1  BY <2>1, <1>k
  <2> QED  BY <1>h, <2>2, <2>3
<1>5. CASE EnforceCap(t)
  <2>1. pc[t] = "enforce" /\ Goto(t, "page")  BY <1>5 DEF EnforceCap
  <2>2. r2 = r1 /\ p2 = p1 - 1 /\ p1 >= 1  BY <1>r, <1>p, <2>1
  <2>3. /\ DOMAIN store' = DOMAIN store \ Evicted
        /\ Cardinality(DOMAIN store \ Evicted) <= Cap \/ Evicted = Range(order)
    BY <1>5, EnforceFacts
  <2> DEFINE B == In({"push", "reorder"})
  <2>4. B \in Nat /\ r1 + B <= c - 1  BY <1>k, <1>l, <2>1, CountApart
  <2>5. n2 <= Cap \/ n2 <= B
    <3>1. CASE Evicted = Range(order)
      <4>1. DOMAIN store' \in SUBSET DOMAIN store /\ DOMAIN store' \cap Range(order) = {}
        BY <2>3, <3>1
      <4> QED  BY <1>k, <4>1, LeftoversAreFew
    <3>2. CASE Cardinality(DOMAIN store \ Evicted) <= Cap  BY <1>k, <2>3, <3>2
    <3> QED  BY <2>3, <3>1, <3>2
  <2> HIDE DEF B
  <2> QED  BY <1>i, <1>g, <1>c, <2>2, <2>4, <2>5
<1>6. ASSUME NEW out \in SUBSET Key, NEW in \in SUBSET Key, Change(t, out, in)
      PROVE  OvershootBound'
  <2>1. DOMAIN store' = DOMAIN store /\ pc' = pc
    BY <1>0, <1>6, ChangeFacts DEF Change
  <2>2. n2 = n1 /\ r2 = r1 /\ p2 = p1  BY <1>k, <1>q, <2>1
  <2> QED  BY <1>h, <2>2
<1>b. ASSUME NEW s, DOMAIN store' = DOMAIN store \ {s}
      PROVE  n2 <= n1 /\ (s \in DOMAIN store => n2 = n1 - 1)
  <2>1. n2 = IF s \in DOMAIN store THEN n1 - 1 ELSE n1
    BY <1>0, <1>b, <1>k, FS_RemoveElement
  <2> QED  BY <1>0, <2>1
<1>7. CASE Regenerate(t)
  <2>1. pc[t] = "apply"  BY <1>7 DEF Regenerate, TakeWrite
  <2>2. CASE /\ sid[t] \in DOMAIN store /\ store' = Drop(store, {sid[t]})
             /\ Goto(t, "reinsert")
    <3>1. DOMAIN store' = DOMAIN store \ {sid[t]}  BY <2>2, DropFacts
    <3>2. n2 = n1 - 1  BY <1>b, <2>2, <3>1
    <3>3. r2 = r1 + 1 /\ p2 = p1  BY <1>r, <1>p, <2>1, <2>2
    <3> QED  BY <1>i, <1>g, <1>c, <3>2, <3>3
  <2>3. CASE store' = store /\ pc' = pc
    <3>1. n2 = n1 /\ r2 = r1 /\ p2 = p1  BY <1>k, <1>q, <2>3
    <3> QED  BY <1>h, <3>1
  <2> QED  BY <1>7, <2>2, <2>3 DEF Regenerate
<1>8. CASE Reinsert(t)
  <2>1. /\ store' = Put(store, minted + 1, moved[t]) /\ pc[t] = "reinsert"
        /\ Goto(t, "reorder")
    BY <1>8 DEF Reinsert
  <2>2. DOMAIN store' = DOMAIN store \cup {minted + 1}  BY <2>1, PutFacts
  <2>3. r2 = r1 - 1 /\ p2 = p1  BY <1>r, <1>p, <2>1
  <2>4. n2 <= n1 + 1  BY <1>a, <2>2
  <2> QED  BY <1>i, <1>g, <1>c, <2>3, <2>4
<1>9. CASE Reorder(t)
  <2>1. store' = store /\ pc[t] = "reorder" /\ Goto(t, "apply")
    BY <1>9 DEF Reorder
  <2>2. r2 = r1 /\ p2 = p1  BY <1>r, <1>p, <2>1
  <2>3. n2 = n1  BY <2>1, <1>k
  <2> QED  BY <1>h, <2>2, <2>3
<1>10. CASE Destroy(t)
  <2>1. DOMAIN store' = DOMAIN store \ {sid[t]} /\ pc' = pc
    BY <1>10, OrderFacts DEF Destroy
  <2>2. n2 <= n1 /\ r2 = r1 /\ p2 = p1  BY <1>b, <1>q, <2>1
  <2> QED  BY <1>h, <2>2
<1> QED
  BY <1>1, <1>2, <1>3, <1>4, <1>5, <1>6, <1>7, <1>8, <1>9, <1>10 DEF Step

-----------------------------------------------------------------------------
(* The invariant.                                                          *)

\* The invariant holds when the host starts.
LEMMA InitInd == Init => IndInv
<1> SUFFICES ASSUME Init PROVE IndInv  OBVIOUS
<1>0. /\ MaxSid \in Nat /\ MaxSid >= 1 /\ MaxWrites \in Nat /\ None \notin Client
      /\ NoSid \in 0..MaxSid /\ 0 \in 0..MaxWrites /\ NoSid <= 0
  BY SessionHostAssumption DEF NoSid
<1>1. /\ jar = [c \in Client |-> NoSid] /\ pc = [t \in Thread |-> "idle"]
      /\ client = [t \in Thread |-> None] /\ cookie = [t \in Thread |-> NoSid]
      /\ view = [t \in Thread |-> NoSid] /\ sid = [t \in Thread |-> NoSid]
      /\ left = [t \in Thread |-> 0] /\ minted = 0 /\ owner = [s \in Sid |-> None]
      /\ store = << >> /\ order = << >> /\ moved = [t \in Thread |-> NoRow]
      /\ fresh = [t \in Thread |-> NoSid]
  BY DEF Init, HostInit
<1>2. DOMAIN store = {} /\ DOMAIN order = {} /\ Range(order) = {} /\ order \in Seq(Sid)
  BY <1>1 DEF Range
<1>3. TypeOK
  BY <1>0, <1>1, <1>2 DEF TypeOK, HostTypeOK
<1>4. MintInv
  <2>1. Minting = {}  BY <1>1 DEF Minting
  <2>2. Cardinality(Minting) = 0  BY <2>1, FS_EmptySet
  <2> QED  BY <1>0, <1>1, <2>2 DEF MintInv
<1>5. IdInv  BY <1>0, <1>1, <1>2 DEF IdInv
<1>6. ThreadInv
  <2>1. NoRow \notin Row  BY SessionHostAssumption DEF NoRow, Row, NoSid, Sid
  <2> QED  BY <1>1, <2>1 DEF ThreadInv, ThreadOK
<1>7. OwnerInv  BY <1>1 DEF OwnerInv, OwnerOK
<1>8. SecretInv  BY <1>1 DEF SecretInv, Secret
<1>9. OrderTracksStore  BY <1>2 DEF OrderTracksStore
<1>10. RootInv  BY <1>1, <1>2 DEF RootInv
<1>11. OvershootBound
  <2>1. Cardinality(DOMAIN store) = 0  BY <1>2, FS_EmptySet
  <2>2. \A S : "idle" \notin S => {t \in Thread : pc[t] \in S} = {}  BY <1>1
  <2>3. /\ Cardinality({t \in Thread : pc[t] \in {"reinsert"}}) = 0
        /\ Cardinality({t \in Thread : pc[t] \in {"push", "enforce"}}) = 0
    BY <2>2, FS_EmptySet
  <2>4. Cardinality(Thread) \in Nat  BY ThreadsFinite, FS_CardinalityType
  <2> QED  BY <2>1, <2>3, <2>4, CapAssumption DEF OvershootBound
<1> QED
  BY <1>3, <1>4, <1>5, <1>6, <1>7, <1>8, <1>9, <1>10, <1>11 DEF IndInv

\* Every step keeps it.
LEMMA NextInd == IndInv /\ [Next]_vars => IndInv'
<1>1. ASSUME IndInv, NEW t \in Thread, Step(t) PROVE IndInv'
  BY <1>1, TypeStep, MintStep, IdStep, ThreadStep, OwnerStep, SecretStep,
     OrderStep,
     RootStep, CapStep DEF IndInv
<1>2. ASSUME IndInv, UNCHANGED vars PROVE IndInv'
  <2>1. /\ UNCHANGED <<jar, pc, client, cookie, view, sid, left, minted, owner>>
        /\ UNCHANGED <<store, order, moved, fresh>>
    BY <1>2 DEF vars, hostVars, mintVars
  <2>2. /\ TypeOK /\ MintInv /\ IdInv /\ ThreadInv /\ OwnerInv /\ SecretInv
        /\ OrderTracksStore /\ RootInv /\ OvershootBound
    BY <1>2 DEF IndInv
  <2>3. TypeOK'  BY <2>1, <2>2 DEF TypeOK, HostTypeOK
  <2>4. MintInv' /\ IdInv'  BY <2>1, <2>2 DEF MintInv, Minting, IdInv
  <2>5. ThreadInv'  BY <2>1, <2>2 DEF ThreadInv, ThreadOK
  <2>6. OwnerInv'  BY <2>1, <2>2 DEF OwnerInv, OwnerOK
  <2>7. SecretInv'  BY <2>1, <2>2 DEF SecretInv, Secret, SecretOK
  <2>8. OrderTracksStore'
    BY <2>1, <2>2 DEF OrderTracksStore, Unordered, Departing
  <2>9. RootInv'  BY <2>1, <2>2 DEF RootInv
  <2>10. OvershootBound'  BY <2>1, <2>2 DEF OvershootBound
  <2> QED  BY <2>3, <2>4, <2>5, <2>6, <2>7, <2>8, <2>9, <2>10 DEF IndInv
<1> QED  BY <1>1, <1>2, Steps

\* IndInv is an invariant of the memory backend under any number of request
\* threads, clients and keys.
THEOREM Invariance == Spec => []IndInv
  BY InitInd, NextInd, PTL DEF Spec

\* The variables keep their types; in particular the counter never runs past
\* its bound, and the map holds rows only.
THEOREM TypeCorrect == Spec => []TypeOK
  BY Invariance, PTL DEF IndInv

\* A request works with, and a jar holds, only ids minted for its own client,
\* however resolve_session_view, apply_writes and build_session_cookie of
\* different connections interleave.
THEOREM SessionsAreNotShared == Spec => []SessionsNotShared
<1>1. IndInv => SessionsNotShared
  BY DEF IndInv, OwnerInv, OwnerOK, SessionsNotShared
<1> QED  BY <1>1, Invariance, PTL

\* The map and the order behind the second mutex name the same sessions, up
\* to the threads between two critical sections of create or regenerate.
THEOREM OrderIsAccurate == Spec => []OrderTracksStore
  BY Invariance, PTL DEF IndInv

\* How far the map can outgrow the capacity that services.rs:56-60 calls the
\* maximum: by the creates that have yet to enforce it and one row for every
\* other thread, and never by more however long the server runs.  (It can stay
\* above it: enforce_cap is not run by regenerate.)
THEOREM OvershootIsBounded == Spec => []OvershootBound
  BY Invariance, PTL DEF IndInv

-----------------------------------------------------------------------------
(* The refinement.  Sessions as SessionStore sees them: a row of the map,  *)
(* and a row in a thread's hands.                                          *)

\* The row of id s in the map f, as a session.
Entry(f, s) == [root |-> f[s].root, id |-> s, data |-> f[s].data]
\* The sessions of the map f.
Shelved(f) == {Entry(f, s) : s \in DOMAIN f}
\* A row that has no id.
Loose(row) == [root |-> row.root, id |-> NoSid, data |-> row.data]
\* The rows that regenerating threads hold.
Carried(m, at) == {Loose(m[t]) : t \in {u \in Thread : at[u] = "reinsert"}}

\* The fields of an entry.
LEMMA EntryFacts ==
    ASSUME NEW f, NEW s
    PROVE  /\ Entry(f, s).id = s /\ Entry(f, s).root = f[s].root
           /\ Entry(f, s).data = f[s].data
BY DEF Entry

\* A row joins the map under a new id.
LEMMA ShelvedPut ==
    ASSUME NEW f, NEW s, s \notin DOMAIN f, NEW row
    PROVE  Shelved(Put(f, s, row)) =
             Shelved(f) \cup {[root |-> row.root, id |-> s, data |-> row.data]}
<1> DEFINE g == Put(f, s, row)
<1>1. /\ DOMAIN g = DOMAIN f \cup {s} /\ g[s] = row
      /\ \A r \in DOMAIN f : g[r] = f[r]
  BY DEF Put
<1> HIDE DEF g
<1>2. /\ Entry(g, s) = [root |-> row.root, id |-> s, data |-> row.data]
      /\ \A r \in DOMAIN f : Entry(g, r) = Entry(f, r)
  BY <1>1 DEF Entry
<1>3. Shelved(g) = {Entry(g, r) : r \in DOMAIN f \cup {s}}  BY <1>1 DEF Shelved
<1>4. Shelved(g) = {Entry(g, r) : r \in DOMAIN f} \cup {Entry(g, s)}
  BY <1>3
<1>5. {Entry(g, r) : r \in DOMAIN f} = Shelved(f)  BY <1>2 DEF Shelved
<1> QED  BY <1>2, <1>4, <1>5 DEF g

\* Rows leave the map.
LEMMA ShelvedDrop ==
    ASSUME NEW f, NEW S
    PROVE  Shelved(Drop(f, S)) = Shelved(f) \ {Entry(f, s) : s \in S \cap DOMAIN f}
<1> DEFINE g == Drop(f, S)
<1>1. DOMAIN g = DOMAIN f \ S /\ \A r \in DOMAIN f \ S : g[r] = f[r]
  BY DEF Drop
<1> HIDE DEF g
<1>2. \A r \in DOMAIN f \ S : Entry(g, r) = Entry(f, r)  BY <1>1 DEF Entry
<1>3. \A r, s : Entry(f, r) = Entry(f, s) => r = s  BY EntryFacts
<1>4. ASSUME NEW x PROVE x \in Shelved(g) <=> \E r \in DOMAIN f \ S : x = Entry(f, r)
  BY <1>1, <1>2 DEF Shelved
<1>5. ASSUME NEW x PROVE x \in Shelved(f) <=> \E r \in DOMAIN f : x = Entry(f, r)
  BY DEF Shelved
<1> HIDE DEF Shelved, Entry
<1> QED  BY <1>3, <1>4, <1>5 DEF g

\* The data of one row changes.
LEMMA ShelvedWrite ==
    ASSUME NEW f, NEW g, NEW s \in DOMAIN f, DOMAIN g = DOMAIN f,
           \A r \in DOMAIN f : r # s => g[r] = f[r]
    PROVE  Shelved(g) =
             (Shelved(f) \ {Entry(f, s)}) \cup {Entry(g, s)}
<1>2. \A r \in DOMAIN f : r # s => Entry(g, r) = Entry(f, r)  BY DEF Entry
<1>3. \A r, q : Entry(f, r) = Entry(f, q) => r = q  BY EntryFacts
<1>4. ASSUME NEW x PROVE x \in Shelved(g) <=> \E r \in DOMAIN f : x = Entry(g, r)
  BY DEF Shelved
<1>5. ASSUME NEW x PROVE x \in Shelved(f) <=> \E r \in DOMAIN f : x = Entry(f, r)
  BY DEF Shelved
<1> HIDE DEF Shelved, Entry
<1> QED  BY <1>2, <1>3, <1>4, <1>5

\* A thread puts a row down, takes one up, or does neither.
LEMMA CarriedFacts ==
    ASSUME NEW t \in Thread, Others(t)
    PROVE  /\ \/ pc[t] # "reinsert" /\ pc'[t] # "reinsert"
              \/ pc[t] = pc'[t] /\ moved'[t] = moved[t]
              => Carried(moved', pc') = Carried(moved, pc)
           /\ pc[t] # "reinsert" /\ pc'[t] = "reinsert"
              => Carried(moved', pc') = Carried(moved, pc) \cup {Loose(moved'[t])}
           /\ /\ pc[t] = "reinsert" /\ pc'[t] # "reinsert"
              /\ \A u \in Thread : pc[u] = "reinsert" /\ moved[u].root = moved[t].root => u = t
              => Carried(moved', pc') = Carried(moved, pc) \ {Loose(moved[t])}
<1>1. ASSUME NEW x PROVE x \in Carried(moved, pc) <=>
                           \E u \in Thread : pc[u] = "reinsert" /\ x = Loose(moved[u])
  BY DEF Carried
<1>2. ASSUME NEW x PROVE x \in Carried(moved', pc') <=>
                           \E u \in Thread : pc'[u] = "reinsert" /\ x = Loose(moved'[u])
  BY DEF Carried
<1>3. \A row, q : Loose(row) = Loose(q) => row.root = q.root  BY DEF Loose
<1>4. \A u \in Thread : u # t => pc'[u] = pc[u] /\ moved'[u] = moved[u]
  BY DEF Others
<1> HIDE DEF Carried, Loose
<1>5. ASSUME \/ pc[t] # "reinsert" /\ pc'[t] # "reinsert"
             \/ pc[t] = pc'[t] /\ moved'[t] = moved[t]
      PROVE  Carried(moved', pc') = Carried(moved, pc)
  BY <1>1, <1>2, <1>4, <1>5
<1>6. ASSUME pc[t] # "reinsert", pc'[t] = "reinsert"
      PROVE  Carried(moved', pc') = Carried(moved, pc) \cup {Loose(moved'[t])}
  BY <1>1, <1>2, <1>4, <1>6
<1>7. ASSUME pc[t] = "reinsert", pc'[t] # "reinsert",
             \A u \in Thread : pc[u] = "reinsert" /\ moved[u].root = moved[t].root => u = t
      PROVE  Carried(moved', pc') = Carried(moved, pc) \ {Loose(moved[t])}
  BY <1>1, <1>2, <1>3, <1>4, <1>7
<1> QED  BY <1>5, <1>6, <1>7

\* The sessions of the refinement mapping.
Held == Shelved(store) \cup Carried(moved, pc)

\* Two ids of the map, and a row in the map and one in a thread's hands, are
\* different sessions.
LEMMA HeldFacts ==
    ASSUME IndInv, NEW s \in DOMAIN store
    PROVE  /\ Entry(store, s) \in Held /\ Entry(store, s) \notin Carried(moved, pc)
           /\ Entry(store, s).id # 0
<1>1. s # NoSid  BY SessionHostAssumption DEF IndInv, TypeOK, Sid, NoSid
<1>2. \A row : Loose(row).id = NoSid  BY DEF Loose
<1>3. Entry(store, s).id # NoSid  BY <1>1, EntryFacts
<1>4. Entry(store, s) \notin Carried(moved, pc)  BY <1>2, <1>3 DEF Carried
<1>5. Entry(store, s) \in Shelved(store)  BY DEF Shelved
<1> QED  BY <1>3, <1>4, <1>5 DEF Held, NoSid

\* A row put under a fresh id is no session of before.
LEMMA UsedStep ==
    ASSUME IndInv, NEW t \in Thread, Step(t), Mints
    PROVE  /\ minted + 1 \in Sid \ (1..minted) /\ 1..minted' = (1..minted) \cup {minted + 1}
           /\ minted + 1 \notin DOMAIN store
<1>1. minted' \in 0..MaxSid /\ minted \in Nat /\ minted' = minted + 1
  BY MintStep, SessionHostAssumption DEF IndInv, TypeOK, HostTypeOK, Mints
<1>2. minted + 1 \in Sid \ (1..minted)  BY <1>1, SessionHostAssumption DEF Sid
<1>3. 1..minted' = (1..minted) \cup {minted + 1}  BY <1>1
<1>4. minted + 1 \notin DOMAIN store  BY <1>1 DEF IndInv, IdInv
<1> QED  BY <1>2, <1>3, <1>4

\* The store is finite, and so is what it holds: one session for each row.
LEMMA HeldFinite ==
    ASSUME IndInv, NEW D \in SUBSET DOMAIN store
    PROVE  /\ IsFiniteSet(Held)
           /\ \A X \in SUBSET Held : (\A s \in D : Entry(store, s) \in X)
                                       => Cardinality(D) <= Cardinality(X)
<1>1. IsFiniteSet(DOMAIN store)
  <2>1. IsFiniteSet(Sid)  BY SessionHostAssumption, FS_Interval DEF Sid
  <2>2. DOMAIN store \in SUBSET Sid  BY DEF IndInv, TypeOK
  <2> QED  BY <2>1, <2>2, FS_Subset
<1>2. IsFiniteSet(Shelved(store))
  <2> DEFINE f == [s \in DOMAIN store |-> Entry(store, s)]
  <2>1. f \in Surjection(DOMAIN store, Shelved(store))
    BY DEF Surjection, Shelved
  <2> QED  BY <1>1, <2>1, FS_Surjection
<1>3. IsFiniteSet(Carried(moved, pc))
  <2> DEFINE A == {u \in Thread : pc[u] = "reinsert"}
             f == [u \in A |-> Loose(moved[u])]
  <2>1. IsFiniteSet(A)  BY ThreadsFinite, FS_Subset
  <2>2. f \in Surjection(A, Carried(moved, pc))
    BY DEF Surjection, Carried
  <2> QED  BY <2>1, <2>2, FS_Surjection
<1>4. IsFiniteSet(Held)  BY <1>2, <1>3, FS_Union DEF Held
<1>5. ASSUME NEW X \in SUBSET Held, \A s \in D : Entry(store, s) \in X
      PROVE  Cardinality(D) <= Cardinality(X)
  <2> DEFINE f == [s \in D |-> Entry(store, s)]
  <2>1. f \in [D -> X] /\ \A s \in D : f[s].id = s  BY <1>5, EntryFacts
  <2> HIDE DEF f
  <2>2. f \in Injection(D, X)  BY <2>1 DEF Injection, IsInjective
  <2>3. IsFiniteSet(X)  BY <1>4, FS_Subset
  <2> QED  BY <2>2, <2>3, FS_Injection
<1> QED  BY <1>4, <1>5

\* Every step of a thread is a step of SessionStore, or none.
LEMMA Maps ==
    ASSUME IndInv, NEW t \in Thread, Step(t)
    PROVE  \/ Held' = Held /\ 1..minted' = 1..minted
           \/ Abstract!Next
<1> DEFINE Stutter == Held' = Held /\ 1..minted' = 1..minted
           Goal == Stutter \/ Abstract!Next
<1>0. /\ TypeOK /\ Others(t) /\ pc \in [Thread -> PC]
      /\ moved \in [Thread -> Row \cup {NoRow}]
  <2>1. TypeOK  BY DEF IndInv
  <2> QED  BY <2>1, Frame DEF TypeOK, PC
<1>h. Held' = Shelved(store') \cup Carried(moved', pc')
  BY DEF Held, Shelved, Carried, Entry
<1>o. ASSUME NEW s \in Sid \ (1..minted), 1..minted' = (1..minted) \cup {s},
             Held' = Held \cup {[root |-> s, id |-> s, data |-> {}]}
      PROVE  Abstract!Next
  BY <1>o DEF Abstract!Next, Abstract!Open, Held, Shelved, Carried, Entry,
     Loose
<1>w. ASSUME NEW x \in Held, NEW d \in SUBSET Key, x.id # 0, 1..minted' = 1..minted,
             Held' = (Held \ {x}) \cup {[x EXCEPT !.data = d]}
      PROVE  Abstract!Next
  BY <1>w DEF Abstract!Next, Abstract!Write, Held, Shelved, Carried, Entry,
     Loose
<1>d. ASSUME NEW x \in Held, x.id # 0, 1..minted' = 1..minted,
             Held' = (Held \ {x}) \cup {[x EXCEPT !.id = 0]}
      PROVE  Abstract!Next
  BY <1>d DEF Abstract!Next, Abstract!Detach, Held, Shelved, Carried, Entry,
     Loose
<1>a. ASSUME NEW x \in Held, x.id = 0, NEW s \in Sid \ (1..minted),
             1..minted' = (1..minted) \cup {s},
             Held' = (Held \ {x}) \cup {[x EXCEPT !.id = s]}
      PROVE  Abstract!Next
  BY <1>a DEF Abstract!Next, Abstract!Attach, Held, Shelved, Carried, Entry,
     Loose
<1>c. ASSUME NEW x \in Held, x.id # 0, 1..minted' = 1..minted, Held' = Held \ {x}
      PROVE  Abstract!Next
  BY <1>c DEF Abstract!Next, Abstract!Close, Held, Shelved, Carried, Entry,
     Loose
<1>e. ASSUME NEW X \in SUBSET Held, \A x \in X : x.id # 0, Cardinality(Held \ X) >= Cap,
             1..minted' = 1..minted, Held' = Held \ X
      PROVE  Abstract!Next
  <2>1. /\ \A x \in X : x.id # 0
        /\ Cardinality(Held \ X) >= Cap
        /\ Held' = Held \ X
        /\ 1..minted' = 1..minted
    BY <1>e
  <2>2. Abstract!Evict(X)
    BY <2>1, Zenon
       DEF Abstract!Evict, Abstract!Cardinality, Cardinality, Held, Shelved, Carried,
           Entry, Loose
  <2>3. X \in SUBSET Held  OBVIOUS
  <2> QED
    BY <2>2, <2>3, Zenon DEF Abstract!Next, Held, Shelved, Carried, Entry,
       Loose
<1>u. minted' = minted => 1..minted' = 1..minted  OBVIOUS
<1>s. ASSUME Shelved(store') = Shelved(store), Carried(moved', pc') = Carried(moved, pc),
             minted' = minted
      PROVE  Held' = Held /\ 1..minted' = 1..minted
  BY <1>h, <1>u, <1>s DEF Held
<1>1. CASE HostStep(t) /\ UNCHANGED <<store, order, moved, fresh>>
  <2>1. pc[t] # "reinsert" /\ pc'[t] # "reinsert" /\ minted' = minted
    BY <1>0, <1>1 DEF HostStep, Arrive, PageReturns, WritesDone, Respond,
       ResponseLost,
       RespondBare, Forget, Goto, mintVars
  <2>2. Carried(moved', pc') = Carried(moved, pc)  BY <1>0, <2>1, CarriedFacts
  <2>3. Shelved(store') = Shelved(store)  BY <1>1
  <2> QED  BY <1>s, <2>1, <2>2, <2>3
<1>2. CASE Lookup(t) \/ PushOrder(t) \/ Reorder(t)
  <2>1. /\ pc[t] # "reinsert" /\ pc'[t] # "reinsert" /\ minted' = minted
        /\ store' = store
    BY <1>0, <1>2 DEF Lookup, PushOrder, Reorder, Goto, mintVars
  <2>2. Carried(moved', pc') = Carried(moved, pc)  BY <1>0, <2>1, CarriedFacts
  <2>3. Shelved(store') = Shelved(store)  BY <2>1
  <2> QED  BY <1>s, <2>1, <2>2, <2>3
<1>3. CASE Insert(t)
  <2> DEFINE n == minted + 1
             row == [root |-> n, data |-> {}]
  <2>1. /\ pc[t] # "reinsert" /\ pc'[t] # "reinsert" /\ Mints
        /\ store' = Put(store, n, row)
    BY <1>0, <1>3 DEF Insert, Mint, Mints, Goto
  <2>2. Carried(moved', pc') = Carried(moved, pc)  BY <1>0, <2>1, CarriedFacts
  <2>3. row.root = n /\ row.data = {}  OBVIOUS
  <2>4. n \in Sid \ (1..minted) /\ 1..minted' = (1..minted) \cup {n} /\ n \notin DOMAIN store
    BY <2>1, UsedStep
  <2> HIDE DEF n, row
  <2>5. Shelved(Put(store, n, row)) =
           Shelved(store) \cup {[root |-> row.root, id |-> n, data |-> row.data]}
    BY <2>4, ShelvedPut
  <2>6. Shelved(store') = Shelved(store) \cup {[root |-> n, id |-> n, data |-> {}]}
    BY <2>1, <2>3, <2>5, Zenon
  <2>7. Held' = Held \cup {[root |-> n, id |-> n, data |-> {}]}
    BY <1>h, <2>2, <2>6 DEF Held
  <2> QED  BY <1>o, <2>4, <2>7, Zenon
<1>4. CASE EnforceCap(t)
  <2>1. pc[t] # "reinsert" /\ pc'[t] # "reinsert" /\ minted' = minted
    BY <1>0, <1>4 DEF EnforceCap, Goto, mintVars
  <2>2. Carried(moved', pc') = Carried(moved, pc)  BY <1>0, <2>1, CarriedFacts
  <2> DEFINE X == {Entry(store, s) : s \in Evicted \cap DOMAIN store}
             D == DOMAIN store \ Evicted
  <2>3. Shelved(store') = Shelved(store) \ X
    BY <1>4, EnforceFacts, ShelvedDrop
  <2>4. CASE Evicted = {}
    <3>1. Shelved(store') = Shelved(store)  BY <2>3, <2>4
    <3> QED  BY <1>s, <2>1, <2>2, <3>1
  <2>5. CASE Evicted # {}
    <3>1. Cardinality(D) >= Cap  BY <1>4, <2>5, EnforceFacts
    <3>2. \A s \in DOMAIN store : /\ Entry(store, s) \in Held
                                 /\ Entry(store, s) \notin Carried(moved, pc)
                                 /\ Entry(store, s).id # 0
      BY HeldFacts
    <3>3. X \in SUBSET Held /\ (\A x \in X : x.id # 0) /\ X \cap Carried(moved, pc) = {}
      BY <3>2
    <3>4. \A s \in D : Entry(store, s) \in Held \ X
      <4>1. \A r, s : Entry(store, r) = Entry(store, s) => r = s  BY EntryFacts
      <4> QED  BY <3>2, <4>1
    <3>5. Cardinality(D) <= Cardinality(Held \ X)
      <4>1. D \in SUBSET DOMAIN store /\ Held \ X \in SUBSET Held  OBVIOUS
      <4> HIDE DEF D, X
      <4> QED  BY <3>4, <4>1, HeldFinite
    <3>6. Cardinality(Held \ X) >= Cap
      <4>1. IsFiniteSet(Held) /\ IsFiniteSet(Held \ X)
        BY HeldFinite, FS_Difference
      <4>2. IsFiniteSet(D)  BY <1>4, EnforceFacts, FS_Difference
      <4>3. Cardinality(D) \in Nat /\ Cardinality(Held \ X) \in Nat
        BY <4>1, <4>2, FS_CardinalityType
      <4> HIDE DEF D, X
      <4> QED  BY <3>1, <3>5, <4>3, CapAssumption
    <3>7. Held' = Held \ X
      <4> HIDE DEF X
      <4> QED  BY <1>h, <2>2, <2>3, <3>3 DEF Held
    <3> HIDE DEF X
    <3> QED  BY <1>e, <1>u, <2>1, <3>3, <3>6, <3>7, Zenon
  <2> QED  BY <2>4, <2>5
<1>5. ASSUME NEW out \in SUBSET Key, NEW in \in SUBSET Key, Change(t, out, in)
      PROVE  Goal
  <2>1. pc' = pc /\ moved' = moved /\ minted' = minted
    BY <1>5 DEF Change, mintVars
  <2>2. Carried(moved', pc') = Carried(moved, pc)  BY <2>1
  <2>3. CASE sid[t] \in DOMAIN store
    <3> DEFINE s == sid[t]
               x == Entry(store, s)
               d == (store[s].data \ out) \cup in
    <3>1. store[s] \in Row /\ d \in SUBSET Key  BY <1>0, <2>3 DEF TypeOK, Row
    <3>2. store' = [store EXCEPT ![s].data = d]  BY <1>5, <2>3 DEF Change
    <3>3. x \in Held /\ x \notin Carried(moved, pc) /\ x.id # 0
      BY <2>3, HeldFacts
    <3> HIDE DEF d
    <3>4. /\ DOMAIN store' = DOMAIN store
          /\ store'[s] = [store[s] EXCEPT !.data = d]
          /\ \A r \in DOMAIN store : r # s => store'[r] = store[r]
      BY <2>3, <3>2
    <3>5. store'[s].root = store[s].root /\ store'[s].data = d
      BY <3>1, <3>4 DEF Row
    <3>6. Shelved(store') = (Shelved(store) \ {x}) \cup {[x EXCEPT !.data = d]}
      <4> HIDE DEF s
      <4>1. s \in DOMAIN store  BY <2>3 DEF s
      <4>2. Shelved(store') = (Shelved(store) \ {Entry(store, s)}) \cup {Entry(store', s)}
        BY <3>4, <4>1, ShelvedWrite
      <4>3. Entry(store', s) = [x EXCEPT !.data = d]  BY <3>5 DEF Entry
      <4> QED  BY <4>2, <4>3, Zenon
    <3> HIDE DEF x
    <3>7. Held' = (Held \ {x}) \cup {[x EXCEPT !.data = d]}
      <4> DEFINE y == [x EXCEPT !.data = d]
      <4>1. Shelved(store') = (Shelved(store) \ {x}) \cup {y}  BY <3>6
      <4> HIDE DEF y
      <4>2. Held' = (Held \ {x}) \cup {y}  BY <1>h, <2>2, <3>3, <4>1 DEF Held
      <4> QED  BY <4>2 DEF y
    <3> QED  BY <1>w, <1>u, <2>1, <3>1, <3>3, <3>7, Zenon
  <2>4. CASE sid[t] \notin DOMAIN store
    <3>1. store' = store  BY <1>5, <2>4 DEF Change
    <3> QED  BY <1>s, <2>1, <2>2, <3>1
  <2> QED  BY <2>3, <2>4
<1>b. ASSUME sid[t] \in DOMAIN store, store' = Drop(store, {sid[t]})
      PROVE  Shelved(store') = Shelved(store) \ {Entry(store, sid[t])}
  <2>1. Shelved(store') = Shelved(store) \ {Entry(store, s) : s \in {sid[t]} \cap DOMAIN store}
    BY <1>b, ShelvedDrop
  <2>2. {sid[t]} \cap DOMAIN store = {sid[t]}  BY <1>b
  <2>3. {Entry(store, s) : s \in {sid[t]}} = {Entry(store, sid[t])}  OBVIOUS
  <2> QED  BY <2>1, <2>2, <2>3, Zenon
<1>6. CASE Regenerate(t)
  <2>1. pc[t] = "apply" /\ minted' = minted
    BY <1>6 DEF Regenerate, TakeWrite, mintVars
  <2>2. CASE /\ sid[t] \in DOMAIN store /\ moved' = [moved EXCEPT ![t] = store[sid[t]]]
             /\ store' = Drop(store, {sid[t]}) /\ Goto(t, "reinsert")
    <3> DEFINE x == Entry(store, sid[t])
               y == [x EXCEPT !.id = 0]
    <3>1. pc'[t] = "reinsert" /\ moved'[t] = store[sid[t]]
      BY <1>0, <2>2 DEF Goto
    <3>2. Carried(moved', pc') = Carried(moved, pc) \cup {Loose(moved'[t])}
      BY <1>0, <2>1, <3>1, CarriedFacts
    <3>3. Loose(moved'[t]) = y  BY <3>1 DEF Loose, Entry, NoSid
    <3>4. Shelved(store') = Shelved(store) \ {x}  BY <1>b, <2>2
    <3>5. x \in Held /\ x \notin Carried(moved, pc) /\ x.id # 0
      BY <2>2, HeldFacts
    <3> HIDE DEF x
    <3>6. Held' = (Held \ {x}) \cup {[x EXCEPT !.id = 0]}
      <4> HIDE DEF y
      <4>1. Held' = (Held \ {x}) \cup {y}
        BY <1>h, <3>2, <3>3, <3>4, <3>5 DEF Held
      <4> QED  BY <4>1 DEF y
    <3> QED  BY <1>d, <1>u, <2>1, <3>5, <3>6, Zenon
  <2>3. CASE UNCHANGED <<moved, store, pc>>
    <3>1. Shelved(store') = Shelved(store) /\ Carried(moved', pc') = Carried(moved, pc)
      BY <2>3
    <3> QED  BY <1>s, <2>1, <3>1
  <2> QED  BY <1>6, <2>2, <2>3 DEF Regenerate
<1>7. CASE Reinsert(t)
  <2> DEFINE n == minted + 1
             x == Loose(moved[t])
             y == [x EXCEPT !.id = n]
  <2>1. /\ pc[t] = "reinsert" /\ pc'[t] # "reinsert" /\ Mints
        /\ store' = Put(store, n, moved[t])
    BY <1>0, <1>7 DEF Reinsert, Mint, Mints, Goto
  <2>2. n \in Sid \ (1..minted) /\ 1..minted' = (1..minted) \cup {n} /\ n \notin DOMAIN store
    BY <2>1, UsedStep
  <2>3. \A u \in Thread : pc[u] = "reinsert" /\ moved[u].root = moved[t].root => u = t
    BY <2>1 DEF IndInv, RootInv
  <2>4. Carried(moved', pc') = Carried(moved, pc) \ {x}
    BY <1>0, <2>1, <2>3, CarriedFacts
  <2> HIDE DEF n
  <2>5. Shelved(store') =
           Shelved(store) \cup {[root |-> moved[t].root, id |-> n, data |-> moved[t].data]}
    BY <2>1, <2>2, ShelvedPut
  <2>6. y = [root |-> moved[t].root, id |-> n, data |-> moved[t].data]
    BY DEF Loose
  <2>7. x \in Carried(moved, pc) /\ x.id = 0  BY <2>1 DEF Carried, Loose, NoSid
  <2>8. x \notin Shelved(store)
    <3>1. \A s \in DOMAIN store : Entry(store, s).id # 0  BY HeldFacts
    <3> QED  BY <2>7, <3>1 DEF Shelved
  <2> HIDE DEF x
  <2>9. Held' = (Held \ {x}) \cup {[x EXCEPT !.id = n]}
    <3>1. Shelved(store') = Shelved(store) \cup {y}  BY <2>5, <2>6, Zenon
    <3> HIDE DEF y
    <3>2. Held' = (Held \ {x}) \cup {y}  BY <1>h, <2>4, <2>8, <3>1 DEF Held
    <3> QED  BY <3>2 DEF y
  <2>10. x \in Held  BY <2>7 DEF Held
  <2> QED  BY <1>a, <2>2, <2>7, <2>9, <2>10, Zenon
<1>8. CASE Destroy(t)
  <2>1. pc' = pc /\ moved' = moved /\ minted' = minted /\ store' = Drop(store, {sid[t]})
    BY <1>8 DEF Destroy, mintVars
  <2>2. Carried(moved', pc') = Carried(moved, pc)  BY <2>1
  <2>3. CASE sid[t] \in DOMAIN store
    <3> DEFINE x == Entry(store, sid[t])
    <3>1. Shelved(store') = Shelved(store) \ {x}  BY <1>b, <2>1, <2>3
    <3>2. x \in Held /\ x \notin Carried(moved, pc) /\ x.id # 0
      BY <2>3, HeldFacts
    <3> HIDE DEF x
    <3>3. Held' = Held \ {x}  BY <1>h, <2>2, <3>1, <3>2 DEF Held
    <3> QED  BY <1>c, <1>u, <2>1, <3>2, <3>3, Zenon
  <2>4. CASE sid[t] \notin DOMAIN store
    <3>1. Shelved(store') = Shelved(store) \ {Entry(store, s) : s \in {sid[t]} \cap DOMAIN store}
      BY <2>1, ShelvedDrop
    <3>2. {sid[t]} \cap DOMAIN store = {}  BY <2>4
    <3>3. Shelved(store') = Shelved(store)  BY <3>1, <3>2
    <3> QED  BY <1>s, <2>1, <2>2, <3>3
  <2> QED  BY <2>3, <2>4
<1> QED  BY <1>1, <1>2, <1>3, <1>4, <1>5, <1>6, <1>7, <1>8 DEF Step

\* The memory backend implements SessionStore for any number of threads: a
\* write reaches its own session or none, regenerate moves the data intact,
\* a destroyed or evicted session never comes back, eviction stops at the cap.
THEOREM Refinement == Spec => ImplementsSessionStore
<1>1. Init => Abstract!Init
  <2> SUFFICES ASSUME Init PROVE Abstract!Init  OBVIOUS
  <2>1. DOMAIN store = {} /\ minted = 0 /\ {u \in Thread : pc[u] = "reinsert"} = {}
    BY DEF Init, HostInit
  <2>2. 1..minted = {}  BY <2>1
  <2> QED  BY <2>1, <2>2 DEF Abstract!Init
<1>2. IndInv /\ [Next]_vars => [Abstract!Next]_(Abstract!vars)
  <2> SUFFICES ASSUME IndInv, [Next]_vars PROVE [Abstract!Next]_(Abstract!vars)  OBVIOUS
  <2>1. ASSUME Held' = Held, 1..minted' = 1..minted PROVE UNCHANGED Abstract!vars
    BY <2>1 DEF Abstract!vars, Held, Shelved, Entry, Carried, Loose
  <2>2. CASE Next  BY <2>1, <2>2, Steps, Maps
  <2>3. CASE UNCHANGED vars
    BY <2>3 DEF vars, hostVars, mintVars, Abstract!vars
  <2> QED  BY <2>2, <2>3
<1> QED
  BY <1>1, <1>2, Invariance, PTL DEF Spec, ImplementsSessionStore,
     Abstract!Spec
=============================================================================
