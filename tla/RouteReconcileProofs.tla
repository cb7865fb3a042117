------------------------ MODULE RouteReconcileProofs ------------------------
(***************************************************************************)
(* Proofs for RouteReconcile, for every set of sources, boot table and     *)
(* number of edits: the table stays sorted, a row that is found has its    *)
(* slot, lookups prefer the exact path and then patterns with a single     *)
(* parameter, and no path leaves the table while its source is there.      *)
(*                                                                         *)
(* The order of the table needs that Before is a strict total order on the *)
(* paths that parse (BeforeTransitive, BeforeTotal), and what add,         *)
(* replace_by_path and remove_by_path do to a sorted table (AddFacts,      *)
(* ReplaceFacts, RemoveFacts).  Boot may leave a path with two rows, so    *)
(* what is said of slots is said of the first row of each path: the only   *)
(* one a lookup answers with, and the one that replace_by_path replaces.   *)
(* The invariant ties each half-done addition, replacement and removal to  *)
(* the slots it has registered or must still drop (StepInv, PlanInv), and  *)
(* each planned removal to what the walk can have seen (AbsentInv).        *)
(***************************************************************************)
EXTENDS RouteReconcile, FiniteSetTheorems, SequenceTheorems,
        WellFoundedInduction, TLAPS

\* A segment of a template: a token parse_segment accepts.
Segment == [kind : {"static", "param", "catchall"}, name : Nat]

\* Rows in order of their paths, as TableOrdered asks of the table.
Ordered(rows) ==
    \A i, j \in DOMAIN rows : i < j =>
        \/ Before(rows[i].path, rows[j].path)
        \/ rows[i].path = rows[j].path /\ DoubledAtBoot(rows[i].path)

\* The first row of its path.
First(rows, i) == \A j \in DOMAIN rows : j < i => rows[j].path # rows[i].path

\* The rows that scan and prepare_route make.
GoodRows == {r \in Rows : r.path = url_path_for(r.source) /\ Supported(r.source)}

RowsInv == table \in Seq(GoodRows)

\* Every method of the first row of a path has its slot.
SlotInv == \A i \in DOMAIN table : First(table, i) => SlotsOf(table[i]) \subseteq slots

\* The scan behind the work under way.
ScanInv ==
    /\ \A i \in DOMAIN desired : Supported(desired[i])
    /\ \A p \in toAdd : \E i \in DOMAIN desired : url_path_for(desired[i]) = p
    /\ wpc = "compare" =>
          \A i \in checks : url_path_for(desired[i]) \in PathsOf(table)

\* What is still to add is not in the table, what is still to remove is, but
\* for the path between the two halves of its removal.
PlanInv ==
    /\ toAdd \cap PathsOf(table) = {}
    /\ IF wpc = "unregister"
       THEN \E p \in toRemove : /\ p \notin PathsOf(table)
                                /\ toRemove \ {p} \subseteq PathsOf(table)
       ELSE toRemove \subseteq PathsOf(table)

\* An addition or a replacement half way.
StepInv ==
    /\ \A i \in DOMAIN swaps : /\ swaps[i].old.path = swaps[i].new.path
                               /\ swaps[i].new \in GoodRows
    /\ wpc = "publish" => /\ row \in GoodRows /\ row.path \in toAdd
                          /\ SlotsOf(row) \subseteq slots
    /\ wpc \in {"swapped", "dropMethods"} =>
          /\ swaps # <<>>
          /\ SlotsOf(Head(swaps).new) \subseteq slots
    /\ wpc = "dropMethods" =>
          \A i \in DOMAIN table :
              First(table, i) /\ table[i].path = Head(swaps).new.path =>
                  table[i] = Head(swaps).new

\* The sources of what is to be removed were absent for some time of the scan.
AbsentInv ==
    /\ \A f \in Source : url_path_for(f) \in toRemove => Absent \in had[f]
    /\ wpc \in {"idle", "snapshot", "scan"} => toRemove = {}

IndInv ==
    /\ TypeOK
    /\ TableOrdered
    /\ RowsInv
    /\ SlotInv
    /\ ScanInv
    /\ PlanInv
    /\ StepInv
    /\ AbsentInv

-----------------------------------------------------------------------------
(* The order of paths.                                                     *)

\* A non-empty set of natural numbers has a least element.
LEMMA Least ==
    ASSUME NEW T \in SUBSET Nat, T # {}
    PROVE  \E x \in T : \A y \in T : x <= y
<1>1. PICK x \in T : \A y \in T : ~(<<y, x>> \in OpToRel(<, Nat))
  BY NatLessThanWellFounded, WFMin, Zenon
<1>2. \A y \in T : ~(y < x)
  BY <1>1 DEF OpToRel
<1> QED  BY <1>2

\* Min of the community modules, on natural numbers.
LEMMA MinIsLeast ==
    ASSUME NEW T \in SUBSET Nat, T # {}
    PROVE  Min(T) \in T /\ \A y \in T : Min(T) <= y
BY Least DEF Min

\* Segments are strictly and totally ordered.
LEMMA SegmentOrder ==
    /\ \A s \in Segment : ~SegmentBefore(s, s)
    /\ \A s, t, u \in Segment :
          SegmentBefore(s, t) /\ SegmentBefore(t, u) => SegmentBefore(s, u)
    /\ \A s, t \in Segment : s = t \/ SegmentBefore(s, t) \/ SegmentBefore(t, s)
<1>1. \A s \in Segment : ~SegmentBefore(s, s)
  BY DEF Segment, SegmentBefore
<1>2. \A s, t, u \in Segment :
          SegmentBefore(s, t) /\ SegmentBefore(t, u) => SegmentBefore(s, u)
  BY DEF Segment, SegmentBefore
<1>3. \A s, t \in Segment : s = t \/ SegmentBefore(s, t) \/ SegmentBefore(t, s)
  BY DEF Segment, SegmentBefore
<1> QED  BY <1>1, <1>2, <1>3

\* No path is before itself.
LEMMA BeforeIrreflexive ==
    ASSUME NEW p \in Seq(Segment)
    PROVE  ~Before(p, p)
<1>1. \A i \in DOMAIN p : i <= Len(p) /\ p[i] \in Segment  OBVIOUS
<1> QED  BY <1>1, SegmentOrder DEF Before

\* The order is transitive: the first difference of either step decides.
LEMMA BeforeTransitive ==
    ASSUME NEW p \in Seq(Segment), NEW q \in Seq(Segment), NEW r \in Seq(Segment),
           Before(p, q), Before(q, r)
    PROVE  Before(p, r)
<1>1. PICK i \in DOMAIN q : /\ i <= Len(p) + 1
                            /\ \A j \in 1 .. i - 1 : p[j] = q[j]
                            /\ i <= Len(p) => SegmentBefore(p[i], q[i])
  BY DEF Before
<1>2. PICK k \in DOMAIN r : /\ k <= Len(q) + 1
                            /\ \A j \in 1 .. k - 1 : q[j] = r[j]
                            /\ k <= Len(q) => SegmentBefore(q[k], r[k])
  BY DEF Before
<1>3. /\ Len(p) \in Nat /\ Len(q) \in Nat /\ Len(r) \in Nat
      /\ DOMAIN p = 1 .. Len(p) /\ DOMAIN q = 1 .. Len(q) /\ DOMAIN r = 1 .. Len(r)
      /\ \A j \in DOMAIN p : p[j] \in Segment
      /\ \A j \in DOMAIN q : q[j] \in Segment
      /\ \A j \in DOMAIN r : r[j] \in Segment
      /\ i \in Nat /\ k \in Nat /\ i >= 1 /\ k >= 1 /\ i <= Len(q) /\ k <= Len(r)
  OBVIOUS
<1>4. CASE i < k
  <2>1. i \in DOMAIN r /\ q[i] = r[i]  BY <1>2, <1>3, <1>4
  <2>2. \A j \in 1 .. i - 1 : p[j] = r[j]  BY <1>1, <1>2, <1>3, <1>4
  <2>3. i <= Len(p) => SegmentBefore(p[i], r[i])  BY <1>1, <2>1
  <2> QED  BY <1>1, <2>1, <2>2, <2>3 DEF Before
<1>5. CASE k < i
  <2>1. k <= Len(p) /\ p[k] = q[k] /\ k <= Len(q)  BY <1>1, <1>3, <1>5
  <2>2. \A j \in 1 .. k - 1 : p[j] = r[j]  BY <1>1, <1>2, <1>3, <1>5
  <2>3. SegmentBefore(p[k], r[k])  BY <1>2, <2>1
  <2> QED  BY <1>3, <2>1, <2>2, <2>3 DEF Before
<1>6. CASE i = k
  <2>1. \A j \in 1 .. i - 1 : p[j] = r[j]  BY <1>1, <1>2, <1>3, <1>6
  <2>2. i <= Len(p) => SegmentBefore(p[i], r[i])
    <3>1. SUFFICES ASSUME i <= Len(p) PROVE SegmentBefore(p[i], r[i])  OBVIOUS
    <3>2. /\ p[i] \in Segment /\ q[i] \in Segment /\ r[i] \in Segment
          /\ SegmentBefore(p[i], q[i]) /\ SegmentBefore(q[i], r[i])
      BY <1>1, <1>2, <1>3, <1>6, <3>1
    <3> QED  BY <3>2, SegmentOrder
  <2> QED  BY <1>1, <1>3, <1>6, <2>1, <2>2 DEF Before
<1> QED  BY <1>3, <1>4, <1>5, <1>6

\* Of two different paths one is before the other: look at the first place
\* where they differ, or the end of the shorter one.
LEMMA BeforeTotal ==
    ASSUME NEW p \in Seq(Segment), NEW q \in Seq(Segment)
    PROVE  p = q \/ Before(p, q) \/ Before(q, p)
<1>1. /\ Len(p) \in Nat /\ Len(q) \in Nat
      /\ DOMAIN p = 1 .. Len(p) /\ DOMAIN q = 1 .. Len(q)
      /\ \A j \in DOMAIN p : p[j] \in Segment
      /\ \A j \in DOMAIN q : q[j] \in Segment
  OBVIOUS
<1> DEFINE D == {i \in Nat : /\ 1 <= i /\ i <= Len(p) + 1 /\ i <= Len(q) + 1
                             /\ \/ i = Len(p) + 1 \/ i = Len(q) + 1
                                \/ p[i] # q[i]}
<1>2. D # {}
  <2>1. CASE Len(p) <= Len(q)  BY <1>1, <2>1
  <2>2. CASE Len(q) <= Len(p)  BY <1>1, <2>2
  <2> QED  BY <1>1, <2>1, <2>2
<1>3. PICK i \in D : \A j \in D : i <= j  BY <1>2, Least
<1>4. \A j \in 1 .. i - 1 : p[j] = q[j]
  <2>1. SUFFICES ASSUME NEW j \in 1 .. i - 1, p[j] # q[j] PROVE FALSE  OBVIOUS
  <2>2. j \in Nat /\ 1 <= j /\ j < i  BY <2>1
  <2>3. j \in D  BY <1>1, <2>1, <2>2
  <2> QED  BY <1>3, <2>2, <2>3
<1>5. CASE i <= Len(p) /\ i <= Len(q)
  <2>1. p[i] # q[i] /\ p[i] \in Segment /\ q[i] \in Segment  BY <1>1, <1>5
  <2>2. SegmentBefore(p[i], q[i]) \/ SegmentBefore(q[i], p[i])
    BY <2>1, SegmentOrder
  <2>3. i \in DOMAIN p /\ i \in DOMAIN q  BY <1>1, <1>5
  <2> QED  BY <1>1, <1>4, <1>5, <2>2, <2>3 DEF Before
<1>6. CASE i = Len(p) + 1 /\ i <= Len(q)
  <2>1. i \in DOMAIN q  BY <1>1, <1>6
  <2> QED  BY <1>1, <1>4, <1>6, <2>1 DEF Before
<1>7. CASE i = Len(q) + 1 /\ i <= Len(p)
  <2>1. i \in DOMAIN p /\ \A j \in 1 .. i - 1 : q[j] = p[j]  BY <1>1, <1>4, <1>7
  <2> QED  BY <1>1, <1>7, <2>1 DEF Before
<1>8. CASE i = Len(p) + 1 /\ i = Len(q) + 1
  <2>0. PICK m \in Nat, n \in Nat : m = Len(p) /\ n = Len(q)  BY <1>1
  <2>1. m = n /\ i - 1 = m  BY <1>8, <2>0
  <2>2. \A j \in 1 .. m : p[j] = q[j]  BY <1>4, <2>1
  <2> QED  BY <2>0, <2>1, <2>2, SeqEqual
<1> QED  BY <1>1, <1>3, <1>5, <1>6, <1>7, <1>8

-----------------------------------------------------------------------------
(* The operations on the table.  R is a set of rows with proper paths.     *)

RowSet(R) == \A r \in R : r.path \in Seq(Segment)

\* An element put behind the first k.
LEMMA InsertFacts ==
    ASSUME NEW R, NEW s \in Seq(R), NEW e \in R, NEW k \in 0 .. Len(s)
    PROVE  /\ InsertAt(s, k + 1, e) \in Seq(R)
           /\ Len(InsertAt(s, k + 1, e)) = Len(s) + 1
           /\ \A i \in 1 .. k : InsertAt(s, k + 1, e)[i] = s[i]
           /\ InsertAt(s, k + 1, e)[k + 1] = e
           /\ \A i \in k + 1 .. Len(s) : InsertAt(s, k + 1, e)[i + 1] = s[i]
<1> DEFINE a == SubSeq(s, 1, k)
           b == SubSeq(s, k + 1, Len(s))
           c == a \o <<e>>
<1>0. PICK n \in Nat : n = Len(s)  OBVIOUS
<1>1. \A i \in 1 .. n : s[i] \in R  BY <1>0
<1>2. a \in Seq(R) /\ Len(a) = k /\ \A i \in 1 .. k : a[i] = s[i]
  <2>1. \A i \in 1 .. k : s[i] \in R  BY <1>0, <1>1
  <2> QED  BY <1>0, <2>1, SubSeqProperties
<1>3. b \in Seq(R) /\ Len(b) = n - k /\ \A i \in 1 .. n - k : b[i] = s[k + i]
  <2>1. \A i \in k + 1 .. n : s[i] \in R  BY <1>0, <1>1
  <2>2. /\ SubSeq(s, k + 1, n) \in Seq(R)
        /\ Len(SubSeq(s, k + 1, n)) = IF k + 1 <= n THEN n - (k + 1) + 1 ELSE 0
        /\ \A i \in 1 .. n - (k + 1) + 1 :
              SubSeq(s, k + 1, n)[i] = s[(k + 1) + i - 1]
    BY <1>0, <2>1, SubSeqProperties
  <2> QED  BY <1>0, <2>2
<1>4. <<e>> \in Seq(R) /\ Len(<<e>>) = 1 /\ <<e>>[1] = e  OBVIOUS
<1> HIDE DEF a, b
<1>5. /\ c \in Seq(R) /\ Len(c) = k + 1
      /\ \A i \in 1 .. k + 1 : c[i] = IF i <= k THEN a[i] ELSE e
  <2>1. /\ c \in Seq(R) /\ Len(c) = k + 1
        /\ \A i \in 1 .. k + 1 : c[i] = IF i <= k THEN a[i] ELSE <<e>>[i - k]
    BY <1>2, <1>4, ConcatProperties
  <2>2. \A i \in 1 .. k + 1 : ~(i <= k) => i - k = 1  BY <1>0
  <2> QED  BY <1>4, <2>1, <2>2
<1> HIDE DEF c
<1>6. /\ c \o b \in Seq(R) /\ Len(c \o b) = n + 1
      /\ \A i \in 1 .. n + 1 : (c \o b)[i] = IF i <= k + 1 THEN c[i] ELSE b[i - (k + 1)]
  <2>1. /\ c \o b \in Seq(R) /\ Len(c \o b) = Len(c) + Len(b)
        /\ \A i \in 1 .. Len(c) + Len(b) :
              (c \o b)[i] = IF i <= Len(c) THEN c[i] ELSE b[i - Len(c)]
    BY <1>3, <1>5, ConcatProperties
  <2>2. Len(c) + Len(b) = n + 1  BY <1>0, <1>3, <1>5
  <2> QED  BY <1>5, <2>1, <2>2
<1>7. ASSUME NEW i \in 1 .. n + 1
      PROVE  (c \o b)[i] = IF i <= k THEN s[i] ELSE IF i = k + 1 THEN e ELSE s[i - 1]
  <2>1. CASE i <= k  BY <1>0, <1>2, <1>5, <1>6, <2>1
  <2>2. CASE i = k + 1  BY <1>0, <1>5, <1>6, <2>2
  <2>3. CASE i > k + 1
    <3>1. i - (k + 1) \in 1 .. n - k /\ k + (i - (k + 1)) = i - 1  BY <1>0, <2>3
    <3>2. (c \o b)[i] = b[i - (k + 1)]  BY <1>0, <1>6, <2>3
    <3>3. b[i - (k + 1)] = s[i - 1]  BY <1>3, <3>1
    <3>4. ~(i <= k) /\ i # k + 1  BY <1>0, <2>3
    <3> QED  BY <3>2, <3>3, <3>4
  <2>4. i \in Nat /\ k \in Nat  OBVIOUS
  <2>5. i <= k \/ i = k + 1 \/ i > k + 1  BY <2>4
  <2> QED  BY <2>1, <2>2, <2>3, <2>5
<1>8. InsertAt(s, k + 1, e) = c \o b
  <2>1. (k + 1) - 1 = k  OBVIOUS
  <2> QED  BY <2>1 DEF InsertAt, a, b, c
<1> HIDE DEF a, b, c
<1>9. InsertAt(s, k + 1, e) \in Seq(R)  BY <1>6, <1>8
<1>10. Len(InsertAt(s, k + 1, e)) = Len(s) + 1  BY <1>0, <1>6, <1>8
<1>11. ASSUME NEW i \in 1 .. Len(s) + 1
       PROVE  InsertAt(s, k + 1, e)[i] =
                IF i <= k THEN s[i] ELSE IF i = k + 1 THEN e ELSE s[i - 1]
  <2>1. i \in 1 .. n + 1  BY <1>0
  <2>2. (c \o b)[i] = IF i <= k THEN s[i] ELSE IF i = k + 1 THEN e ELSE s[i - 1]
    BY <1>7, <2>1
  <2> QED  BY <1>8, <2>2
<1>12. \A i \in 1 .. k : InsertAt(s, k + 1, e)[i] = s[i]
  <2>1. \A i \in 1 .. k : i \in 1 .. Len(s) + 1 /\ i <= k  BY <1>0
  <2> QED  BY <1>11, <2>1
<1>13. InsertAt(s, k + 1, e)[k + 1] = e
  <2>1. k + 1 \in 1 .. Len(s) + 1 /\ ~(k + 1 <= k)  BY <1>0
  <2> QED  BY <1>11, <2>1
<1>14. ASSUME NEW i \in k + 1 .. Len(s)
       PROVE  InsertAt(s, k + 1, e)[i + 1] = s[i]
  <2>1. /\ i + 1 \in 1 .. Len(s) + 1 /\ ~(i + 1 <= k) /\ i + 1 # k + 1
        /\ (i + 1) - 1 = i
    BY <1>0
  <2> QED  BY <1>11, <2>1
<1> QED  BY <1>9, <1>10, <1>12, <1>13, <1>14

\* The rows that are not after a path come first.
LEMMA Prefix ==
    ASSUME NEW R, RowSet(R), NEW rows \in Seq(R), Ordered(rows),
           NEW path \in Seq(Segment)
    PROVE  \E k \in 0 .. Len(rows) :
             {i \in DOMAIN rows : ~Before(path, rows[i].path)} = 1 .. k
<1>0. PICK n \in Nat : n = Len(rows) /\ DOMAIN rows = 1 .. n  OBVIOUS
<1>1. \A i \in 1 .. n : rows[i].path \in Seq(Segment)
  BY <1>0 DEF RowSet
<1> DEFINE C == {i \in 1 .. n + 1 : i = n + 1 \/ Before(path, rows[i].path)}
<1>2. PICK c \in C : \A i \in C : c <= i
  <2>1. C \in SUBSET Nat /\ n + 1 \in C  OBVIOUS
  <2> QED  BY <2>1, Least
<1>3. c \in 1 .. n + 1  OBVIOUS
<1>4. ASSUME NEW i \in 1 .. n, ~Before(path, rows[i].path) PROVE i < c
  <2>1. SUFFICES ASSUME c <= i PROVE FALSE  BY <1>3
  <2>2. c \in 1 .. n /\ Before(path, rows[c].path)  BY <1>3, <2>1
  <2>3. CASE c = i  BY <1>4, <2>2, <2>3
  <2>4. CASE c < i
    <3>1. Before(rows[c].path, rows[i].path) \/ rows[c].path = rows[i].path
      BY <1>0, <2>2, <2>4 DEF Ordered
    <3> QED  BY <1>1, <1>4, <2>2, <3>1, BeforeTransitive
  <2> QED  BY <1>3, <2>1, <2>3, <2>4
<1>5. ASSUME NEW i \in 1 .. n, i < c PROVE ~Before(path, rows[i].path)
  BY <1>2, <1>3, <1>5
<1> HIDE DEF C
<1>6. c - 1 \in 0 .. n  BY <1>3
<1>7. {i \in DOMAIN rows : ~Before(path, rows[i].path)} = 1 .. c - 1
  <2>1. \A i : (i \in 1 .. n /\ i < c) <=> i \in 1 .. c - 1  BY <1>3
  <2> QED  BY <1>0, <1>4, <1>5, <2>1
<1> QED  BY <1>0, <1>6, <1>7

\* add keeps the order: the new row goes behind the rows before it.
LEMMA AddFacts ==
    ASSUME NEW R, RowSet(R), NEW rows \in Seq(R), Ordered(rows),
           NEW r \in R, r.path \notin PathsOf(rows)
    PROVE  /\ add(rows, r) \in Seq(R)
           /\ Ordered(add(rows, r))
           /\ PathsOf(add(rows, r)) = PathsOf(rows) \cup {r.path}
           /\ \A i \in DOMAIN add(rows, r) : First(add(rows, r), i) =>
                 \/ add(rows, r)[i] = r
                 \/ \E j \in DOMAIN rows : First(rows, j) /\ add(rows, r)[i] = rows[j]
<1> DEFINE K == {i \in DOMAIN rows : ~Before(r.path, rows[i].path)}
           t == add(rows, r)
<1>0. PICK n \in Nat : n = Len(rows) /\ DOMAIN rows = 1 .. n  OBVIOUS
<1>1. r.path \in Seq(Segment) /\ \A i \in 1 .. n : rows[i].path \in Seq(Segment)
  BY <1>0 DEF RowSet
<1>2. PICK k \in 0 .. n : K = 1 .. k  BY <1>0, <1>1, Prefix
<1>3. Cardinality(K) = k
  <2>1. k \in Nat  BY <1>0
  <2>2. Cardinality(1 .. k) = IF 1 > k THEN 0 ELSE k - 1 + 1  BY <2>1, FS_Interval
  <2>3. Cardinality(1 .. k) = k  BY <2>1, <2>2
  <2> HIDE DEF K
  <2> QED  BY <1>2, <2>3
<1>4. /\ t \in Seq(R) /\ Len(t) = n + 1
      /\ \A i \in 1 .. n + 1 :
            t[i] = IF i <= k THEN rows[i] ELSE IF i = k + 1 THEN r ELSE rows[i - 1]
  <2>1. t = InsertAt(rows, k + 1, r)  BY <1>3 DEF add
  <2>2. k \in 0 .. Len(rows)  BY <1>0
  <2> HIDE DEF t, K
  <2>3. InsertAt(rows, k + 1, r) \in Seq(R)  BY <2>2, InsertFacts
  <2>4. Len(InsertAt(rows, k + 1, r)) = Len(rows) + 1  BY <2>2, InsertFacts
  <2>5. /\ \A i \in 1 .. k : InsertAt(rows, k + 1, r)[i] = rows[i]
        /\ InsertAt(rows, k + 1, r)[k + 1] = r
        /\ \A i \in k + 1 .. Len(rows) : InsertAt(rows, k + 1, r)[i + 1] = rows[i]
    BY <2>2, InsertFacts
  <2> QED  BY <1>0, <2>1, <2>3, <2>4, <2>5
<1>5. DOMAIN t = 1 .. n + 1  BY <1>4
<1>6. \A i \in 1 .. k : Before(rows[i].path, r.path)
  <2>1. SUFFICES ASSUME NEW i \in 1 .. k PROVE Before(rows[i].path, r.path)  OBVIOUS
  <2>2. i \in 1 .. n /\ i \in K  BY <1>0, <1>2
  <2>3. ~Before(r.path, rows[i].path) /\ rows[i].path # r.path
    BY <1>0, <2>2 DEF PathsOf
  <2> QED  BY <1>1, <2>2, <2>3, BeforeTotal
<1>7. \A i \in k + 1 .. n : Before(r.path, rows[i].path)
  <2>1. SUFFICES ASSUME NEW i \in k + 1 .. n PROVE Before(r.path, rows[i].path)  OBVIOUS
  <2>2. i \in 1 .. n /\ i \notin 1 .. k  BY <1>0
  <2> QED  BY <1>0, <1>2, <2>2
<1> HIDE DEF K, t
<1>8. Ordered(t)
  <2>1. SUFFICES ASSUME NEW i \in 1 .. n + 1, NEW j \in 1 .. n + 1, i < j
                 PROVE  \/ Before(t[i].path, t[j].path)
                        \/ t[i].path = t[j].path /\ DoubledAtBoot(t[i].path)
    BY <1>5 DEF Ordered
  <2>2. CASE j <= k  
    <3>1. t[i] = rows[i] /\ t[j] = rows[j] /\ i \in DOMAIN rows /\ j \in DOMAIN rows
      BY <1>0, <1>4, <2>1, <2>2
    <3> QED  BY <2>1, <3>1 DEF Ordered
  <2>3. CASE j = k + 1
    <3>1. t[i] = rows[i] /\ t[j] = r /\ i \in 1 .. k  BY <1>0, <1>4, <2>1, <2>3
    <3> QED  BY <1>6, <3>1
  <2>4. CASE j > k + 1 /\ i = k + 1
    <3>1. t[i] = r /\ t[j] = rows[j - 1] /\ j - 1 \in k + 1 .. n
      BY <1>0, <1>4, <2>1, <2>4
    <3> QED  BY <1>7, <3>1
  <2>5. CASE j > k + 1 /\ i <= k
    <3>1. /\ t[i] = rows[i] /\ t[j] = rows[j - 1] /\ i \in 1 .. n /\ j - 1 \in 1 .. n
          /\ i < j - 1
      BY <1>0, <1>4, <2>1, <2>5
    <3> QED  BY <1>0, <3>1 DEF Ordered
  <2>6. CASE i > k + 1
    <3>1. /\ t[i] = rows[i - 1] /\ t[j] = rows[j - 1] /\ i - 1 < j - 1
          /\ i - 1 \in 1 .. n /\ j - 1 \in 1 .. n
      BY <1>0, <1>4, <2>1, <2>6
    <3> QED  BY <1>0, <3>1 DEF Ordered
  <2>7. j <= k \/ j = k + 1 \/ (j > k + 1 /\ i = k + 1) \/ (j > k + 1 /\ i <= k)
        \/ i > k + 1
    BY <1>0
  <2> QED  BY <2>2, <2>3, <2>4, <2>5, <2>6, <2>7
<1>9. \A i \in DOMAIN t : t[i] = r \/ \E j \in DOMAIN rows : t[i] = rows[j]
  <2>1. SUFFICES ASSUME NEW i \in 1 .. n + 1
                 PROVE  t[i] = r \/ \E j \in 1 .. n : t[i] = rows[j]
    BY <1>0, <1>5
  <2>2. CASE i <= k  BY <1>0, <1>4, <2>2
  <2>3. CASE i = k + 1  BY <1>0, <1>4, <2>3
  <2>4. CASE i > k + 1
    <3>1. i - 1 \in 1 .. n /\ t[i] = rows[i - 1]  BY <1>0, <1>4, <2>4
    <3> QED  BY <3>1
  <2> QED  BY <1>0, <2>2, <2>3, <2>4
<1>10. PathsOf(t) = PathsOf(rows) \cup {r.path}
  <2>1. PathsOf(t) \subseteq PathsOf(rows) \cup {r.path}  BY <1>9 DEF PathsOf
  <2>2. r.path \in PathsOf(t)
    <3>1. k + 1 \in 1 .. n + 1 /\ t[k + 1] = r  BY <1>0, <1>4
    <3> QED  BY <1>5, <3>1 DEF PathsOf
  <2>3. ASSUME NEW j \in 1 .. n PROVE rows[j].path \in PathsOf(t)
    <3>1. CASE j <= k
      <4>1. j \in 1 .. n + 1 /\ t[j] = rows[j]  BY <1>0, <1>4, <3>1
      <4> QED  BY <1>5, <4>1 DEF PathsOf
    <3>2. CASE j > k
      <4>1. j + 1 \in 1 .. n + 1 /\ t[j + 1] = rows[j]
        <5>1. j + 1 \in 1 .. n + 1 /\ ~(j + 1 <= k) /\ j + 1 # k + 1
              /\ (j + 1) - 1 = j
          BY <1>0, <3>2
        <5> QED  BY <1>4, <5>1
      <4> QED  BY <1>5, <4>1 DEF PathsOf
    <3> QED  BY <1>0, <3>1, <3>2
  <2> QED  BY <1>0, <2>1, <2>2, <2>3 DEF PathsOf
<1>11. ASSUME NEW i \in DOMAIN t, First(t, i), t[i] # r
       PROVE  \E j \in DOMAIN rows : First(rows, j) /\ t[i] = rows[j]
  <2>1. i \in 1 .. n + 1 /\ i \in Nat  BY <1>5
  <2>2. \A j \in 1 .. n + 1 : j < i => t[j].path # t[i].path
    BY <1>5, <1>11 DEF First
  <2>3. CASE i <= k
    <3>1. i \in 1 .. n /\ t[i] = rows[i]  BY <1>0, <1>4, <2>1, <2>3
    <3>2. ASSUME NEW j \in 1 .. n, j < i PROVE rows[j].path # rows[i].path
      <4>1. j \in 1 .. n + 1 /\ t[j] = rows[j]  BY <1>0, <1>4, <2>1, <2>3, <3>2
      <4> QED  BY <2>2, <3>1, <3>2, <4>1
    <3> QED  BY <1>0, <3>1, <3>2 DEF First
  <2>4. CASE i > k + 1
    <3>1. i - 1 \in 1 .. n /\ t[i] = rows[i - 1]  BY <1>0, <1>4, <2>1, <2>4
    <3>2. ASSUME NEW j \in 1 .. n, j < i - 1 PROVE rows[j].path # rows[i - 1].path
      <4>1. CASE j <= k
        <5>1. j \in 1 .. n + 1 /\ j < i /\ t[j] = rows[j]  BY <1>0, <1>4, <2>1, <3>2, <4>1
        <5> QED  BY <2>2, <3>1, <5>1
      <4>2. CASE j > k
        <5>1. /\ j + 1 \in 1 .. n + 1 /\ j + 1 < i /\ ~(j + 1 <= k) /\ j + 1 # k + 1
              /\ (j + 1) - 1 = j
          BY <1>0, <2>1, <3>2, <4>2
        <5>2. t[j + 1] = rows[j]  BY <1>4, <5>1
        <5> QED  BY <2>2, <3>1, <5>1, <5>2
      <4> QED  BY <1>0, <4>1, <4>2
    <3> QED  BY <1>0, <3>1, <3>2 DEF First
  <2>5. CASE i = k + 1  BY <1>0, <1>4, <1>11, <2>1, <2>5
  <2> QED  BY <1>0, <2>1, <2>3, <2>4, <2>5
<1> QED  BY <1>4, <1>8, <1>10, <1>11 DEF t

\* The place of i among the members of T.
Rank(T, i) == Cardinality({j \in T : j <= i})

\* A finite set of numbers is counted off by rank, without gaps: ranks grow,
\* so they are distinct, so they are all the numbers up to the cardinality.
LEMMA RankFacts ==
    ASSUME NEW n \in Nat, NEW T \in SUBSET (1 .. n)
    PROVE  /\ Cardinality(T) \in Nat
           /\ \A i \in T : Rank(T, i) \in 1 .. Cardinality(T)
           /\ \A i, j \in T : i < j => Rank(T, i) < Rank(T, j)
           /\ \A k \in 1 .. Cardinality(T) : \E i \in T : Rank(T, i) = k
<1>1. IsFiniteSet(T) /\ Cardinality(T) \in Nat
  <2>1. IsFiniteSet(1 .. n)  BY FS_Interval
  <2> QED  BY <2>1, FS_Subset, FS_CardinalityType
<1>2. \A i \in T : i \in Nat  OBVIOUS
<1>3. ASSUME NEW i \in T PROVE Rank(T, i) \in 1 .. Cardinality(T)
  <2> DEFINE below == {j \in T : j <= i}
  <2>1. below \in SUBSET T /\ i \in below  BY <1>2
  <2>2. IsFiniteSet(below) /\ Cardinality(below) <= Cardinality(T)
    BY <1>1, <2>1, FS_Subset
  <2>3. Cardinality(below) \in Nat /\ Cardinality(below) # 0
    BY <2>1, <2>2, FS_CardinalityType, FS_EmptySet
  <2> HIDE DEF below
  <2>4. Cardinality(below) \in 1 .. Cardinality(T)  BY <1>1, <2>2, <2>3
  <2> QED  BY <2>4 DEF below, Rank
<1>4. ASSUME NEW i \in T, NEW j \in T, i < j PROVE Rank(T, i) < Rank(T, j)
  <2> DEFINE low == {m \in T : m <= i}
             high == {m \in T : m <= j}
  <2>0. j <= j /\ ~(j <= i) /\ \A m \in T : m <= i => m <= j
    <3>1. i \in Nat /\ j \in Nat  BY <1>2
    <3>2. ASSUME NEW m \in T, m <= i PROVE m <= j
      <4>1. m \in Nat  BY <1>2
      <4> QED  BY <1>4, <3>1, <3>2, <4>1
    <3> QED  BY <1>4, <3>1, <3>2
  <2>1. high \in SUBSET T /\ low \in SUBSET high /\ j \in high /\ j \notin low
    BY <2>0
  <2> HIDE DEF low, high
  <2>2. IsFiniteSet(high)  BY <1>1, <2>1, FS_Subset
  <2>3. /\ IsFiniteSet(low) /\ Cardinality(low) <= Cardinality(high)
        /\ Cardinality(high) # Cardinality(low)
    BY <2>1, <2>2, FS_Subset
  <2>4. Cardinality(low) \in Nat /\ Cardinality(high) \in Nat
    BY <2>2, <2>3, FS_CardinalityType
  <2>5. Cardinality(low) < Cardinality(high)  BY <2>3, <2>4
  <2> QED  BY <2>5 DEF low, high, Rank
<1>5. ASSUME NEW k \in 1 .. Cardinality(T) PROVE \E i \in T : Rank(T, i) = k
  <2> DEFINE f == [i \in T |-> Rank(T, i)]
             C == 1 .. Cardinality(T)
  <2>1. f \in Injection(T, C)
    <3>1. f \in [T -> C]  BY <1>3
    <3>2. ASSUME NEW i \in T, NEW j \in T, f[i] = f[j] PROVE i = j
      <4>1. Rank(T, i) = Rank(T, j)  BY <3>2
      <4>2. Rank(T, i) \in Nat /\ Rank(T, j) \in Nat  BY <1>1, <1>3
      <4>3. ~(i < j) /\ ~(j < i)  BY <1>4, <4>1, <4>2
      <4> QED  BY <1>2, <4>3
    <3> QED  BY <3>1, <3>2 DEF Injection, IsInjective
  <2>2. IsFiniteSet(C) /\ Cardinality(C) = Cardinality(T)
    <3>1. PICK c \in Nat : c = Cardinality(T)  BY <1>1
    <3>2. IsFiniteSet(1 .. c) /\ Cardinality(1 .. c) = IF 1 > c THEN 0 ELSE c - 1 + 1
      BY FS_Interval
    <3> QED  BY <3>1, <3>2
  <2>3. f \in Surjection(T, C)
    <3> HIDE DEF f, C
    <3> QED  BY <2>1, <2>2, FS_Injection
  <2>4. \A t \in C : \E i \in T : f[i] = t
    <3> HIDE DEF f, C
    <3> QED  BY <2>3 DEF Surjection
  <2> QED  BY <2>4
<1> QED  BY <1>1, <1>3, <1>4, <1>5

\* remove_by_path drops the rows of the path and keeps the others in order.
LEMMA RemoveFacts ==
    ASSUME NEW R, NEW rows \in Seq(R), Ordered(rows), NEW path
    PROVE  /\ remove_by_path(rows, path) \in Seq(R)
           /\ Ordered(remove_by_path(rows, path))
           /\ PathsOf(remove_by_path(rows, path)) = PathsOf(rows) \ {path}
           /\ \A i \in DOMAIN remove_by_path(rows, path) :
                 First(remove_by_path(rows, path), i) =>
                    \E j \in DOMAIN rows :
                       First(rows, j) /\ remove_by_path(rows, path)[i] = rows[j]
<1>0. PICK n \in Nat : n = Len(rows) /\ DOMAIN rows = 1 .. n  OBVIOUS
<1>1. PICK T \in SUBSET (1 .. n) : T = {i \in DOMAIN rows : rows[i].path # path}
  BY <1>0
<1>11. \A i \in T : i \in Nat  OBVIOUS
<1>2. PICK c \in Nat : c = Cardinality(T)  BY RankFacts
<1>3. PICK nth : nth = [k \in 1 .. c |-> CHOOSE i \in T : Rank(T, i) = k]  OBVIOUS
<1>4. ASSUME NEW k \in 1 .. c
      PROVE  /\ nth[k] \in T /\ Rank(T, nth[k]) = k
             /\ rows[nth[k]] \in R /\ rows[nth[k]].path # path
  <2>1. \E i \in T : Rank(T, i) = k  BY <1>2, RankFacts
  <2>2. nth[k] \in T /\ Rank(T, nth[k]) = k  BY <1>3, <2>1
  <2> QED  BY <1>0, <1>1, <2>2
<1>5. PICK t : t = remove_by_path(rows, path)  OBVIOUS
<1>6. t = [k \in 1 .. c |-> rows[nth[k]]]
  <2>1. remove_by_path(rows, path) =
          [k \in 1 .. Cardinality(T) |->
             rows[CHOOSE i \in T : Cardinality({j \in T : j <= i}) = k]]
    BY <1>1 DEF remove_by_path
  <2>2. \A k \in 1 .. c :
          nth[k] = CHOOSE i \in T : Cardinality({j \in T : j <= i}) = k
    BY <1>3 DEF Rank
  <2> QED  BY <1>2, <1>5, <2>1, <2>2
<1>7. t \in Seq(R) /\ DOMAIN t = 1 .. c
  BY <1>4, <1>6
<1>8. Ordered(t)
  <2>1. SUFFICES ASSUME NEW k \in 1 .. c, NEW m \in 1 .. c, k < m
                 PROVE  \/ Before(t[k].path, t[m].path)
                        \/ t[k].path = t[m].path /\ DoubledAtBoot(t[k].path)
    BY <1>7 DEF Ordered
  <2>2. /\ nth[k] \in T /\ nth[m] \in T /\ nth[k] \in Nat /\ nth[m] \in Nat
        /\ Rank(T, nth[k]) = k /\ Rank(T, nth[m]) = m
    BY <1>4, <1>11
  <2>3. nth[k] < nth[m]
    <3>1. CASE nth[k] = nth[m]  BY <2>1, <2>2, <3>1
    <3>2. CASE nth[m] < nth[k]
      <4>1. Rank(T, nth[m]) < Rank(T, nth[k])  BY <2>2, <3>2, RankFacts
      <4> QED  BY <2>1, <2>2, <4>1
    <3> QED  BY <2>2, <3>1, <3>2
  <2>4. nth[k] \in DOMAIN rows /\ nth[m] \in DOMAIN rows  BY <1>0, <2>2
  <2>5. \/ Before(rows[nth[k]].path, rows[nth[m]].path)
        \/ /\ rows[nth[k]].path = rows[nth[m]].path
           /\ DoubledAtBoot(rows[nth[k]].path)
    BY <2>3, <2>4 DEF Ordered
  <2> QED  BY <1>6, <2>5
<1>9. ASSUME NEW i \in T PROVE \E k \in 1 .. c : k = Rank(T, i) /\ nth[k] = i
  <2>1. PICK k \in 1 .. c : k = Rank(T, i)  BY <1>2, RankFacts
  <2>2. nth[k] \in T /\ Rank(T, nth[k]) = Rank(T, i)  BY <1>4, <2>1
  <2>3. ~(i < nth[k]) /\ ~(nth[k] < i)
    <3>1. ~(k < k)  OBVIOUS
    <3>2. i < nth[k] => Rank(T, i) < Rank(T, nth[k])  BY <2>2, RankFacts
    <3>3. nth[k] < i => Rank(T, nth[k]) < Rank(T, i)  BY <2>2, RankFacts
    <3> QED  BY <2>1, <2>2, <3>1, <3>2, <3>3
  <2>4. nth[k] \in Nat /\ i \in Nat  BY <1>11, <2>2
  <2> QED  BY <2>1, <2>3, <2>4
<1>10. PathsOf(t) = PathsOf(rows) \ {path}
  <2>1. ASSUME NEW k \in 1 .. c PROVE t[k].path \in PathsOf(rows) \ {path}
    BY <1>0, <1>4, <1>6 DEF PathsOf
  <2>2. ASSUME NEW i \in 1 .. n, rows[i].path # path PROVE rows[i].path \in PathsOf(t)
    <3>1. i \in T  BY <1>0, <1>1, <2>2
    <3>5. PICK k \in 1 .. c : nth[k] = i  BY <1>9, <3>1
    <3>6. t[k] = rows[i]  BY <1>6, <3>5
    <3> QED  BY <1>7, <3>6 DEF PathsOf
  <2>3. PathsOf(t) \subseteq PathsOf(rows) \ {path}
    BY <1>7, <2>1 DEF PathsOf
  <2>4. PathsOf(rows) \ {path} \subseteq PathsOf(t)
    BY <1>0, <2>2 DEF PathsOf
  <2> QED  BY <2>3, <2>4
<1>12. ASSUME NEW k \in DOMAIN t, First(t, k)
       PROVE  \E j \in DOMAIN rows : First(rows, j) /\ t[k] = rows[j]
  <2>1. /\ k \in 1 .. c /\ nth[k] \in T /\ nth[k] \in DOMAIN rows
        /\ t[k] = rows[nth[k]] /\ rows[nth[k]].path # path /\ Rank(T, nth[k]) = k
    BY <1>0, <1>4, <1>6, <1>7
  <2>2. ASSUME NEW j \in DOMAIN rows, j < nth[k], rows[j].path = rows[nth[k]].path
        PROVE  FALSE
    <3>1. j \in T  BY <1>1, <2>1, <2>2
    <3>2. PICK m \in 1 .. c : m = Rank(T, j) /\ nth[m] = j  BY <1>9, <3>1
    <3>3. m < k
      <4>1. Rank(T, j) < Rank(T, nth[k])  BY <2>1, <2>2, <3>1, RankFacts
      <4> QED  BY <2>1, <3>2, <4>1
    <3>4. t[m] = rows[j] /\ m \in DOMAIN t  BY <1>6, <1>7, <3>2
    <3> QED  BY <1>12, <2>1, <2>2, <3>3, <3>4 DEF First
  <2> QED  BY <2>1, <2>2 DEF First
<1> QED  BY <1>5, <1>7, <1>8, <1>10, <1>12

\* replace_by_path puts the row in the place of the first one with its path.
LEMMA ReplaceFacts ==
    ASSUME NEW R, RowSet(R), NEW rows \in Seq(R), Ordered(rows), NEW r \in R
    PROVE  /\ replace_by_path(rows, r) \in Seq(R)
           /\ Ordered(replace_by_path(rows, r))
           /\ PathsOf(replace_by_path(rows, r)) = PathsOf(rows)
           /\ \A i \in DOMAIN replace_by_path(rows, r) :
                 First(replace_by_path(rows, r), i) =>
                 \/ replace_by_path(rows, r)[i] = r
                 \/ /\ i \in DOMAIN rows /\ First(rows, i)
                    /\ replace_by_path(rows, r)[i] = rows[i]
                    /\ rows[i].path # r.path
<1>0. PICK n \in Nat : n = Len(rows) /\ DOMAIN rows = 1 .. n  OBVIOUS
<1>1. PICK I \in SUBSET (1 .. n) : I = {i \in 1 .. Len(rows) : rows[i].path = r.path}
  BY <1>0
<1>2. PICK t : t = replace_by_path(rows, r)  OBVIOUS
<1>3. CASE I = {}
  <2>1. t = rows  BY <1>1, <1>2, <1>3 DEF replace_by_path, SelectInSeq
  <2>2. \A i \in DOMAIN rows : rows[i].path # r.path  BY <1>0, <1>1, <1>3
  <2> QED  BY <1>2, <2>1, <2>2
<1>4. CASE I # {}
  <2>1. PICK k : k = Min(I)  OBVIOUS
  <2>2. k \in I /\ k \in 1 .. n /\ \A i \in I : k <= i
    <3>1. I \in SUBSET Nat  OBVIOUS
    <3> QED  BY <1>4, <2>1, <3>1, MinIsLeast
  <2>3. t = [rows EXCEPT ![k] = r]
    BY <1>1, <1>2, <1>4, <2>1, <2>2 DEF replace_by_path, SelectInSeq
  <2>4. t \in Seq(R) /\ DOMAIN t = 1 .. n /\ rows[k].path = r.path
    BY <1>0, <1>1, <2>2, <2>3
  <2>5. \A i \in 1 .. n : t[i] = IF i = k THEN r ELSE rows[i]
    BY <1>0, <2>3
  <2>6. \A i \in 1 .. n : t[i].path = rows[i].path  BY <2>4, <2>5
  <2>7. Ordered(t)  BY <1>0, <2>4, <2>6 DEF Ordered
  <2>8. PathsOf(t) = PathsOf(rows)  BY <1>0, <2>4, <2>6 DEF PathsOf
  <2>9. ASSUME NEW i \in 1 .. n, First(t, i)
        PROVE  First(rows, i) /\ (i # k => rows[i].path # r.path)
    <3>1. First(rows, i)  BY <1>0, <2>4, <2>6, <2>9 DEF First
    <3>2. ASSUME i # k, rows[i].path = r.path PROVE FALSE
      <4>1. i \in I  BY <1>0, <1>1, <3>2
      <4>2. k \in Nat /\ i \in Nat /\ k <= i  BY <2>2, <4>1
      <4>3. k < i  BY <3>2, <4>2
      <4>4. k \in DOMAIN rows  BY <1>0, <2>2
      <4> QED  BY <2>4, <3>1, <3>2, <4>3, <4>4 DEF First
    <3> QED  BY <3>1, <3>2
  <2> QED  BY <1>0, <1>2, <2>4, <2>5, <2>7, <2>8, <2>9
<1> QED  BY <1>3, <1>4

\* get_by_path finds a row of the path when there is one.
LEMMA GetFacts ==
    ASSUME NEW R, NEW rows \in Seq(R), NEW path \in PathsOf(rows)
    PROVE  \E i \in DOMAIN rows : /\ get_by_path(rows, path) = rows[i]
                                  /\ rows[i].path = path
<1>0. PICK I : I = {i \in 1 .. Len(rows) : rows[i].path = path}
  OBVIOUS
<1>1. I \in SUBSET Nat /\ I = {i \in 1 .. Len(rows) : rows[i].path = path}
  BY <1>0
<1>2. I # {}  BY <1>1 DEF PathsOf
<1>3. PICK k : k = Min(I)  OBVIOUS
<1>4. k \in I  BY <1>1, <1>2, <1>3, MinIsLeast
<1>5. get_by_path(rows, path) = rows[k]
  BY <1>1, <1>2, <1>3 DEF get_by_path, SelectInSeq
<1> QED  BY <1>1, <1>4, <1>5

\* first_of finds a source of the path when there is one.
LEMMA FirstFacts ==
    ASSUME NEW files \in Seq(Source), NEW path,
           \E i \in DOMAIN files : url_path_for(files[i]) = path
    PROVE  \E i \in DOMAIN files : /\ first_of(files, path) = files[i]
                                   /\ url_path_for(files[i]) = path
<1>0. PICK I : I = {i \in 1 .. Len(files) : url_path_for(files[i]) = path}
  OBVIOUS
<1>1. I \in SUBSET Nat /\ I = {i \in 1 .. Len(files) : url_path_for(files[i]) = path}
  BY <1>0
<1>2. I # {}  BY <1>1
<1>3. PICK k : k = Min(I)  OBVIOUS
<1>4. k \in I  BY <1>1, <1>2, <1>3, MinIsLeast
<1>5. first_of(files, path) = files[k]
  BY <1>1, <1>2, <1>3 DEF first_of, SelectInSeq
<1> QED  BY <1>1, <1>4, <1>5

\* A scan finds exactly the files, sorted by path.
LEMMA ScanFacts ==
    ASSUME NEW files \in SUBSET Source, NEW s \in scan(files)
    PROVE  /\ s \in Seq(Source)
           /\ \A i \in DOMAIN s : s[i] \in files
           /\ \A f \in files : \E i \in DOMAIN s : s[i] = f
           /\ \A i, j \in DOMAIN s : s[i] = s[j] => i = j
           /\ \A i, j \in DOMAIN s :
                i < j => ~Before(url_path_for(s[j]), url_path_for(s[i]))
<1>1. IsFiniteSet(files)  BY SourceAssumption, FS_Subset
<1>2. PICK c \in Nat : c = Cardinality(files)  BY <1>1, FS_CardinalityType
<1>3. /\ s \in [1 .. c -> files]
      /\ \A i, j \in 1 .. c : i # j => s[i] # s[j]
      /\ \A i, j \in DOMAIN s :
           i < j => ~Before(url_path_for(s[j]), url_path_for(s[i]))
  BY <1>2 DEF scan, SetToSeqs
<1>4. s \in Injection(1 .. c, files)  BY <1>3 DEF Injection, IsInjective
<1>5. Cardinality(1 .. c) = c
  <2>1. Cardinality(1 .. c) = IF 1 > c THEN 0 ELSE c - 1 + 1  BY FS_Interval
  <2> QED  BY <2>1
<1>6. s \in Surjection(1 .. c, files)  BY <1>1, <1>2, <1>4, <1>5, FS_Injection
<1>7. \A f \in files : \E i \in 1 .. c : s[i] = f  BY <1>6 DEF Surjection
<1>8. s \in Seq(Source) /\ DOMAIN s = 1 .. c  BY <1>3
<1> QED  BY <1>3, <1>7, <1>8

-----------------------------------------------------------------------------
(* Dispatch.                                                               *)

\* The path of a source the scan accepts is made of proper segments.
LEMMA SupportedPath ==
    ASSUME NEW f \in Source, Supported(f)
    PROVE  url_path_for(f) \in Seq(Segment)
<1>0. PICK Token : Token = [kind : Kind, name : Nat]  OBVIOUS
<1>1. f \in Seq(Token) /\ f # <<>>  BY <1>0, SourceAssumption
<1>2. PICK t : t = url_path_for(f)  OBVIOUS
<1>3. t \in Seq(Token)
  <2>1. CASE Last(f) = Index
    <3>1. Len(f) - 1 \in Int /\ \A i \in 1 .. Len(f) - 1 : f[i] \in Token  BY <1>1
    <3>2. SubSeq(f, 1, Len(f) - 1) \in Seq(Token)
      BY <3>1, SubSeqProperties
    <3> QED  BY <1>2, <2>1, <3>2 DEF url_path_for, Front
  <2>2. CASE Last(f) # Index  BY <1>1, <1>2, <2>2 DEF url_path_for
  <2> QED  BY <2>1, <2>2
<1>4. \A i \in DOMAIN t : t[i].kind # "bad"
  BY <1>2 DEF Supported, url_path_for
<1>5. ASSUME NEW i \in 1 .. Len(t) PROVE t[i] \in Segment
  <2>1. t[i] \in Token /\ i \in DOMAIN t  BY <1>3
  <2>2. t[i].kind # "bad"  BY <1>4, <2>1
  <2> QED  BY <1>0, <2>1, <2>2 DEF Segment, Kind
<1>6. t \in Seq(Segment)  BY <1>3, <1>5
<1> QED  BY <1>2, <1>6

\* The positions of one kind of segment.
Of(p, kind) == {i \in DOMAIN p : p[i].kind = kind}

\* The score of a path in terms of two nested sets of positions: the ones
\* that are not static, and the catch-alls.
LEMMA PriorityFacts ==
    ASSUME NEW p \in Seq(Segment)
    PROVE  /\ IsFiniteSet(Of(p, "param") \cup Of(p, "catchall"))
           /\ IsFiniteSet(Of(p, "catchall"))
           /\ Cardinality(Of(p, "param") \cup Of(p, "catchall")) \in Nat
           /\ Cardinality(Of(p, "catchall")) \in Nat
           /\ priority(p) = Cardinality(Of(p, "param") \cup Of(p, "catchall"))
                            + Cardinality(Of(p, "catchall"))
<1>1. PICK A, B : A = Of(p, "param") /\ B = Of(p, "catchall")  OBVIOUS
<1>2. IsFiniteSet(DOMAIN p)
  <2>1. DOMAIN p = 1 .. Len(p) /\ Len(p) \in Int  OBVIOUS
  <2>2. IsFiniteSet(1 .. Len(p))  BY <2>1, FS_Interval
  <2> QED  BY <2>1, <2>2
<1>3. A \in SUBSET DOMAIN p /\ B \in SUBSET DOMAIN p /\ A \cap B = {}
  BY <1>1 DEF Of
<1>4. IsFiniteSet(A) /\ IsFiniteSet(B)  BY <1>2, <1>3, FS_Subset
<1>5. Cardinality(A) \in Nat /\ Cardinality(B) \in Nat
  BY <1>4, FS_CardinalityType
<1>6. /\ IsFiniteSet(A \cup B)
      /\ Cardinality(A \cup B) = Cardinality(A) + Cardinality(B)
  <2>1. /\ IsFiniteSet(A \cup B)
        /\ Cardinality(A \cup B) =
             Cardinality(A) + Cardinality(B) - Cardinality(A \cap B)
    BY <1>4, FS_Union
  <2>2. Cardinality(A \cap B) = 0  BY <1>3, FS_EmptySet
  <2> QED  BY <1>5, <2>1, <2>2
<1>7. priority(p) = Cardinality(A) + 2 * Cardinality(B)
  BY <1>1 DEF priority, Of
<1>8. priority(p) = Cardinality(A \cup B) + Cardinality(B)
  BY <1>5, <1>6, <1>7
<1> QED  BY <1>1, <1>4, <1>5, <1>6, <1>8

\* Scores are natural numbers.
LEMMA PriorityNat ==
    ASSUME NEW p \in Seq(Segment)
    PROVE  priority(p) \in Nat
<1>1. PICK x \in Nat, y \in Nat : priority(p) = x + y  BY PriorityFacts
<1> QED  BY <1>1

\* The narrow patterns are those with a score of at most one.
LEMMA NarrowScore ==
    ASSUME NEW p \in Seq(Segment)
    PROVE  Narrow(p) <=> priority(p) <= 1
<1>1. PICK A, B, N : A = Of(p, "param") /\ B = Of(p, "catchall") /\ N = A \cup B
  OBVIOUS
<1>2. /\ IsFiniteSet(N) /\ IsFiniteSet(B)
      /\ Cardinality(N) \in Nat /\ Cardinality(B) \in Nat
      /\ priority(p) = Cardinality(N) + Cardinality(B)
  BY <1>1, PriorityFacts
<1>3. Narrow(p) <=> B = {} /\ \A i, j \in A : i = j
  BY <1>1 DEF Narrow, Of
<1>4. ASSUME B = {}, \A i, j \in A : i = j PROVE priority(p) <= 1
  <2>1. Cardinality(B) = 0  BY <1>2, <1>4, FS_EmptySet
  <2>2. CASE N = {}
    <3>1. Cardinality(N) = 0  BY <1>2, <2>2, FS_EmptySet
    <3> QED  BY <1>2, <2>1, <3>1
  <2>3. CASE N # {}
    <3>1. PICK i : i \in N  BY <2>3
    <3>2. N = {i}  BY <1>1, <1>4, <3>1
    <3>3. Cardinality(N) = 1  BY <3>2, FS_Singleton
    <3> QED  BY <1>2, <2>1, <3>3
  <2> QED  BY <2>2, <2>3
<1>5. ASSUME priority(p) <= 1 PROVE B = {} /\ \A i, j \in A : i = j
  <2>1. Cardinality(N) + Cardinality(B) <= 1  BY <1>2, <1>5
  <2>2. B = {}
    <3>1. SUFFICES ASSUME B # {} PROVE FALSE  OBVIOUS
    <3>2. N # {}  BY <1>1, <3>1
    <3>3. Cardinality(B) # 0 /\ Cardinality(N) # 0  BY <1>2, <3>1, <3>2, FS_EmptySet
    <3> QED  BY <1>2, <2>1, <3>3
  <2>3. ASSUME NEW i \in A, NEW j \in A PROVE i = j
    <3>1. {i} \in SUBSET N /\ j \in N  BY <1>1
    <3>2. Cardinality({i}) = 1  BY FS_Singleton
    <3>3. /\ Cardinality({i}) <= Cardinality(N)
          /\ Cardinality(N) = Cardinality({i}) => N = {i}
      BY <1>2, <3>1, FS_Subset
    <3>4. Cardinality(N) = 1  BY <1>2, <2>1, <3>2, <3>3
    <3> QED  BY <3>1, <3>2, <3>3, <3>4
  <2> QED  BY <2>2, <2>3
<1> QED  BY <1>3, <1>4, <1>5

\* The lookup answers with a row that matches, has the lowest score and is
\* the first of its path, or with none when no row matches.
LEMMA BestFacts ==
    ASSUME NEW R, RowSet(R), NEW rows \in Seq(R), NEW req
    PROVE  /\ Candidates(rows, req) = {} => best(rows, req) = None
           /\ Candidates(rows, req) # {} =>
                \E i \in Candidates(rows, req) :
                   /\ best(rows, req) = rows[i] /\ First(rows, i)
                   /\ \A j \in Candidates(rows, req) :
                        priority(rows[i].path) <= priority(rows[j].path)
<1>1. Candidates(rows, req) = {} => best(rows, req) = None  BY DEF best
<1>2. ASSUME Candidates(rows, req) # {}
      PROVE  \E i \in Candidates(rows, req) :
                /\ best(rows, req) = rows[i] /\ First(rows, i)
                /\ \A j \in Candidates(rows, req) :
                     priority(rows[i].path) <= priority(rows[j].path)
  <2>1. PICK C : C = Candidates(rows, req)  OBVIOUS
  <2>2. /\ C # {} /\ C \in SUBSET Nat
        /\ \A i \in C : rows[i].path \in Seq(Segment)
    BY <1>2, <2>1 DEF Candidates, RowSet
  <2>3. PICK score \in [C -> Nat] : \A i \in C : score[i] = priority(rows[i].path)
    <3>1. \A i \in C : priority(rows[i].path) \in Nat  BY <2>2, PriorityNat
    <3>2. [i \in C |-> priority(rows[i].path)] \in [C -> Nat]  BY <3>1
    <3> QED  BY <3>2
  <2>4. PICK low \in {score[i] : i \in C} : \A y \in {score[i] : i \in C} : low <= y
    <3>1. {score[i] : i \in C} \in SUBSET Nat /\ {score[i] : i \in C} # {}
      BY <2>2, <2>3
    <3> QED  BY <3>1, Least
  <2>5. PICK m \in {i \in C : score[i] = low} :
               \A y \in {i \in C : score[i] = low} : m <= y
    <3>1. {i \in C : score[i] = low} \in SUBSET Nat /\ {i \in C : score[i] = low} # {}
      BY <2>2, <2>4
    <3> QED  BY <3>1, Least
  <2>6. m \in C /\ score[m] = low  OBVIOUS
  <2>7. \A j \in C : score[m] < score[j] \/ (score[m] = score[j] /\ m <= j)
    <3>1. SUFFICES ASSUME NEW j \in C
                   PROVE  score[m] < score[j] \/ (score[m] = score[j] /\ m <= j)
      OBVIOUS
    <3>2. low <= score[j] /\ low \in Nat /\ score[j] \in Nat  BY <2>3, <2>4, <2>6
    <3>3. score[j] = low => m <= j  BY <2>5
    <3> QED  BY <2>6, <3>2, <3>3
  <2>8. Wins(rows, req, m)  BY <2>1, <2>3, <2>6, <2>7 DEF Wins
  <2>9. PICK k : k = CHOOSE i \in C : Wins(rows, req, i)  OBVIOUS
  <2>10. k \in C /\ Wins(rows, req, k)  BY <2>6, <2>8, <2>9
  <2>11. best(rows, req) = rows[k]  BY <1>2, <2>1, <2>9 DEF best
  <2>12. \A j \in C : priority(rows[k].path) <= priority(rows[j].path)
    <3>1. SUFFICES ASSUME NEW j \in C PROVE score[k] <= score[j]  BY <2>3, <2>10
    <3>2. score[k] < score[j] \/ score[k] = score[j]
      BY <2>1, <2>3, <2>10 DEF Wins
    <3>3. score[k] \in Nat /\ score[j] \in Nat  BY <2>3, <2>10
    <3> QED  BY <3>2, <3>3
  <2>13. First(rows, k)
    <3>1. SUFFICES ASSUME NEW j \in DOMAIN rows, j < k, rows[j].path = rows[k].path
                   PROVE  FALSE
      BY DEF First
    <3>2. j \in C  BY <2>1, <2>10, <3>1 DEF Candidates
    <3>3. score[j] = score[k] /\ score[k] \in Nat  BY <2>3, <2>10, <3>1, <3>2
    <3>4. score[k] < score[j] \/ k <= j
      BY <2>1, <2>3, <2>10, <3>2 DEF Wins
    <3>5. k \in Nat /\ j \in Nat  BY <2>2, <2>10, <3>2
    <3> QED  BY <3>1, <3>3, <3>4, <3>5
  <2> QED  BY <2>1, <2>10, <2>11, <2>12, <2>13
<1> QED  BY <1>1, <1>2

\* The paths of the table's rows are proper.
LEMMA GoodRowSet == RowSet(GoodRows)
<1>1. SUFFICES ASSUME NEW r \in GoodRows PROVE r.path \in Seq(Segment)
  BY DEF RowSet
<1>2. r.source \in Source /\ Supported(r.source) /\ r.path = url_path_for(r.source)
  BY DEF GoodRows, Rows
<1> QED  BY <1>2, SupportedPath

\* What a lookup finds has its slot when every first row has its slots.
LEMMA DispatchFollows == IndInv => DispatchHasSlot
<1>1. SUFFICES ASSUME IndInv, NEW req \in Request,
                      NEW method \in Method \cup {"HEAD", "PUT"},
                      lookup_named(table, req, method).result = "found"
               PROVE  [path |-> lookup_named(table, req, method).route.path,
                       method |-> lookup_named(table, req, method).method] \in slots
  BY DEF DispatchHasSlot
<1>2. table \in Seq(GoodRows)  BY <1>1 DEF IndInv, RowsInv
<1>3. PICK b : b = best(table, req)  OBVIOUS
<1>4. PICK found : found = lookup_named(table, req, method)  OBVIOUS
<1>5. /\ b # None
      /\ \E m \in b.methods : found = Found(b, m)
  BY <1>1, <1>3, <1>4 DEF lookup_named
<1>6. PICK m \in b.methods : found = Found(b, m)  BY <1>5
<1>7. PICK i \in Candidates(table, req) : b = table[i] /\ First(table, i)
  BY <1>2, <1>3, <1>5, GoodRowSet, BestFacts
<1>8. i \in DOMAIN table  BY DEF Candidates
<1>9. SlotsOf(b) \subseteq slots  BY <1>1, <1>7, <1>8 DEF IndInv, SlotInv
<1>10. [path |-> b.path, method |-> m] \in slots  BY <1>9 DEF SlotsOf
<1>11. found.route = b /\ found.method = m  BY <1>6 DEF Found
<1> QED  BY <1>4, <1>10, <1>11

\* Precedence: only rows of the request's own names have no score at all, and
\* the narrow patterns are those that score one or less.
LEMMA LookupFollows == IndInv => LookupPrecedence
<1>1. SUFFICES ASSUME IndInv, NEW req \in Request
               PROVE
        LET matching == {r \in ToSet(table) : match_segments(r.path, req)}
            answer == best(table, req)
            exact == [i \in DOMAIN req |-> [kind |-> "static", name |-> req[i]]]
        IN  /\ answer = None <=> matching = {}
            /\ \A r \in matching :
                 /\ r.path = exact => answer.path = exact
                 /\ Narrow(r.path) => Narrow(answer.path)
  BY DEF LookupPrecedence
<1> DEFINE matching == {r \in ToSet(table) : match_segments(r.path, req)}
           exact == [i \in DOMAIN req |-> [kind |-> "static", name |-> req[i]]]
<1>2. table \in Seq(GoodRows) /\ req \in Seq(Nat)
  BY <1>1, ReconcileAssumption DEF IndInv, RowsInv
<1>3. PICK answer : answer = best(table, req)  OBVIOUS
<1>4. PICK C : C = Candidates(table, req)  OBVIOUS
<1>5. matching = {table[i] : i \in C}
  BY <1>4 DEF Candidates, ToSet
<1>6. /\ C \subseteq DOMAIN table
      /\ \A i \in C : /\ table[i] \in GoodRows
                      /\ table[i].path \in Seq(Segment)
                      /\ match_segments(table[i].path, req)
  BY <1>2, <1>4, GoodRowSet DEF Candidates, RowSet
<1>7. CASE C = {}
  <2>1. answer = None  BY <1>2, <1>3, <1>4, <1>7, GoodRowSet, BestFacts
  <2>2. matching = {}  BY <1>5, <1>7
  <2> QED  BY <1>3, <2>1, <2>2
<1>8. CASE C # {}
  <2>1. PICK k \in C : /\ answer = table[k]
                       /\ \A j \in C : priority(table[k].path) <= priority(table[j].path)
    BY <1>2, <1>3, <1>4, <1>8, GoodRowSet, BestFacts
  <2>2. answer \in GoodRows /\ answer # None /\ matching # {}
    BY <1>5, <1>6, <2>1, NoneAssumption DEF GoodRows
  <2>3. ASSUME NEW j \in C, Narrow(table[j].path) PROVE Narrow(answer.path)
    <3>1. PICK x \in Nat : x = priority(table[j].path)  BY <1>6, PriorityNat
    <3>2. PICK y \in Nat : y = priority(answer.path)  BY <1>6, <2>1, PriorityNat
    <3>3. x <= 1  BY <1>6, <2>3, <3>1, NarrowScore
    <3>4. y <= x  BY <2>1, <3>1, <3>2
    <3>5. y <= 1  BY <3>3, <3>4
    <3> QED  BY <1>6, <2>1, <3>2, <3>5, NarrowScore
  <2>4. ASSUME NEW j \in C, table[j].path = exact PROVE answer.path = exact
    <3>1. PICK p \in Seq(Segment) : p = answer.path  BY <1>6, <2>1
    <3>2. priority(p) = 0
      <4>1. Of(exact, "param") \cup Of(exact, "catchall") = {} /\ Of(exact, "catchall") = {}
        BY DEF Of
      <4>2. priority(exact) = 0
        <5>1. exact \in Seq(Segment)  BY <1>6, <2>4
        <5>2. priority(exact) = Cardinality({}) + Cardinality({})
          BY <4>1, <5>1, PriorityFacts
        <5> QED  BY <5>2, FS_EmptySet
      <4>3. priority(p) \in Nat  BY PriorityNat
      <4>4. priority(p) <= priority(exact)  BY <2>1, <2>4, <3>1
      <4> QED  BY <4>2, <4>3, <4>4
    <3>3. Of(p, "param") = {} /\ Of(p, "catchall") = {}
      <4>1. PICK N, B : N = Of(p, "param") \cup Of(p, "catchall") /\ B = Of(p, "catchall")
        OBVIOUS
      <4>2. /\ IsFiniteSet(N) /\ Cardinality(N) \in Nat /\ Cardinality(B) \in Nat
            /\ Cardinality(N) + Cardinality(B) = 0
        BY <3>2, <4>1, PriorityFacts
      <4>3. Cardinality(N) = 0  BY <4>2
      <4>4. N = {}  BY <4>2, <4>3, FS_EmptySet
      <4> QED  BY <4>1, <4>4
    <3>4. \A i \in DOMAIN p : /\ p[i] = [kind |-> "static", name |-> p[i].name]
                              /\ p[i].kind = "static"
      <4>1. SUFFICES ASSUME NEW i \in DOMAIN p
                     PROVE  /\ p[i] = [kind |-> "static", name |-> p[i].name]
                            /\ p[i].kind = "static"
        OBVIOUS
      <4>2. p[i] \in Segment  OBVIOUS
      <4>3. p[i].kind # "param" /\ p[i].kind # "catchall"  BY <3>3 DEF Of
      <4> QED  BY <4>2, <4>3 DEF Segment
    <3>5. Len(req) = Len(p) /\ \A i \in 1 .. Len(p) : p[i].name = req[i]
      <4>1. match_segments(p, req)  BY <1>6, <2>1, <3>1
      <4>2. {i \in 1 .. Len(p) : p[i].kind = "catchall"} = {}  BY <3>4
      <4>3. SelectInSeq(p, LAMBDA s : s.kind = "catchall") = 0
        BY <4>2 DEF SelectInSeq
      <4>4. /\ Len(req) = Len(p)
            /\ \A i \in 1 .. Len(p) : p[i].kind = "static" => p[i].name = req[i]
        BY <4>1, <4>3 DEF match_segments
      <4> QED  BY <3>4, <4>4
    <3>6. p = exact
      <4>1. exact \in Seq(Segment) /\ Len(exact) = Len(req)
        BY <1>2, <1>6, <2>4
      <4>2. ASSUME NEW i \in 1 .. Len(p) PROVE p[i] = exact[i]
        <5>1. i \in DOMAIN p /\ i \in DOMAIN req  BY <1>2, <3>5
        <5>2. exact[i] = [kind |-> "static", name |-> req[i]]  BY <5>1
        <5>3. p[i] = [kind |-> "static", name |-> req[i]]  BY <3>4, <3>5, <5>1
        <5> QED  BY <5>2, <5>3
      <4> QED  BY <3>5, <4>1, <4>2, SeqEqual
    <3> QED  BY <3>1, <3>6
  <2> HIDE DEF matching, exact
  <2>5. \A r \in matching : /\ r.path = exact => answer.path = exact
                            /\ Narrow(r.path) => Narrow(answer.path)
    BY <1>5, <2>3, <2>4
  <2> QED  BY <1>3, <2>2, <2>5 DEF matching, exact
<1> QED  BY <1>7, <1>8

-----------------------------------------------------------------------------
(* The inductive invariant.                                                *)

\* A row as prepare_route makes it, for a source the scan accepted.
LEMMA RowFacts ==
    ASSUME NEW f \in Source, Supported(f), NEW methods \in Exports
    PROVE  /\ Row(f, methods) \in GoodRows
           /\ Row(f, methods).path = url_path_for(f)
<1>1. url_path_for(f) \in Path  BY DEF Path
<1>2. Row(f, methods) \in Rows  BY <1>1 DEF Row, Rows
<1> QED  BY <1>2 DEF Row, GoodRows

\* The slots of a row.
LEMMA SlotsType ==
    ASSUME NEW r \in Rows
    PROVE  SlotsOf(r) \subseteq [path : Path, method : Method]
<1>1. r.path \in Path /\ r.methods \in Exports  BY DEF Rows
<1>2. \A m \in r.methods : m \in Method  BY <1>1 DEF Method
<1> QED  BY <1>1, <1>2 DEF SlotsOf

\* The rows the code makes are rows.
LEMMA GoodIsRow ==
    /\ GoodRows \subseteq Rows
    /\ Seq(GoodRows) \subseteq Seq(Rows)
<1>1. GoodRows \subseteq Rows  BY DEF GoodRows
<1> QED  BY <1>1, SeqMonotonic

\* A server that has just booted.
LEMMA InitInd == Init => IndInv
<1>1. SUFFICES ASSUME Init PROVE IndInv  OBVIOUS
<1>2. PICK s \in scan(BootSource) : table = [i \in DOMAIN s |-> Row(s[i], disk[s[i]])]
  BY <1>1 DEF Init
<1>3. /\ s \in Seq(Source)
      /\ \A i \in DOMAIN s : s[i] \in BootSource
      /\ \A i, j \in DOMAIN s : s[i] = s[j] => i = j
      /\ \A i, j \in DOMAIN s :
            i < j => ~Before(url_path_for(s[j]), url_path_for(s[i]))
  BY ReconcileAssumption, ScanFacts
<1>4. /\ disk \in [Source -> Exports \cup {Absent}]
      /\ \A f \in BootSource : f \in Source /\ disk[f] \in Exports /\ Supported(f)
  BY <1>1, ReconcileAssumption DEF Init, Present
<1>5. \A i \in DOMAIN s : /\ table[i] \in GoodRows
                          /\ table[i].path = url_path_for(s[i])
                          /\ url_path_for(s[i]) \in Seq(Segment)
  BY <1>2, <1>3, <1>4, RowFacts, SupportedPath
<1>6. RowsInv
  <2>1. PICK n \in Nat : n = Len(s) /\ DOMAIN s = 1 .. n  BY <1>3
  <2>2. table = [i \in 1 .. n |-> Row(s[i], disk[s[i]])]  BY <1>2, <2>1
  <2>3. \A i \in 1 .. n : Row(s[i], disk[s[i]]) \in GoodRows
    BY <1>3, <1>4, <2>1, RowFacts
  <2> QED  BY <2>2, <2>3 DEF RowsInv
<1>7. TableOrdered
  <2>1. SUFFICES ASSUME NEW i \in DOMAIN s, NEW j \in DOMAIN s, i < j
                 PROVE  \/ Before(table[i].path, table[j].path)
                        \/ table[i].path = table[j].path /\ DoubledAtBoot(table[i].path)
    BY <1>2 DEF TableOrdered
  <2>2. i # j  BY <1>3, <2>1
  <2>3. CASE url_path_for(s[i]) = url_path_for(s[j])
    <3>1. s[i] # s[j] /\ s[i] \in BootSource /\ s[j] \in BootSource  BY <1>3, <2>2
    <3> QED  BY <1>5, <2>3, <3>1 DEF DoubledAtBoot
  <2>4. CASE url_path_for(s[i]) # url_path_for(s[j])
    BY <1>3, <1>5, <2>1, <2>4, BeforeTotal
  <2> QED  BY <2>3, <2>4
<1>8. SlotInv  BY <1>1 DEF SlotInv, Init
<1>9. TypeOK
  <2>1. table \in Seq(Rows)  BY <1>6, GoodIsRow DEF RowsInv
  <2>2. slots \subseteq [path : Path, method : Method]
    <3>1. \A i \in DOMAIN table : SlotsOf(table[i]) \subseteq [path : Path, method : Method]
      BY <1>2, <1>5, GoodIsRow, SlotsType
    <3> QED  BY <1>1, <3>1 DEF Init
  <2>3. had \in [Source -> SUBSET Content]  BY <1>1 DEF Init
  <2>4. /\ disk \in [Source -> Content]
        /\ seen \in [Source -> Exports \cup {Absent}]
    BY <1>1, <1>4 DEF Init, Content
  <2>5. edits \in 0 .. MaxEdits  BY <1>1, ReconcileAssumption DEF Init
  <2>6. /\ wpc \in WatchPC /\ changed \subseteq Source
        /\ desired \in Seq(Source) /\ checks \subseteq DOMAIN desired
        /\ swaps \in Seq([old : Rows, new : Rows])
        /\ toAdd \subseteq Path /\ toRemove \subseteq Path
        /\ row \in Rows \cup {None}
    BY <1>1 DEF Init, WatchPC
  <2> QED  BY <2>1, <2>2, <2>3, <2>4, <2>5, <2>6 DEF TypeOK
<1>10. ScanInv /\ PlanInv /\ StepInv
  <2>1. /\ wpc = "idle" /\ desired = <<>> /\ swaps = <<>> /\ checks = {}
        /\ toAdd = {} /\ toRemove = {}
    BY <1>1 DEF Init
  <2> QED  BY <2>1 DEF ScanInv, PlanInv, StepInv
<1>11. AbsentInv
  BY <1>1 DEF Init, AbsentInv
<1> QED  BY <1>6, <1>7, <1>8, <1>9, <1>10, <1>11 DEF IndInv

\* Back to the poll loop.
LEMMA EndInd ==
    ASSUME IndInv, EndPoll, UNCHANGED <<table, slots, diskVars, seen>>
    PROVE  IndInv'
<1>1. TypeOK'
  <2>1. /\ wpc' \in WatchPC /\ desired' \in Seq(Source)
        /\ checks' \subseteq DOMAIN desired'
        /\ swaps' \in Seq([old : Rows, new : Rows])
        /\ row' \in Rows \cup {None}
        /\ toAdd' \subseteq Path /\ toRemove' \subseteq Path
        /\ had' \in [Source -> SUBSET Content] /\ changed' \subseteq Source
    BY DEF EndPoll, WatchPC
  <2> QED  BY <2>1 DEF IndInv, TypeOK, diskVars
<1>2. TableOrdered' /\ RowsInv' /\ SlotInv'
  BY DEF IndInv, TableOrdered, RowsInv, SlotInv, First
<1>3. ScanInv' /\ PlanInv' /\ StepInv'
  BY DEF EndPoll, ScanInv, PlanInv, StepInv
<1>4. AbsentInv'
  BY DEF AbsentInv, EndPoll
<1> QED  BY <1>1, <1>2, <1>3, <1>4 DEF IndInv

\* The editor, the beginning of a poll and its snapshot: none touches table,
\* slots or plan.
LEMMA DiskInd ==
    ASSUME IndInv,
           \/ \E f \in Source, content \in Content : Edit(f, content)
           \/ WatchBegin \/ WatchSnapshot
    PROVE  IndInv'
<1>1. CASE \E f \in Source, content \in Content : Edit(f, content)
  <2>1. PICK f \in Source, content \in Content : Edit(f, content)
    BY <1>1
  <2>2. UNCHANGED <<table, slots, wpc, seen, changed, desired, checks, swaps,
                    toAdd, toRemove, row>>
    BY <2>1 DEF Edit
  <2>3. had \in [Source -> SUBSET Content]  BY DEF IndInv, TypeOK
  <2>4. /\ had' \in [Source -> SUBSET Content]
        /\ \A g \in Source : had[g] \subseteq had'[g]
    BY <2>1, <2>3 DEF Edit
  <2>5. TypeOK'
    <3>1. edits' \in 0 .. MaxEdits
      BY <2>1, ReconcileAssumption DEF Edit, IndInv, TypeOK
    <3>2. disk' \in [Source -> Content]
      BY <2>1 DEF Edit, IndInv, TypeOK
    <3> QED  BY <2>2, <2>4, <3>1, <3>2 DEF IndInv, TypeOK
  <2>6. TableOrdered' /\ RowsInv' /\ SlotInv' /\ ScanInv' /\ PlanInv' /\ StepInv'
    BY <2>2 DEF IndInv, TableOrdered, RowsInv, SlotInv, First, ScanInv, PlanInv, StepInv
  <2>7. AbsentInv'
    BY <2>2, <2>4 DEF IndInv, AbsentInv
  <2> QED  BY <2>5, <2>6, <2>7 DEF IndInv
<1>2. CASE WatchBegin \/ WatchSnapshot
  <2>1. /\ wpc \in {"idle", "snapshot"} /\ wpc' \in {"idle", "snapshot", "scan"}
        /\ UNCHANGED <<table, slots, diskVars, desired, checks, swaps, toAdd,
                       toRemove, row>>
    BY <1>2 DEF WatchBegin, WatchSnapshot
  <2>2. /\ disk \in [Source -> Content]
        /\ seen \in [Source -> Exports \cup {Absent}]
        /\ changed \subseteq Source
    BY DEF IndInv, TypeOK
  <2>3. /\ seen' \in [Source -> Exports \cup {Absent}]
        /\ changed' \subseteq Source
        /\ had' \in [Source -> SUBSET Content]
    <3>1. CASE WatchBegin  BY <2>2, <3>1 DEF WatchBegin
    <3>2. CASE WatchSnapshot
      <4>1. PICK read :
              LET complete == \A f \in Source : read[f] # Garbled IN
              /\ seen' = [f \in Source |-> IF read[f] \in Exports THEN read[f]
                                           ELSE IF complete THEN Absent
                                           ELSE seen[f]]
              /\ changed' \subseteq Source
              /\ had' = [f \in Source |-> IF complete THEN {disk[f]} ELSE {}]
        BY <3>2 DEF WatchSnapshot
      <4> QED  BY <2>2, <4>1
    <3> QED  BY <1>2, <3>1, <3>2
  <2>4. TypeOK'
    BY <2>1, <2>3 DEF IndInv, TypeOK, diskVars, WatchPC
  <2>5. TableOrdered' /\ RowsInv' /\ SlotInv' /\ ScanInv' /\ PlanInv' /\ StepInv'
    BY <2>1 DEF IndInv, TableOrdered, RowsInv, SlotInv, First, ScanInv, PlanInv, StepInv
  <2>6. AbsentInv'
    BY <2>1 DEF IndInv, AbsentInv
  <2> QED  BY <2>4, <2>5, <2>6 DEF IndInv
<1> QED  BY <1>1, <1>2

\* The scan.  A source the walk did not come back with was absent for a time.
LEMMA ScanInd ==
    ASSUME IndInv, WatchScan
    PROVE  IndInv'
<1>1. CASE ScanFails
  BY <1>1, EndInd DEF ScanFails
<1>2. ASSUME NEW found \in Walks, NEW s \in scan(found), Scanned(found, s),
             wpc = "scan", \A f \in found : Supported(f), wpc' = "compare",
             UNCHANGED <<table, slots, diskVars, had, seen, changed, swaps, row>>
      PROVE  IndInv'
  <2>1. found \in SUBSET Source /\ \A f \in Source : f \notin found => Absent \in had[f]
    BY DEF Walks
  <2>2. /\ s \in Seq(Source)
        /\ \A i \in DOMAIN s : s[i] \in found
        /\ \A f \in found : \E i \in DOMAIN s : s[i] = f
    BY <2>1, ScanFacts
  <2>3. /\ desired' = s
        /\ toAdd' = Served(found) \ PathsOf(table)
        /\ toRemove' = PathsOf(table) \ Served(found)
        /\ checks' \subseteq DOMAIN s
        /\ \A i \in checks' : url_path_for(s[i]) \in PathsOf(table)
    BY <1>2 DEF Scanned
  <2>4. Served(found) \subseteq Path /\ PathsOf(table) \subseteq Path
    <3>1. \A i \in DOMAIN table : table[i] \in Rows  BY DEF IndInv, TypeOK
    <3>2. \A i \in DOMAIN table : table[i].path \in Path  BY <3>1 DEF Rows
    <3> QED  BY <2>1, <3>2 DEF Served, Path, PathsOf
  <2>5. TypeOK'
    BY <1>2, <2>2, <2>3, <2>4 DEF IndInv, TypeOK, diskVars, WatchPC
  <2>6. TableOrdered' /\ RowsInv' /\ SlotInv'
    BY <1>2 DEF IndInv, TableOrdered, RowsInv, SlotInv, First
  <2>7. ScanInv'
    <3>1. \A i \in DOMAIN s : Supported(s[i])  BY <1>2, <2>2
    <3>2. \A p \in toAdd' : \E i \in DOMAIN s : url_path_for(s[i]) = p
      BY <2>2, <2>3 DEF Served
    <3> QED  BY <1>2, <2>3, <3>1, <3>2 DEF ScanInv
  <2>8. PlanInv'  BY <1>2, <2>3 DEF PlanInv
  <2>9. StepInv'  BY <1>2 DEF IndInv, StepInv
  <2>10. AbsentInv'
    <3>1. \A f \in Source : url_path_for(f) \in toRemove' => f \notin found
      BY <2>3 DEF Served
    <3> QED  BY <1>2, <2>1, <3>1 DEF AbsentInv
  <2> QED  BY <2>5, <2>6, <2>7, <2>8, <2>9, <2>10 DEF IndInv
<1> QED  BY <1>1, <1>2 DEF WatchScan

\* The comparison of a same-path source with its row.
LEMMA CompareInd ==
    ASSUME IndInv, WatchCompare
    PROVE  IndInv'
<1>1. PICK k : k = Min(checks)  OBVIOUS
<1>2. PICK f : f = desired[k]  OBVIOUS
<1>3. /\ wpc = "compare" /\ k \in checks /\ k \in DOMAIN desired
  <2>1. checks \in SUBSET Nat /\ checks \subseteq DOMAIN desired
    BY DEF IndInv, TypeOK
  <2>2. wpc = "compare" /\ checks # {}  BY DEF WatchCompare
  <2> QED  BY <1>1, <2>1, <2>2, MinIsLeast
<1>4. f \in Source /\ Supported(f) /\ url_path_for(f) \in PathsOf(table)
  BY <1>2, <1>3 DEF IndInv, TypeOK, ScanInv
<1>5. CASE PrepareFails(f)
  BY <1>5, EndInd DEF PrepareFails
<1>6. ASSUME NEW old, NEW new,
             old = get_by_path(table, url_path_for(f)), new = Row(f, disk[f]),
             Prepares(f),
             swaps' = IF old = new THEN swaps
                      ELSE Append(swaps, [old |-> old, new |-> new]),
             checks' = checks \ {k},
             UNCHANGED <<table, slots, diskVars, wpc, had, seen, changed, desired,
                         toAdd, toRemove, row>>
      PROVE  IndInv'
  <2>1. disk[f] \in Exports
    BY <1>4, <1>6 DEF Prepares, IndInv, TypeOK, Content
  <2>2. new \in GoodRows /\ new \in Rows /\ new.path = url_path_for(f)
    BY <1>4, <1>6, <2>1, RowFacts, GoodIsRow
  <2>3. PICK i \in DOMAIN table : old = table[i] /\ table[i].path = url_path_for(f)
    <3>1. table \in Seq(Rows)  BY DEF IndInv, TypeOK
    <3> QED  BY <1>4, <1>6, <3>1, GetFacts
  <2>4. old \in Rows /\ old.path = new.path
    BY <2>2, <2>3 DEF IndInv, TypeOK
  <2>5. PICK pair : pair = [old |-> old, new |-> new]  OBVIOUS
  <2>6. /\ pair \in [old : Rows, new : Rows]
        /\ pair.old.path = pair.new.path /\ pair.new \in GoodRows
    BY <2>2, <2>4, <2>5
  <2>7. swaps \in Seq([old : Rows, new : Rows])  BY DEF IndInv, TypeOK
  <2>8. swaps' = swaps \/ swaps' = Append(swaps, pair)  BY <1>6, <2>5
  <2>9. swaps' \in Seq([old : Rows, new : Rows])
    <3>1. PICK Pair : Pair = [old : Rows, new : Rows]  OBVIOUS
    <3>2. swaps \in Seq(Pair) /\ pair \in Pair  BY <2>6, <2>7, <3>1
    <3>3. swaps' \in Seq(Pair)  BY <2>8, <3>2
    <3> QED  BY <3>1, <3>3
  <2>10. TypeOK'
    BY <1>6, <2>9 DEF IndInv, TypeOK, diskVars
  <2>11. TableOrdered' /\ RowsInv' /\ SlotInv' /\ ScanInv' /\ PlanInv'
    BY <1>6 DEF IndInv, TableOrdered, RowsInv, SlotInv, First, ScanInv, PlanInv
  <2>12. StepInv'
    <3>1. \A j \in DOMAIN swaps' : /\ swaps'[j].old.path = swaps'[j].new.path
                                   /\ swaps'[j].new \in GoodRows
      <4>1. \A j \in DOMAIN swaps : /\ swaps[j].old.path = swaps[j].new.path
                                    /\ swaps[j].new \in GoodRows
        BY DEF IndInv, StepInv
      <4>2. CASE swaps' = Append(swaps, pair)
        <5>1. \A j \in DOMAIN Append(swaps, pair) :
                 \/ j \in DOMAIN swaps /\ Append(swaps, pair)[j] = swaps[j]
                 \/ Append(swaps, pair)[j] = pair
          BY <2>6, <2>7
        <5> QED  BY <2>6, <4>1, <4>2, <5>1
      <4> QED  BY <2>8, <4>1, <4>2
    <3> QED  BY <1>3, <1>6, <3>1 DEF StepInv
  <2>13. AbsentInv'
    BY <1>6 DEF IndInv, AbsentInv
  <2> QED  BY <2>10, <2>11, <2>12, <2>13 DEF IndInv
<1> QED
  <2>1. \/ PrepareFails(f)
        \/ /\ Prepares(f)
           /\ swaps' = IF get_by_path(table, url_path_for(f)) = Row(f, disk[f])
                       THEN swaps
                       ELSE Append(swaps, [old |-> get_by_path(table, url_path_for(f)),
                                           new |-> Row(f, disk[f])])
           /\ checks' = checks \ {k}
           /\ UNCHANGED <<table, slots, diskVars, wpc, had, seen, changed, desired,
                          toAdd, toRemove, row>>
    BY <1>1, <1>2 DEF WatchCompare
  <2> QED  BY <1>5, <1>6, <2>1

\* Nothing left to compare: the differences are applied.
LEMMA ComparedInd ==
    ASSUME IndInv, WatchCompared
    PROVE  IndInv'
<1>1. /\ wpc = "compare" /\ wpc' = "apply"
      /\ UNCHANGED <<table, slots, diskVars, had, seen, changed, desired, checks, swaps,
                     toAdd, toRemove, row>>
  BY DEF WatchCompared
<1>2. TypeOK'  BY <1>1 DEF IndInv, TypeOK, diskVars, WatchPC
<1>3. TableOrdered' /\ RowsInv' /\ SlotInv'
  BY <1>1 DEF IndInv, TableOrdered, RowsInv, SlotInv, First
<1>4. ScanInv' /\ PlanInv' /\ StepInv'
  BY <1>1 DEF IndInv, ScanInv, PlanInv, StepInv
<1>5. AbsentInv'  BY <1>1 DEF IndInv, AbsentInv
<1> QED  BY <1>2, <1>3, <1>4, <1>5 DEF IndInv

\* An addition: first the slots.
LEMMA RegisterInd ==
    ASSUME IndInv, NEW path \in Path, WatchRegister(path)
    PROVE  IndInv'
<1>1. PICK f : f = first_of(desired, path)  OBVIOUS
<1>2. /\ wpc = "apply" /\ path \in toAdd
      /\ \/ PrepareFails(f)
         \/ /\ Prepares(f)
            /\ row' = Row(f, disk[f])
            /\ slots' = slots \cup SlotsOf(row')
            /\ wpc' = "publish"
            /\ UNCHANGED <<table, diskVars, had, seen, changed, desired, checks, swaps,
                           toAdd, toRemove>>
  BY <1>1 DEF WatchRegister
<1>3. f \in Source /\ Supported(f) /\ url_path_for(f) = path
  <2>1. desired \in Seq(Source) /\ \E i \in DOMAIN desired : url_path_for(desired[i]) = path
    BY <1>2 DEF IndInv, TypeOK, ScanInv
  <2>2. PICK i \in DOMAIN desired : f = desired[i] /\ url_path_for(desired[i]) = path
    BY <1>1, <2>1, FirstFacts
  <2> QED  BY <2>1, <2>2 DEF IndInv, ScanInv
<1>4. CASE PrepareFails(f)
  BY <1>4, EndInd DEF PrepareFails
<1>5. CASE ~PrepareFails(f)
  <2>1. /\ Prepares(f) /\ row' = Row(f, disk[f])
        /\ slots' = slots \cup SlotsOf(row') /\ wpc' = "publish"
        /\ UNCHANGED <<table, diskVars, had, seen, changed, desired, checks, swaps,
                       toAdd, toRemove>>
    BY <1>2, <1>5
  <2>2. disk[f] \in Exports
    BY <1>3, <2>1 DEF Prepares, IndInv, TypeOK, Content
  <2>3. row' \in GoodRows /\ row' \in Rows /\ row'.path = path
    BY <1>3, <2>1, <2>2, RowFacts, GoodIsRow
  <2>4. slots' \subseteq [path : Path, method : Method]
    BY <2>1, <2>3, SlotsType DEF IndInv, TypeOK
  <2>5. TypeOK'
    BY <2>1, <2>3, <2>4 DEF IndInv, TypeOK, diskVars, WatchPC
  <2>6. TableOrdered' /\ RowsInv' /\ SlotInv'
    BY <2>1 DEF IndInv, TableOrdered, RowsInv, SlotInv, First
  <2>7. ScanInv' /\ PlanInv'
    BY <1>2, <2>1 DEF IndInv, ScanInv, PlanInv
  <2>8. StepInv'
    BY <1>2, <2>1, <2>3 DEF IndInv, StepInv
  <2>9. AbsentInv'
    BY <1>2, <2>1 DEF IndInv, AbsentInv
  <2> QED  BY <2>5, <2>6, <2>7, <2>8, <2>9 DEF IndInv
<1> QED  BY <1>4, <1>5

\* Then the row, whose slots are there.
LEMMA PublishInd ==
    ASSUME IndInv, WatchPublish
    PROVE  IndInv'
<1>1. /\ wpc = "publish" /\ wpc' = "apply"
      /\ table' = add(table, row)
      /\ toAdd' = toAdd \ {row.path} /\ row' = None
      /\ UNCHANGED <<slots, diskVars, had, seen, changed, desired, checks, swaps,
                     toRemove>>
  BY DEF WatchPublish
<1>2. row \in GoodRows /\ row.path \in toAdd /\ SlotsOf(row) \subseteq slots
  BY <1>1 DEF IndInv, StepInv
<1>3. table \in Seq(GoodRows) /\ Ordered(table) /\ row.path \notin PathsOf(table)
  BY <1>2 DEF IndInv, RowsInv, TableOrdered, Ordered, PlanInv
<1>4. /\ table' \in Seq(GoodRows)
      /\ Ordered(table')
      /\ PathsOf(table') = PathsOf(table) \cup {row.path}
      /\ \A i \in DOMAIN table' :
            First(table', i) =>
              table'[i] = row \/ \E j \in DOMAIN table : First(table, j) /\ table'[i] = table[j]
  BY <1>1, <1>2, <1>3, GoodRowSet, AddFacts
<1>5. RowsInv' /\ TableOrdered'
  BY <1>4 DEF RowsInv, TableOrdered, Ordered
<1>6. SlotInv'  BY <1>1, <1>2, <1>4 DEF IndInv, SlotInv
<1>7. TypeOK'
  <2>1. table' \in Seq(Rows)  BY <1>4, GoodIsRow
  <2> QED  BY <1>1, <2>1 DEF IndInv, TypeOK, diskVars, WatchPC
<1>8. ScanInv' /\ StepInv'  BY <1>1 DEF IndInv, ScanInv, StepInv
<1>9. PlanInv'  BY <1>1, <1>4 DEF IndInv, PlanInv
<1>10. AbsentInv'  BY <1>1 DEF IndInv, AbsentInv
<1> QED  BY <1>5, <1>6, <1>7, <1>8, <1>9, <1>10 DEF IndInv

\* A replacement: the slots of the new row,
LEMMA SwapSlotsInd ==
    ASSUME IndInv, WatchSwapSlots
    PROVE  IndInv'
<1>1. /\ wpc = "apply" /\ wpc' = "swapped" /\ swaps # <<>>
      /\ slots' = slots \cup SlotsOf(Head(swaps).new)
      /\ UNCHANGED <<table, diskVars, had, seen, changed, desired, checks, swaps, toAdd,
                     toRemove, row>>
  BY DEF WatchSwapSlots
<1>2. Head(swaps).new \in Rows
  <2>1. PICK Pair : Pair = [old : Rows, new : Rows]  OBVIOUS
  <2>2. swaps \in Seq(Pair)  BY <2>1 DEF IndInv, TypeOK
  <2>3. Head(swaps) \in Pair  BY <1>1, <2>2
  <2> QED  BY <2>1, <2>3
<1>3. slots' \subseteq [path : Path, method : Method]
  BY <1>1, <1>2, SlotsType DEF IndInv, TypeOK
<1>4. TypeOK'  BY <1>1, <1>3 DEF IndInv, TypeOK, diskVars, WatchPC
<1>5. TableOrdered' /\ RowsInv' /\ SlotInv'
  BY <1>1 DEF IndInv, TableOrdered, RowsInv, SlotInv, First
<1>6. ScanInv' /\ PlanInv' /\ StepInv'
  BY <1>1 DEF IndInv, ScanInv, PlanInv, StepInv
<1>7. AbsentInv'  BY <1>1 DEF IndInv, AbsentInv
<1> QED  BY <1>4, <1>5, <1>6, <1>7 DEF IndInv

\* the row,
LEMMA SwapRowInd ==
    ASSUME IndInv, WatchSwapRow
    PROVE  IndInv'
<1>1. /\ wpc = "swapped" /\ wpc' = "dropMethods"
      /\ table' = replace_by_path(table, Head(swaps).new)
      /\ UNCHANGED <<slots, diskVars, had, seen, changed, desired, checks, swaps, toAdd,
                     toRemove, row>>
  BY DEF WatchSwapRow
<1>2. PICK new : new = Head(swaps).new  OBVIOUS
<1>3. new \in GoodRows /\ SlotsOf(new) \subseteq slots /\ swaps # <<>>
  BY <1>1, <1>2 DEF IndInv, TypeOK, StepInv
<1>4. table \in Seq(GoodRows) /\ Ordered(table)
  BY DEF IndInv, RowsInv, TableOrdered, Ordered
<1>5. /\ table' \in Seq(GoodRows)
      /\ Ordered(table')
      /\ PathsOf(table') = PathsOf(table)
      /\ \A i \in DOMAIN table' : First(table', i) =>
            \/ table'[i] = new
            \/ /\ i \in DOMAIN table /\ First(table, i)
               /\ table'[i] = table[i] /\ table[i].path # new.path
  <2>1. table' = replace_by_path(table, new)  BY <1>1, <1>2
  <2> HIDE DEF GoodRows
  <2> QED  BY <2>1, <1>3, <1>4, GoodRowSet, ReplaceFacts
<1>6. RowsInv' /\ TableOrdered'
  BY <1>5 DEF RowsInv, TableOrdered, Ordered
<1>7. SlotInv'  BY <1>1, <1>3, <1>5 DEF IndInv, SlotInv
<1>8. TypeOK'
  <2>1. table' \in Seq(Rows)  BY <1>5, GoodIsRow
  <2> QED  BY <1>1, <2>1 DEF IndInv, TypeOK, diskVars, WatchPC
<1>9. ScanInv' /\ PlanInv'  BY <1>1, <1>5 DEF IndInv, ScanInv, PlanInv
<1>10. StepInv'
  <2>1. \A i \in DOMAIN table' :
           First(table', i) /\ table'[i].path = new.path => table'[i] = new
    BY <1>5
  <2> QED  BY <1>1, <1>2, <1>3, <2>1 DEF IndInv, StepInv
<1>11. AbsentInv'  BY <1>1 DEF IndInv, AbsentInv
<1> QED  BY <1>6, <1>7, <1>8, <1>9, <1>10, <1>11 DEF IndInv

\* and the slots of the methods it lost, which no row needs.
LEMMA DropMethodsInd ==
    ASSUME IndInv, WatchDropMethods
    PROVE  IndInv'
<1>1. /\ wpc = "dropMethods" /\ wpc' = "apply"
      /\ slots' = slots \ (SlotsOf(Head(swaps).old) \ SlotsOf(Head(swaps).new))
      /\ swaps' = Tail(swaps)
      /\ UNCHANGED <<table, diskVars, had, seen, changed, desired, checks, toAdd,
                     toRemove, row>>
  BY DEF WatchDropMethods
<1>2. PICK old, new : old = Head(swaps).old /\ new = Head(swaps).new  OBVIOUS
<1>3. /\ swaps \in Seq([old : Rows, new : Rows]) /\ swaps # <<>>
      /\ old.path = new.path /\ SlotsOf(new) \subseteq slots
      /\ \A i \in DOMAIN table :
            First(table, i) /\ table[i].path = new.path => table[i] = new
  <2>1. swaps \in Seq([old : Rows, new : Rows]) /\ swaps # <<>>
    BY <1>1 DEF IndInv, TypeOK, StepInv
  <2>2. 1 \in DOMAIN swaps /\ Head(swaps) = swaps[1]  BY <2>1
  <2> QED  BY <1>1, <1>2, <2>1, <2>2 DEF IndInv, StepInv
<1>4. /\ swaps' \in Seq([old : Rows, new : Rows])
      /\ \A i \in DOMAIN swaps' : i + 1 \in DOMAIN swaps /\ swaps'[i] = swaps[i + 1]
  BY <1>1, <1>3
<1>5. ASSUME NEW i \in DOMAIN table, First(table, i)
      PROVE  SlotsOf(table[i]) \subseteq slots'
  <2>1. SlotsOf(table[i]) \subseteq slots  BY <1>5 DEF IndInv, SlotInv
  <2>2. CASE table[i].path = new.path  BY <1>1, <1>2, <1>3, <1>5, <2>1, <2>2
  <2>3. CASE table[i].path # new.path
    <3>1. \A x \in SlotsOf(table[i]) : x.path # new.path  BY <2>3 DEF SlotsOf
    <3>2. \A x \in SlotsOf(old) : x.path = new.path  BY <1>3 DEF SlotsOf
    <3> QED  BY <1>1, <1>2, <2>1, <3>1, <3>2
  <2> QED  BY <2>2, <2>3
<1>6. TypeOK'
  <2>1. slots' \subseteq [path : Path, method : Method]
    BY <1>1 DEF IndInv, TypeOK
  <2> QED  BY <1>1, <1>4, <2>1 DEF IndInv, TypeOK, diskVars, WatchPC
<1>7. TableOrdered' /\ RowsInv' /\ SlotInv'
  BY <1>1, <1>5 DEF IndInv, TableOrdered, RowsInv, SlotInv, First
<1>8. ScanInv' /\ PlanInv'  BY <1>1 DEF IndInv, ScanInv, PlanInv
<1>9. StepInv'  BY <1>1, <1>4 DEF IndInv, StepInv
<1>10. AbsentInv'  BY <1>1 DEF IndInv, AbsentInv
<1> QED  BY <1>6, <1>7, <1>8, <1>9, <1>10 DEF IndInv

\* A removal: first the row,
LEMMA UnrouteInd ==
    ASSUME IndInv, NEW path \in Path, WatchUnroute(path)
    PROVE  IndInv'
<1>1. /\ wpc = "apply" /\ wpc' = "unregister"
      /\ toAdd = {} /\ swaps = <<>> /\ path \in toRemove
      /\ table' = remove_by_path(table, path)
      /\ UNCHANGED <<slots, diskVars, had, seen, changed, desired, checks, swaps, toAdd,
                     toRemove, row>>
  BY DEF WatchUnroute
<1>2. table \in Seq(GoodRows) /\ Ordered(table)
  BY DEF IndInv, RowsInv, TableOrdered, Ordered
<1>3. /\ table' \in Seq(GoodRows)
      /\ Ordered(table')
      /\ PathsOf(table') = PathsOf(table) \ {path}
      /\ \A i \in DOMAIN table' : First(table', i) =>
            \E j \in DOMAIN table : First(table, j) /\ table'[i] = table[j]
  BY <1>1, <1>2, RemoveFacts
<1>4. RowsInv' /\ TableOrdered'
  BY <1>3 DEF RowsInv, TableOrdered, Ordered
<1>5. SlotInv'  BY <1>1, <1>3 DEF IndInv, SlotInv
<1>6. TypeOK'
  <2>1. table' \in Seq(Rows)  BY <1>3, GoodIsRow
  <2> QED  BY <1>1, <2>1 DEF IndInv, TypeOK, diskVars, WatchPC
<1>7. ScanInv' /\ StepInv'  BY <1>1 DEF IndInv, ScanInv, StepInv
<1>8. PlanInv'  BY <1>1, <1>3 DEF IndInv, PlanInv
<1>9. AbsentInv'  BY <1>1 DEF IndInv, AbsentInv
<1> QED  BY <1>4, <1>5, <1>6, <1>7, <1>8, <1>9 DEF IndInv

\* then the slots of its path, which no row has any more.
LEMMA UnregisterInd ==
    ASSUME IndInv, WatchUnregister
    PROVE  IndInv'
<1>1. PICK path : path = CHOOSE p \in toRemove : p \notin PathsOf(table)  OBVIOUS
<1>2. /\ wpc = "unregister" /\ wpc' = "apply"
      /\ slots' = {s \in slots : s.path # path}
      /\ toRemove' = toRemove \ {path}
      /\ UNCHANGED <<table, diskVars, had, seen, changed, desired, checks, swaps, toAdd,
                     row>>
  BY <1>1 DEF WatchUnregister
<1>3. PICK p \in toRemove : p \notin PathsOf(table) /\ toRemove \ {p} \subseteq PathsOf(table)
  BY <1>2 DEF IndInv, PlanInv
<1>4. path \in toRemove /\ path \notin PathsOf(table) /\ path = p
  BY <1>1, <1>3
<1>5. TypeOK'  BY <1>2 DEF IndInv, TypeOK, diskVars, WatchPC
<1>6. SlotInv'
  <2>1. SUFFICES ASSUME NEW i \in DOMAIN table, First(table, i),
                        NEW x \in SlotsOf(table[i])
                 PROVE  x \in slots'
    BY <1>2 DEF SlotInv, First
  <2>2. x \in slots /\ x.path = table[i].path  BY <2>1 DEF IndInv, SlotInv, SlotsOf
  <2>3. table[i].path # path  BY <1>4 DEF PathsOf
  <2> QED  BY <1>2, <2>2, <2>3
<1>7. TableOrdered' /\ RowsInv'
  BY <1>2 DEF IndInv, TableOrdered, RowsInv
<1>8. ScanInv' /\ StepInv'  BY <1>2 DEF IndInv, ScanInv, StepInv
<1>9. PlanInv'  BY <1>2, <1>3, <1>4 DEF IndInv, PlanInv
<1>10. AbsentInv'  BY <1>2 DEF IndInv, AbsentInv
<1> QED  BY <1>5, <1>6, <1>7, <1>8, <1>9, <1>10 DEF IndInv

\* Every step keeps the invariant.
LEMMA NextInd ==
    ASSUME IndInv, [Next]_vars
    PROVE  IndInv'
<1>1. CASE UNCHANGED vars
  BY <1>1 DEF vars, diskVars, watchVars, IndInv, TypeOK, TableOrdered, RowsInv,
              SlotInv, ScanInv, PlanInv, StepInv, AbsentInv
<1>2. CASE \E f \in Source, content \in Content : Edit(f, content)
  BY <1>2, DiskInd
<1>3. CASE Watch
  <2>1. CASE WatchBegin \/ WatchSnapshot  BY <2>1, DiskInd
  <2>2. CASE WatchScan  BY <2>2, ScanInd
  <2>3. CASE WatchCompare  BY <2>3, CompareInd
  <2>4. CASE WatchCompared  BY <2>4, ComparedInd
  <2>5. ASSUME NEW path \in Path, WatchRegister(path) PROVE IndInv'
    BY <2>5, RegisterInd
  <2>6. ASSUME NEW path \in Path, WatchUnroute(path) PROVE IndInv'
    BY <2>6, UnrouteInd
  <2>7. CASE WatchPublish  BY <2>7, PublishInd
  <2>8. CASE WatchSwapSlots  BY <2>8, SwapSlotsInd
  <2>9. CASE WatchSwapRow  BY <2>9, SwapRowInd
  <2>10. CASE WatchDropMethods  BY <2>10, DropMethodsInd
  <2>11. CASE WatchUnregister  BY <2>11, UnregisterInd
  <2>12. CASE WatchEnd  BY <2>12, EndInd DEF WatchEnd
  <2> QED  BY <1>3, <2>1, <2>2, <2>3, <2>4, <2>5, <2>6, <2>7, <2>8, <2>9, <2>10,
              <2>11, <2>12 DEF Watch
<1> QED  BY <1>1, <1>2, <1>3 DEF Next

-----------------------------------------------------------------------------

\* Only the first half of a removal takes a path out of the table, and that
\* path is one the scan did not find: additions and replacements keep all.
LEMMA RemovalStep ==
    ASSUME IndInv, [Next]_vars
    PROVE  [\A f \in Source :
               url_path_for(f) \in PathsOf(table) \ PathsOf(table') => Absent \in had[f]]_vars
<1>1. table \in Seq(GoodRows) /\ Ordered(table)
  BY DEF IndInv, RowsInv, TableOrdered, Ordered
<1>2. CASE table' = table  BY <1>2
<1>3. CASE WatchPublish
  <2>1. wpc = "publish" /\ table' = add(table, row)  BY <1>3 DEF WatchPublish
  <2>2. row \in GoodRows /\ row.path \notin PathsOf(table)
    BY <2>1 DEF IndInv, StepInv, PlanInv
  <2>3. PathsOf(table') = PathsOf(table) \cup {row.path}
    <3> HIDE DEF GoodRows
    <3> QED  BY <1>1, <2>1, <2>2, GoodRowSet, AddFacts
  <2> QED  BY <2>3
<1>4. CASE WatchSwapRow
  <2>1. PICK new : new = Head(swaps).new  OBVIOUS
  <2>2. wpc = "swapped" /\ table' = replace_by_path(table, new)
    BY <1>4, <2>1 DEF WatchSwapRow
  <2>3. new \in GoodRows  BY <2>1, <2>2 DEF IndInv, TypeOK, StepInv
  <2>4. PathsOf(table') = PathsOf(table)
    <3> HIDE DEF GoodRows
    <3> QED  BY <1>1, <2>2, <2>3, GoodRowSet, ReplaceFacts
  <2> QED  BY <2>4
<1>5. ASSUME NEW path \in Path, WatchUnroute(path)
      PROVE  \A f \in Source :
                url_path_for(f) \in PathsOf(table) \ PathsOf(table') => Absent \in had[f]
  <2>1. path \in toRemove /\ table' = remove_by_path(table, path)
    BY <1>5 DEF WatchUnroute
  <2>2. \A f \in Source : url_path_for(f) = path => Absent \in had[f]
    BY <2>1 DEF IndInv, AbsentInv
  <2>3. PathsOf(table') = PathsOf(table) \ {path}  BY <1>1, <2>1, RemoveFacts
  <2> QED  BY <2>2, <2>3
<1>6. \/ table' = table \/ WatchPublish \/ WatchSwapRow
      \/ \E path \in Path : WatchUnroute(path)
  BY DEF Next, Watch, vars, Edit, WatchBegin, WatchSnapshot, WatchScan, ScanFails, WatchCompare,
         PrepareFails, WatchCompared, WatchRegister, WatchSwapSlots, WatchDropMethods,
         WatchUnregister, WatchEnd
<1> QED  BY <1>2, <1>3, <1>4, <1>5, <1>6

\* Every reachable state satisfies the inductive invariant.
THEOREM Invariance == Spec => []IndInv
<1>1. IndInv /\ [Next]_vars => IndInv'  BY NextInd
<1> QED  BY InitInd, <1>1, PTL DEF Spec

\* The watcher's work lists, the table and the slots keep their types.
THEOREM TypeCorrect == Spec => []TypeOK
<1>1. IndInv => TypeOK  BY DEF IndInv
<1> QED  BY Invariance, <1>1, PTL

\* TableOrdered: whatever files come and go, the rows stay sorted by URL path,
\* and only a path that boot found two sources of has two.
THEOREM TableStaysOrdered == Spec => []TableOrdered
<1>1. IndInv => TableOrdered  BY DEF IndInv
<1> QED  BY Invariance, <1>1, PTL

\* DispatchHasSlot: at every moment of a reconciliation, a route that
\* lookup_named finds has its slot in the page registry.
THEOREM DispatchFindsSlot == Spec => []DispatchHasSlot
<1> QED  BY Invariance, DispatchFollows, PTL

\* LookupPrecedence: a row of the request's own names answers, and a matching
\* row with a single parameter is not beaten by a catch-all, for every table
\* and request path.
THEOREM LookupKeepsPrecedence == Spec => []LookupPrecedence
<1> QED  BY Invariance, LookupFollows, PTL

\* RemovedOnlyIfAbsent: a path leaves the table only if each of its sources
\* was absent for some time while the scan that plans it walked the tree.
THEOREM RemovalsAreJustified == Spec => RemovedOnlyIfAbsent
<1>1. IndInv /\ [Next]_vars =>
        [\A f \in Source :
            url_path_for(f) \in PathsOf(table) \ PathsOf(table') => Absent \in had[f]]_vars
  BY RemovalStep
<1> QED  BY Invariance, <1>1, PTL DEF Spec, RemovedOnlyIfAbsent

\* RouteTable::add is never called with a path the table has, so its
\* duplicate-path error, which would end the poll with the slots registered,
\* cannot be returned.
THEOREM NoDuplicateAdd ==
    Spec => [](wpc = "publish" => row.path \notin PathsOf(table))
<1>1. IndInv => (wpc = "publish" => row.path \notin PathsOf(table))
  BY DEF IndInv, StepInv, PlanInv
<1> QED  BY Invariance, <1>1, PTL
=============================================================================
