------------------------- MODULE DeadlockDetectorProofs -------------------------
(***************************************************************************)
(* Proofs about LockManager and DeadlockDetector, for any sets of          *)
(* transactions and tables.  The pure functions of one LockEntry come      *)
(* first (what regrant_heads, grant and the removal of a waiter do to any  *)
(* granted map and any queue), then the invariant of the table of entries, *)
(* then the composed system: the detector implements LockManager, so that  *)
(* every theorem about it carries over; no wakeup of a row waiter or of a  *)
(* victim is lost; and no torn snapshot makes a victim of a session that   *)
(* is in no deadlock.                                                      *)
(***************************************************************************)
EXTENDS DeadlockDetector, TLAPS, WellFoundedInduction

Grants == [Xids -> Modes \cup {Unlocked}]

\* Sequences, as the provers know them.
LEMMA Elements ==
    ASSUME NEW A, NEW q \in Seq(A)
    PROVE  Len(q) \in Nat /\ \A i \in 1..Len(q) : q[i] \in A
OBVIOUS

LEMMA NonEmpty ==
    ASSUME NEW A
    PROVE  <<>> \in Seq(A) /\ Len(<<>>) = 0 /\ \A q \in Seq(A) : q # <<>> => Len(q) >= 1
OBVIOUS

LEMMA Pushed ==
    ASSUME NEW A, NEW q \in Seq(A), NEW w \in A
    PROVE  LET r == Append(q, w) IN
           /\ r \in Seq(A) /\ r # <<>> /\ Len(r) = Len(q) + 1 /\ r[Len(q) + 1] = w
           /\ \A i \in 1..Len(q) : r[i] = q[i]
OBVIOUS

LEMMA Sliced ==
    ASSUME NEW A, NEW q, NEW a \in Int, NEW b \in Int, \A i \in a..b : q[i] \in A
    PROVE  LET r == SubSeq(q, a, b) IN
           /\ r \in Seq(A) /\ Len(r) = (IF a <= b THEN b - a + 1 ELSE 0)
           /\ \A i \in 1..(b - a + 1) : r[i] = q[a + i - 1]
OBVIOUS

LEMMA Joined ==
    ASSUME NEW A, NEW q \in Seq(A), NEW r \in Seq(A)
    PROVE  /\ q \o r \in Seq(A) /\ Len(q \o r) = Len(q) + Len(r)
           /\ \A i \in 1..(Len(q) + Len(r)) :
                (q \o r)[i] = IF i <= Len(q) THEN q[i] ELSE r[i - Len(q)]
OBVIOUS

\* The fields of the waiters of a queue.
LEMMA WaiterFields ==
    ASSUME NEW q \in Seq(Waiter)
    PROVE  \A i \in 1..Len(q) : q[i].xid \in Xids /\ q[i].mode \in Modes
  <1>1. \A i \in 1..Len(q) : q[i] \in Waiter
    BY Zenon, Elements
  <1>2. QED
    BY Zenon, <1>1 DEF Waiter

\* retain(|w| w.xid != x) drops x's request, keeps the others and their order.
LEMMA RetainFacts ==
    ASSUME NEW q \in Seq(Waiter), NEW x \in Xids, NoDuplicates(q)
    PROVE  /\ Retain(q, x) \in Seq(Waiter)
           /\ NoDuplicates(Retain(q, x))
           /\ ~IsQueued(Retain(q, x), x)
           /\ \A i \in 1..Len(Retain(q, x)) :
                \E j \in 1..Len(q) : Retain(q, x)[i] = q[j] /\ i <= j /\ j <= i + 1
           /\ \A j \in 1..Len(q) : q[j].xid # x =>
                \E i \in 1..Len(Retain(q, x)) : Retain(q, x)[i] = q[j] /\ i <= j /\ j <= i + 1
  <1> DEFINE r == Retain(q, x)
  <1>1. CASE ~IsQueued(q, x)
    BY <1>1 DEF Retain, IsQueued
  <1>2. CASE IsQueued(q, x)
    <2> DEFINE p == PositionOf(q, x)
    <2>1. p \in 1..Len(q) /\ q[p].xid = x
      BY Zenon, <1>2 DEF IsQueued, PositionOf
    <2>2. r = SubSeq(q, 1, p - 1) \o SubSeq(q, p + 1, Len(q))
      BY Zenon, <1>2 DEF Retain
    <2> HIDE DEF p, r
    <2>3. /\ SubSeq(q, 1, p - 1) \in Seq(Waiter)
          /\ Len(SubSeq(q, 1, p - 1)) = p - 1
          /\ \A i \in 1..(p - 1) : SubSeq(q, 1, p - 1)[i] = q[i]
      <3>1. \A i \in 1..(p - 1) : q[i] \in Waiter
        BY <2>1, Elements
      <3>2. QED
        BY <2>1, <3>1, Sliced
    <2>4. /\ SubSeq(q, p + 1, Len(q)) \in Seq(Waiter)
          /\ Len(SubSeq(q, p + 1, Len(q))) = Len(q) - p
          /\ \A i \in 1..(Len(q) - p) : SubSeq(q, p + 1, Len(q))[i] = q[p + i]
      <3>1. \A i \in (p + 1)..Len(q) : q[i] \in Waiter
        BY <2>1, Elements
      <3>2. QED
        BY <2>1, <3>1, Sliced
    <2>5. /\ r \in Seq(Waiter)
          /\ Len(r) = Len(q) - 1
          /\ \A i \in 1..Len(r) : r[i] = IF i < p THEN q[i] ELSE q[i + 1]
      <3> DEFINE a == SubSeq(q, 1, p - 1)
                 b == SubSeq(q, p + 1, Len(q))
      <3>1. a \in Seq(Waiter) /\ b \in Seq(Waiter)
        BY Zenon, <2>3, <2>4
      <3>2. /\ Len(a) = p - 1
            /\ Len(b) = Len(q) - p
            /\ \A i \in 1..(p - 1) : a[i] = q[i]
            /\ \A i \in 1..(Len(q) - p) : b[i] = q[p + i]
        BY Zenon, <2>3, <2>4
      <3>3. r = a \o b
        BY Zenon, <2>2
      <3> HIDE DEF a, b
      <3>4. /\ r \in Seq(Waiter)
            /\ Len(r) = Len(a) + Len(b)
            /\ \A i \in 1..(Len(a) + Len(b)) :
                 r[i] = IF i <= Len(a) THEN a[i] ELSE b[i - Len(a)]
        BY Zenon, <3>1, <3>3, Joined
      <3>5. Len(r) = Len(q) - 1
        BY <2>1, <3>2, <3>4
      <3>6. ASSUME NEW i \in 1..Len(r)
            PROVE  r[i] = IF i < p THEN q[i] ELSE q[i + 1]
        <4>1. CASE i < p
          BY <4>1, <2>1, <3>2, <3>4
        <4>2. CASE ~(i < p)
          <5>1. i - (p - 1) \in 1..(Len(q) - p)
            BY <4>2, <2>1, <3>5
          <5>2. b[i - (p - 1)] = q[p + (i - (p - 1))]
            BY Zenon, <5>1, <3>2
          <5>3. p + (i - (p - 1)) = i + 1
            BY <2>1
          <5>4. r[i] = b[i - (p - 1)]
            BY <4>2, <2>1, <3>2, <3>4
          <5>5. QED
            BY Zenon, <4>2, <5>2, <5>3, <5>4
        <4>3. QED
          BY Zenon, <4>1, <4>2
      <3>7. QED
        BY Zenon, <3>4, <3>5, <3>6
    <2>6. ASSUME NEW i \in 1..Len(r)
          PROVE  \E j \in 1..Len(q) : r[i] = q[j] /\ j # p /\ i <= j /\ j <= i + 1
      <3>1. CASE i < p
        <4>1. i \in 1..Len(q) /\ r[i] = q[i] /\ i # p /\ i <= i /\ i <= i + 1
          BY <3>1, <2>1, <2>5
        <4>2. QED
          BY Zenon, <4>1
      <3>2. CASE ~(i < p)
        <4>1. i + 1 \in 1..Len(q) /\ r[i] = q[i + 1] /\ i + 1 # p
          BY <3>2, <2>1, <2>5
        <4>2. QED
          BY <4>1
      <3>3. QED
        BY Zenon, <3>1, <3>2
    <2>7. \A j \in 1..Len(q) : j # p =>
            \E i \in 1..Len(r) : r[i] = q[j] /\ i <= j /\ j <= i + 1
      <3>1. TAKE j \in 1..Len(q)
      <3>2. CASE j < p
        BY <3>2, <2>1, <2>5
      <3>3. CASE j > p
        <4>1. j - 1 \in 1..Len(r) /\ r[j - 1] = q[j]
          BY <3>3, <2>1, <2>5
        <4>2. QED
          BY <4>1
      <3>4. QED
        BY <3>2, <3>3, <2>1
    <2>8. NoDuplicates(r)
      BY <2>1, <2>5 DEF NoDuplicates
    <2>9. ~IsQueued(r, x)
      BY Zenon, <2>1, <2>6 DEF NoDuplicates, IsQueued
    <2>10. QED
      BY Zenon, <2>1, <2>5, <2>6, <2>7, <2>8, <2>9 DEF r
  <1>3. QED
    BY Zenon, <1>1, <1>2

\* The loop of regrant_heads stops: its number of grants is well defined.
LEMMA RegrantCountFacts ==
    ASSUME NEW g, NEW q \in Seq(Waiter)
    PROVE  /\ RegrantCount(g, q) \in 0..Len(q)
           /\ StopsAfter(g, q, RegrantCount(g, q))
  <1> DEFINE T == {n \in Nat : n < Len(q) /\ ~HeadGrantable(g, q, n + 1)}
  <1>1. \E n \in 0..Len(q) : StopsAfter(g, q, n)
    <2>1. CASE T = {}
      <3>1. ASSUME NEW i \in 1..Len(q)
            PROVE  HeadGrantable(g, q, i)
        <4>1. i - 1 \in Nat /\ i - 1 < Len(q) /\ (i - 1) + 1 = i
          OBVIOUS
        <4>2. QED
          BY Zenon, <4>1, <2>1
      <3>2. QED
        BY <3>1 DEF StopsAfter
    <2>2. CASE T # {}
      <3>1. PICK n \in T : \A k \in T : ~(<<k, n>> \in OpToRel(<, Nat))
        BY Zenon, <2>2, NatLessThanWellFounded, WFMin
      <3>2. \A k \in T : ~(k < n)
        BY Zenon, <3>1 DEF OpToRel
      <3>3. ASSUME NEW i \in 1..n
            PROVE  HeadGrantable(g, q, i)
        <4>1. /\ i - 1 \in Nat /\ i - 1 < n /\ (i - 1) + 1 = i
              /\ i - 1 < Len(q)
          OBVIOUS
        <4>2. i - 1 \notin T
          BY Zenon, <3>2, <4>1
        <4>3. QED
          BY Zenon, <4>1, <4>2
      <3>4. n \in 0..Len(q) /\ ~HeadGrantable(g, q, n + 1)
        OBVIOUS
      <3>5. QED
        BY Zenon, <3>3, <3>4 DEF StopsAfter
    <2>3. QED
      BY Zenon, <2>1, <2>2
  <1>2. QED
    BY Zenon, <1>1 DEF RegrantCount

\* What the granted map looks like after n heads: nobody loses a lock, a
\* waiter among the n has (at least) what it asked for, nobody else changes.
LEMMA AfterHeadsFacts ==
    ASSUME NEW g \in Grants, NEW q \in Seq(Waiter), NoDuplicates(q),
           NEW n \in 0..Len(q)
    PROVE  /\ AfterHeads(g, q, n) \in Grants
           /\ \A i \in 1..n : AfterHeads(g, q, n)[q[i].xid] = Stronger(g[q[i].xid], q[i].mode)
           /\ \A x \in Xids : (\A i \in 1..n : q[i].xid # x) => AfterHeads(g, q, n)[x] = g[x]
           /\ \A x \in Xids : AfterHeads(g, q, n)[x] >= g[x]
  <1>1. ASSUME NEW i \in 1..Len(q)
        PROVE  PositionOf(q, q[i].xid) = i
    BY Zenon DEF PositionOf, NoDuplicates
  <1>2. \A i \in 1..Len(q) : q[i].xid \in Xids /\ q[i].mode \in Modes
    BY Zenon, WaiterFields
  <1>3. \A a, b \in Modes \cup {Unlocked} :
          Stronger(a, b) \in Modes \cup {Unlocked} /\ Stronger(a, b) >= a
    BY DEF Stronger, Modes, Unlocked, AccessShare, AccessExclusive
  <1>4. ASSUME NEW i \in 1..n
        PROVE  AfterHeads(g, q, n)[q[i].xid] = Stronger(g[q[i].xid], q[i].mode)
    BY <1>1, <1>2 DEF AfterHeads
  <1>5. ASSUME NEW x \in Xids, \A i \in 1..n : q[i].xid # x
        PROVE  AfterHeads(g, q, n)[x] = g[x]
    BY Zenon, <1>5 DEF AfterHeads
  <1>6. ASSUME NEW x \in Xids
        PROVE  /\ AfterHeads(g, q, n)[x] \in Modes \cup {Unlocked}
               /\ AfterHeads(g, q, n)[x] >= g[x]
    <2>1. CASE \E i \in 1..n : q[i].xid = x
      <3>1. PICK i \in 1..n : q[i].xid = x
        BY Zenon, <2>1
      <3>2. g[x] \in Modes \cup {Unlocked} /\ q[i].mode \in Modes
        BY <1>2, <3>1 DEF Grants
      <3>3. QED
        BY Zenon, <1>3, <1>4, <3>1, <3>2
    <2>2. CASE ~\E i \in 1..n : q[i].xid = x
      <3>1. g[x] \in Modes \cup {Unlocked}
        BY Zenon DEF Grants
      <3>2. QED
        BY <1>5, <2>2, <3>1 DEF Modes, Unlocked, AccessShare, AccessExclusive
    <2>3. QED
      BY Zenon, <2>1, <2>2
  <1>7. AfterHeads(g, q, n) \in Grants
    BY Zenon, <1>6 DEF AfterHeads, Grants
  <1>8. QED
    BY Zenon, <1>4, <1>5, <1>6, <1>7

\* Conflicts are symmetric, and a mode no stronger than a held one is covered.
LEMMA ConflictSymmetric ==
    \A a, b : ConflictsWith(a, b) <=> ConflictsWith(b, a)
  BY Zenon DEF ConflictsWith

\* Granting heads in order never makes two grants conflict: each head is
\* compared with all the grants there are when its turn comes.
LEMMA AfterHeadsConflictFree ==
    ASSUME NEW g \in Grants, NEW q \in Seq(Waiter), NoDuplicates(q),
           ConflictFree(g), NEW n \in 0..Len(q),
           \A i \in 1..n : HeadGrantable(g, q, i)
    PROVE  ConflictFree(AfterHeads(g, q, n))
  <1> DEFINE h == AfterHeads(g, q, n)
  <1>0. \A i \in 1..Len(q) : q[i].xid \in Xids /\ q[i].mode \in Modes
    BY Zenon, WaiterFields
  \* y grew at position j, when x already had the mode it has at the end.
  <1>1. ASSUME NEW x \in Xids, NEW j \in 1..n, x # q[j].xid,
               h[q[j].xid] # g[q[j].xid],
               h[x] = g[x] \/ \E i \in 1..(j - 1) : q[i].xid = x
        PROVE  ~ConflictsWith(h[x], h[q[j].xid])
    <2> DEFINE y == q[j].xid
               k == AfterHeads(g, q, j - 1)
    <2>1. j - 1 \in 0..Len(q)
      OBVIOUS
    <2>2. k[x] = h[x]
      <3>1. CASE \E i \in 1..(j - 1) : q[i].xid = x
        BY <2>1, <3>1, AfterHeadsFacts
      <3>2. CASE ~\E i \in 1..(j - 1) : q[i].xid = x
        BY Zenon, <1>1, <2>1, <3>2, AfterHeadsFacts
      <3>3. QED
        BY Zenon, <3>1, <3>2
    <2>3. k[y] = g[y]
      <3>1. \A i \in 1..(j - 1) : q[i].xid # y
        BY DEF NoDuplicates
      <3>2. \A z \in Xids : (\A i \in 1..(j - 1) : q[i].xid # z) => k[z] = g[z]
        BY Zenon, <2>1, AfterHeadsFacts
      <3>3. y \in Xids
        BY <1>0
      <3> HIDE DEF y, k
      <3>4. QED
        BY Zenon, <3>1, <3>2, <3>3
    <2>4. h[y] = Stronger(g[y], q[j].mode)
      BY Zenon, AfterHeadsFacts
    <2>5. k[y] >= q[j].mode \/ ~ConflictsWith(k[x], q[j].mode)
      BY Zenon, <1>0, <1>1 DEF HeadGrantable, Compatible
    <2>6. g[y] \in Modes \cup {Unlocked} /\ q[j].mode \in Modes
      BY <1>0 DEF Grants
    <2>7. h[y] = q[j].mode /\ ~(g[y] >= q[j].mode)
      BY <1>1, <2>4, <2>6 DEF Stronger, Modes, Unlocked, AccessShare, AccessExclusive
    <2>8. QED
      BY Zenon, <2>2, <2>3, <2>5, <2>7
  <1>2. ASSUME NEW x \in Xids, h[x] # g[x]
        PROVE  \E i \in 1..n : q[i].xid = x
    BY Zenon, <1>2, AfterHeadsFacts
  <1>3. ASSUME NEW x \in Xids, NEW y \in Xids, x # y
        PROVE  ~ConflictsWith(h[x], h[y])
    <2> HIDE DEF h
    <2>1. CASE h[x] = g[x] /\ h[y] = g[y]
      BY Zenon, <1>3, <2>1 DEF ConflictFree
    <2>2. CASE h[x] = g[x] /\ h[y] # g[y]
      BY <1>1, <1>2, <1>3, <2>2
    <2>3. CASE h[x] # g[x] /\ h[y] = g[y]
      BY <1>1, <1>2, <1>3, <2>3, ConflictSymmetric
    <2>4. CASE h[x] # g[x] /\ h[y] # g[y]
      <3>1. PICK i \in 1..n : q[i].xid = x
        BY Zenon, <1>2, <2>4
      <3>2. PICK j \in 1..n : q[j].xid = y
        BY Zenon, <1>2, <2>4
      <3>3. i < j \/ j < i
        BY <1>3, <3>1, <3>2
      <3>4. CASE i < j
        BY <1>1, <1>3, <2>4, <3>1, <3>2, <3>4
      <3>5. CASE j < i
        BY <1>1, <1>3, <2>4, <3>1, <3>2, <3>5, ConflictSymmetric
      <3>6. QED
        BY Zenon, <3>3, <3>4, <3>5
    <2>5. QED
      BY Zenon, <2>1, <2>2, <2>3, <2>4
  <1>4. QED
    BY Zenon, <1>3 DEF ConflictFree

\* regrant_heads: what it leaves behind.
LEMMA RegrantFacts ==
    ASSUME NEW g \in Grants, NEW q \in Seq(Waiter), NoDuplicates(q), ConflictFree(g)
    PROVE  LET e == RegrantHeads(g, q)
               n == RegrantCount(g, q)
           IN  /\ e.granted \in Grants
               /\ e.queue \in Seq(Waiter)
               /\ NoDuplicates(e.queue)
               /\ ConflictFree(e.granted)
               /\ n \in 0..Len(q)
               /\ Len(e.queue) = Len(q) - n
               /\ \A i \in 1..Len(e.queue) : e.queue[i] = q[n + i]
               /\ \A x \in Xids : e.granted[x] >= g[x]
               /\ \A x \in Xids : e.granted[x] # g[x] =>
                    \E i \in 1..n : q[i].xid = x
               /\ \A i \in 1..n : e.granted[q[i].xid] >= q[i].mode
               /\ e.queue # <<>> =>
                    ~CanGrant(e.granted, e.queue, e.queue[1].xid, e.queue[1].mode)
  <1> DEFINE e == RegrantHeads(g, q)
             n == RegrantCount(g, q)
  <1>0. \A i \in 1..Len(q) : q[i].xid \in Xids /\ q[i].mode \in Modes
    BY Zenon, WaiterFields
  <1>1. n \in 0..Len(q) /\ StopsAfter(g, q, n)
    BY Zenon, RegrantCountFacts
  <1>2. e.granted = AfterHeads(g, q, n) /\ e.queue = SubSeq(q, n + 1, Len(q))
    BY Zenon DEF RegrantHeads
  <1> HIDE DEF e, n
  <1>3. /\ e.queue \in Seq(Waiter)
        /\ Len(e.queue) = Len(q) - n
        /\ \A i \in 1..Len(e.queue) : e.queue[i] = q[n + i]
    <2>1. \A i \in (n + 1)..Len(q) : q[i] \in Waiter
      BY <1>1, Elements
    <2>2. QED
      BY <1>1, <1>2, <2>1, Sliced
  <1>4. NoDuplicates(e.queue)
    <2>1. ASSUME NEW i \in 1..Len(e.queue), NEW j \in 1..Len(e.queue),
                 e.queue[i].xid = e.queue[j].xid
          PROVE  i = j
      <3>1. e.queue[i] = q[n + i] /\ e.queue[j] = q[n + j]
        BY Zenon, <1>3
      <3>2. i \in Nat /\ j \in Nat /\ n + i \in 1..Len(q) /\ n + j \in 1..Len(q)
        BY <1>1, <1>3
      <3>3. q[n + i].xid = q[n + j].xid
        BY Zenon, <2>1, <3>1
      <3>4. n + i = n + j
        BY Zenon, <3>2, <3>3 DEF NoDuplicates
      <3>5. QED
        BY <1>1, <3>2, <3>4
    <2>2. QED
      BY Zenon, <2>1 DEF NoDuplicates
  <1>5. ConflictFree(e.granted)
    BY Zenon, <1>1, <1>2, AfterHeadsConflictFree DEF StopsAfter
  <1>6. /\ e.granted \in Grants
        /\ \A x \in Xids : e.granted[x] >= g[x]
        /\ \A x \in Xids : e.granted[x] # g[x] => \E i \in 1..n : q[i].xid = x
    <2> DEFINE h == AfterHeads(g, q, n)
    <2>1. /\ h \in Grants
          /\ \A x \in Xids : h[x] >= g[x]
          /\ \A x \in Xids : (\A i \in 1..n : q[i].xid # x) => h[x] = g[x]
      BY Zenon, <1>1, AfterHeadsFacts
    <2> HIDE DEF h
    <2>2. QED
      BY Zenon, <1>2, <2>1 DEF h
  <1>7. ASSUME NEW i \in 1..n
        PROVE  e.granted[q[i].xid] >= q[i].mode
    <2>1. e.granted[q[i].xid] = Stronger(g[q[i].xid], q[i].mode)
      BY <1>1, <1>2, AfterHeadsFacts
    <2>2. g[q[i].xid] \in Modes \cup {Unlocked} /\ q[i].mode \in Modes
      BY <1>0, <1>1 DEF Grants
    <2>3. QED
      BY <2>1, <2>2 DEF Stronger, Modes, Unlocked, AccessShare, AccessExclusive
  <1>8. ASSUME e.queue # <<>>
        PROVE  ~CanGrant(e.granted, e.queue, e.queue[1].xid, e.queue[1].mode)
    <2>1. n < Len(q) /\ e.queue[1] = q[n + 1]
      BY <1>1, <1>3, <1>8, NonEmpty
    <2>2. ~HeadGrantable(g, q, n + 1)
      BY Zenon, <1>1, <2>1 DEF StopsAfter
    <2>3. (n + 1) - 1 = n
      BY <1>1
    <2>4. QED
      BY Zenon, <1>2, <2>1, <2>2, <2>3 DEF HeadGrantable, CanGrant
  <1>9. QED
    BY Zenon, <1>1, <1>3, <1>4, <1>5, <1>6, <1>7, <1>8 DEF e, n

\* What dropping x's request from queue q and re-granting heads leaves: the
\* table part of release_all and of the victim path of acquire.
Dropped(g, q, x, e) ==
    /\ e.granted \in Grants
    /\ e.queue \in Seq(Waiter)
    /\ NoDuplicates(e.queue)
    /\ ConflictFree(e.granted)
    /\ e.queue # <<>> =>
         ~CanGrant(e.granted, e.queue, e.queue[1].xid, e.queue[1].mode)
    /\ \A y \in Xids : e.granted[y] >= g[y]
    /\ e.granted[x] = g[x]
    /\ \A i \in 1..Len(e.queue) :
         /\ e.queue[i].xid # x
         /\ e.granted[e.queue[i].xid] = g[e.queue[i].xid]
         /\ \E j \in 1..Len(q) : e.queue[i] = q[j]
    /\ \A y \in Xids : e.granted[y] # g[y] =>
         \A i \in 1..Len(q) :
             (\A j \in 1..i : q[j].xid # y) => ~IsQueued(e.queue, q[i].xid)
    /\ \A j \in 1..Len(q) : q[j].xid # x =>
         \/ \E i \in 1..Len(e.queue) : e.queue[i] = q[j]
         \/ e.granted[q[j].xid] >= q[j].mode

\* Dropping a request and re-granting heads keeps the entry well formed, only
\* adds grants, and grants nobody past a waiter that stays.
LEMMA DropFacts ==
    ASSUME NEW g \in Grants, NEW q \in Seq(Waiter), NoDuplicates(q), ConflictFree(g),
           NEW x \in Xids
    PROVE  Dropped(g, q, x, RegrantHeads(g, Retain(q, x)))
  <1> DEFINE r == Retain(q, x)
             e == RegrantHeads(g, r)
             n == RegrantCount(g, r)
  <1>1. /\ r \in Seq(Waiter)
        /\ NoDuplicates(r)
        /\ \A i \in 1..Len(r) : r[i].xid # x
        /\ \A i \in 1..Len(r) :
             \E j \in 1..Len(q) : r[i] = q[j] /\ i <= j /\ j <= i + 1
        /\ \A j \in 1..Len(q) : q[j].xid # x => \E i \in 1..Len(r) : r[i] = q[j]
    <2>1. /\ r \in Seq(Waiter) /\ NoDuplicates(r) /\ ~IsQueued(r, x)
          /\ \A i \in 1..Len(r) :
               \E j \in 1..Len(q) : r[i] = q[j] /\ i <= j /\ j <= i + 1
          /\ \A j \in 1..Len(q) : q[j].xid # x =>
               \E i \in 1..Len(r) : r[i] = q[j] /\ i <= j /\ j <= i + 1
      BY RetainFacts
    <2> HIDE DEF r
    <2>2. QED
      BY Zenon, <2>1 DEF IsQueued
  <1> HIDE DEF r
  <1>2. /\ e.granted \in Grants
        /\ e.queue \in Seq(Waiter)
        /\ NoDuplicates(e.queue)
        /\ ConflictFree(e.granted)
        /\ n \in 0..Len(r)
        /\ Len(e.queue) = Len(r) - n
        /\ \A i \in 1..Len(e.queue) : e.queue[i] = r[n + i]
        /\ \A y \in Xids : e.granted[y] >= g[y]
        /\ \A y \in Xids : e.granted[y] # g[y] => \E i \in 1..n : r[i].xid = y
        /\ \A i \in 1..n : e.granted[r[i].xid] >= r[i].mode
        /\ e.queue # <<>> =>
             ~CanGrant(e.granted, e.queue, e.queue[1].xid, e.queue[1].mode)
    BY Zenon, <1>1, RegrantFacts
  <1> HIDE DEF e, n
  <1>3. e.granted[x] = g[x]
    <2>1. \A i \in 1..n : r[i].xid # x
      BY <1>1, <1>2
    <2>2. QED
      BY Zenon, <1>2, <2>1
  <1>4. ASSUME NEW i \in 1..Len(e.queue)
        PROVE  /\ n + i \in 1..Len(r)
               /\ e.queue[i] = r[n + i]
               /\ e.queue[i].xid # x
               /\ \E j \in 1..Len(q) : e.queue[i] = q[j]
    <2>1. n + i \in 1..Len(r)
      BY <1>2
    <2>2. QED
      BY <1>1, <1>2, <2>1
  <1>5. ASSUME NEW i \in 1..Len(e.queue)
        PROVE  e.granted[e.queue[i].xid] = g[e.queue[i].xid]
    <2>1. e.queue[i].xid \in Xids
      BY Zenon, <1>2, WaiterFields
    <2>2. \A k \in 1..n : r[k].xid # e.queue[i].xid
      <3>1. n + i \in 1..Len(r) /\ e.queue[i] = r[n + i]
        BY Zenon, <1>4
      <3>2. ASSUME NEW k \in 1..n, r[k].xid = r[n + i].xid
            PROVE  FALSE
        <4>1. k \in 1..Len(r) /\ k # n + i
          BY <1>2
        <4>2. QED
          BY Zenon, <1>1, <3>1, <3>2, <4>1 DEF NoDuplicates
      <3>3. QED
        BY Zenon, <3>1, <3>2
    <2>3. QED
      BY Zenon, <1>2, <2>1, <2>2
  <1>6. ASSUME NEW y \in Xids, e.granted[y] # g[y], NEW i \in 1..Len(q),
               \A j \in 1..i : q[j].xid # y, IsQueued(e.queue, q[i].xid)
        PROVE  FALSE
    <2>1. PICK k \in 1..n : r[k].xid = y
      BY Zenon, <1>2, <1>6
    <2>2. PICK a \in 1..Len(q) : r[k] = q[a] /\ k <= a /\ a <= k + 1
      <3>1. k \in 1..Len(r)
        BY <1>2
      <3>2. QED
        BY Zenon, <1>1, <3>1
    <2>3. i < a
      BY <1>6, <2>1, <2>2
    <2>4. PICK m \in 1..Len(e.queue) : e.queue[m].xid = q[i].xid
      BY Zenon, <1>6 DEF IsQueued
    <2>5. n + m \in 1..Len(r) /\ e.queue[m] = r[n + m]
      BY Zenon, <1>4
    <2>6. PICK b \in 1..Len(q) : r[n + m] = q[b] /\ n + m <= b
      BY Zenon, <1>1, <2>5
    <2>7. b = i
      BY Zenon, <2>4, <2>5, <2>6 DEF NoDuplicates
    <2>8. QED
      BY <1>2, <2>2, <2>3, <2>6, <2>7
  <1>7. ASSUME NEW j \in 1..Len(q), q[j].xid # x
        PROVE  \/ \E i \in 1..Len(e.queue) : e.queue[i] = q[j]
               \/ e.granted[q[j].xid] >= q[j].mode
    <2>1. PICK k \in 1..Len(r) : r[k] = q[j]
      BY Zenon, <1>1, <1>7
    <2>2. CASE k <= n
      <3>1. k \in 1..n
        BY <1>2, <2>2
      <3>2. QED
        BY Zenon, <1>2, <2>1, <3>1
    <2>3. CASE ~(k <= n)
      <3>1. k - n \in 1..Len(e.queue) /\ n + (k - n) = k
        BY <1>2, <2>3
      <3>2. QED
        BY Zenon, <1>2, <2>1, <3>1
    <2>4. QED
      BY Zenon, <2>2, <2>3
  <1>8. QED
    BY Zenon, <1>2, <1>3, <1>4, <1>5, <1>6, <1>7 DEF Dropped, e, r

\* A grant by acquire or try_acquire in a state where heads must wait: it
\* either finds the queue empty or finds the lock already held.
LEMMA GrantFacts ==
    ASSUME NEW g \in Grants, NEW q \in Seq(Waiter), ConflictFree(g),
           NEW x \in Xids, NEW m \in Modes,
           CanGrant(g, q, x, m),
           q # <<>> => ~CanGrant(g, q, q[1].xid, q[1].mode),
           \A i \in 1..Len(q) : q[i].xid = x => q[i].mode = m
    PROVE  /\ PopIfHead(q, x) = q
           /\ q # <<>> => g[x] >= m
           /\ q # <<>> => GrantMode(g, x, m) = g
           /\ GrantMode(g, x, m) \in Grants
           /\ ConflictFree(GrantMode(g, x, m))
           /\ GrantMode(g, x, m)[x] >= m
           /\ GrantMode(g, x, m)[x] >= g[x]
           /\ \A y \in Xids \ {x} : GrantMode(g, x, m)[y] = g[y]
  <1> DEFINE h == GrantMode(g, x, m)
  <1>1. /\ h \in Grants
        /\ h[x] = Stronger(g[x], m)
        /\ \A y \in Xids \ {x} : h[y] = g[y]
    BY Zenon DEF Grants, GrantMode, Stronger
  <1>2. g[x] \in 0..4 /\ m \in 1..4
    BY DEF Grants, Modes, Unlocked, AccessShare, AccessExclusive
  <1>3. h[x] >= m /\ h[x] >= g[x] /\ (g[x] >= m => h[x] = g[x])
        /\ (~(g[x] >= m) => h[x] = m)
    BY <1>1, <1>2 DEF Stronger
  <1>4. g[x] >= m => h = g
    BY <1>1, <1>3 DEF Grants
  <1>5. q # <<>> => q[1].xid # x
    <2>1. q # <<>> => 1 \in 1..Len(q)
      BY NonEmpty
    <2>2. QED
      BY Zenon, <2>1
  <1>6. PopIfHead(q, x) = q
    BY Zenon, <1>5 DEF PopIfHead
  <1>7. q # <<>> => g[x] >= m
    BY Zenon, <1>5 DEF CanGrant, NobodyAhead
  <1>8. ConflictFree(h)
    <2>1. CASE g[x] >= m
      BY Zenon, <1>4, <2>1
    <2>2. CASE ~(g[x] >= m)
      <3>1. Compatible(g, x, m) /\ h[x] = m
        BY Zenon, <1>3, <2>2 DEF CanGrant
      <3> HIDE DEF h
      <3>2. QED
        BY Zenon, <1>1, <3>1, ConflictSymmetric DEF Compatible, ConflictFree
    <2>3. QED
      BY Zenon, <2>1, <2>2
  <1>9. QED
    BY Zenon, <1>1, <1>3, <1>4, <1>6, <1>7, <1>8

-----------------------------------------------------------------------------
(* The inductive invariant: the checked invariants, together.              *)

IInv ==
    /\ TypeOK
    /\ NoConflictingGrants
    /\ QueuesHaveNoDuplicates
    /\ QueueMatchesSleepers
    /\ HeadsMustWait
    /\ SleepingVictimWillWake
    /\ EntriesPruned

\* The parts of the invariant that speak of one table at a time.
LEMMA TableFacts ==
    ASSUME IInv, NEW t \in Tables
    PROVE  /\ granted[t] \in Grants
           /\ queue[t] \in Seq(Waiter)
           /\ ConflictFree(granted[t])
           /\ NoDuplicates(queue[t])
           /\ queue[t] # <<>> =>
                ~CanGrant(granted[t], queue[t], queue[t][1].xid, queue[t][1].mode)
           /\ \A i \in 1..Len(queue[t]) :
                /\ queue[t][i].xid \in Xids
                /\ queue[t][i].mode \in Modes
                /\ req[queue[t][i].xid] = <<t, queue[t][i].mode>>
                /\ granted[t][queue[t][i].xid] < queue[t][i].mode
  <1>1. granted[t] \in Grants /\ queue[t] \in Seq(Waiter)
    BY Zenon DEF IInv, TypeOK, Grants
  <1>2. \A i \in 1..Len(queue[t]) :
          queue[t][i].xid \in Xids /\ queue[t][i].mode \in Modes
    BY Zenon, <1>1, WaiterFields
  <1>3. QED
    BY Zenon, <1>1, <1>2 DEF IInv, NoConflictingGrants, QueuesHaveNoDuplicates,
                      QueueMatchesSleepers, HeadsMustWait

\* A call in progress names a table and a mode; a request is never NoReq.
LEMMA RequestFacts ==
    ASSUME IInv, NEW x \in Xids, pc[x] \in {"running", "parked"}
    PROVE  req[x] \in Tables \X Modes /\ req[x] = <<req[x][1], req[x][2]>>
  BY DEF IInv, TypeOK

\* A request is never the value NoReq.
LEMMA RequestIsNotNoReq == \A t \in Tables, m \in Modes : <<t, m>> # NoReq
  BY NoReqAssumption DEF Modes, AccessShare, AccessExclusive

\* The initial state satisfies the invariant.
LEMMA InitIInv == Init => IInv
  <1> SUFFICES ASSUME Init PROVE IInv
    BY Zenon
  <1>1. TypeOK
    BY Zenon, NonEmpty DEF Init, TypeOK, Modes, Unlocked, Status
  <1>2. \A t \in Tables : queue[t] = <<>> /\ \A x \in Xids : granted[t][x] = Unlocked
    BY Zenon DEF Init
  <1>3. NoConflictingGrants
    BY <1>2 DEF NoConflictingGrants, ConflictFree, ConflictsWith, Modes, Unlocked,
                AccessShare, AccessExclusive
  <1>4. QueuesHaveNoDuplicates /\ HeadsMustWait
    BY <1>2, NonEmpty DEF QueuesHaveNoDuplicates, NoDuplicates, HeadsMustWait
  <1>5. QueueMatchesSleepers
    <2>1. \A x \in Xids : pc[x] # "parked"
      BY Zenon DEF Init
    <2>2. QED
      BY <1>2, <2>1, NonEmpty DEF QueueMatchesSleepers
  <1>6. SleepingVictimWillWake
    BY Zenon DEF Init, SleepingVictimWillWake
  <1>7. EntriesPruned
    BY Zenon, <1>2 DEF Init, EntriesPruned, IsEmptyEntry
  <1>8. QED
    BY Zenon, <1>1, <1>3, <1>4, <1>5, <1>6, <1>7 DEF IInv

\* Steps that change no table: the call itself, marks, clears, broadcasts.
LEMMA QuietSteps ==
    ASSUME IInv, UNCHANGED <<granted, queue, present>>, TypeOK',
           \A x \in Xids : req[x] # NoReq => req'[x] = req[x],
           \A x \in Xids : pc'[x] = "parked" => pc[x] = "parked",
           \A x \in victims' : pc'[x] = "parked" => detector' = "notify"
    PROVE  IInv'
  <1>1. QueueMatchesSleepers'
    <2>1. ASSUME NEW t \in Tables, NEW i \in 1..Len(queue[t])
          PROVE  LET w == queue[t][i]
                 IN  req'[w.xid] = <<t, w.mode>> /\ granted[t][w.xid] < w.mode
      <3> DEFINE w == queue[t][i]
      <3>1. /\ w.xid \in Xids /\ w.mode \in Modes
            /\ req[w.xid] = <<t, w.mode>>
            /\ granted[t][w.xid] < w.mode
        BY Zenon, TableFacts
      <3> HIDE DEF w
      <3>2. req[w.xid] # NoReq
        BY Zenon, <3>1, RequestIsNotNoReq
      <3>3. req'[w.xid] = req[w.xid]
        BY Zenon, <3>1, <3>2
      <3>4. QED
        BY Zenon, <3>1, <3>3 DEF w
    <2>2. ASSUME NEW x \in Xids, pc'[x] = "parked"
          PROVE  IsQueued(queue[req'[x][1]], x)
      <3>1. pc[x] = "parked" /\ req[x] # NoReq
        BY Zenon, <2>2 DEF IInv, TypeOK
      <3>2. QED
        BY Zenon, <3>1 DEF IInv, QueueMatchesSleepers
    <2>3. QED
      BY Zenon, <2>1, <2>2 DEF QueueMatchesSleepers
  <1>2. NoConflictingGrants' /\ QueuesHaveNoDuplicates' /\ HeadsMustWait' /\ EntriesPruned'
    BY Zenon DEF IInv, NoConflictingGrants, QueuesHaveNoDuplicates, HeadsMustWait, EntriesPruned
  <1>3. SleepingVictimWillWake'
    BY Zenon DEF SleepingVictimWillWake
  <1>4. QED
    BY Zenon, <1>1, <1>2, <1>3 DEF IInv

\* acquire and try_acquire granting a lock preserve the invariant.
LEMMA GrantStep ==
    ASSUME IInv, NEW x \in Xids, NEW t \in Tables, NEW m \in Modes,
           CanGrant(granted[t], queue[t], x, m),
           req[x] \in {NoReq, <<t, m>>},
           granted' = [granted EXCEPT ![t] = GrantMode(@, x, m)],
           queue' = [queue EXCEPT ![t] = PopIfHead(@, x)],
           present' = present \cup {t},
           pc' = [pc EXCEPT ![x] = "idle"],
           req' = [req EXCEPT ![x] = NoReq],
           pc[x] \in {"idle", "running"},
           UNCHANGED <<victims, detector>>
    PROVE  IInv' /\ queue' = queue
  <1> DEFINE g == granted[t]
             q == queue[t]
             h == GrantMode(g, x, m)
  <1>1. /\ g \in Grants /\ q \in Seq(Waiter) /\ ConflictFree(g)
        /\ q # <<>> => ~CanGrant(g, q, q[1].xid, q[1].mode)
        /\ \A i \in 1..Len(q) : q[i].xid \in Xids /\ q[i].mode \in Modes
        /\ \A i \in 1..Len(q) : req[q[i].xid] = <<t, q[i].mode>>
        /\ \A i \in 1..Len(q) : g[q[i].xid] < q[i].mode
    BY Zenon, TableFacts
  <1>2. \A i \in 1..Len(q) : q[i].xid = x => q[i].mode = m
    <2>1. ASSUME NEW i \in 1..Len(q), q[i].xid = x
          PROVE  q[i].mode = m
      <3>1. q[i].mode \in Modes /\ req[x] = <<t, q[i].mode>>
        BY Zenon, <1>1, <2>1
      <3>2. req[x] # NoReq
        BY Zenon, <3>1, RequestIsNotNoReq
      <3>3. <<t, q[i].mode>> = <<t, m>>
        BY Zenon, <3>1, <3>2
      <3>4. QED
        BY Zenon, <3>3
    <2>2. QED
      BY Zenon, <2>1
  <1>3. /\ PopIfHead(q, x) = q
        /\ q # <<>> => g[x] >= m
        /\ q # <<>> => h = g
        /\ h \in Grants
        /\ ConflictFree(h)
        /\ h[x] >= m
        /\ \A y \in Xids \ {x} : h[y] = g[y]
    BY <1>1, <1>2, GrantFacts
  <1>4. queue' = queue
    BY Zenon, <1>3 DEF IInv, TypeOK
  <1>5. granted'[t] = h /\ \A u \in Tables \ {t} : granted'[u] = granted[u]
    BY Zenon DEF IInv, TypeOK
  <1>6. \A u \in Tables : queue[u] # <<>> => granted'[u] = granted[u]
    BY Zenon, <1>3, <1>5
  <1> HIDE DEF g, q, h
  <1>7. TypeOK'
    <2>1. granted' \in [Tables -> Grants]
      BY Zenon, <1>3 DEF IInv, TypeOK, Grants, h, g
    <2>2. /\ queue' \in [Tables -> Seq(Waiter)] /\ present' \subseteq Tables
          /\ victims' \subseteq Xids /\ detector' \in {"idle", "notify"}
      BY Zenon, <1>4 DEF IInv, TypeOK
    <2>3. /\ pc' \in [Xids -> Status]
          /\ req' \in [Xids -> (Tables \X Modes) \cup {NoReq}]
          /\ \A y \in Xids : pc'[y] \in {"running", "parked"} <=> req'[y] # NoReq
      BY Zenon DEF IInv, TypeOK, Status
    <2>4. QED
      BY Zenon, <2>1, <2>2, <2>3 DEF TypeOK, Grants
  <1>8. NoConflictingGrants'
    BY Zenon, <1>3, <1>5 DEF IInv, NoConflictingGrants
  <1>9. QueuesHaveNoDuplicates'
    BY Zenon, <1>4 DEF IInv, QueuesHaveNoDuplicates
  <1>10. HeadsMustWait'
    BY Zenon, <1>4, <1>6 DEF IInv, HeadsMustWait
  \* x itself is in no queue: its entry would be for a lock it now holds.
  <1>11. ASSUME NEW u \in Tables, NEW i \in 1..Len(queue[u])
         PROVE  /\ queue[u][i].xid # x
                /\ queue[u][i].xid \in Xids
                /\ req[queue[u][i].xid] = <<u, queue[u][i].mode>>
                /\ granted'[u][queue[u][i].xid] < queue[u][i].mode
    <2> DEFINE w == queue[u][i]
    <2>1. /\ w.xid \in Xids /\ w.mode \in Modes
          /\ req[w.xid] = <<u, w.mode>>
          /\ granted[u][w.xid] < w.mode
      BY Zenon, TableFacts
    <2>2. queue[u] # <<>> /\ granted'[u] = granted[u]
      BY <1>6, NonEmpty DEF IInv, TypeOK
    <2> HIDE DEF w
    <2>3. ASSUME w.xid = x PROVE FALSE
      <3>1. req[x] = <<t, m>> /\ u = t /\ w.mode = m
        <4>1. w.mode \in Modes /\ req[x] = <<u, w.mode>>
          BY Zenon, <2>1, <2>3
        <4>2. req[x] # NoReq
          BY Zenon, <4>1, RequestIsNotNoReq
        <4>3. <<u, w.mode>> = <<t, m>>
          BY Zenon, <4>1, <4>2
        <4>4. QED
          BY Zenon, <4>1, <4>3
      <3>2. g[x] < m
        BY Zenon, <2>1, <2>3, <3>1 DEF g
      <3>3. g[x] >= m
        BY Zenon, <1>3, <2>2, <3>1 DEF q
      <3>4. g[x] \in 0..4 /\ m \in 1..4
        BY <1>1 DEF Grants, Modes, Unlocked, AccessShare, AccessExclusive
      <3>5. QED
        BY <3>2, <3>3, <3>4
    <2>4. QED
      BY Zenon, <2>1, <2>2, <2>3 DEF w
  <1>12. QueueMatchesSleepers'
    <2>1. ASSUME NEW u \in Tables, NEW i \in 1..Len(queue[u])
          PROVE  LET w == queue[u][i]
                 IN  req'[w.xid] = <<u, w.mode>> /\ granted'[u][w.xid] < w.mode
      BY Zenon, <1>11 DEF IInv, TypeOK
    <2>2. ASSUME NEW y \in Xids, pc'[y] = "parked"
          PROVE  IsQueued(queue[req'[y][1]], y)
      <3>1. y # x /\ pc[y] = "parked" /\ req'[y] = req[y]
        BY Zenon, <2>2 DEF IInv, TypeOK
      <3>2. QED
        BY Zenon, <3>1 DEF IInv, QueueMatchesSleepers
    <2>3. QED
      BY <1>4, <2>1, <2>2 DEF QueueMatchesSleepers
  <1>13. SleepingVictimWillWake'
    BY Zenon DEF IInv, TypeOK, SleepingVictimWillWake
  <1>14. EntriesPruned'
    <2>1. ~IsEmptyEntry(granted'[t], queue'[t])
      <3>1. granted'[t][x] >= m /\ m \in 1..4
        BY Zenon, <1>3, <1>5 DEF Modes, AccessShare, AccessExclusive
      <3>2. QED
        BY <3>1 DEF IsEmptyEntry, Unlocked
    <2>2. ASSUME NEW u \in Tables \ {t}
          PROVE  u \in present' <=> ~IsEmptyEntry(granted'[u], queue'[u])
      BY Zenon, <1>4, <1>5 DEF IInv, EntriesPruned
    <2>3. QED
      BY Zenon, <2>1, <2>2 DEF EntriesPruned
  <1>15. QED
    BY Zenon, <1>4, <1>7, <1>8, <1>9, <1>10, <1>12, <1>13, <1>14 DEF IInv

\* acquire queueing a request and going to sleep preserves the invariant.
LEMMA WaitStep ==
    ASSUME IInv, NEW x \in Xids, AcquireWaits(x)
    PROVE  IInv'
  <1> DEFINE t == req[x][1]
             m == req[x][2]
             g == granted[t]
             q == queue[t]
             r == EnqueueIfAbsent(q, x, m)
  <1>1. t \in Tables /\ m \in Modes /\ req[x] = <<t, m>>
    BY Zenon, RequestFacts DEF AcquireWaits
  <1>2. /\ g \in Grants /\ q \in Seq(Waiter) /\ NoDuplicates(q)
        /\ q # <<>> => ~CanGrant(g, q, q[1].xid, q[1].mode)
        /\ \A i \in 1..Len(q) : /\ q[i].xid \in Xids /\ q[i].mode \in Modes
                                /\ req[q[i].xid] = <<t, q[i].mode>>
                                /\ g[q[i].xid] < q[i].mode
    BY Zenon, <1>1, TableFacts
  <1>3. /\ pc[x] = "running" /\ x \notin victims
        /\ ~CanGrant(g, q, x, m)
        /\ queue' = [queue EXCEPT ![t] = r]
        /\ present' = present \cup {t}
        /\ pc' = [pc EXCEPT ![x] = "parked"]
        /\ UNCHANGED <<granted, victims, req, detector>>
    BY Zenon DEF AcquireWaits
  <1>4. queue'[t] = r /\ \A u \in Tables \ {t} : queue'[u] = queue[u]
    BY Zenon, <1>1, <1>3 DEF IInv, TypeOK
  <1> HIDE DEF g, q, t, m
  <1>5. g[x] < m
    <2>1. g[x] \in 0..4 /\ m \in 1..4
      BY <1>1, <1>2 DEF Grants, Modes, Unlocked, AccessShare, AccessExclusive
    <2>2. ~(g[x] >= m)
      BY Zenon, <1>3 DEF CanGrant
    <2>3. QED
      BY <2>1, <2>2
  <1>6. /\ r \in Seq(Waiter) /\ NoDuplicates(r) /\ r # <<>> /\ IsQueued(r, x)
        /\ ~CanGrant(g, r, r[1].xid, r[1].mode)
        /\ \A i \in 1..Len(r) : /\ req[r[i].xid] = <<t, r[i].mode>>
                                /\ g[r[i].xid] < r[i].mode
    <2>1. CASE IsQueued(q, x)
      <3>1. r = q /\ q # <<>>
        BY <1>2, <2>1, NonEmpty DEF EnqueueIfAbsent, IsQueued
      <3>2. QED
        BY Zenon, <1>2, <2>1, <3>1
    <2>2. CASE ~IsQueued(q, x)
      <3> DEFINE w == [xid |-> x, mode |-> m]
      <3>1. r = Append(q, w) /\ w \in Waiter /\ w.xid = x /\ w.mode = m
        BY Zenon, <1>1, <2>2 DEF EnqueueIfAbsent, Waiter
      <3> HIDE DEF w, r
      <3>2. /\ r \in Seq(Waiter) /\ r # <<>> /\ Len(r) = Len(q) + 1
            /\ \A i \in 1..Len(q) : r[i] = q[i]
            /\ r[Len(q) + 1] = w
        BY <1>2, <3>1, Pushed
      <3>3. \A i \in 1..Len(r) : i \in 1..Len(q) \/ i = Len(q) + 1
        BY <1>2, <3>2
      <3>4. NoDuplicates(r)
        <4>1. ASSUME NEW i \in 1..Len(r), NEW j \in 1..Len(r), r[i].xid = r[j].xid
              PROVE  i = j
          <5>1. CASE i \in 1..Len(q) /\ j \in 1..Len(q)
            BY Zenon, <1>2, <3>2, <4>1, <5>1 DEF NoDuplicates
          <5>2. CASE i = Len(q) + 1 /\ j \in 1..Len(q)
            BY Zenon, <2>2, <3>1, <3>2, <4>1, <5>2 DEF IsQueued
          <5>3. CASE i \in 1..Len(q) /\ j = Len(q) + 1
            BY Zenon, <2>2, <3>1, <3>2, <4>1, <5>3 DEF IsQueued
          <5>4. QED
            BY Zenon, <3>3, <5>1, <5>2, <5>3
        <4>2. QED
          BY Zenon, <4>1 DEF NoDuplicates
      <3>5. IsQueued(r, x)
        <4>1. Len(q) + 1 \in 1..Len(r)
          BY <1>2, <3>2
        <4>2. QED
          BY Zenon, <3>1, <3>2, <4>1 DEF IsQueued
      <3>6. ~CanGrant(g, r, r[1].xid, r[1].mode)
        <4>1. CASE q = <<>>
          <5>1. r[1] = w
            BY <3>2, <4>1, NonEmpty
          <5>2. QED
            BY Zenon, <1>3, <3>1, <4>1, <5>1 DEF CanGrant, NobodyAhead
        <4>2. CASE q # <<>>
          <5>1. r[1] = q[1]
            BY <1>2, <3>2, <4>2, NonEmpty
          <5>2. QED
            BY Zenon, <1>2, <4>2, <5>1 DEF CanGrant, NobodyAhead
        <4>3. QED
          BY Zenon, <4>1, <4>2
      <3>7. ASSUME NEW i \in 1..Len(r)
            PROVE  req[r[i].xid] = <<t, r[i].mode>> /\ g[r[i].xid] < r[i].mode
        <4>1. CASE i \in 1..Len(q)
          BY Zenon, <1>2, <3>2, <4>1
        <4>2. CASE i = Len(q) + 1
          BY Zenon, <1>1, <1>5, <3>1, <3>2, <4>2
        <4>3. QED
          BY Zenon, <3>3, <4>1, <4>2
      <3>8. QED
        BY Zenon, <3>2, <3>4, <3>5, <3>6, <3>7
    <2>3. QED
      BY Zenon, <2>1, <2>2
  <1> HIDE DEF r
  <1>7. TypeOK'
    <2>1. queue' \in [Tables -> Seq(Waiter)]
      BY Zenon, <1>1, <1>3, <1>6 DEF IInv, TypeOK
    <2>2. /\ pc' \in [Xids -> Status]
          /\ \A y \in Xids : pc'[y] \in {"running", "parked"} <=> req'[y] # NoReq
      BY Zenon, <1>3 DEF IInv, TypeOK, Status
    <2>3. QED
      BY Zenon, <1>1, <1>3, <2>1, <2>2 DEF IInv, TypeOK
  <1>8. NoConflictingGrants'
    BY Zenon, <1>3 DEF IInv, NoConflictingGrants
  <1>9. QueuesHaveNoDuplicates'
    BY Zenon, <1>4, <1>6 DEF IInv, QueuesHaveNoDuplicates
  <1>10. HeadsMustWait'
    BY Zenon, <1>3, <1>4, <1>6 DEF IInv, HeadsMustWait, g
  <1>11. QueueMatchesSleepers'
    <2>1. ASSUME NEW u \in Tables, NEW i \in 1..Len(queue'[u])
          PROVE  LET w == queue'[u][i]
                 IN  req'[w.xid] = <<u, w.mode>> /\ granted'[u][w.xid] < w.mode
      <3>1. CASE u = t
        BY Zenon, <1>3, <1>4, <1>6, <3>1 DEF g
      <3>2. CASE u # t
        BY SMTT(30), <1>3, <1>4, <3>2, TableFacts
      <3>3. QED
        BY Zenon, <3>1, <3>2
    <2>2. ASSUME NEW y \in Xids, pc'[y] = "parked"
          PROVE  IsQueued(queue'[req'[y][1]], y)
      <3>1. CASE y = x
        BY <1>1, <1>3, <1>4, <1>6, <3>1
      <3>2. CASE y # x
        <4>1. pc[y] = "parked" /\ req'[y] = req[y]
          BY Zenon, <1>3, <2>2, <3>2 DEF IInv, TypeOK
        <4>2. req[y][1] \in Tables /\ IsQueued(queue[req[y][1]], y)
          BY Zenon, <4>1, RequestFacts DEF IInv, QueueMatchesSleepers
        <4>3. CASE req[y][1] # t
          BY Zenon, <1>4, <4>1, <4>2, <4>3
        <4>4. CASE req[y][1] = t
          <5>1. IsQueued(q, y)
            BY Zenon, <4>2, <4>4 DEF q
          <5>2. IsQueued(r, y)
            BY <1>1, <1>2, <5>1, Pushed DEF r, EnqueueIfAbsent, IsQueued, Waiter
          <5>3. QED
            BY Zenon, <1>4, <4>1, <4>4, <5>2
        <4>5. QED
          BY Zenon, <4>3, <4>4
      <3>3. QED
        BY Zenon, <3>1, <3>2
    <2>3. QED
      BY Zenon, <2>1, <2>2 DEF QueueMatchesSleepers
  <1>12. SleepingVictimWillWake'
    BY Zenon, <1>3 DEF IInv, TypeOK, SleepingVictimWillWake
  <1>13. EntriesPruned'
    BY Zenon, <1>1, <1>3, <1>4, <1>6 DEF IInv, EntriesPruned, IsEmptyEntry
  <1>14. QED
    BY Zenon, <1>7, <1>8, <1>9, <1>10, <1>11, <1>12, <1>13 DEF IInv

\* A step that drops x from the tables of D; base is the grants before heads
\* are re-granted.  release_all and the victim path of acquire are such steps.
Drops(x, D, base) ==
    /\ D \subseteq present
    /\ base \in [Tables -> Grants]
    /\ \A t \in Tables : ConflictFree(base[t])
    /\ \A t \in Tables : \A y \in Xids \ {x} : base[t][y] = granted[t][y]
    /\ \A t \in Tables \ D : ~IsQueued(queue[t], x)
    /\ \A t \in D :
          LET e == RegrantHeads(base[t], Retain(queue[t], x))
          IN  /\ granted'[t] = e.granted
              /\ queue'[t] = e.queue
              /\ t \in present' <=> ~IsEmptyEntry(e.granted, e.queue)
    /\ \A t \in Tables \ D : /\ granted'[t] = granted[t]
                             /\ queue'[t] = queue[t]
                             /\ t \in present' <=> t \in present
    /\ \A y \in Xids : pc'[y] # "parked"
    /\ \A y \in Xids \ {x} : req'[y] = req[y]

\* Such a step preserves the invariant.
LEMMA DropStep ==
    ASSUME IInv, TypeOK', NEW x \in Xids, NEW D, NEW base, Drops(x, D, base)
    PROVE  IInv'
  <1>1. ASSUME NEW t \in D
        PROVE  /\ NoDuplicates(queue'[t])
               /\ ConflictFree(granted'[t])
               /\ queue'[t] # <<>> =>
                    ~CanGrant(granted'[t], queue'[t], queue'[t][1].xid, queue'[t][1].mode)
               /\ \A i \in 1..Len(queue'[t]) :
                    /\ queue'[t][i].xid # x
                    /\ granted'[t][queue'[t][i].xid] = base[t][queue'[t][i].xid]
                    /\ \E j \in 1..Len(queue[t]) : queue'[t][i] = queue[t][j]
    <2> DEFINE b == base[t]
               q == queue[t]
               e == RegrantHeads(b, Retain(q, x))
    <2>1. t \in Tables
      BY Zenon DEF Drops, IInv, TypeOK
    <2>2. b \in Grants /\ ConflictFree(b)
      BY Zenon, <2>1 DEF Drops
    <2>3. q \in Seq(Waiter) /\ NoDuplicates(q)
      BY Zenon, <2>1, TableFacts
    <2>4. granted'[t] = e.granted /\ queue'[t] = e.queue
      BY Zenon DEF Drops
    <2> HIDE DEF b, q
    <2>5. Dropped(b, q, x, e)
      BY Zenon, <2>2, <2>3, DropFacts
    <2> HIDE DEF e
    <2>6. QED
      BY <2>4, <2>5 DEF Dropped, b, q
  <1>2. NoConflictingGrants'
    BY Zenon, <1>1 DEF Drops, IInv, NoConflictingGrants
  <1>3. QueuesHaveNoDuplicates'
    BY Zenon, <1>1 DEF Drops, IInv, QueuesHaveNoDuplicates
  <1>4. HeadsMustWait'
    <2>1. ASSUME NEW t \in Tables, queue'[t] # <<>>
          PROVE  ~CanGrant(granted'[t], queue'[t], queue'[t][1].xid, queue'[t][1].mode)
      <3>1. CASE t \in D
        BY Zenon, <1>1, <2>1, <3>1
      <3>2. CASE t \notin D
        BY Zenon, <2>1, <3>2 DEF Drops, IInv, HeadsMustWait
      <3>3. QED
        BY Zenon, <3>1, <3>2
    <2>2. QED
      BY Zenon, <2>1 DEF HeadsMustWait
  <1>5. QueueMatchesSleepers'
    <2>1. ASSUME NEW t \in Tables, NEW i \in 1..Len(queue'[t])
          PROVE  LET w == queue'[t][i]
                 IN  req'[w.xid] = <<t, w.mode>> /\ granted'[t][w.xid] < w.mode
      <3> DEFINE w == queue'[t][i]
      <3>1. /\ \E j \in 1..Len(queue[t]) : w = queue[t][j]
            /\ w.xid # x
            /\ t \in D => granted'[t][w.xid] = base[t][w.xid]
        <4>1. CASE t \in D
          BY Zenon, <1>1, <4>1
        <4>2. CASE t \notin D
          BY <4>2 DEF Drops, IsQueued
        <4>3. QED
          BY Zenon, <4>1, <4>2
      <3> HIDE DEF w
      <3>2. PICK j \in 1..Len(queue[t]) : w = queue[t][j]
        BY Zenon, <3>1
      <3>3. /\ w.xid \in Xids
            /\ req[w.xid] = <<t, w.mode>>
            /\ granted[t][w.xid] < w.mode
        BY Zenon, <3>2, TableFacts
      <3>4. granted'[t][w.xid] = granted[t][w.xid]
        <4>1. CASE t \in D
          BY <3>1, <3>3, <4>1 DEF Drops
        <4>2. CASE t \notin D
          BY Zenon, <4>2 DEF Drops
        <4>3. QED
          BY Zenon, <4>1, <4>2
      <3>5. QED
        BY Zenon, <3>1, <3>3, <3>4 DEF Drops, w
    <2>2. QED
      BY Zenon, <2>1 DEF Drops, QueueMatchesSleepers
  <1>6. SleepingVictimWillWake'
    BY Zenon DEF Drops, TypeOK, SleepingVictimWillWake
  <1>7. EntriesPruned'
    BY Zenon DEF Drops, IInv, TypeOK, EntriesPruned
  <1>8. QED
    BY Zenon, <1>2, <1>3, <1>4, <1>5, <1>6, <1>7 DEF IInv

\* The victim path of acquire preserves the invariant.
LEMMA VictimStep ==
    ASSUME IInv, NEW x \in Xids, AcquireVictim(x)
    PROVE  /\ IInv'
           /\ UNCHANGED <<granted, queue>> \/ \E t \in Tables : Drops(x, {t}, granted)
  <1> DEFINE t == req[x][1]
             e == RegrantHeads(granted[t], Retain(queue[t], x))
  <1>1. t \in Tables /\ req[x] = <<t, req[x][2]>>
    BY Zenon, RequestFacts DEF AcquireVictim
  <1>2. /\ victims' = victims \ {x}
        /\ req' = [req EXCEPT ![x] = NoReq]
        /\ pc' = [y \in Xids |-> IF y = x THEN "idle"
                      ELSE IF pc[y] = "parked" THEN "running" ELSE pc[y]]
        /\ detector' = detector
    BY Zenon DEF AcquireVictim, NotifyAll
  <1>3. CASE t \in present
    <2>1. /\ granted' = [granted EXCEPT ![t] = e.granted]
          /\ queue' = [queue EXCEPT ![t] = e.queue]
          /\ present' = IF IsEmptyEntry(e.granted, e.queue)
                        THEN present \ {t} ELSE present
      BY Zenon, <1>3 DEF AcquireVictim
    <2>2. e.granted \in Grants /\ e.queue \in Seq(Waiter)
      <3>1. granted[t] \in Grants /\ queue[t] \in Seq(Waiter)
            /\ NoDuplicates(queue[t]) /\ ConflictFree(granted[t])
        BY Zenon, <1>1, TableFacts
      <3>2. QED
        BY Zenon, <3>1, DropFacts DEF Dropped
    <2>3. /\ granted'[t] = e.granted /\ queue'[t] = e.queue
          /\ \A u \in Tables \ {t} : granted'[u] = granted[u] /\ queue'[u] = queue[u]
      BY Zenon, <1>1, <2>1 DEF IInv, TypeOK
    <2>4. TypeOK'
      <3> HIDE DEF e, t
      <3>1. granted' \in [Tables -> Grants] /\ queue' \in [Tables -> Seq(Waiter)]
        BY Zenon, <1>1, <2>1, <2>2 DEF IInv, TypeOK, Grants
      <3>2. /\ pc' \in [Xids -> Status]
            /\ req' \in [Xids -> (Tables \X Modes) \cup {NoReq}]
            /\ \A y \in Xids : pc'[y] \in {"running", "parked"} <=> req'[y] # NoReq
        BY Zenon, <1>2 DEF IInv, TypeOK, Status
      <3>3. QED
        BY Zenon, <1>2, <2>1, <3>1, <3>2 DEF IInv, TypeOK, Grants
    <2>5. \A u \in Tables \ {t} : ~IsQueued(queue[u], x)
      <3>1. ASSUME NEW u \in Tables \ {t}, NEW i \in 1..Len(queue[u]), queue[u][i].xid = x
            PROVE  FALSE
        <4>1. req[x] = <<u, queue[u][i].mode>>
          BY Zenon, <3>1, TableFacts
        <4>2. QED
          BY <1>1, <4>1
      <3>2. QED
        BY Zenon, <3>1 DEF IsQueued
    <2>6. granted \in [Tables -> Grants] /\ \A u \in Tables : ConflictFree(granted[u])
      BY Zenon DEF IInv, TypeOK, NoConflictingGrants, Grants
    <2>7. /\ \A y \in Xids : pc'[y] # "parked"
          /\ \A y \in Xids \ {x} : req'[y] = req[y]
      BY Zenon, <1>2 DEF IInv, TypeOK, Status
    <2>8. /\ {t} \subseteq present
          /\ t \in present' <=> ~IsEmptyEntry(e.granted, e.queue)
          /\ \A u \in Tables \ {t} : u \in present' <=> u \in present
      BY Zenon, <1>3, <2>1
    <2> HIDE DEF t
    <2>9. Drops(x, {t}, granted)
      BY Zenon, <2>3, <2>5, <2>6, <2>7, <2>8 DEF Drops
    <2>10. QED
      BY Zenon, <1>1, <2>4, <2>9, DropStep
  <1>4. CASE t \notin present
    <2>1. UNCHANGED <<granted, queue, present>>
      BY Zenon, <1>4 DEF AcquireVictim
    <2>2. \A u \in Tables : \A i \in 1..Len(queue[u]) : queue[u][i].xid # x
      <3>1. queue[t] = <<>>
        BY Zenon, <1>1, <1>4 DEF IInv, EntriesPruned, IsEmptyEntry
      <3>2. ASSUME NEW u \in Tables, NEW i \in 1..Len(queue[u]), queue[u][i].xid = x
            PROVE  FALSE
        <4>1. req[x] = <<u, queue[u][i].mode>>
          BY Zenon, <3>2, TableFacts
        <4>2. u = t
          BY <1>1, <4>1
        <4>3. QED
          BY <3>1, <4>2, NonEmpty
      <3>3. QED
        BY Zenon, <3>2
    <2>3. TypeOK'
      <3>1. /\ pc' \in [Xids -> Status]
            /\ req' \in [Xids -> (Tables \X Modes) \cup {NoReq}]
            /\ \A y \in Xids : pc'[y] \in {"running", "parked"} <=> req'[y] # NoReq
        BY <1>2 DEF IInv, TypeOK, Status
      <3>2. QED
        BY Zenon, <1>2, <2>1, <3>1 DEF IInv, TypeOK
    <2>4. \A y \in Xids : pc'[y] # "parked"
      BY Zenon, <1>2 DEF IInv, TypeOK, Status
    <2>5. QueueMatchesSleepers'
      <3>1. ASSUME NEW u \in Tables, NEW i \in 1..Len(queue[u])
            PROVE  LET w == queue[u][i]
                   IN  req'[w.xid] = <<u, w.mode>> /\ granted[u][w.xid] < w.mode
        <4> DEFINE w == queue[u][i]
        <4>1. /\ w.xid \in Xids /\ w.xid # x
              /\ req[w.xid] = <<u, w.mode>> /\ granted[u][w.xid] < w.mode
          BY Zenon, <2>2, TableFacts
        <4> HIDE DEF w
        <4>2. req'[w.xid] = req[w.xid]
          BY Zenon, <1>2, <4>1 DEF IInv, TypeOK
        <4>3. QED
          BY Zenon, <4>1, <4>2 DEF w
      <3>2. QED
        BY Zenon, <2>1, <2>4, <3>1 DEF QueueMatchesSleepers
    <2>6. NoConflictingGrants' /\ QueuesHaveNoDuplicates' /\ HeadsMustWait' /\ EntriesPruned'
      BY Zenon, <2>1 DEF IInv, NoConflictingGrants, QueuesHaveNoDuplicates, HeadsMustWait, EntriesPruned
    <2>7. SleepingVictimWillWake'
      BY Zenon, <2>3, <2>4 DEF SleepingVictimWillWake, TypeOK
    <2>8. QED
      BY Zenon, <2>1, <2>3, <2>5, <2>6, <2>7 DEF IInv
  <1>5. QED
    BY Zenon, <1>3, <1>4

\* release_all preserves the invariant.
LEMMA ReleaseStep ==
    ASSUME IInv, NEW x \in Xids, ReleaseAll(x)
    PROVE  /\ IInv'
           /\ pc'[x] = "ended"
           /\ \E base : /\ Drops(x, present, base)
                        /\ \A t \in Tables : base[t][x] <= granted[t][x]
  <1> DEFINE base == [t \in Tables |-> [granted[t] EXCEPT ![x] = Unlocked]]
             e(t) == RegrantHeads([granted[t] EXCEPT ![x] = Unlocked], Retain(queue[t], x))
  <1>1. base \in [Tables -> Grants]
    BY Zenon DEF IInv, TypeOK, Grants
  <1>2. ASSUME NEW t \in Tables
        PROVE  /\ \A y \in Xids \ {x} : base[t][y] = granted[t][y]
               /\ base[t][x] = Unlocked
    BY Zenon DEF IInv, TypeOK
  <1>3. ASSUME NEW t \in Tables
        PROVE  ConflictFree(base[t])
    <2>1. ConflictFree(granted[t])
      BY Zenon DEF IInv, NoConflictingGrants
    <2>2. \A m : ~ConflictsWith(Unlocked, m) /\ ~ConflictsWith(m, Unlocked)
      BY DEF ConflictsWith, Modes, Unlocked, AccessShare, AccessExclusive
    <2> HIDE DEF base
    <2>3. QED
      BY <1>2, <2>1, <2>2 DEF ConflictFree
  <1>4. ASSUME NEW t \in Tables
        PROVE  e(t).granted \in Grants /\ e(t).queue \in Seq(Waiter)
    <2>1. queue[t] \in Seq(Waiter) /\ NoDuplicates(queue[t])
      BY Zenon, TableFacts
    <2>2. [granted[t] EXCEPT ![x] = Unlocked] \in Grants
          /\ ConflictFree([granted[t] EXCEPT ![x] = Unlocked])
      BY Zenon, <1>1, <1>3
    <2>3. QED
      BY Zenon, <2>1, <2>2, DropFacts DEF Dropped
  <1>5. /\ granted' = [t \in Tables |-> IF t \in present THEN e(t).granted ELSE granted[t]]
        /\ queue' = [t \in Tables |-> IF t \in present THEN e(t).queue ELSE queue[t]]
        /\ present' = {t \in present : ~IsEmptyEntry(e(t).granted, e(t).queue)}
        /\ pc[x] = "idle"
        /\ pc' = [y \in Xids |-> IF y = x THEN "ended"
                      ELSE IF pc[y] = "parked" THEN "running" ELSE pc[y]]
        /\ UNCHANGED <<victims, req, detector>>
    <2>1. present \subseteq Tables
      BY Zenon DEF IInv, TypeOK
    <2>2. QED
      BY Zenon, <2>1 DEF ReleaseAll, NotifyAll
  <1>6. TypeOK'
    <2>1. granted' \in [Tables -> Grants] /\ queue' \in [Tables -> Seq(Waiter)]
      <3> HIDE DEF e
      <3>1. QED
        BY Zenon, <1>4, <1>5 DEF IInv, TypeOK, Grants
    <2>2. /\ pc' \in [Xids -> Status]
          /\ \A y \in Xids : pc'[y] \in {"running", "parked"} <=> req'[y] # NoReq
      BY Zenon, <1>5 DEF IInv, TypeOK, Status
    <2>3. QED
      BY Zenon, <1>5, <2>1, <2>2 DEF IInv, TypeOK, Grants
  <1>7. \A t \in Tables \ present : ~IsQueued(queue[t], x)
    BY NonEmpty DEF IInv, EntriesPruned, IsEmptyEntry, IsQueued
  <1>8. ASSUME NEW t \in present
        PROVE  /\ t \in Tables
               /\ e(t) = RegrantHeads(base[t], Retain(queue[t], x))
               /\ granted'[t] = e(t).granted /\ queue'[t] = e(t).queue
               /\ t \in present' <=> ~IsEmptyEntry(e(t).granted, e(t).queue)
    <2>1. t \in Tables
      BY Zenon DEF IInv, TypeOK
    <2>2. QED
      BY Zenon, <1>5, <2>1
  <1>9. \A t \in Tables \ present : /\ granted'[t] = granted[t]
                                    /\ queue'[t] = queue[t]
                                    /\ t \in present' <=> t \in present
    BY Zenon, <1>5
  <1>10. /\ \A y \in Xids : pc'[y] # "parked"
         /\ \A y \in Xids \ {x} : req'[y] = req[y]
    BY Zenon, <1>5 DEF IInv, TypeOK, Status
  <1> HIDE DEF base, e
  <1>11. \A t \in present :
           LET f == RegrantHeads(base[t], Retain(queue[t], x))
           IN  /\ granted'[t] = f.granted
               /\ queue'[t] = f.queue
               /\ t \in present' <=> ~IsEmptyEntry(f.granted, f.queue)
    BY Zenon, <1>8
  <1>12. Drops(x, present, base)
    BY Zenon, <1>1, <1>2, <1>3, <1>7, <1>9, <1>10, <1>11 DEF Drops
  <1>13. \A t \in Tables : base[t][x] <= granted[t][x]
    <2>1. \A t \in Tables : granted[t][x] \in 0..4
      BY DEF IInv, TypeOK, Modes, Unlocked, AccessShare, AccessExclusive
    <2>2. \A t \in Tables : base[t][x] = 0
      BY Zenon, <1>2 DEF Unlocked
    <2>3. QED
      BY <2>1, <2>2
  <1>14. IInv'
    BY Zenon, <1>6, <1>12, DropStep
  <1>15. QED
    BY Zenon, <1>5, <1>12, <1>13, <1>14

\* The mutex-protected steps other than grants and drops change no table.
LEMMA QuietActions ==
    ASSUME IInv,
           \/ \E x \in Xids, t \in Tables, m \in Modes : CallAcquire(x, t, m)
           \/ \E x \in Xids : Mark(x)
           \/ \E x \in Xids : Clear(x)
           \/ NotifyWaiters
           \/ UNCHANGED vars
    PROVE  IInv' /\ UNCHANGED <<granted, queue, present>>
  <1>1. CASE \E x \in Xids, t \in Tables, m \in Modes : CallAcquire(x, t, m)
    <2>1. PICK x \in Xids, t \in Tables, m \in Modes : CallAcquire(x, t, m)
      BY Zenon, <1>1
    <2>2. UNCHANGED <<granted, queue, present>>
      BY Zenon, <2>1 DEF CallAcquire
    <2>3. TypeOK'
      BY Zenon, <2>1, RequestIsNotNoReq DEF CallAcquire, IInv, TypeOK, Status
    <2>4. /\ \A y \in Xids : req[y] # NoReq => req'[y] = req[y]
          /\ \A y \in Xids : pc'[y] = "parked" => pc[y] = "parked"
      BY Zenon, <2>1 DEF CallAcquire, IInv, TypeOK, Status
    <2>5. \A y \in victims' : pc'[y] = "parked" => detector' = "notify"
      BY Zenon, <2>1, <2>4 DEF CallAcquire, IInv, TypeOK, SleepingVictimWillWake
    <2>6. QED
      BY Zenon, <2>2, <2>3, <2>4, <2>5, QuietSteps
  <1>2. CASE \E x \in Xids : Mark(x)
    <2>1. TypeOK' /\ UNCHANGED <<granted, queue, present, pc, req>> /\ detector' = "notify"
      BY Zenon, <1>2 DEF Mark, IInv, TypeOK
    <2>2. QED
      BY Zenon, <2>1, QuietSteps
  <1>3. CASE \E x \in Xids : Clear(x)
    <2>1. /\ TypeOK' /\ UNCHANGED <<granted, queue, present, pc, req, detector>>
          /\ victims' \subseteq victims
      BY Zenon, <1>3 DEF Clear, IInv, TypeOK
    <2>2. \A y \in victims' : pc'[y] = "parked" => detector' = "notify"
      BY Zenon, <2>1 DEF IInv, SleepingVictimWillWake
    <2>3. QED
      BY Zenon, <2>1, <2>2, QuietSteps
  <1>4. CASE NotifyWaiters
    <2>1. TypeOK' /\ UNCHANGED <<granted, queue, present, req, victims>>
      BY Zenon, <1>4 DEF NotifyWaiters, IInv, TypeOK, Status
    <2>2. \A y \in Xids : pc'[y] # "parked"
      BY Zenon, <1>4 DEF NotifyWaiters, IInv, TypeOK, Status
    <2>3. \A y \in victims' : pc'[y] = "parked" => detector' = "notify"
      BY Zenon, <2>1, <2>2 DEF IInv, TypeOK
    <2>4. QED
      BY Zenon, <2>1, <2>2, <2>3, QuietSteps
  <1>5. CASE UNCHANGED vars
    <2>1. TypeOK' /\ UNCHANGED <<granted, queue, present, pc, req, victims, detector>>
      BY Zenon, <1>5 DEF vars, IInv, TypeOK
    <2>2. QED
      BY Zenon, <2>1, QuietSteps DEF IInv, SleepingVictimWillWake
  <1>6. QED
    BY Zenon, <1>1, <1>2, <1>3, <1>4, <1>5

\* A grant by acquire or try_acquire is a GrantStep.
LEMMA GrantActions ==
    ASSUME IInv, NEW x \in Xids,
           \/ AcquireGranted(x)
           \/ \E t \in Tables, m \in Modes : TryAcquire(x, t, m)
    PROVE  /\ IInv' /\ queue' = queue
           /\ \E t \in Tables, m \in Modes :
                /\ CanGrant(granted[t], queue[t], x, m)
                /\ req[x] \in {NoReq, <<t, m>>}
                /\ granted' = [granted EXCEPT ![t] = GrantMode(@, x, m)]
  <1>1. CASE AcquireGranted(x)
    <2> DEFINE t == req[x][1]
               m == req[x][2]
    <2>1. t \in Tables /\ m \in Modes /\ req[x] = <<t, m>>
      BY Zenon, <1>1, RequestFacts DEF AcquireGranted
    <2>2. /\ CanGrant(granted[t], queue[t], x, m)
          /\ granted' = [granted EXCEPT ![t] = GrantMode(@, x, m)]
          /\ queue' = [queue EXCEPT ![t] = PopIfHead(@, x)]
          /\ present' = present \cup {t}
          /\ pc' = [pc EXCEPT ![x] = "idle"]
          /\ req' = [req EXCEPT ![x] = NoReq]
          /\ pc[x] = "running"
          /\ UNCHANGED <<victims, detector>>
      BY Zenon, <1>1 DEF AcquireGranted
    <2> HIDE DEF t, m
    <2>3. QED
      BY Zenon, <2>1, <2>2, GrantStep
  <1>2. CASE \E t \in Tables, m \in Modes : TryAcquire(x, t, m)
    <2>1. PICK t \in Tables, m \in Modes : TryAcquire(x, t, m)
      BY Zenon, <1>2
    <2>2. /\ CanGrant(granted[t], queue[t], x, m)
          /\ granted' = [granted EXCEPT ![t] = GrantMode(@, x, m)]
          /\ queue' = [queue EXCEPT ![t] = PopIfHead(@, x)]
          /\ present' = present \cup {t}
          /\ pc[x] = "idle"
          /\ UNCHANGED <<victims, pc, req, detector>>
      BY Zenon, <2>1 DEF TryAcquire
    <2>3. req[x] = NoReq
      BY Zenon, <2>2 DEF IInv, TypeOK
    <2>4. pc' = [pc EXCEPT ![x] = "idle"] /\ req' = [req EXCEPT ![x] = NoReq]
      BY Zenon, <2>2, <2>3 DEF IInv, TypeOK
    <2>5. QED
      BY Zenon, <2>2, <2>3, <2>4, GrantStep
  <1>3. QED
    BY Zenon, <1>1, <1>2

\* Every step preserves the invariant: the checked invariants are inductive.
LEMMA NextIInv == IInv /\ [Next]_vars => IInv'
  <1> SUFFICES ASSUME IInv, [Next]_vars PROVE IInv'
    BY Zenon
  <1>1. ASSUME NEW x \in Xids, Session(x) PROVE IInv'
    BY Zenon, <1>1, QuietActions, GrantActions, WaitStep, VictimStep, ReleaseStep DEF Session
  <1>2. ASSUME NEW x \in Xids, Mark(x) \/ Clear(x) PROVE IInv'
    BY Zenon, <1>2, QuietActions
  <1>3. ASSUME NotifyWaiters \/ UNCHANGED vars PROVE IInv'
    BY Zenon, <1>3, QuietActions
  <1>4. QED
    BY Zenon, <1>1, <1>2, <1>3 DEF Next

\* A step that drops a transaction lets nobody overtake.
LEMMA DropNoBarging ==
    ASSUME IInv, IInv', NEW x \in Xids, NEW D, NEW base, Drops(x, D, base),
           \A t \in Tables : base[t][x] <= granted[t][x]
    PROVE  /\ NoBargingStep
           /\ \A t \in Tables : \A y \in Xids \ {x} : granted'[t][y] >= granted[t][y]
           /\ \A t \in D : granted'[t][x] = base[t][x]
           /\ \A t \in Tables \ D : granted'[t] = granted[t]
  <1>1. \A t \in Tables, y \in Xids : granted[t][y] \in 0..4 /\ granted'[t][y] \in 0..4
    BY DEF IInv, TypeOK, Modes, Unlocked, AccessShare, AccessExclusive
  <1>2. ASSUME NEW t \in D
        PROVE  /\ \A y \in Xids : granted'[t][y] >= base[t][y]
               /\ granted'[t][x] = base[t][x]
               /\ \A y \in Xids : granted'[t][y] # base[t][y] =>
                    \A i \in 1..Len(queue[t]) :
                        (\A j \in 1..i : queue[t][j].xid # y)
                            => ~IsQueued(queue'[t], queue[t][i].xid)
    <2> DEFINE b == base[t]
               q == queue[t]
               e == RegrantHeads(b, Retain(q, x))
    <2>1. t \in Tables
      BY Zenon DEF IInv, TypeOK, Drops
    <2>2. b \in Grants /\ ConflictFree(b)
      BY Zenon, <2>1 DEF Drops
    <2>3. q \in Seq(Waiter) /\ NoDuplicates(q)
      BY Zenon, <2>1, TableFacts
    <2>4. granted'[t] = e.granted /\ queue'[t] = e.queue
      BY Zenon DEF Drops
    <2> HIDE DEF b, q
    <2>5. Dropped(b, q, x, e)
      BY Zenon, <2>2, <2>3, DropFacts
    <2> HIDE DEF e
    <2>6. QED
      BY Zenon, <2>4, <2>5 DEF Dropped, b, q
  <1>3. \A t \in Tables \ D : granted'[t] = granted[t]
    BY Zenon DEF Drops
  <1>4. \A t \in Tables : \A y \in Xids \ {x} : base[t][y] = granted[t][y]
    BY Zenon DEF Drops
  <1>5. D \subseteq Tables
    BY Zenon DEF Drops, IInv, TypeOK
  <1>6. ASSUME NEW t \in Tables, NEW y \in Xids, granted'[t][y] > granted[t][y],
               NEW i \in 1..Len(queue[t]), \A j \in 1..i : queue[t][j].xid # y
        PROVE  ~IsQueued(queue'[t], queue[t][i].xid)
    <2>1. t \in D /\ granted'[t][y] # base[t][y]
      <3>1. t \in D
        BY <1>1, <1>3, <1>6
      <3>2. CASE y = x
        <4>1. granted'[t][x] <= granted[t][x]
          BY Zenon, <1>2, <3>1
        <4>2. QED
          BY <1>1, <1>6, <3>2, <4>1
      <3>3. CASE y # x
        <4>1. base[t][y] = granted[t][y]
          BY Zenon, <1>4, <3>3
        <4>2. QED
          BY <1>1, <1>6, <3>1, <4>1
      <3>4. QED
        BY Zenon, <3>1, <3>2, <3>3
    <2>2. QED
      BY Zenon, <1>2, <1>6, <2>1
  <1>7. NoBargingStep
    BY Zenon, <1>6 DEF NoBargingStep
  <1>8. ASSUME NEW t \in Tables, NEW y \in Xids \ {x}
        PROVE  granted'[t][y] >= granted[t][y]
    <2>1. CASE t \in D
      BY Zenon, <1>2, <1>4, <2>1
    <2>2. CASE t \notin D
      BY <1>1, <1>3, <2>2
    <2>3. QED
      BY Zenon, <2>1, <2>2
  <1>9. QED
    BY Zenon, <1>2, <1>3, <1>7, <1>8

\* No step lets a request overtake, and none weakens a live transaction's lock.
LEMMA NextStepProperties ==
    ASSUME IInv, [Next]_vars
    PROVE  NoBargingStep /\ LocksHeldStep
  <1>0. IInv'
    BY Zenon, NextIInv
  <1>1. \A t \in Tables, y \in Xids : granted[t][y] \in 0..4 /\ granted'[t][y] \in 0..4
    BY <1>0 DEF IInv, TypeOK, Modes, Unlocked, AccessShare, AccessExclusive
  <1>2. ASSUME granted' = granted
        PROVE  NoBargingStep /\ LocksHeldStep
    BY <1>1, <1>2 DEF NoBargingStep, LocksHeldStep
  <1>3. ASSUME NEW x \in Xids, NEW t \in Tables, NEW m \in Modes,
               CanGrant(granted[t], queue[t], x, m),
               req[x] \in {NoReq, <<t, m>>},
               granted' = [granted EXCEPT ![t] = GrantMode(@, x, m)]
        PROVE  NoBargingStep /\ LocksHeldStep
    <2> DEFINE g == granted[t]
               q == queue[t]
               h == GrantMode(g, x, m)
    <2>1. /\ g \in Grants /\ q \in Seq(Waiter) /\ ConflictFree(g)
          /\ q # <<>> => ~CanGrant(g, q, q[1].xid, q[1].mode)
          /\ \A i \in 1..Len(q) : q[i].mode \in Modes /\ req[q[i].xid] = <<t, q[i].mode>>
      BY Zenon, TableFacts
    <2>2. \A i \in 1..Len(q) : q[i].xid = x => q[i].mode = m
      <3>1. ASSUME NEW i \in 1..Len(q), q[i].xid = x
            PROVE  q[i].mode = m
        <4>1. q[i].mode \in Modes /\ req[x] = <<t, q[i].mode>>
          BY Zenon, <2>1, <3>1
        <4>2. req[x] # NoReq
          BY Zenon, <4>1, RequestIsNotNoReq
        <4>3. <<t, q[i].mode>> = <<t, m>>
          BY Zenon, <1>3, <4>1, <4>2
        <4>4. QED
          BY Zenon, <4>3
      <3>2. QED
        BY Zenon, <3>1
    <2>3. CanGrant(g, q, x, m)
      BY Zenon, <1>3
    <2>4. granted'[t] = h /\ \A u \in Tables \ {t} : granted'[u] = granted[u]
      BY Zenon, <1>3 DEF IInv, TypeOK
    <2> HIDE DEF g, q, h
    <2>5. /\ q # <<>> => h = g
          /\ h[x] >= g[x]
          /\ \A y \in Xids \ {x} : h[y] = g[y]
      BY <2>1, <2>2, <2>3, GrantFacts DEF h
    <2>6. ASSUME NEW u \in Tables, NEW y \in Xids
          PROVE  /\ granted'[u][y] >= granted[u][y]
                 /\ granted'[u][y] # granted[u][y] => queue[u] = <<>>
      BY <1>1, <2>4, <2>5 DEF g, q
    <2>7. NoBargingStep
      <3>1. ASSUME NEW u \in Tables, NEW y \in Xids, granted'[u][y] > granted[u][y],
                   NEW i \in 1..Len(queue[u])
            PROVE  FALSE
        <4>1. granted'[u][y] # granted[u][y]
          BY <1>1, <3>1
        <4>2. queue[u] = <<>>
          BY Zenon, <2>6, <4>1
        <4>3. QED
          BY <3>1, <4>2
      <3>2. QED
        BY Zenon, <3>1 DEF NoBargingStep
    <2>8. LocksHeldStep
      BY <1>1, <2>6 DEF LocksHeldStep
    <2>9. QED
      BY Zenon, <2>7, <2>8
  <1>4. ASSUME NEW x \in Xids, AcquireVictim(x)
        PROVE  NoBargingStep /\ LocksHeldStep
    <2>1. CASE \E t \in Tables : Drops(x, {t}, granted)
      <3>1. PICK t \in Tables : Drops(x, {t}, granted)
        BY Zenon, <2>1
      <3>2. \A u \in Tables : granted[u][x] <= granted[u][x]
        BY <1>1
      <3>3. /\ NoBargingStep
            /\ \A u \in Tables : \A y \in Xids \ {x} : granted'[u][y] >= granted[u][y]
            /\ granted'[t][x] = granted[t][x]
            /\ \A u \in Tables \ {t} : granted'[u] = granted[u]
        BY <1>0, <3>1, <3>2, DropNoBarging
      <3>4. \A u \in Tables, y \in Xids : granted'[u][y] >= granted[u][y]
        BY <1>1, <3>3
      <3>5. LocksHeldStep
        BY <1>1, <3>4 DEF LocksHeldStep
      <3>6. QED
        BY Zenon, <3>3, <3>5
    <2>2. QED
      BY Zenon, <1>2, <1>4, <2>1, VictimStep
  <1>5. ASSUME NEW x \in Xids, ReleaseAll(x)
        PROVE  NoBargingStep /\ LocksHeldStep
    <2>1. PICK base : /\ Drops(x, present, base)
                      /\ \A t \in Tables : base[t][x] <= granted[t][x]
      BY Zenon, <1>5, ReleaseStep
    <2>2. /\ NoBargingStep
          /\ \A u \in Tables : \A y \in Xids \ {x} : granted'[u][y] >= granted[u][y]
      BY Zenon, <1>0, <2>1, DropNoBarging
    <2>3. pc'[x] = "ended"
      BY Zenon, <1>5, ReleaseStep
    <2>4. LocksHeldStep
      BY <1>1, <2>2, <2>3 DEF LocksHeldStep
    <2>5. QED
      BY Zenon, <2>2, <2>4
  <1>6. ASSUME NEW x \in Xids, AcquireWaits(x) PROVE granted' = granted
    BY Zenon, <1>6 DEF AcquireWaits
  <1>7. ASSUME NEW x \in Xids, Session(x) PROVE NoBargingStep /\ LocksHeldStep
    <2>1. CASE \E t \in Tables, m \in Modes : CallAcquire(x, t, m)
      BY Zenon, <1>2, <2>1, QuietActions
    <2>2. CASE AcquireGranted(x) \/ \E t \in Tables, m \in Modes : TryAcquire(x, t, m)
      BY Zenon, <1>3, <2>2, GrantActions
    <2>3. QED
      BY Zenon, <1>2, <1>4, <1>5, <1>6, <1>7, <2>1, <2>2 DEF Session
  <1>8. ASSUME (\E x \in Xids : Mark(x) \/ Clear(x)) \/ NotifyWaiters \/ UNCHANGED vars
        PROVE  granted' = granted
    BY Zenon, <1>8, QuietActions
  <1>9. QED
    BY Zenon, <1>2, <1>7, <1>8 DEF Next

\* A queued request stays queued until it is granted or its session gives up.
LEMMA WaiterStays ==
    ASSUME IInv, [Next]_vars, NEW x \in Xids, ~AcquireVictim(x),
           NEW t \in Tables, NEW i \in 1..Len(queue[t]), queue[t][i].xid = x
    PROVE  \/ \E k \in 1..Len(queue'[t]) : queue'[t][k] = queue[t][i]
           \/ granted'[t][x] >= queue[t][i].mode
  <1> DEFINE w == queue[t][i]
             Stays == \/ \E k \in 1..Len(queue'[t]) : queue'[t][k] = w
                      \/ granted'[t][x] >= w.mode
  <1>1. w.xid = x /\ w.mode \in Modes /\ req[x] = <<t, w.mode>>
    BY Zenon, TableFacts
  <1>2. pc[x] # "idle"
    BY Zenon, <1>1, RequestIsNotNoReq DEF IInv, TypeOK
  <1> HIDE DEF w
  <1>3. ASSUME queue'[t] = queue[t] PROVE Stays
    BY Zenon, <1>3 DEF w
  <1>4. ASSUME NEW y \in Xids \ {x}, NEW D, NEW base, Drops(y, D, base)
        PROVE  Stays
    <2>1. CASE t \in D
      <3> DEFINE b == base[t]
                 q == queue[t]
                 e == RegrantHeads(b, Retain(q, y))
      <3>1. b \in Grants /\ ConflictFree(b)
        BY Zenon, <1>4 DEF Drops
      <3>2. q \in Seq(Waiter) /\ NoDuplicates(q)
        BY Zenon, TableFacts
      <3>3. granted'[t] = e.granted /\ queue'[t] = e.queue
        BY Zenon, <1>4, <2>1 DEF Drops
      <3>4. w = q[i] /\ i \in 1..Len(q) /\ w.xid # y
        BY Zenon, <1>1 DEF w
      <3> HIDE DEF b, q
      <3>5. Dropped(b, q, y, e)
        BY Zenon, <3>1, <3>2, DropFacts
      <3> HIDE DEF e
      <3>6. (\E k \in 1..Len(e.queue) : e.queue[k] = q[i]) \/ e.granted[q[i].xid] >= q[i].mode
        BY Zenon, <3>4, <3>5 DEF Dropped
      <3>7. QED
        BY Zenon, <1>1, <3>3, <3>4, <3>6
    <2>2. CASE t \notin D
      BY Zenon, <1>3, <1>4, <2>2 DEF Drops
    <2>3. QED
      BY Zenon, <2>1, <2>2
  <1>5. ASSUME NEW y \in Xids, AcquireWaits(y) PROVE Stays
    <2> DEFINE u == req[y][1]
               m == req[y][2]
    <2>1. u \in Tables /\ m \in Modes /\ queue' = [queue EXCEPT ![u] = EnqueueIfAbsent(@, y, m)]
      BY Zenon, <1>5, RequestFacts DEF AcquireWaits
    <2> HIDE DEF u, m
    <2>2. queue[t] \in Seq(Waiter) /\ queue \in [Tables -> Seq(Waiter)]
      BY Zenon DEF IInv, TypeOK
    <2>3. CASE t # u \/ IsQueued(queue[t], y)
      BY Zenon, <1>3, <2>1, <2>2, <2>3 DEF EnqueueIfAbsent
    <2>4. CASE t = u /\ ~IsQueued(queue[t], y)
      <3> DEFINE v == [xid |-> y, mode |-> m]
      <3>1. queue'[t] = Append(queue[t], v)
        BY Zenon, <2>1, <2>2, <2>4 DEF EnqueueIfAbsent
      <3>2. v \in Waiter
        BY Zenon, <2>1 DEF Waiter
      <3> HIDE DEF v
      <3>3. i \in 1..Len(queue'[t]) /\ queue'[t][i] = queue[t][i]
        <4>1. Len(queue'[t]) = Len(queue[t]) + 1 /\ \A j \in 1..Len(queue[t]) : queue'[t][j] = queue[t][j]
          <5>1. /\ Len(Append(queue[t], v)) = Len(queue[t]) + 1
                /\ \A j \in 1..Len(queue[t]) : Append(queue[t], v)[j] = queue[t][j]
            BY <2>2, <3>2, Pushed
          <5>2. QED
            BY Zenon, <3>1, <5>1
        <4>2. Len(queue[t]) \in Nat
          BY Zenon, <2>2, Elements
        <4>3. QED
          BY <4>1, <4>2
      <3>4. QED
        BY Zenon, <3>3 DEF w
    <2>5. QED
      BY Zenon, <2>3, <2>4
  <1>6. ASSUME NEW y \in Xids, Session(y) PROVE Stays
    <2>1. CASE \E u \in Tables, m \in Modes : CallAcquire(y, u, m)
      BY Zenon, <1>3, <2>1, QuietActions
    <2>2. CASE AcquireGranted(y) \/ \E u \in Tables, m \in Modes : TryAcquire(y, u, m)
      BY Zenon, <1>3, <2>2, GrantActions
    <2>3. CASE AcquireVictim(y)
      BY Zenon, <1>3, <1>4, <2>3, VictimStep
    <2>4. CASE ReleaseAll(y)
      <3>1. y # x
        BY Zenon, <1>2, <2>4 DEF ReleaseAll
      <3>2. QED
        BY Zenon, <1>4, <2>4, <3>1, ReleaseStep
    <2>5. QED
      BY Zenon, <1>5, <1>6, <2>1, <2>2, <2>3, <2>4 DEF Session
  <1>7. ASSUME (\E y \in Xids : Mark(y) \/ Clear(y)) \/ NotifyWaiters \/ UNCHANGED vars
        PROVE  Stays
    BY Zenon, <1>3, <1>7, QuietActions
  <1>8. QED
    BY Zenon, <1>6, <1>7 DEF Next, w

-----------------------------------------------------------------------------
(* The theorems.                                                           *)

\* Every invariant of the lock manager holds in every reachable state, for
\* any transactions and tables.
THEOREM LockManagerInvariant == Spec => []IInv
  <1>1. Init => IInv
    BY Zenon, InitIInv
  <1>2. IInv /\ [Next]_vars => IInv'
    BY Zenon, NextIInv
  <1>3. QED
    BY <1>1, <1>2, PTL DEF Spec

\* Type correctness of the lock table and of the session threads.
THEOREM LockManagerTypes == Spec => []TypeOK
  <1>1. IInv => TypeOK
    BY Zenon DEF IInv
  <1>2. QED
    BY <1>1, LockManagerInvariant, PTL

\* can_grant, grant and regrant_heads never give out conflicting locks.
THEOREM MutualExclusion == Spec => []NoConflictingGrants
  <1>1. IInv => NoConflictingGrants
    BY Zenon DEF IInv
  <1>2. QED
    BY <1>1, LockManagerInvariant, PTL

\* A lock that could be granted to the head of a queue has been granted.
THEOREM NoGrantForgotten == Spec => []HeadsMustWait
  <1>1. IInv => HeadsMustWait
    BY Zenon DEF IInv
  <1>2. QED
    BY <1>1, LockManagerInvariant, PTL

\* Queue entries and sleeping threads correspond.
THEOREM SleepersAreQueued == Spec => []QueueMatchesSleepers
  <1>1. IInv => QueueMatchesSleepers
    BY Zenon DEF IInv
  <1>2. QED
    BY <1>1, LockManagerInvariant, PTL

\* A victim that sleeps in acquire still has its broadcast coming.
THEOREM MarksAreNotMissed == Spec => []SleepingVictimWillWake
  <1>1. IInv => SleepingVictimWillWake
    BY Zenon DEF IInv
  <1>2. QED
    BY <1>1, LockManagerInvariant, PTL

\* Requests are granted in queue order.
THEOREM Fifo == Spec => NoBarging
  <1>1. IInv /\ [Next]_vars => NoBargingStep
    BY Zenon, NextStepProperties
  <1>2. QED
    BY <1>1, LockManagerInvariant, PTL DEF Spec, NoBarging

\* The entries map keeps no key whose entry is empty.
THEOREM NoEntryLeak == Spec => []EntriesPruned
  <1>1. IInv => EntriesPruned
    BY Zenon DEF IInv
  <1>2. QED
    BY <1>1, LockManagerInvariant, PTL

\* Locks are held until release_all.
THEOREM TwoPhase == Spec => LocksHeldToEnd
  <1>1. IInv /\ [Next]_vars => LocksHeldStep
    BY Zenon, NextStepProperties
  <1>2. QED
    BY <1>1, LockManagerInvariant, PTL DEF Spec, LocksHeldToEnd

\* The lock table is sound between any two sections under its mutex.
THEOREM LockTable == Spec => []LockTableSound
  <1>1. IInv => LockTableSound
    BY Zenon DEF IInv, LockTableSound
  <1>2. QED
    BY <1>1, LockManagerInvariant, PTL

\* No step of acquire, release_all or a victim's exit breaks queue order or two-phase
\* locking.
THEOREM Discipline == Spec => LockDiscipline
  <1>1. IInv /\ [Next]_vars => NoBargingStep /\ LocksHeldStep
    BY Zenon, NextStepProperties
  <1>2. QED
    BY <1>1, LockManagerInvariant, PTL DEF Spec, LockDiscipline

-----------------------------------------------------------------------------
(* The composed system.                                                    *)

RowStatus == {"out", "running", "parked", "cleared", "removed", "notified"}

\* A session is in at most one of acquire, wait_for and the end of its
\* transaction, only a transaction past end_txn is inactive, and only a
\* transaction is marked.
Phases ==
    /\ pc \in [Xids -> Status]
    /\ row \in [Xids -> RowStatus]
    /\ \A x \in Xids : row[x] # "out" => pc[x] \in {"idle", "ended"}
    /\ \A x \in Xids : x \notin active => row[x] \in {"removed", "notified"}
    /\ \A x \in Xids : pc[x] = "ended" => row[x] = "notified"
    /\ active \subseteq Xids /\ victims \subseteq Xids
    /\ dpc = "mark" => VictimOf(Head(cycles)) \in Xids

\* Sessions start in no phase.
LEMMA InitPhases == DDInit => Phases
  BY Zenon DEF DDInit, Init, Phases, Status, RowStatus

\* The steps inside the lock manager keep a session in one phase.
LEMMA TablePhases ==
    ASSUME Phases, NEW x \in Xids, TableLockStep(x) \/ TableVictim(x)
    PROVE  Phases'
  <1>1. UNCHANGED <<row, active, dpc, cycles>>
    BY Zenon DEF TableLockStep, TableVictim, rowVars, tickVars
  <1>2. CASE \E t \in Tables, m \in RequestModes[x] : row[x] = "out" /\ CallAcquire(x, t, m)
    BY Zenon, <1>1, <1>2 DEF Phases, CallAcquire, Status
  <1>3. CASE AcquireGranted(x) \/ AcquireWaits(x)
    BY Zenon, <1>1, <1>3 DEF Phases, AcquireGranted, AcquireWaits, Status
  <1>4. CASE AcquireVictim(x)
    BY Zenon, <1>1, <1>4 DEF Phases, AcquireVictim, NotifyAll, Status
  <1>5. CASE row[x] = "notified" /\ ReleaseAll(x)
    BY Zenon, <1>1, <1>5 DEF Phases, ReleaseAll, NotifyAll, Status
  <1>6. QED
    BY Zenon, <1>2, <1>3, <1>4, <1>5 DEF TableLockStep, TableVictim

\* So do the steps of wait_for and end_txn.
LEMMA RowPhases ==
    ASSUME Phases, NEW x \in Xids,
           \/ \E b \in Xids : RegisterRowWait(x, b)
           \/ WaitForTurn(x) \/ EndTxnClear(x) \/ EndTxnStep(x)
    PROVE  Phases'
  <1>1. CASE \E b \in Xids : RegisterRowWait(x, b)
    BY Zenon, <1>1 DEF Phases, RegisterRowWait, Busy, vars, tickVars, RowStatus
  <1>2. CASE WaitForTurn(x)
    BY <1>2 DEF Phases, WaitForTurn, WaitForVictim, WaitForReturns, WaitForSleeps,
                vars, tickVars, RowStatus
  <1>3. CASE EndTxnClear(x)
    BY Zenon, <1>3 DEF Phases, EndTxnClear, Busy, tickVars, RowStatus
  <1>4. CASE EndTxnStep(x)
    BY Zenon, <1>4 DEF Phases, EndTxnStep, EndTxnRemove, EndTxnNotify, WakeRowWaiters, vars,
                tickVars, RowStatus
  <1>5. QED
    BY Zenon, <1>1, <1>2, <1>3, <1>4

\* The detector moves sessions only from asleep to running.
LEMMA TickPhases ==
    ASSUME Phases, Tick
    PROVE  Phases'
  <1>1. CASE NotifyRowWaiters
    BY Zenon, <1>1 DEF Phases, NotifyRowWaiters, WakeRowWaiters, vars, RowStatus
  <1>2. CASE NotifyTableWaiters
    BY Zenon, <1>2 DEF Phases, NotifyTableWaiters, NotifyWaiters, rowVars, Status
  <1>3. CASE MarkVictim
    BY Zenon, <1>3 DEF Phases, MarkVictim, Mark, rowVars
  <1>4. CASE TickStart \/ TickPrune \/ SnapshotRows \/ SnapshotTables \/ FreshRows
             \/ FreshTables \/ ResolveCycle \/ TickEnd
    BY <1>4 DEF Phases, TickStart, TickPrune, SnapshotRows, SnapshotTables, FreshRows,
                FreshTables, ResolveCycle, TickEnd, vars, rowVars
  <1>5. QED
    BY Zenon, <1>1, <1>2, <1>3, <1>4 DEF Tick

\* Every step keeps every session in one phase.
LEMMA NextPhases == Phases /\ [DDNext]_ddVars => Phases'
  <1>1. ASSUME Phases, UNCHANGED ddVars PROVE Phases'
    BY Zenon, <1>1 DEF Phases, ddVars, vars, rowVars, tickVars
  <1>2. QED
    BY <1>1, TablePhases, RowPhases, TickPhases DEF DDNext, DDSession

\* Phases is an invariant of the composed system.
LEMMA PhasesInvariant == DDSpec => []Phases
  BY InitPhases, NextPhases, PTL DEF DDSpec

-----------------------------------------------------------------------------
(* Refinement.                                                             *)

\* Every step of the composed system is a step of the lock manager and its
\* environment, or leaves the lock manager alone.
LEMMA NextImplements == Phases /\ [DDNext]_ddVars => [Next]_vars
  <1> SUFFICES ASSUME Phases, [DDNext]_ddVars PROVE [Next]_vars
    BY Zenon
  <1>1. ASSUME NEW x \in Xids, TableLockStep(x) \/ TableVictim(x)
        PROVE  [Next]_vars
    BY <1>1, RequestModesAssumption DEF TableLockStep, TableVictim, Next, Session
  <1>2. ASSUME NEW x \in Xids, pc[x] \in {"idle", "ended"}, victims' = victims \ {x},
               UNCHANGED <<granted, queue, present, pc, req, detector>>
        PROVE  [Next]_vars
    <2>1. CASE x \in victims
      BY Zenon, <1>2, <2>1 DEF Next, Clear
    <2>2. CASE x \notin victims
      <3>1. victims' = victims
        BY Zenon, <1>2, <2>2
      <3>2. QED
        BY Zenon, <1>2, <3>1 DEF vars
    <2>3. QED
      BY Zenon, <2>1, <2>2
  <1>3. ASSUME NEW x \in Xids,
               \/ \E b \in Xids : RegisterRowWait(x, b)
               \/ WaitForTurn(x) \/ EndTxnClear(x) \/ EndTxnStep(x)
        PROVE  [Next]_vars
    <2>1. CASE WaitForVictim(x) \/ EndTxnClear(x)
      <3>1. pc[x] \in {"idle", "ended"}
        BY Zenon, <2>1 DEF WaitForVictim, EndTxnClear, Busy, Phases
      <3>2. QED
        BY <1>2, <2>1, <3>1 DEF WaitForVictim, EndTxnClear
    <2>2. CASE ~(WaitForVictim(x) \/ EndTxnClear(x))
      BY Zenon, <1>3, <2>2 DEF RegisterRowWait, WaitForTurn, WaitForReturns, WaitForSleeps,
                        EndTxnStep, EndTxnRemove, EndTxnNotify
    <2>3. QED
      BY <2>1, <2>2
  <1>4. ASSUME TickPrune PROVE [Next]_vars
    <2> DEFINE x == FC!MinOf(todo)
    <2>1. UNCHANGED <<granted, queue, present, pc, req, detector>>
          /\ victims' = IF x \in active THEN victims ELSE victims \ {x}
      BY Zenon, <1>4 DEF TickPrune
    <2> HIDE DEF x
    <2>2. CASE victims' = victims
      BY Zenon, <2>1, <2>2 DEF vars
    <2>3. CASE victims' # victims
      <3>1. x \notin active /\ victims' = victims \ {x}
        BY Zenon, <2>1, <2>3
      <3>2. CASE x \in Xids
        <4>1. pc[x] \in {"idle", "ended"}
          BY Zenon, <3>1, <3>2 DEF Phases
        <4>2. QED
          BY <1>2, <2>1, <3>1, <3>2, <4>1
      <3>3. CASE x \notin Xids
        BY Zenon, <2>3, <3>1, <3>3 DEF Phases
      <3>4. QED
        BY Zenon, <3>2, <3>3
    <2>4. QED
      BY Zenon, <2>2, <2>3
  <1>5. ASSUME MarkVictim PROVE [Next]_vars
    BY Zenon, <1>5 DEF MarkVictim, Next, Phases
  <1>6. ASSUME NotifyTableWaiters PROVE [Next]_vars
    BY Zenon, <1>6 DEF NotifyTableWaiters, Next
  <1>7. QED
    BY <1>1, <1>3, <1>4, <1>5, <1>6
    DEF DDNext, DDSession, Tick, TickStart, SnapshotRows, SnapshotTables, FreshRows,
        FreshTables, ResolveCycle, TickEnd, NotifyRowWaiters, ddVars

\* The composed system implements the lock manager specification.
THEOREM DetectorImplementsLockManager == DDSpec => ImplementsLockManager
  <1>1. DDInit => Init
    BY Zenon DEF DDInit
  <1>2. QED
    BY <1>1, NextImplements, PhasesInvariant, PTL DEF DDSpec, Spec, ImplementsLockManager

\* Table locks stay mutually exclusive whatever the detector does: the theorem
\* about the lock manager carries over.
THEOREM DetectorMutualExclusion == DDSpec => []NoConflictingGrants
  BY DetectorImplementsLockManager, MutualExclusion, PTL DEF ImplementsLockManager

\* So do the soundness of the whole lock table and the discipline of its steps.
THEOREM DetectorLockTable == DDSpec => []LockTableSound /\ LockDiscipline
  BY DetectorImplementsLockManager, LockTable, Discipline, PTL DEF ImplementsLockManager

-----------------------------------------------------------------------------
(* Wakeups.                                                                *)

WakeInv ==
    /\ Phases
    /\ registry \in [Xids -> Xids \cup {NoXid}]
    /\ RowEdgesAreWaits
    /\ RowSleepersWillWake
    /\ MarkedSleepersWillWake

\* Nobody sleeps at first.
LEMMA InitWake == DDInit => WakeInv
  BY Zenon, InitPhases
  DEF DDInit, Init, WakeInv, RowEdgesAreWaits, RowSleepersWillWake, MarkedSleepersWillWake

\* The steps inside the lock manager lose no wakeup.
LEMMA TableWake ==
    ASSUME WakeInv, Phases', NEW x \in Xids, TableLockStep(x) \/ TableVictim(x)
    PROVE  WakeInv'
  <1>1. UNCHANGED <<row, registry, active, dpc>>
    BY Zenon DEF TableLockStep, TableVictim, rowVars, tickVars
  <1>2. /\ victims' \subseteq victims
        /\ \A y \in Xids : pc'[y] = "parked" => pc[y] = "parked" \/ y \notin victims
    <2>1. CASE \E t \in Tables, m \in RequestModes[x] : CallAcquire(x, t, m)
      BY Zenon, <2>1 DEF WakeInv, Phases, CallAcquire
    <2>2. CASE AcquireGranted(x) \/ AcquireWaits(x)
      BY <2>2 DEF WakeInv, Phases, AcquireGranted, AcquireWaits
    <2>3. CASE AcquireVictim(x)
      BY Zenon, <2>3 DEF WakeInv, Phases, AcquireVictim, NotifyAll
    <2>4. CASE ReleaseAll(x)
      BY Zenon, <2>4 DEF WakeInv, Phases, ReleaseAll, NotifyAll
    <2>5. QED
      BY Zenon, <2>1, <2>2, <2>3, <2>4 DEF TableLockStep, TableVictim
  <1>3. MarkedSleepersWillWake'
    BY Zenon, <1>1, <1>2 DEF WakeInv, Phases, MarkedSleepersWillWake
  <1>4. QED
    BY Zenon, <1>1, <1>3 DEF WakeInv, RowEdgesAreWaits, RowSleepersWillWake

\* Nor do the steps of wait_for.
LEMMA WaitWake ==
    ASSUME WakeInv, Phases', NEW x \in Xids,
           (\E b \in Xids : RegisterRowWait(x, b)) \/ WaitForTurn(x)
    PROVE  WakeInv'
  <1>1. UNCHANGED <<pc, active, dpc>> /\ victims' \subseteq victims
    BY Zenon DEF RegisterRowWait, WaitForTurn, WaitForVictim, WaitForReturns, WaitForSleeps,
           vars, tickVars
  <1>2. CASE \E b \in Xids : RegisterRowWait(x, b)
    BY <1>1, <1>2, NoXidAssumption
    DEF WakeInv, Phases, RegisterRowWait, Busy, RowEdgesAreWaits, RowSleepersWillWake,
        MarkedSleepersWillWake, RowStatus
  <1>3. CASE WaitForVictim(x) \/ WaitForReturns(x)
    BY <1>1, <1>3, NoXidAssumption
    DEF WakeInv, Phases, WaitForVictim, WaitForReturns, RowEdgesAreWaits,
        RowSleepersWillWake, MarkedSleepersWillWake, RowStatus
  <1>4. CASE WaitForSleeps(x)
    BY <1>1, <1>4, NoXidAssumption
    DEF WakeInv, Phases, WaitForSleeps, RowEdgesAreWaits, RowSleepersWillWake,
        MarkedSleepersWillWake, RowStatus, vars
  <1>5. QED
    BY Zenon, <1>2, <1>3, <1>4 DEF WaitForTurn

\* Nor do the steps of end_txn.
LEMMA EndWake ==
    ASSUME WakeInv, Phases', NEW x \in Xids, EndTxnClear(x) \/ EndTxnStep(x)
    PROVE  WakeInv'
  <1>1. UNCHANGED <<pc, registry, dpc>> /\ victims' \subseteq victims
    BY Zenon DEF EndTxnClear, EndTxnStep, EndTxnRemove, EndTxnNotify, vars, tickVars
  <1>2. CASE EndTxnClear(x)
    BY <1>1, <1>2
    DEF WakeInv, Phases, EndTxnClear, Busy, RowEdgesAreWaits, RowSleepersWillWake,
        MarkedSleepersWillWake, RowStatus
  <1>3. CASE EndTxnRemove(x)
    BY <1>1, <1>3
    DEF WakeInv, Phases, EndTxnRemove, RowEdgesAreWaits, RowSleepersWillWake,
        MarkedSleepersWillWake, RowStatus
  <1>4. CASE EndTxnNotify(x)
    BY <1>1, <1>4
    DEF WakeInv, Phases, EndTxnNotify, WakeRowWaiters, RowEdgesAreWaits,
        RowSleepersWillWake, MarkedSleepersWillWake, RowStatus
  <1>5. QED
    BY Zenon, <1>2, <1>3, <1>4 DEF EndTxnStep

\* A mark is followed by both broadcasts.
LEMMA TickWake ==
    ASSUME WakeInv, Phases', Tick
    PROVE  WakeInv'
  <1>1. CASE NotifyRowWaiters
    BY Zenon, <1>1 DEF WakeInv, Phases, NotifyRowWaiters, WakeRowWaiters, vars, RowEdgesAreWaits,
                RowSleepersWillWake, MarkedSleepersWillWake, RowStatus
  <1>2. CASE NotifyTableWaiters
    BY <1>2 DEF WakeInv, Phases, NotifyTableWaiters, NotifyWaiters, rowVars,
                RowEdgesAreWaits, RowSleepersWillWake, MarkedSleepersWillWake
  <1>3. CASE MarkVictim
    BY Zenon, <1>3 DEF WakeInv, MarkVictim, Mark, rowVars, RowEdgesAreWaits,
                RowSleepersWillWake, MarkedSleepersWillWake
  <1>4. CASE TickPrune
    BY Zenon, <1>4 DEF WakeInv, TickPrune, rowVars, RowEdgesAreWaits, RowSleepersWillWake,
                MarkedSleepersWillWake
  <1>5. CASE TickStart \/ SnapshotRows \/ SnapshotTables \/ FreshRows \/ FreshTables
             \/ ResolveCycle \/ TickEnd
    BY Zenon, <1>5 DEF WakeInv, TickStart, SnapshotRows, SnapshotTables, FreshRows,
                FreshTables, ResolveCycle, TickEnd, vars, rowVars, RowEdgesAreWaits,
                RowSleepersWillWake, MarkedSleepersWillWake
  <1>6. QED
    BY Zenon, <1>1, <1>2, <1>3, <1>4, <1>5 DEF Tick

\* Every step keeps the invariant.
LEMMA NextWake == WakeInv /\ [DDNext]_ddVars => WakeInv'
  <1> SUFFICES ASSUME WakeInv, [DDNext]_ddVars PROVE WakeInv'
    BY Zenon
  <1>1. Phases'
    BY Zenon, NextPhases DEF WakeInv
  <1>2. CASE UNCHANGED ddVars
    BY Zenon, <1>1, <1>2 DEF WakeInv, ddVars, vars, rowVars, tickVars, RowEdgesAreWaits,
                      RowSleepersWillWake, MarkedSleepersWillWake
  <1>3. QED
    BY Zenon, <1>1, <1>2, TableWake, WaitWake, EndWake, TickWake DEF DDNext, DDSession

\* Row waiters and victims never miss their wakeup.
LEMMA WakeInvariant == DDSpec => []WakeInv
  BY InitWake, NextWake, PTL DEF DDSpec

\* A session asleep in wait_for waits for an active transaction, or for one
\* whose end_txn is about to broadcast.
THEOREM NoLostRowWakeup == DDSpec => []RowSleepersWillWake
  <1>1. WakeInv => RowSleepersWillWake
    BY Zenon DEF WakeInv
  <1>2. QED
    BY <1>1, WakeInvariant, PTL

\* A victim asleep in either wait loop is about to be woken.
THEOREM NoLostMark == DDSpec => []MarkedSleepersWillWake
  <1>1. WakeInv => MarkedSleepersWillWake
    BY Zenon DEF WakeInv
  <1>2. QED
    BY <1>1, WakeInvariant, PTL

\* The registry holds exactly the edges of sessions inside wait_for.
THEOREM NoStaleRowEdge == DDSpec => []RowEdgesAreWaits
  <1>1. WakeInv => RowEdgesAreWaits
    BY Zenon DEF WakeInv
  <1>2. QED
    BY <1>1, WakeInvariant, PTL

\* No session sleeps in either wait loop with nothing left to wake it.
THEOREM WakeupsComplete == DDSpec => []NoWakeupLost
  <1>1. WakeInv => NoWakeupLost
    BY Zenon DEF WakeInv, NoWakeupLost
  <1>2. QED
    BY <1>1, WakeInvariant, PTL

-----------------------------------------------------------------------------
(* Snapshots.                                                              *)

WaitEdges == RowEdges \cup TableEdges

\* Edges that lead nowhere but to sessions that wait by one of them.
Closed(E) == \A e \in E : \E d \in E : d[1] = e[2]

\* Nobody who waits by an edge of E has consumed a mark since the detector looked.
Untried(E) == \A e \in E : e[1] \notin retried

\* What a torn snapshot still shows.  Once the registry has been copied for the second
\* time, any closed part of the snapshot is waiting now, or somebody in it consumed a mark;
\* a row edge copied alone may also have gone because its transaction ended.
SnapInv ==
    /\ seen \subseteq Xids \X Xids
    /\ dpc \in {"freshTables", "resolve", "mark", "notifyRows", "notifyTables"} =>
         \A E \in SUBSET seen : Closed(E) /\ Untried(E) => E \subseteq WaitEdges
    /\ dpc = "freshTables" =>
         \A e \in seen : e \in RowEdges \/ e[1] \in retried \/ e[2] \notin active
    /\ dpc = "mark" => FC!EdgesOf(Head(cycles)) \subseteq seen

\* A conflict stays one when either lock grows.
LEMMA ConflictGrows ==
    ASSUME NEW a \in 0..4, NEW b \in 0..4, NEW m \in Modes, ConflictsWith(a, m), a <= b
    PROVE  ConflictsWith(b, m) /\ \A c \in 0..4 : m <= c => ConflictsWith(b, c)
  BY DEF ConflictsWith, Modes, AccessShare, RowExclusive, Exclusive, AccessExclusive

\* The edges join transactions.
LEMMA EdgesArePairs ==
    ASSUME WakeInv
    PROVE  /\ RowEdges \subseteq Xids \X Xids
           /\ TableEdges \subseteq Xids \X Xids
           /\ \A e : e \in RowEdges <=> \E x \in Xids : registry[x] # NoXid /\ e = <<x, registry[x]>>
           /\ \A e \in RowEdges : registry[e[1]] = e[2] /\ e[1] \in Xids /\ e[2] \in Xids
  <1>1. \A e : e \in RowEdges <=> \E x \in Xids : registry[x] # NoXid /\ e = <<x, registry[x]>>
    BY Zenon DEF RowEdges
  <1>2. \A x \in Xids : registry[x] # NoXid => registry[x] \in Xids
    BY Zenon DEF WakeInv
  <1>3. TableEdges \subseteq Xids \X Xids
    BY Zenon DEF TableEdges
  <1>4. RowEdges \subseteq Xids \X Xids /\ \A e \in RowEdges : registry[e[1]] = e[2] /\ e[1] \in Xids /\ e[2] \in Xids
    BY <1>1, <1>2
  <1>5. QED
    BY Zenon, <1>1, <1>3, <1>4

\* Who waits is active and in neither end_txn nor release_all.
LEMMA WaiterIsAlive ==
    ASSUME IInv, WakeInv, NEW d \in WaitEdges
    PROVE  /\ d[1] \in Xids /\ d[1] \in active
           /\ row[d[1]] \in {"out", "running", "parked"}
           /\ row[d[1]] = "out" => pc[d[1]] \in {"running", "parked"}
  <1>1. CASE d \in RowEdges
    <2>1. d[1] \in Xids /\ registry[d[1]] # NoXid
      BY <1>1, EdgesArePairs, NoXidAssumption
    <2>2. row[d[1]] \in {"running", "parked"}
      BY Zenon, <2>1 DEF WakeInv, RowEdgesAreWaits
    <2>3. QED
      BY Zenon, <2>1, <2>2 DEF WakeInv, Phases
  <1>2. CASE d \in TableEdges
    <2>1. PICK t \in Tables : \E i \in 1..Len(queue[t]) : queue[t][i].xid = d[1]
      BY Zenon, <1>2 DEF TableEdges
    <2>2. PICK i \in 1..Len(queue[t]) : queue[t][i].xid = d[1]
      BY Zenon, <2>1
    <2>3. /\ d[1] \in Xids /\ queue[t][i].mode \in Modes
          /\ req[d[1]] = <<t, queue[t][i].mode>>
      BY Zenon, <2>2, TableFacts
    <2>4. req[d[1]] # NoReq
      BY Zenon, <2>3, RequestIsNotNoReq
    <2>5. pc[d[1]] \in {"running", "parked"}
      BY Zenon, <2>3, <2>4 DEF IInv, TypeOK
    <2>6. row[d[1]] = "out"
      BY Zenon, <2>3, <2>5 DEF WakeInv, Phases
    <2>7. QED
      BY Zenon, <2>3, <2>5, <2>6 DEF WakeInv, Phases
  <1>3. QED
    BY Zenon, <1>1, <1>2 DEF WaitEdges

\* What a session's step does to the bookkeeping of the tick and to the row edges.
LEMMA SessionRows ==
    ASSUME WakeInv, NEW z \in Xids, DDSession(z), InSnapshots
    PROVE  /\ UNCHANGED tickVars /\ retried \subseteq retried' /\ active' \subseteq active
           /\ \A x \in Xids : x \in victims /\ x \notin victims' /\ pc[x] = "running" => x \in retried'
           /\ \A x \in Xids : /\ registry[x] # NoXid
                              /\ registry[x] \in active
                              => registry'[x] = registry[x] \/ x \in retried'
           /\ \A x \in Xids : row'[x] = "notified" => row[x] \in {"removed", "notified"}
  <1>1. CASE TableLockStep(z)
    <2>1. UNCHANGED <<rowVars, tickVars, retried, victims>>
      BY Zenon, <1>1 DEF TableLockStep, CallAcquire, AcquireGranted, AcquireWaits, ReleaseAll
    <2>2. QED
      BY Zenon, <2>1 DEF rowVars
  <1>2. CASE TableVictim(z)
    <2>1. /\ UNCHANGED <<rowVars, tickVars>> /\ victims' = victims \ {z}
          /\ retried' = retried \cup {z}
      BY Zenon, <1>2 DEF TableVictim, AcquireVictim
    <2>2. QED
      BY Zenon, <2>1 DEF rowVars
  <1>3. CASE \E b \in Xids : RegisterRowWait(z, b)
    <2>1. PICK b \in Xids : RegisterRowWait(z, b)
      BY Zenon, <1>3
    <2>2. /\ UNCHANGED <<vars, active, tickVars, retried>>
          /\ registry' = [registry EXCEPT ![z] = b] /\ row' = [row EXCEPT ![z] = "running"]
          /\ row[z] = "out"
      BY Zenon, <2>1 DEF RegisterRowWait, Busy
    <2>3. registry[z] = NoXid
      BY Zenon, <2>2 DEF WakeInv, RowEdgesAreWaits
    <2>4. \A x \in Xids : x # z => registry'[x] = registry[x] /\ row'[x] = row[x]
      BY Zenon, <2>2 DEF WakeInv, Phases
    <2>5. row'[z] = "running" /\ victims' = victims
      BY Zenon, <2>2 DEF WakeInv, Phases, vars
    <2>6. QED
      BY Zenon, <2>2, <2>3, <2>4, <2>5
  <1>4. CASE WaitForVictim(z)
    <2>1. /\ UNCHANGED <<active, tickVars>> /\ retried' = retried \cup {z}
          /\ victims' = victims \ {z}
          /\ registry' = [registry EXCEPT ![z] = NoXid] /\ row' = [row EXCEPT ![z] = "out"]
      BY Zenon, <1>4 DEF WaitForVictim
    <2>2. \A x \in Xids : x # z => registry'[x] = registry[x] /\ row'[x] = row[x]
      BY Zenon, <2>1 DEF WakeInv, Phases
    <2>3. row'[z] = "out"
      BY Zenon, <2>1 DEF WakeInv, Phases
    <2>4. QED
      BY Zenon, <2>1, <2>2, <2>3
  <1>5. CASE WaitForReturns(z)
    <2>1. /\ UNCHANGED <<vars, active, tickVars, retried>> /\ registry[z] \notin active
          /\ registry' = [registry EXCEPT ![z] = NoXid] /\ row' = [row EXCEPT ![z] = "out"]
      BY Zenon, <1>5 DEF WaitForReturns
    <2>2. \A x \in Xids : x # z => registry'[x] = registry[x] /\ row'[x] = row[x]
      BY Zenon, <2>1 DEF WakeInv, Phases
    <2>3. row'[z] = "out" /\ victims' = victims
      BY Zenon, <2>1 DEF WakeInv, Phases, vars
    <2>4. QED
      BY Zenon, <2>1, <2>2, <2>3
  <1>6. CASE WaitForSleeps(z)
    <2>1. /\ UNCHANGED <<vars, active, registry, tickVars, retried>>
          /\ row' = [row EXCEPT ![z] = "parked"]
      BY Zenon, <1>6 DEF WaitForSleeps
    <2>2. \A x \in Xids : row'[x] = "notified" => row[x] = "notified"
      BY Zenon, <2>1 DEF WakeInv, Phases
    <2>3. QED
      BY Zenon, <2>1, <2>2 DEF vars
  <1>7. CASE EndTxnClear(z)
    <2>1. /\ UNCHANGED <<pc, active, registry, tickVars, retried>> /\ victims' = victims \ {z}
          /\ row' = [row EXCEPT ![z] = "cleared"] /\ pc[z] = "idle"
      BY Zenon, <1>7 DEF EndTxnClear, Busy
    <2>2. \A x \in Xids : row'[x] = "notified" => row[x] = "notified"
      BY Zenon, <2>1 DEF WakeInv, Phases
    <2>3. QED
      BY Zenon, <2>1, <2>2
  <1>8. CASE EndTxnRemove(z)
    <2>1. /\ UNCHANGED <<vars, registry, tickVars, retried>> /\ active' = active \ {z}
          /\ row' = [row EXCEPT ![z] = "removed"]
      BY Zenon, <1>8 DEF EndTxnRemove
    <2>2. \A x \in Xids : row'[x] = "notified" => row[x] = "notified"
      BY Zenon, <2>1 DEF WakeInv, Phases
    <2>3. QED
      BY Zenon, <2>1, <2>2 DEF vars
  <1>9. CASE EndTxnNotify(z)
    <2>1. /\ UNCHANGED <<vars, active, registry, tickVars, retried>> /\ row[z] = "removed"
          /\ row' = [WakeRowWaiters EXCEPT ![z] = "notified"]
      BY Zenon, <1>9 DEF EndTxnNotify
    <2>2. \A x \in Xids : row'[x] = "notified" => row[x] \in {"removed", "notified"}
      BY Zenon, <2>1 DEF WakeRowWaiters
    <2>3. QED
      BY Zenon, <2>1, <2>2 DEF vars
  <1>10. QED
    BY Zenon, <1>1, <1>2, <1>3, <1>4, <1>5, <1>6, <1>7, <1>8, <1>9
    DEF DDSession, WaitForTurn, EndTxnStep

\* An edge stays as long as the session waited for waits itself, unless its own session
\* consumes a mark.
LEMMA SessionEdges ==
    ASSUME IInv, WakeInv, WakeInv', NEW z \in Xids, DDSession(z), InSnapshots,
           NEW e \in WaitEdges, NEW d \in WaitEdges, d[1] = e[2]
    PROVE  e \in WaitEdges' \/ e[1] \in retried'
  <1> DEFINE x == e[1]
             y == e[2]
  <1>1. x \in Xids /\ y \in Xids /\ e = <<x, y>>
    BY EdgesArePairs DEF WaitEdges
  <1>2. y \in active /\ row[y] \in {"out", "running", "parked"}
    BY Zenon, WaiterIsAlive
  <1> HIDE DEF x, y
  <1>3. [Next]_vars /\ IInv' /\ LocksHeldStep
    BY Zenon, NextImplements, NextIInv, NextStepProperties DEF WakeInv, DDNext
  <1>4. CASE e \in RowEdges
    <2>1. registry[x] = y /\ y # NoXid
      BY Zenon, <1>1, <1>4, EdgesArePairs, NoXidAssumption DEF x, y
    <2>2. registry'[x] = y \/ x \in retried'
      BY Zenon, <1>1, <1>2, <2>1, SessionRows
    <2>3. registry'[x] = y => e \in RowEdges'
      BY Zenon, <1>1, <2>1 DEF RowEdges
    <2>4. QED
      BY Zenon, <2>2, <2>3 DEF WaitEdges, x
  <1>5. CASE e \in TableEdges /\ x \notin retried'
    <2>1. PICK t \in Tables : \E i \in 1..Len(queue[t]) :
            queue[t][i].xid = x /\ x # y /\ ConflictsWith(granted[t][y], queue[t][i].mode)
      BY Zenon, <1>5 DEF TableEdges, x, y
    <2>2. PICK i \in 1..Len(queue[t]) :
            queue[t][i].xid = x /\ x # y /\ ConflictsWith(granted[t][y], queue[t][i].mode)
      BY Zenon, <2>1
    <2> DEFINE m == queue[t][i].mode
    <2>3. m \in Modes
      BY Zenon, TableFacts
    <2>4. ~AcquireVictim(x)
      <3>1. ASSUME AcquireVictim(x) PROVE x \in retried'
        <4>1. x \in victims /\ x \notin victims' /\ pc[x] = "running"
          BY Zenon, <3>1 DEF AcquireVictim
        <4>2. QED
          BY Zenon, <1>1, <4>1, SessionRows
      <3>2. QED
        BY Zenon, <1>5, <3>1
    <2>5. (\E k \in 1..Len(queue'[t]) : queue'[t][k] = queue[t][i]) \/ granted'[t][x] >= m
      BY Zenon, <1>1, <1>3, <2>2, <2>4, WaiterStays
    <2> HIDE DEF m
    <2>6. granted[t][y] \in 0..4 /\ granted'[t][y] \in 0..4 /\ granted'[t][x] \in 0..4
      BY <1>1, <1>3 DEF IInv, TypeOK, Modes, Unlocked, AccessShare, AccessExclusive
    <2>7. ~(granted'[t][y] < granted[t][y])
      <3>1. ASSUME granted'[t][y] < granted[t][y] PROVE FALSE
        <4>1. pc'[y] = "ended"
          BY Zenon, <1>1, <1>3, <3>1 DEF LocksHeldStep
        <4>2. row'[y] = "notified"
          BY Zenon, <1>1, <4>1 DEF WakeInv, Phases
        <4>3. row[y] \in {"removed", "notified"}
          BY Zenon, <1>1, <4>2, SessionRows
        <4>4. QED
          BY Zenon, <1>2, <4>3
      <3>2. QED
        BY Zenon, <3>1
    <2>8. /\ ConflictsWith(granted'[t][y], m)
          /\ granted'[t][x] >= m => ConflictsWith(granted'[t][y], granted'[t][x])
      <3>1. granted[t][y] <= granted'[t][y] /\ (granted'[t][x] >= m => m <= granted'[t][x])
        BY <2>3, <2>6, <2>7 DEF Modes, AccessShare, AccessExclusive
      <3>2. ConflictsWith(granted[t][y], m)
        BY Zenon, <2>2 DEF m
      <3>3. QED
        BY Zenon, <2>3, <2>6, <3>1, <3>2, ConflictGrows
    <2>9. ~(granted'[t][x] >= m)
      BY Zenon, <1>1, <1>3, <2>2, <2>8 DEF IInv, NoConflictingGrants, ConflictFree
    <2>10. PICK k \in 1..Len(queue'[t]) : queue'[t][k] = queue[t][i]
      BY Zenon, <2>5, <2>9
    <2>11. queue'[t][k].xid = x /\ queue'[t][k].mode = m
      BY Zenon, <2>2, <2>10 DEF m
    <2>12. e \in Xids \X Xids /\ e[1] = x /\ e[2] = y
      BY Zenon, <1>1 DEF x, y
    <2>13. e \in TableEdges'
      BY Zenon, <2>2, <2>8, <2>11, <2>12 DEF TableEdges
    <2>14. QED
      BY Zenon, <2>13 DEF WaitEdges
  <1>6. QED
    BY Zenon, <1>4, <1>5 DEF WaitEdges, x

\* At first the detector has seen nothing.
LEMMA InitSnap == DDInit => SnapInv
  BY Zenon DEF DDInit, SnapInv

\* Sessions keep the snapshot's closed parts waiting.
LEMMA SessionSnap ==
    ASSUME IInv, WakeInv, WakeInv', SnapInv, NEW z \in Xids, DDSession(z)
    PROVE  SnapInv'
  <1>1. CASE InSnapshots
    <2>1. UNCHANGED tickVars /\ retried \subseteq retried' /\ active' \subseteq active
      BY Zenon, <1>1, SessionRows
    <2>2. UNCHANGED <<dpc, seen, cycles>>
      BY Zenon, <2>1 DEF tickVars
    <2>3. ASSUME NEW E \in SUBSET seen, Closed(E), Untried(E)', E \subseteq WaitEdges
          PROVE  E \subseteq WaitEdges'
      <3> SUFFICES ASSUME NEW e \in E PROVE e \in WaitEdges'
        BY Zenon
      <3>1. PICK d \in E : d[1] = e[2]
        BY Zenon, <2>3 DEF Closed
      <3>2. e[1] \notin retried'
        BY Zenon, <2>3 DEF Untried
      <3>3. e \in WaitEdges /\ d \in WaitEdges
        BY Zenon, <2>3
      <3> QED
        BY Zenon, <1>1, <3>1, <3>2, <3>3, SessionEdges
    <2>4. \A E : Untried(E)' => Untried(E)
      BY Zenon, <2>1 DEF Untried
    <2>5. dpc' \in {"freshTables", "resolve", "mark", "notifyRows", "notifyTables"} =>
            \A E \in SUBSET seen' : Closed(E) /\ Untried(E)' => E \subseteq WaitEdges'
      BY Zenon, <2>2, <2>3, <2>4 DEF SnapInv
    <2>6. ASSUME NEW e \in RowEdges, e[2] \in active
          PROVE  e \in RowEdges' \/ e[1] \in retried'
      <3>1. e[1] \in Xids /\ registry[e[1]] = e[2] /\ e = <<e[1], e[2]>> /\ e[2] # NoXid
        BY EdgesArePairs, NoXidAssumption
      <3>2. registry'[e[1]] = e[2] \/ e[1] \in retried'
        BY Zenon, <1>1, <2>6, <3>1, SessionRows
      <3> QED
        BY Zenon, <3>1, <3>2 DEF RowEdges
    <2>7. dpc' = "freshTables" =>
            \A e \in seen' : e \in RowEdges' \/ e[1] \in retried' \/ e[2] \notin active'
      BY Zenon, <2>1, <2>2, <2>6 DEF SnapInv
    <2> QED
      BY Zenon, <2>2, <2>5, <2>7 DEF SnapInv
  <1>2. CASE ~InSnapshots
    <2>1. UNCHANGED tickVars
      BY Zenon DEF DDSession, TableLockStep, TableVictim, RegisterRowWait, WaitForTurn, WaitForVictim,
                   WaitForReturns, WaitForSleeps, EndTxnClear, EndTxnStep, EndTxnRemove, EndTxnNotify
    <2>2. dpc' \in {"idle", "prune"} /\ seen' = seen
      BY Zenon, <1>2, <2>1 DEF InSnapshots, tickVars
    <2> QED
      BY Zenon, <2>2 DEF SnapInv
  <1> QED
    BY Zenon, <1>1, <1>2

\* The second copy of the table edges: a row edge that has gone led to a transaction that
\* has ended, which waits by no edge; so the edges that have gone form a closed set of
\* row edges, and there is none of those.
LEMMA FreshTablesSnap ==
    ASSUME IInv, WakeInv, SnapInv, FreshTables
    PROVE  SnapInv'
  <1>1. /\ dpc = "freshTables" /\ dpc' = "resolve" /\ seen' = seen \cup TableEdges
        /\ UNCHANGED <<vars, rowVars, todo, cycles, retried>>
    BY Zenon DEF FreshTables
  <1>2. WaitEdges' = WaitEdges /\ retried' = retried
    BY Zenon, <1>1 DEF WaitEdges, RowEdges, TableEdges, vars, rowVars
  <1>3. ASSUME NEW E \in SUBSET seen', Closed(E), Untried(E)'
        PROVE  E \subseteq WaitEdges
    <2> DEFINE D == {e \in E : e \notin WaitEdges}
    <2>1. D \in SUBSET seen
      BY Zenon, <1>1 DEF WaitEdges
    <2>2. \A e \in D : e[1] \notin retried
      BY Zenon, <1>2, <1>3 DEF Untried
    <2>3. ASSUME NEW e \in D PROVE \E d \in D : d[1] = e[2]
      <3>1. PICK d \in E : d[1] = e[2]
        BY Zenon, <1>3 DEF Closed
      <3>2. e[2] \notin active
        BY Zenon, <1>1, <2>1, <2>2 DEF SnapInv, WaitEdges
      <3>3. d \notin WaitEdges
        BY Zenon, <3>1, <3>2, WaiterIsAlive
      <3> QED
        BY Zenon, <3>1, <3>3
    <2>4. Closed(D) /\ Untried(D)
      BY Zenon, <2>2, <2>3 DEF Closed, Untried
    <2> HIDE DEF D
    <2>5. D \subseteq WaitEdges
      BY Zenon, <1>1, <2>1, <2>4 DEF SnapInv
    <2> QED
      BY Zenon, <2>5 DEF D
  <1>4. seen' \subseteq Xids \X Xids
    BY Zenon, <1>1, EdgesArePairs DEF SnapInv
  <1> QED
    BY Zenon, <1>1, <1>2, <1>3, <1>4 DEF SnapInv

\* The other steps of the tick.
LEMMA TickSnap ==
    ASSUME IInv, WakeInv, SnapInv, Tick
    PROVE  SnapInv'
  <1> DEFINE Late == {"freshTables", "resolve", "mark", "notifyRows", "notifyTables"}
  <1>1. CASE TickStart \/ TickPrune
    <2>1. seen' = seen /\ dpc' = "prune"
      BY Zenon, <1>1 DEF TickStart, TickPrune
    <2> QED
      BY Zenon, <2>1 DEF SnapInv
  <1>2. CASE SnapshotRows
    <2>1. seen' = RowEdges /\ dpc' = "tables"
      BY Zenon, <1>2 DEF SnapshotRows
    <2> QED
      BY Zenon, <2>1, EdgesArePairs DEF SnapInv
  <1>3. CASE SnapshotTables \/ TickEnd
    <2>1. seen' = {} /\ dpc' \in {"idle", "freshRows"}
      BY Zenon, <1>3 DEF SnapshotTables, TickEnd
    <2> QED
      BY Zenon, <2>1 DEF SnapInv
  <1>4. CASE FreshRows
    <2>1. seen' = RowEdges /\ dpc' = "freshTables" /\ UNCHANGED <<vars, rowVars>>
      BY Zenon, <1>4 DEF FreshRows
    <2>2. RowEdges' = RowEdges /\ seen' \subseteq Xids \X Xids
      BY Zenon, <2>1, EdgesArePairs DEF RowEdges, rowVars
    <2> QED
      BY Zenon, <2>1, <2>2 DEF SnapInv, WaitEdges
  <1>5. ASSUME dpc \in Late, dpc # "freshTables", dpc' \in Late, dpc' # "freshTables",
               UNCHANGED <<seen, retried, registry, granted, queue>>,
               dpc' = "mark" => FC!EdgesOf(Head(cycles')) \subseteq seen
        PROVE  SnapInv'
    <2>1. WaitEdges' = WaitEdges
      BY Zenon, <1>5 DEF WaitEdges, RowEdges, TableEdges
    <2>2. \A E : Untried(E)' <=> Untried(E)
      BY Zenon, <1>5 DEF Untried
    <2> QED
      BY Zenon, <1>5, <2>1, <2>2 DEF SnapInv
  <1>6. CASE ResolveCycle
    <2>1. /\ dpc = "resolve" /\ dpc' \in {"resolve", "mark"}
          /\ UNCHANGED <<vars, rowVars, seen, retried>>
          /\ dpc' = "mark" => cycles' = cycles /\ FC!EdgesOf(Head(cycles)) \subseteq seen
      BY Zenon, <1>6 DEF ResolveCycle
    <2> QED
      BY Zenon, <1>5, <2>1 DEF vars, rowVars
  <1>7. CASE MarkVictim
    <2>1. /\ dpc = "mark" /\ dpc' = "notifyRows"
          /\ UNCHANGED <<granted, queue, rowVars, seen, retried>>
      BY Zenon, <1>7 DEF MarkVictim, Mark
    <2> QED
      BY Zenon, <1>5, <2>1 DEF rowVars
  <1>8. CASE NotifyRowWaiters
    <2>1. /\ dpc = "notifyRows" /\ dpc' = "notifyTables"
          /\ UNCHANGED <<vars, registry, seen, retried>>
      BY Zenon, <1>8 DEF NotifyRowWaiters
    <2> QED
      BY Zenon, <1>5, <2>1 DEF vars
  <1>9. CASE NotifyTableWaiters
    <2>1. /\ dpc = "notifyTables" /\ dpc' = "resolve"
          /\ UNCHANGED <<granted, queue, rowVars, seen, retried>>
      BY Zenon, <1>9 DEF NotifyTableWaiters, NotifyWaiters
    <2> QED
      BY Zenon, <1>5, <2>1 DEF rowVars
  <1> QED
    BY Zenon, <1>1, <1>2, <1>3, <1>4, <1>6, <1>7, <1>8, <1>9, FreshTablesSnap DEF Tick

\* Every step keeps the invariant.
LEMMA NextSnap == IInv /\ WakeInv /\ WakeInv' /\ SnapInv /\ [DDNext]_ddVars => SnapInv'
  <1> SUFFICES ASSUME IInv, WakeInv, WakeInv', SnapInv, [DDNext]_ddVars PROVE SnapInv'
    BY Zenon
  <1>1. CASE UNCHANGED ddVars
    <2>1. UNCHANGED <<dpc, seen, cycles, retried, registry, active, granted, queue>>
      BY Zenon, <1>1 DEF ddVars, vars, rowVars, tickVars
    <2>2. RowEdges' = RowEdges /\ WaitEdges' = WaitEdges
      BY Zenon, <2>1 DEF WaitEdges, RowEdges, TableEdges
    <2>3. \A E : Untried(E)' <=> Untried(E)
      BY Zenon, <2>1 DEF Untried
    <2> QED
      BY Zenon, <2>1, <2>2, <2>3 DEF SnapInv
  <1> QED
    BY Zenon, <1>1, SessionSnap, TickSnap DEF DDNext

-----------------------------------------------------------------------------
(* Deadlocks are seen.                                                     *)

\* What CycleSearchProofs shows of find_cycles, for the graphs the detector gives it.  The
\* detector runs it within one step, so that its variables stand for nothing here.
Search == INSTANCE CycleSearchProofs
              WITH Nodes <- Xids, edges <- seen, dfs <- FC!DfsStart, taken <- 0

-----------------------------------------------------------------------------
(* Cycles.                                                                 *)

\* The detector's find_cycles is the one of CycleSearchProofs.
LEMMA SameSearch ==
    ASSUME NEW E
    PROVE  FC!FindCyclesIn(E) = Search!FindCyclesIn(E)
BY Zenon DEF FC!FindCyclesIn, FC!DfsStart, FC!DfsSteps, FC!DfsStep, FC!Unvisited, FC!Successors, FC!Top,
   FC!VisitChild, FC!MinOf, FC!Pop, FC!Push, FC!Starts, FC!CycleFrom, FC!Cardinality,
   Search!FindCyclesIn, Search!DfsStart, Search!DfsSteps, Search!DfsStep, Search!Unvisited,
   Search!Successors, Search!Top, Search!VisitChild, Search!MinOf, Search!Pop, Search!Push,
   Search!Starts, Search!CycleFrom, Search!Cardinality

\* find_cycles returns sequences of transactions, and meets every deadlock of its graph.
LEMMA Found ==
    ASSUME NEW E \in SUBSET (Xids \X Xids)
    PROVE  /\ FC!FindCyclesIn(E) \in Seq(Seq(Xids))
           /\ \A S \in SUBSET Xids :
                S # {} /\ (\A n \in S : \E m \in S : <<n, m>> \in E) =>
                  \E i \in 1..Len(FC!FindCyclesIn(E)) : \E j \in 1..Len(FC!FindCyclesIn(E)[i]) :
                      FC!FindCyclesIn(E)[i][j] \in S
  <1>1. E \in SUBSET Search!Edges
    BY Zenon DEF Search!Edges
  <1>2. /\ Search!FindCyclesIn(E) \in Seq(Seq(Xids))
        /\ \A S \in SUBSET Xids :
             S # {} /\ (\A n \in S : \E m \in S : <<n, m>> \in E) =>
               \E i \in 1..Len(Search!FindCyclesIn(E)) : \E j \in 1..Len(Search!FindCyclesIn(E)[i]) :
                   Search!FindCyclesIn(E)[i][j] \in S
    <2>1. Xids \subseteq Nat \ {0} /\ Search!IsFiniteSet(Xids)
      BY Zenon, XidsAssumption DEF IsFiniteSet, Search!IsFiniteSet
    <2> QED
      BY Zenon, <1>1, <2>1, Search!FindCyclesInFinds
  <1> QED
    BY Zenon, <1>2, SameSearch

\* The candidate cycles are sequences of transactions, and there is one to resolve.
CyclesInv ==
    /\ cycles \in Seq(Seq(Xids))
    /\ dpc \in {"mark", "notifyRows", "notifyTables"} => cycles # <<>>

LEMMA NextCycles == SnapInv /\ CyclesInv /\ [DDNext]_ddVars => CyclesInv'
  <1> SUFFICES ASSUME SnapInv, CyclesInv, [DDNext]_ddVars PROVE CyclesInv'
    BY Zenon
  <1>1. \A q \in Seq(Seq(Xids)) : q # <<>> => Tail(q) \in Seq(Seq(Xids))
    OBVIOUS
  <1>2. CASE UNCHANGED <<cycles, dpc>>
    BY Zenon, <1>2 DEF CyclesInv
  <1>3. CASE SnapshotTables
    <2>1. seen \cup TableEdges \in SUBSET (Xids \X Xids)
      BY Zenon DEF SnapInv, TableEdges
    <2>2. /\ cycles' = FC!FindCyclesIn(seen \cup TableEdges)
          /\ dpc' \in {"idle", "freshRows"}
      BY Zenon, <1>3 DEF SnapshotTables
    <2> QED
      BY Zenon, <2>1, <2>2, Found DEF CyclesInv
  <1>4. CASE ResolveCycle \/ NotifyTableWaiters
    <2>1. /\ cycles # <<>> /\ cycles' \in {cycles, Tail(cycles)}
          /\ dpc' = "resolve" \/ (dpc' = "mark" /\ cycles' = cycles)
      BY Zenon, <1>4 DEF ResolveCycle, NotifyTableWaiters, CyclesInv
    <2>2. cycles \in Seq(Seq(Xids))
      BY Zenon DEF CyclesInv
    <2>3. cycles' \in Seq(Seq(Xids))
      BY Zenon, <1>1, <2>1, <2>2
    <2> QED
      BY Zenon, <2>1, <2>3 DEF CyclesInv
  <1>5. CASE MarkVictim \/ NotifyRowWaiters
    <2>1. cycles' = cycles /\ dpc \in {"mark", "notifyRows"}
      BY Zenon, <1>5 DEF MarkVictim, NotifyRowWaiters
    <2> QED
      BY Zenon, <2>1 DEF CyclesInv
  <1>6. CASE TickStart \/ TickPrune \/ SnapshotRows \/ FreshRows \/ FreshTables \/ TickEnd
    <2>1. cycles' = cycles /\ dpc' \in {"prune", "tables", "freshTables", "resolve", "idle"}
      BY Zenon, <1>6 DEF TickStart, TickPrune, SnapshotRows, FreshRows, FreshTables, TickEnd
    <2> QED
      BY Zenon, <2>1 DEF CyclesInv
  <1>7. ASSUME NEW x \in Xids, DDSession(x) PROVE UNCHANGED <<cycles, dpc>>
    BY Zenon, <1>7 DEF DDSession, TableLockStep, TableVictim, RegisterRowWait, WaitForTurn, WaitForVictim,
       WaitForReturns, WaitForSleeps, EndTxnClear, EndTxnStep, EndTxnRemove, EndTxnNotify, tickVars
  <1>8. CASE UNCHANGED ddVars
    BY Zenon, <1>2, <1>8 DEF ddVars, tickVars
  <1> QED
    BY Zenon, <1>2, <1>3, <1>4, <1>5, <1>6, <1>7, <1>8 DEF DDNext, Tick

\* The lock table, the wakeups, the snapshots and the cycles together.
LEMMA DetectorInvariant == DDSpec => [](IInv /\ WakeInv /\ SnapInv /\ CyclesInv)
  <1>1. DDSpec => []IInv
    BY DetectorImplementsLockManager, LockManagerInvariant, PTL DEF ImplementsLockManager
  <1>2. DDInit => CyclesInv
    <2>1. <<>> \in Seq(Seq(Xids))
      OBVIOUS
    <2> QED
      BY Zenon, <2>1 DEF DDInit, CyclesInv
  <1> QED
    BY <1>1, <1>2, WakeInvariant, InitSnap, NextSnap, NextCycles, PTL DEF DDSpec

\* The edges of a cycle are closed: where one ends the next begins.
LEMMA RingIsClosed ==
    ASSUME NEW c \in Seq(Xids)
    PROVE  Closed(FC!EdgesOf(c)) /\ \A e \in FC!EdgesOf(c) : e[1] \in Members(c)
  <1>1. ASSUME NEW i \in 1..Len(c)
        PROVE  (i % Len(c)) + 1 \in 1..Len(c)
    OBVIOUS
  <1>2. \A e : e \in FC!EdgesOf(c) <=> \E i \in 1..Len(c) : e = <<c[i], c[(i % Len(c)) + 1]>>
    BY Zenon DEF FC!EdgesOf
  <1>3. \A a, b : <<a, b>>[1] = a /\ <<a, b>>[2] = b
    OBVIOUS
  <1>4. ASSUME NEW e \in FC!EdgesOf(c)
        PROVE  e[1] \in Members(c) /\ \E d \in FC!EdgesOf(c) : d[1] = e[2]
    <2>1. PICK i \in 1..Len(c) : e = <<c[i], c[(i % Len(c)) + 1]>>
      BY Zenon, <1>2
    <2> DEFINE j == (i % Len(c)) + 1
    <2>2. j \in 1..Len(c)
      BY Zenon, <1>1
    <2>3. e[1] = c[i] /\ e[2] = c[j]
      BY Zenon, <1>3, <2>1
    <2> HIDE DEF j
    <2>4. <<c[j], c[(j % Len(c)) + 1]>> \in FC!EdgesOf(c)
      BY Zenon, <1>2, <2>2
    <2> QED
      BY Zenon, <1>3, <2>3, <2>4 DEF Members
  <1> QED
    BY Zenon, <1>4 DEF Closed

\* tick and mark_victims of deadlock.rs: the two copies of the wait-for graph are each torn, and
\* the sessions go on while they are made; still, when a victim is marked every edge of its
\* cycle exists, unless a member of it consumed an older mark meanwhile.
THEOREM MarksSound == DDSpec => []MarksAreSound
  <1>1. ASSUME SnapInv, CyclesInv PROVE MarksAreSound
    <2> SUFFICES ASSUME dpc = "mark", Members(Head(cycles)) \cap retried = {}
                 PROVE  FC!EdgesOf(Head(cycles)) \subseteq RowEdges \cup TableEdges
      BY Zenon DEF MarksAreSound
    <2>1. Head(cycles) \in Seq(Xids)
      <3>1. cycles \in Seq(Seq(Xids)) /\ cycles # <<>>
        BY Zenon, <1>1 DEF CyclesInv
      <3> QED
        BY <3>1
    <2>2. /\ Closed(FC!EdgesOf(Head(cycles)))
          /\ \A e \in FC!EdgesOf(Head(cycles)) : e[1] \in Members(Head(cycles))
      BY Zenon, <2>1, RingIsClosed
    <2>3. Untried(FC!EdgesOf(Head(cycles)))
      BY Zenon, <2>2 DEF Untried
    <2>4. FC!EdgesOf(Head(cycles)) \in SUBSET seen
      BY Zenon, <1>1 DEF SnapInv
    <2> QED
      BY Zenon, <1>1, <2>2, <2>3, <2>4 DEF SnapInv, WaitEdges
  <1> QED
    BY <1>1, DetectorInvariant, PTL

\* wait_for_edges and find_cycles: transactions that wait for each other by edges of the snapshot
\* are not overlooked, the tick goes on with a candidate cycle that has one of them.
THEOREM DeadlocksAreSeen ==
    DDSpec => [][SnapshotTables =>
                   \A S \in SUBSET Xids :
                      S # {} /\ (\A x \in S : \E y \in S : <<x, y>> \in seen \cup TableEdges) =>
                        dpc' = "freshRows" /\ \E i \in 1..Len(cycles') : Members(cycles'[i]) \cap S # {}]_ddVars
  <1> DEFINE Sees == SnapshotTables =>
                       \A S \in SUBSET Xids :
                          S # {} /\ (\A x \in S : \E y \in S : <<x, y>> \in seen \cup TableEdges) =>
                            dpc' = "freshRows" /\ \E i \in 1..Len(cycles') : Members(cycles'[i]) \cap S # {}
  <1>1. ASSUME SnapInv PROVE Sees
    <2> SUFFICES ASSUME SnapshotTables, NEW S \in SUBSET Xids, S # {},
                        \A x \in S : \E y \in S : <<x, y>> \in seen \cup TableEdges
                 PROVE  dpc' = "freshRows" /\ \E i \in 1..Len(cycles') : Members(cycles'[i]) \cap S # {}
      BY Zenon
    <2>1. seen \cup TableEdges \in SUBSET (Xids \X Xids)
      BY Zenon, <1>1 DEF SnapInv, TableEdges
    <2> DEFINE found == FC!FindCyclesIn(seen \cup TableEdges)
    <2>2. cycles' = found /\ dpc' = IF found = <<>> THEN "idle" ELSE "freshRows"
      BY Zenon DEF SnapshotTables
    <2>3. \E i \in 1..Len(found) : \E j \in 1..Len(found[i]) : found[i][j] \in S
      BY Zenon, <2>1, Found
    <2> HIDE DEF found
    <2>4. \A i : i \notin 1..Len(<<>>)
      OBVIOUS
    <2>5. found # <<>>
      BY Zenon, <2>3, <2>4
    <2> QED
      BY Zenon, <2>2, <2>3, <2>5 DEF Members
  <1> HIDE DEF Sees
  <1>2. DDSpec => [][Sees]_ddVars
    BY <1>1, DetectorInvariant, PTL
  <1> QED
    BY <1>2 DEF Sees

=============================================================================
