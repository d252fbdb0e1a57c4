--------------------------- MODULE CycleSearchProofs ---------------------------
(***************************************************************************)
(* Proofs about find_cycles, for any finite set of transactions and any    *)
(* wait-for graph on them: it ends, reports cycles of the graph only, and  *)
(* leaves no cycle without a reported member.  What one turn of the loops  *)
(* keeps is proved of DfsStep alone, and then used twice: for the search   *)
(* run turn by turn (CycleSearch) and for FindCyclesIn, which the deadlock *)
(* detector calls.                                                         *)
(***************************************************************************)
EXTENDS CycleSearch, FiniteSetTheorems, WellFoundedInduction, TLAPS

\* Every nonempty set of numbers has a least element.
LEMMA Least ==
    ASSUME NEW T, T \subseteq Nat, T # {}
    PROVE  \E n \in T : \A m \in T : n <= m
  <1> DEFINE R == OpToRel(<, Nat)
  <1>1. R = {ss \in Nat \X Nat : ss[1] < ss[2]}
    BY Zenon DEF OpToRel
  <1>2. IsWellFoundedOn(R, Nat)
    BY Zenon, NatLessThanWellFounded
  <1> HIDE DEF R
  <1>3. PICK n \in T : \A m \in T : <<m, n>> \notin R
    BY Zenon, <1>2, WFMin
  <1>4. \A m, k \in Nat : m < k => <<m, k>> \in R
    BY SMT, <1>1
  <1>5. \A m \in T : m \in Nat /\ n \in Nat /\ ~(m < n)
    BY Zenon, <1>3, <1>4
  <1>6. \A m \in T : n <= m
    BY <1>5
  <1> QED
    BY Zenon, <1>6

\* MinOf picks the least element.
LEMMA MinOfFacts ==
    ASSUME NEW T, T \subseteq Nodes, T # {}
    PROVE  MinOf(T) \in T /\ \A m \in T : MinOf(T) <= m
  <1>1. T \subseteq Nat
    BY Zenon, NodesAssumption
  <1> QED
    BY Zenon, <1>1, Least DEF MinOf

\* Sequences, as the provers know them.
LEMMA SeqElements ==
    ASSUME NEW A, NEW q \in Seq(A)
    PROVE  Len(q) \in Nat /\ \A i \in 1..Len(q) : q[i] \in A
OBVIOUS

LEMMA SeqAppend ==
    ASSUME NEW A, NEW q \in Seq(A), NEW w \in A
    PROVE  /\ Append(q, w) \in Seq(A) /\ Len(Append(q, w)) = Len(q) + 1
           /\ Append(q, w)[Len(q) + 1] = w
           /\ \A i \in 1..Len(q) : Append(q, w)[i] = q[i]
OBVIOUS

LEMMA SeqSlice ==
    ASSUME NEW A, NEW q \in Seq(A), NEW a \in 1..(Len(q) + 1), NEW b \in 0..Len(q), a <= b + 1
    PROVE  /\ SubSeq(q, a, b) \in Seq(A) /\ Len(SubSeq(q, a, b)) = b - a + 1
           /\ \A i \in 1..(b - a + 1) : SubSeq(q, a, b)[i] = q[a + i - 1]
OBVIOUS

LEMMA SeqPop ==
    ASSUME NEW A, NEW q \in Seq(A), q # <<>>
    PROVE  /\ SubSeq(q, 1, Len(q) - 1) \in Seq(A) /\ Len(SubSeq(q, 1, Len(q) - 1)) = Len(q) - 1
           /\ \A i \in 1..(Len(q) - 1) : SubSeq(q, 1, Len(q) - 1)[i] = q[i]
  <1>1. 1 \in 1..(Len(q) + 1) /\ Len(q) - 1 \in 0..Len(q) /\ 1 <= (Len(q) - 1) + 1
    OBVIOUS
  <1>2. /\ SubSeq(q, 1, Len(q) - 1) \in Seq(A) /\ Len(SubSeq(q, 1, Len(q) - 1)) = (Len(q) - 1) - 1 + 1
        /\ \A i \in 1..((Len(q) - 1) - 1 + 1) : SubSeq(q, 1, Len(q) - 1)[i] = q[1 + i - 1]
    BY Zenon, <1>1, SeqSlice
  <1>3. (Len(q) - 1) - 1 + 1 = Len(q) - 1 /\ \A i \in 1..(Len(q) - 1) : 1 + i - 1 = i
    BY <1>1
  <1> QED
    BY Zenon, <1>2, <1>3

LEMMA SeqUpdate ==
    ASSUME NEW A, NEW q \in Seq(A), NEW k \in 1..Len(q), NEW w \in A
    PROVE  LET r == [q EXCEPT ![k] = w]
           IN  r \in Seq(A) /\ Len(r) = Len(q) /\ r[k] = w /\ \A i \in 1..Len(q) : i # k => r[i] = q[i]
OBVIOUS

\* The last position of a stack that is not empty.
LEMMA LastPosition ==
    ASSUME NEW k \in Nat, k > 0
    PROVE  k \in 1..k /\ k - 1 \in 0..k /\ 1 \in 1..(k + 1) /\ 1 <= (k - 1) + 1
OBVIOUS

LEMMA NotEmpty ==
    ASSUME NEW A, NEW q \in Seq(A), q # <<>>
    PROVE  Len(q) \in Nat /\ Len(q) > 0
OBVIOUS

LEMMA Shifted ==
    ASSUME NEW p \in Nat, NEW i \in Nat, NEW j \in Nat, p + i - 1 = p + j - 1
    PROVE  i = j
OBVIOUS

-----------------------------------------------------------------------------
(* What holds between two turns.                                           *)

Colors == {"white", "gray", "black"}
Searches == [color : [Nodes -> Colors], path : Seq(Nodes), cursor : Seq(Nat),
             cycles : Seq(Seq(Nodes))]

\* The gray nodes are the nodes of the path, each once, and the path is one in the graph.
PathIsGray(E, s) ==
    /\ s \in Searches /\ Len(s.cursor) = Len(s.path)
    /\ \A n \in Nodes : s.color[n] = "gray" <=> \E i \in 1..Len(s.path) : s.path[i] = n
    /\ \A i, j \in 1..Len(s.path) : s.path[i] = s.path[j] => i = j
    /\ \A i \in 1..(Len(s.path) - 1) : <<s.path[i], s.path[i + 1]>> \in E

Reported(s, m) ==
    \E i \in 1..Len(s.cycles) : \E j \in 1..Len(s.cycles[i]) : s.cycles[i][j] = m

AreCycles(E, s) ==
    \A i \in 1..Len(s.cycles) : IsElementary(s.cycles[i]) /\ EdgesOf(s.cycles[i]) \subseteq E

\* A child that was looked at is explored, is being explored, or closed a cycle.
LookedAt(E, s) ==
    \A i \in 1..Len(s.path) : \A m \in Successors(E, s.path[i]) :
        m <= s.cursor[i] =>
            s.color[m] = "black" \/ Reported(s, m) \/ (i < Len(s.path) /\ m = s.path[i + 1])

\* Every node of S waits for a node of S.
Trapped(E, S) == \A n \in S : \E m \in S : <<n, m>> \in E

\* A set of nodes that wait for each other cannot be left by the search unreported.
BlackIsReported(E, s) ==
    \A S \in SUBSET Nodes :
        Trapped(E, S) /\ (\E n \in S : s.color[n] = "black") => \E m \in S : Reported(s, m)

DfsInv(E, s) ==
    PathIsGray(E, s) /\ AreCycles(E, s) /\ LookedAt(E, s) /\ BlackIsReported(E, s)

\* What the turns have used up: nodes pushed, nodes popped, edges looked at.
Touched(s) == {n \in Nodes : s.color[n] # "white"}
Explored(s) == {n \in Nodes : s.color[n] = "black"}
Looked(E, s) ==
    {e \in E : \/ s.color[e[1]] = "black"
               \/ \E i \in 1..Len(s.path) : s.path[i] = e[1] /\ e[2] <= s.cursor[i]}
Spent(E, s) == Cardinality(Touched(s)) + Cardinality(Explored(s)) + Cardinality(Looked(E, s))

\* The fields of a search.
LEMMA Fields ==
    ASSUME NEW s \in Searches
    PROVE  /\ s.color \in [Nodes -> Colors] /\ s.path \in Seq(Nodes) /\ s.cursor \in Seq(Nat)
           /\ s.cycles \in Seq(Seq(Nodes))
           /\ Len(s.path) \in Nat /\ Len(s.cursor) \in Nat /\ Len(s.cycles) \in Nat
           /\ \A i \in 1..Len(s.path) : s.path[i] \in Nodes
           /\ \A i \in 1..Len(s.cursor) : s.cursor[i] \in Nat
           /\ \A i \in 1..Len(s.cycles) : s.cycles[i] \in Seq(Nodes)
  <1>1. /\ s.color \in [Nodes -> Colors] /\ s.path \in Seq(Nodes) /\ s.cursor \in Seq(Nat)
        /\ s.cycles \in Seq(Seq(Nodes))
    BY Zenon DEF Searches
  <1> QED
    BY Zenon, <1>1, SeqElements

\* Counting: a set that gains an element counts one more, a larger set no less.
LEMMA Gains ==
    ASSUME NEW A, NEW B, IsFiniteSet(B), A \subseteq B
    PROVE  /\ Cardinality(A) \in Nat /\ Cardinality(B) \in Nat /\ Cardinality(A) <= Cardinality(B)
           /\ A # B => Cardinality(A) + 1 <= Cardinality(B)
  <1>1. /\ IsFiniteSet(A) /\ Cardinality(A) <= Cardinality(B)
        /\ Cardinality(A) = Cardinality(B) => A = B
    BY Zenon, FS_Subset
  <1>2. Cardinality(A) \in Nat /\ Cardinality(B) \in Nat
    BY Zenon, <1>1, FS_CardinalityType
  <1> QED
    BY <1>1, <1>2

\* No search spends more than DfsSteps.
LEMMA SpentBounded ==
    ASSUME NEW E \in SUBSET Edges, NEW s
    PROVE  /\ IsFiniteSet(Touched(s)) /\ IsFiniteSet(Explored(s)) /\ IsFiniteSet(Looked(E, s))
           /\ Spent(E, s) \in Nat /\ Spent(E, s) <= DfsSteps(E) /\ DfsSteps(E) \in Nat
  <1>1. IsFiniteSet(Nodes) /\ IsFiniteSet(Edges)
    BY Zenon, NodesAssumption, FS_Product DEF Edges
  <1>2. IsFiniteSet(E)
    BY Zenon, <1>1, FS_Subset
  <1>3. Touched(s) \subseteq Nodes /\ Explored(s) \subseteq Nodes /\ Looked(E, s) \subseteq E
    BY Zenon DEF Touched, Explored, Looked
  <1>4. IsFiniteSet(Touched(s)) /\ IsFiniteSet(Explored(s)) /\ IsFiniteSet(Looked(E, s))
    BY Zenon, <1>1, <1>2, <1>3, FS_Subset
  <1>5. /\ Cardinality(Touched(s)) \in Nat /\ Cardinality(Nodes) \in Nat
        /\ Cardinality(Touched(s)) <= Cardinality(Nodes)
    BY Zenon, <1>1, <1>3, Gains
  <1>6. Cardinality(Explored(s)) \in Nat /\ Cardinality(Explored(s)) <= Cardinality(Nodes)
    BY Zenon, <1>1, <1>3, Gains
  <1>7. /\ Cardinality(Looked(E, s)) \in Nat /\ Cardinality(E) \in Nat
        /\ Cardinality(Looked(E, s)) <= Cardinality(E)
    BY Zenon, <1>2, <1>3, Gains
  <1>8. Spent(E, s) \in Nat /\ Spent(E, s) <= DfsSteps(E) /\ DfsSteps(E) \in Nat
    BY <1>5, <1>6, <1>7 DEF Spent, DfsSteps
  <1> QED
    BY Zenon, <1>4, <1>8

\* A turn that loses nothing and gains somewhere spends.
LEMMA SpentGrows ==
    ASSUME NEW E \in SUBSET Edges, NEW s, NEW t,
           Touched(s) \subseteq Touched(t), Explored(s) \subseteq Explored(t),
           Looked(E, s) \subseteq Looked(E, t),
           \/ Touched(s) # Touched(t) \/ Explored(s) # Explored(t) \/ Looked(E, s) # Looked(E, t)
    PROVE  Spent(E, s) + 1 <= Spent(E, t)
  <1> DEFINE a == Cardinality(Touched(s))
             b == Cardinality(Explored(s))
             c == Cardinality(Looked(E, s))
             x == Cardinality(Touched(t))
             y == Cardinality(Explored(t))
             z == Cardinality(Looked(E, t))
  <1>1. IsFiniteSet(Touched(t)) /\ IsFiniteSet(Explored(t)) /\ IsFiniteSet(Looked(E, t))
    BY Zenon, SpentBounded
  <1>2. a \in Nat /\ x \in Nat /\ a <= x /\ (Touched(s) # Touched(t) => a + 1 <= x)
    BY Zenon, <1>1, Gains
  <1>3. b \in Nat /\ y \in Nat /\ b <= y /\ (Explored(s) # Explored(t) => b + 1 <= y)
    BY Zenon, <1>1, Gains
  <1>4. c \in Nat /\ z \in Nat /\ c <= z /\ (Looked(E, s) # Looked(E, t) => c + 1 <= z)
    BY Zenon, <1>1, Gains
  <1>5. Spent(E, s) = a + b + c /\ Spent(E, t) = x + y + z
    BY Zenon DEF Spent
  <1> HIDE DEF a, b, c, x, y, z
  <1> QED
    BY <1>2, <1>3, <1>4, <1>5

-----------------------------------------------------------------------------
(* One turn.                                                               *)

\* Edges join numbered transactions.
LEMMA EdgeFacts ==
    ASSUME NEW E \in SUBSET Edges, NEW e \in E
    PROVE  e[1] \in Nodes /\ e[2] \in Nodes /\ e = <<e[1], e[2]>> /\ e[2] \in Nat /\ e[2] # 0
  <1>1. e[1] \in Nodes /\ e[2] \in Nodes /\ e = <<e[1], e[2]>>
    BY DEF Edges
  <1> QED
    BY Zenon, <1>1, NodesAssumption

\* The stacks between two turns.
LEMMA Stacks ==
    ASSUME NEW E, NEW s, DfsInv(E, s)
    PROVE  /\ s \in Searches /\ Len(s.path) \in Nat /\ Len(s.cursor) = Len(s.path)
           /\ s.color \in [Nodes -> Colors] /\ s.path \in Seq(Nodes) /\ s.cursor \in Seq(Nat)
           /\ s.cycles \in Seq(Seq(Nodes))
           /\ \A i \in 1..Len(s.path) : s.path[i] \in Nodes
           /\ \A i \in 1..Len(s.path) : s.cursor[i] \in Nat
  <1>1. s \in Searches /\ Len(s.cursor) = Len(s.path)
    BY Zenon DEF DfsInv, PathIsGray
  <1>2. \A i \in 1..Len(s.cursor) : s.cursor[i] \in Nat
    BY Zenon, <1>1, Fields
  <1>3. \A i \in 1..Len(s.path) : s.cursor[i] \in Nat
    BY <1>1, <1>2
  <1> QED
    BY Zenon, <1>1, <1>3, Fields

\* A white node is pushed, as the root of a new search or as the child just looked at.
LEMMA PushKeeps ==
    ASSUME NEW E \in SUBSET Edges, NEW s, DfsInv(E, s), NEW n \in Nodes, s.color[n] = "white",
           NEW t \in Searches,
           t.color = [s.color EXCEPT ![n] = "gray"], t.path = Append(s.path, n),
           t.cycles = s.cycles, Len(t.cursor) = Len(s.path) + 1, t.cursor[Len(s.path) + 1] = 0,
           \A i \in 1..Len(s.path) : i < Len(s.path) => t.cursor[i] = s.cursor[i],
           Len(s.path) > 0 => /\ <<s.path[Len(s.path)], n>> \in E
                              /\ s.cursor[Len(s.path)] <= t.cursor[Len(s.path)]
                              /\ \A m \in Successors(E, s.path[Len(s.path)]) :
                                   m <= t.cursor[Len(s.path)] => m <= s.cursor[Len(s.path)] \/ m = n
    PROVE  DfsInv(E, t) /\ Spent(E, s) + 1 <= Spent(E, t)
  <1>1. /\ Len(s.path) \in Nat /\ Len(s.cursor) = Len(s.path)
        /\ s.color \in [Nodes -> Colors] /\ s.path \in Seq(Nodes)
        /\ \A i \in 1..Len(s.path) : s.path[i] \in Nodes
        /\ \A i \in 1..Len(s.path) : s.cursor[i] \in Nat
    BY ONLY DfsInv(E, s), Stacks
  <1>2. /\ Len(t.path) = Len(s.path) + 1 /\ t.path[Len(s.path) + 1] = n
        /\ \A i \in 1..Len(s.path) : t.path[i] = s.path[i]
    BY <1>1, SeqAppend
  <1>3. /\ t.color[n] = "gray" /\ \A m \in Nodes : m # n => t.color[m] = s.color[m]
    BY Zenon, <1>1
  <1>4. /\ \A m \in Nodes : s.color[m] = "gray" <=> \E i \in 1..Len(s.path) : s.path[i] = m
        /\ \A i, j \in 1..Len(s.path) : s.path[i] = s.path[j] => i = j
        /\ \A i \in 1..(Len(s.path) - 1) : <<s.path[i], s.path[i + 1]>> \in E
    BY Zenon DEF DfsInv, PathIsGray
  <1>5. \A i \in 1..Len(s.path) : s.path[i] # n
    BY Zenon, <1>4
  <1>6. \A i \in 1..Len(t.path) : i \in 1..Len(s.path) \/ i = Len(s.path) + 1
    BY <1>1, <1>2
  <1>7. 1..Len(s.path) \subseteq 1..Len(t.path) /\ Len(s.path) + 1 \in 1..Len(t.path)
    BY <1>1, <1>2
  <1>8. PathIsGray(E, t)
    <2>1. ASSUME NEW m \in Nodes PROVE t.color[m] = "gray" <=> \E i \in 1..Len(t.path) : t.path[i] = m
      <3>1. CASE m = n
        BY Zenon, <1>2, <1>3, <1>7, <3>1
      <3>2. CASE m # n
        <4>1. t.color[m] = "gray" <=> \E i \in 1..Len(s.path) : s.path[i] = m
          BY Zenon, <1>3, <1>4, <3>2
        <4>2. (\E i \in 1..Len(s.path) : s.path[i] = m) => \E i \in 1..Len(t.path) : t.path[i] = m
          BY Zenon, <1>2, <1>7
        <4>3. ASSUME NEW i \in 1..Len(t.path), t.path[i] = m PROVE \E j \in 1..Len(s.path) : s.path[j] = m
          <5>1. i \in 1..Len(s.path)
            BY Zenon, <1>2, <1>6, <3>2, <4>3
          <5> QED
            BY Zenon, <1>2, <4>3, <5>1
        <4> QED
          BY Zenon, <4>1, <4>2, <4>3
      <3> QED
        BY Zenon, <3>1, <3>2
    <2>2. ASSUME NEW i \in 1..Len(t.path), NEW j \in 1..Len(t.path), t.path[i] = t.path[j] PROVE i = j
      <3>1. CASE i \in 1..Len(s.path) /\ j \in 1..Len(s.path)
        BY Zenon, <1>2, <1>4, <2>2, <3>1
      <3>2. CASE i = Len(s.path) + 1 /\ j \in 1..Len(s.path)
        BY Zenon, <1>2, <1>5, <2>2, <3>2
      <3>3. CASE j = Len(s.path) + 1 /\ i \in 1..Len(s.path)
        BY Zenon, <1>2, <1>5, <2>2, <3>3
      <3> QED
        BY Zenon, <1>6, <3>1, <3>2, <3>3
    <2>3. ASSUME NEW i \in 1..Len(s.path) PROVE <<t.path[i], t.path[i + 1]>> \in E
      <3>1. CASE i = Len(s.path)
        <4>1. Len(s.path) > 0
          BY <1>1, <3>1
        <4> QED
          BY Zenon, <1>2, <3>1, <4>1
      <3>2. CASE i # Len(s.path)
        <4>1. i \in 1..(Len(s.path) - 1) /\ i + 1 \in 1..Len(s.path)
          BY <1>1, <3>2
        <4> QED
          BY Zenon, <1>2, <1>4, <4>1
      <3> QED
        BY Zenon, <3>1, <3>2
    <2>4. Len(t.path) - 1 = Len(s.path)
      BY <1>1, <1>2
    <2>5. Len(t.cursor) = Len(t.path)
      BY Zenon, <1>2
    <2> QED
      BY Zenon, <1>2, <2>1, <2>2, <2>3, <2>4, <2>5 DEF PathIsGray
  <1>9. AreCycles(E, t) /\ \A m : Reported(t, m) <=> Reported(s, m)
    BY Zenon DEF DfsInv, AreCycles, Reported
  <1>10. \A m \in Nodes : t.color[m] = "black" <=> s.color[m] = "black"
    BY Zenon, <1>3
  <1>11. LookedAt(E, t)
    <2> SUFFICES ASSUME NEW i \in 1..Len(t.path), NEW m \in Successors(E, t.path[i]), m <= t.cursor[i]
                 PROVE  t.color[m] = "black" \/ Reported(t, m) \/ (i < Len(t.path) /\ m = t.path[i + 1])
      BY Zenon DEF LookedAt
    <2>1. m \in Nodes /\ m \in Nat \ {0}
      BY Zenon, NodesAssumption DEF Successors
    <2>2. i # Len(s.path) + 1
      BY <2>1
    <2>3. /\ i \in 1..Len(s.path) /\ i < Len(t.path) /\ i + 1 \in 1..Len(t.path)
          /\ m \in Successors(E, s.path[i])
      BY <1>1, <1>2, <2>2
    <2>4. ASSUME m <= s.cursor[i]
          PROVE  s.color[m] = "black" \/ Reported(s, m) \/ (i < Len(s.path) /\ m = s.path[i + 1])
      BY Zenon, <2>3, <2>4 DEF DfsInv, LookedAt
    <2>5. CASE i < Len(s.path)
      <3>1. m <= s.cursor[i] /\ i + 1 \in 1..Len(s.path)
        BY <1>1, <2>3, <2>5
      <3> QED
        BY Zenon, <1>2, <1>9, <1>10, <2>1, <2>3, <2>4, <3>1
    <2>6. CASE ~(i < Len(s.path))
      <3>1. i = Len(s.path) /\ Len(s.path) > 0 /\ ~(Len(s.path) < Len(s.path))
        BY <1>1, <2>3, <2>6
      <3>2. m <= s.cursor[Len(s.path)] \/ m = n
        BY Zenon, <2>3, <3>1
      <3> QED
        BY Zenon, <1>2, <1>9, <1>10, <2>1, <2>3, <2>4, <3>1, <3>2
    <2> QED
      BY Zenon, <2>5, <2>6
  <1>12. BlackIsReported(E, t)
    BY Zenon, <1>9, <1>10 DEF DfsInv, BlackIsReported
  <1>13. Touched(s) \subseteq Touched(t) /\ Touched(s) # Touched(t) /\ Explored(s) \subseteq Explored(t)
    <2>1. n \in Touched(t) /\ n \notin Touched(s)
      BY Zenon, <1>3 DEF Touched
    <2>2. Touched(s) \subseteq Touched(t)
      BY Zenon, <1>3 DEF Touched
    <2>3. Explored(s) \subseteq Explored(t)
      BY Zenon, <1>10 DEF Explored
    <2> QED
      BY Zenon, <2>1, <2>2, <2>3
  <1>14. Looked(E, s) \subseteq Looked(E, t)
    <2> SUFFICES ASSUME NEW e \in Looked(E, s) PROVE e \in Looked(E, t)
      BY Zenon
    <2>1. e \in E /\ e[1] \in Nodes /\ e[2] \in Nat
      BY Zenon, EdgeFacts DEF Looked
    <2>2. CASE s.color[e[1]] = "black"
      BY Zenon, <1>10, <2>1, <2>2 DEF Looked
    <2>3. CASE \E i \in 1..Len(s.path) : s.path[i] = e[1] /\ e[2] <= s.cursor[i]
      <3>1. PICK i \in 1..Len(s.path) : s.path[i] = e[1] /\ e[2] <= s.cursor[i]
        BY Zenon, <2>3
      <3>2. i \in 1..Len(t.path) /\ t.path[i] = e[1]
        BY Zenon, <1>2, <1>7, <3>1
      <3>3. t.cursor[i] \in Nat
        <4>1. i \in 1..Len(t.cursor)
          BY <1>1
        <4> QED
          BY Zenon, <4>1, Fields
      <3>4. e[2] <= t.cursor[i]
        <4>1. CASE i < Len(s.path)
          BY Zenon, <3>1, <4>1
        <4>2. CASE ~(i < Len(s.path))
          BY <1>1, <2>1, <3>1, <3>3, <4>2
        <4> QED
          BY Zenon, <4>1, <4>2
      <3> QED
        BY Zenon, <2>1, <3>2, <3>4 DEF Looked
    <2> QED
      BY Zenon, <2>2, <2>3 DEF Looked
  <1> QED
    BY Zenon, <1>8, <1>9, <1>11, <1>12, <1>13, <1>14, SpentGrows DEF DfsInv
\* A child is looked at that is explored already, or on the path; the latter closes a cycle.
LEMMA LookKeeps ==
    ASSUME NEW E \in SUBSET Edges, NEW s, DfsInv(E, s), NEW n \in Nodes, NEW t \in Searches,
           Len(s.path) > 0, <<s.path[Len(s.path)], n>> \in E, s.cursor[Len(s.path)] < n,
           \A m \in Successors(E, s.path[Len(s.path)]) : m <= n => m <= s.cursor[Len(s.path)] \/ m = n,
           t.color = s.color, t.path = s.path, Len(t.cursor) = Len(s.cursor),
           t.cursor[Len(s.path)] = n,
           \A i \in 1..Len(s.path) : i # Len(s.path) => t.cursor[i] = s.cursor[i],
           AreCycles(E, t), \A m : Reported(s, m) => Reported(t, m),
           s.color[n] = "black" \/ Reported(t, n)
    PROVE  DfsInv(E, t) /\ Spent(E, s) + 1 <= Spent(E, t)
  <1>1. /\ Len(s.path) \in Nat /\ Len(s.cursor) = Len(s.path)
        /\ \A i \in 1..Len(s.path) : s.path[i] \in Nodes
        /\ \A i \in 1..Len(s.path) : s.cursor[i] \in Nat
    BY ONLY DfsInv(E, s), Stacks
  <1>2. Len(s.path) \in 1..Len(s.path) /\ n \in Nat
    <2>1. n \in Nat
      BY Zenon, NodesAssumption
    <2> QED
      BY Zenon, <1>1, <2>1, LastPosition
  <1>3. PathIsGray(E, t)
    <2>1. /\ \A m \in Nodes : s.color[m] = "gray" <=> \E i \in 1..Len(s.path) : s.path[i] = m
          /\ \A i, j \in 1..Len(s.path) : s.path[i] = s.path[j] => i = j
          /\ \A i \in 1..(Len(s.path) - 1) : <<s.path[i], s.path[i + 1]>> \in E
      BY Zenon DEF DfsInv, PathIsGray
    <2>2. \A m \in Nodes : t.color[m] = "gray" <=> \E i \in 1..Len(t.path) : t.path[i] = m
      BY ONLY <2>1, t.color = s.color, t.path = s.path
    <2>3. \A i, j \in 1..Len(t.path) : t.path[i] = t.path[j] => i = j
      BY Zenon, <2>1
    <2>4. \A i \in 1..(Len(t.path) - 1) : <<t.path[i], t.path[i + 1]>> \in E
      BY Zenon, <2>1
    <2>5. Len(t.cursor) = Len(t.path)
      BY Zenon, <1>1
    <2> QED
      BY Zenon, <2>2, <2>3, <2>4, <2>5 DEF PathIsGray
  <1>4. LookedAt(E, t)
    <2> SUFFICES ASSUME NEW i \in 1..Len(s.path), NEW m \in Successors(E, s.path[i]), m <= t.cursor[i]
                 PROVE  s.color[m] = "black" \/ Reported(t, m) \/ (i < Len(s.path) /\ m = s.path[i + 1])
      BY Zenon DEF LookedAt
    <2>1. ASSUME m <= s.cursor[i]
          PROVE  s.color[m] = "black" \/ Reported(s, m) \/ (i < Len(s.path) /\ m = s.path[i + 1])
      BY Zenon, <2>1 DEF DfsInv, LookedAt
    <2>2. m <= s.cursor[i] \/ m = n
      BY Zenon
    <2> QED
      BY Zenon, <2>1, <2>2
  <1>5. BlackIsReported(E, t)
    BY Zenon DEF DfsInv, BlackIsReported
  <1>6. Touched(s) \subseteq Touched(t) /\ Explored(s) \subseteq Explored(t)
    BY Zenon DEF Touched, Explored
  <1>7. \A i \in 1..Len(s.path) : t.cursor[i] \in Nat /\ s.cursor[i] <= t.cursor[i]
    <2> SUFFICES ASSUME NEW i \in 1..Len(s.path) PROVE t.cursor[i] \in Nat /\ s.cursor[i] <= t.cursor[i]
      BY Zenon
    <2>1. CASE i = Len(s.path)
      BY <1>1, <1>2, <2>1
    <2>2. CASE i # Len(s.path)
      BY <1>1, <2>2
    <2> QED
      BY Zenon, <2>1, <2>2
  <1>8. Looked(E, s) \subseteq Looked(E, t)
    <2> SUFFICES ASSUME NEW e \in Looked(E, s) PROVE e \in Looked(E, t)
      BY Zenon
    <2>1. e \in E /\ e[2] \in Nat
      BY Zenon, EdgeFacts DEF Looked
    <2>2. ASSUME NEW i \in 1..Len(s.path), e[2] <= s.cursor[i] PROVE e[2] <= t.cursor[i]
      BY <1>1, <1>7, <2>1, <2>2
    <2> QED
      BY Zenon, <2>1, <2>2 DEF Looked
  <1>9. Looked(E, s) # Looked(E, t)
    <2> DEFINE e == <<s.path[Len(s.path)], n>>
    <2>1. e \in E /\ e[1] = s.path[Len(s.path)] /\ e[2] = n
      BY Zenon
    <2>2. e \in Looked(E, t)
      <3>1. n <= t.cursor[Len(s.path)]
        BY <1>2
      <3> QED
        BY Zenon, <1>2, <2>1, <3>1 DEF Looked
    <2>3. s.color[s.path[Len(s.path)]] = "gray"
      BY Zenon, <1>1, <1>2 DEF DfsInv, PathIsGray
    <2>4. ASSUME NEW i \in 1..Len(s.path), s.path[i] = s.path[Len(s.path)], n <= s.cursor[i] PROVE FALSE
      <3>1. i = Len(s.path)
        BY Zenon, <1>2, <2>4 DEF DfsInv, PathIsGray
      <3> QED
        BY <1>1, <1>2, <2>4, <3>1
    <2>5. e \notin Looked(E, s)
      BY Zenon, <2>1, <2>3, <2>4 DEF Looked
    <2> QED
      BY Zenon, <2>2, <2>5
  <1> QED
    BY Zenon, <1>3, <1>4, <1>5, <1>6, <1>8, <1>9, SpentGrows DEF DfsInv

\* The edges of a sequence whose neighbours, and whose ends, are joined.
LEMMA RingEdges ==
    ASSUME NEW E, NEW c, NEW k \in Nat \ {0}, Len(c) = k,
           \A i \in 1..(k - 1) : <<c[i], c[i + 1]>> \in E, <<c[k], c[1]>> \in E
    PROVE  EdgesOf(c) \subseteq E
  <1>1. \A i \in 1..k : (i % k) + 1 = IF i = k THEN 1 ELSE i + 1
    OBVIOUS
  <1>2. ASSUME NEW i \in 1..k PROVE <<c[i], c[(i % k) + 1]>> \in E
    <2>1. CASE i = k
      BY Zenon, <1>1, <2>1
    <2>2. CASE i # k
      <3>1. i \in 1..(k - 1)
        BY <2>2
      <3> QED
        BY Zenon, <1>1, <2>2, <3>1
    <2> QED
      BY Zenon, <2>1, <2>2
  <1> QED
    BY Zenon, <1>2 DEF EdgesOf

\* path[pos..] is a cycle through the gray node n.
LEMMA CycleFromFacts ==
    ASSUME NEW E, NEW s, DfsInv(E, s), NEW n \in Nodes, s.color[n] = "gray",
           <<s.path[Len(s.path)], n>> \in E
    PROVE  LET c == CycleFrom(s, n)
           IN  c \in Seq(Nodes) /\ IsElementary(c) /\ EdgesOf(c) \subseteq E
               /\ \E j \in 1..Len(c) : c[j] = n
  <1> DEFINE L == Len(s.path)
             p == CHOOSE i \in 1..L : s.path[i] = n
             c == SubSeq(s.path, p, L)
             k == L - p + 1
  <1>1. L \in Nat /\ s.path \in Seq(Nodes)
    BY ONLY DfsInv(E, s), Stacks
  <1>2. p \in 1..L /\ s.path[p] = n
    BY Zenon DEF DfsInv, PathIsGray
  <1>3. CycleFrom(s, n) = c
    BY Zenon DEF CycleFrom
  <1> HIDE DEF p
  <1>4. k \in Nat \ {0} /\ p \in 1..(L + 1) /\ L \in 0..L /\ p <= L + 1
    BY <1>1, <1>2
  <1>5. c \in Seq(Nodes) /\ Len(c) = k /\ \A i \in 1..k : c[i] = s.path[p + i - 1]
    BY Zenon, <1>1, <1>4, SeqSlice
  <1> HIDE DEF c
  <1>6. \A i \in 1..k : p + i - 1 \in 1..L
    BY <1>1, <1>2
  <1>7. c[1] = n /\ c[k] = s.path[L]
    BY <1>1, <1>2, <1>4, <1>5
  <1>8. \A i \in 1..(k - 1) : <<c[i], c[i + 1]>> \in E
    <2> SUFFICES ASSUME NEW i \in 1..(k - 1) PROVE <<c[i], c[i + 1]>> \in E
      BY Zenon
    <2>1. /\ i \in 1..k /\ i + 1 \in 1..k /\ p + i - 1 \in 1..(L - 1)
          /\ p + (i + 1) - 1 = (p + i - 1) + 1
      BY <1>1, <1>2
    <2>2. c[i] = s.path[p + i - 1] /\ c[i + 1] = s.path[p + (i + 1) - 1]
      BY Zenon, <1>5, <2>1
    <2>3. c[i + 1] = s.path[(p + i - 1) + 1]
      BY Zenon, <2>1, <2>2
    <2> QED
      BY Zenon, <2>1, <2>2, <2>3 DEF DfsInv, PathIsGray
  <1>9. EdgesOf(c) \subseteq E
    BY Zenon, <1>4, <1>5, <1>7, <1>8, RingEdges
  <1>10. ASSUME NEW i \in 1..k, NEW j \in 1..k, c[i] = c[j] PROVE i = j
    <2>1. p + i - 1 \in 1..L /\ p + j - 1 \in 1..L
      BY Zenon, <1>6
    <2>2. s.path[p + i - 1] = s.path[p + j - 1]
      BY Zenon, <1>5, <1>10
    <2>3. p + i - 1 = p + j - 1
      <3>1. \A a, b \in 1..L : s.path[a] = s.path[b] => a = b
        BY Zenon DEF DfsInv, PathIsGray
      <3> QED
        BY Zenon, <2>1, <2>2, <3>1
    <2>4. i \in Nat /\ j \in Nat /\ p \in Nat
      BY <1>1, <1>2, <1>4
    <2> QED
      BY Zenon, <2>3, <2>4, Shifted
  <1>11. c # <<>> /\ 1 \in 1..k
    BY <1>4, <1>5
  <1>12. IsElementary(c)
    BY Zenon, <1>5, <1>10, <1>11 DEF IsElementary
  <1> QED
    BY Zenon, <1>3, <1>5, <1>7, <1>9, <1>11, <1>12

\* A search is what its fields are; what Pop, Push and the cursor's step leave of one.
LEMMA FieldByField ==
    ASSUME NEW A, NEW B, NEW C, NEW D, NEW s \in [color : A, path : B, cursor : C, cycles : D]
    PROVE  s = [color |-> s.color, path |-> s.path, cursor |-> s.cursor, cycles |-> s.cycles]
OBVIOUS

LEMMA Replaced ==
    ASSUME NEW A, NEW B, NEW C, NEW D, NEW s \in [color : A, path : B, cursor : C, cycles : D],
           NEW a, NEW b, NEW c
    PROVE  [s EXCEPT !.color = a, !.path = b, !.cursor = c]
             = [color |-> a, path |-> b, cursor |-> c, cycles |-> s.cycles]
  <1> DEFINE r == [s EXCEPT !.color = a, !.path = b, !.cursor = c]
  <1>1. r.color = a /\ r.path = b /\ r.cursor = c /\ r.cycles = s.cycles
    OBVIOUS
  <1>2. r \in [color : {a}, path : {b}, cursor : {c}, cycles : D]
    OBVIOUS
  <1> HIDE DEF r
  <1>3. r = [color |-> r.color, path |-> r.path, cursor |-> r.cursor, cycles |-> r.cycles]
    BY Zenon, <1>2, FieldByField
  <1> QED
    BY Zenon, <1>1, <1>3 DEF r

LEMMA PopIs ==
    ASSUME NEW s \in Searches
    PROVE  Pop(s) = [color |-> [s.color EXCEPT ![s.path[Len(s.path)]] = "black"],
                     path |-> SubSeq(s.path, 1, Len(s.path) - 1),
                     cursor |-> SubSeq(s.cursor, 1, Len(s.cursor) - 1), cycles |-> s.cycles]
  <1>1. Pop(s) = [s EXCEPT !.color = [s.color EXCEPT ![s.path[Len(s.path)]] = "black"],
                           !.path = SubSeq(s.path, 1, Len(s.path) - 1),
                           !.cursor = SubSeq(s.cursor, 1, Len(s.cursor) - 1)]
    BY Zenon DEF Pop, Top
  <1> QED
    BY Zenon, <1>1, Replaced DEF Searches

LEMMA PushIs ==
    ASSUME NEW s \in Searches, NEW n
    PROVE  Push(s, n) = [color |-> [s.color EXCEPT ![n] = "gray"], path |-> Append(s.path, n),
                         cursor |-> Append(s.cursor, 0), cycles |-> s.cycles]
  <1>1. Push(s, n) = [s EXCEPT !.color = [s.color EXCEPT ![n] = "gray"],
                               !.path = Append(s.path, n), !.cursor = Append(s.cursor, 0)]
    BY Zenon DEF Push
  <1> QED
    BY Zenon, <1>1, Replaced DEF Searches

\* A node all of whose children were looked at is explored.
LEMMA PopKeeps ==
    ASSUME NEW E \in SUBSET Edges, NEW s, DfsInv(E, s), s.path # <<>>, Unvisited(E, s) = {}
    PROVE  DfsInv(E, Pop(s)) /\ Spent(E, s) + 1 <= Spent(E, Pop(s))
  <1> DEFINE L == Len(s.path)
             n == s.path[L]
             t == Pop(s)
  <1>1. /\ s \in Searches /\ L \in Nat /\ Len(s.cursor) = L
        /\ s.color \in [Nodes -> Colors] /\ s.path \in Seq(Nodes) /\ s.cursor \in Seq(Nat)
        /\ \A i \in 1..L : s.path[i] \in Nodes
        /\ \A i \in 1..L : s.cursor[i] \in Nat
    BY ONLY DfsInv(E, s), Stacks
  <1>2. L \in 1..L /\ n \in Nodes /\ L - 1 \in 0..L /\ 1 \in 1..(L + 1) /\ 1 <= (L - 1) + 1
    BY Zenon, <1>1, LastPosition, NotEmpty
  <1>3. /\ t.color = [s.color EXCEPT ![n] = "black"] /\ t.path = SubSeq(s.path, 1, L - 1)
        /\ t.cursor = SubSeq(s.cursor, 1, Len(s.cursor) - 1) /\ t.cycles = s.cycles
        /\ t = [color |-> t.color, path |-> t.path, cursor |-> t.cursor, cycles |-> t.cycles]
    <2>1. t = [color |-> [s.color EXCEPT ![n] = "black"], path |-> SubSeq(s.path, 1, L - 1),
               cursor |-> SubSeq(s.cursor, 1, Len(s.cursor) - 1), cycles |-> s.cycles]
      BY Zenon, <1>1, PopIs
    <2> HIDE DEF t, n, L
    <2>2. /\ t.color = [s.color EXCEPT ![n] = "black"] /\ t.path = SubSeq(s.path, 1, L - 1)
          /\ t.cursor = SubSeq(s.cursor, 1, Len(s.cursor) - 1) /\ t.cycles = s.cycles
      BY Zenon, <2>1
    <2> QED
      BY Zenon, <2>1, <2>2
  <1> HIDE DEF t
  <1>4. /\ t.path \in Seq(Nodes) /\ Len(t.path) = L - 1 /\ \A i \in 1..(L - 1) : t.path[i] = s.path[i]
    <2>1. /\ SubSeq(s.path, 1, L - 1) \in Seq(Nodes) /\ Len(SubSeq(s.path, 1, L - 1)) = L - 1
          /\ \A i \in 1..(L - 1) : SubSeq(s.path, 1, L - 1)[i] = s.path[i]
      BY Zenon, <1>1, SeqPop
    <2> QED
      BY Zenon, <1>3, <2>1
  <1>5. /\ t.cursor \in Seq(Nat) /\ Len(t.cursor) = L - 1
        /\ \A i \in 1..(L - 1) : t.cursor[i] = s.cursor[i]
    <2>1. s.cursor # <<>> /\ Len(s.cursor) - 1 = L - 1
      BY <1>1, <1>2
    <2>2. /\ SubSeq(s.cursor, 1, Len(s.cursor) - 1) \in Seq(Nat)
          /\ Len(SubSeq(s.cursor, 1, Len(s.cursor) - 1)) = Len(s.cursor) - 1
          /\ \A i \in 1..(Len(s.cursor) - 1) : SubSeq(s.cursor, 1, Len(s.cursor) - 1)[i] = s.cursor[i]
      BY Zenon, <1>1, <2>1, SeqPop
    <2> QED
      BY Zenon, <1>3, <2>1, <2>2
  <1>6. t.color[n] = "black" /\ \A m \in Nodes : m # n => t.color[m] = s.color[m]
    BY Zenon, <1>1, <1>2, <1>3
  <1>7. t \in Searches
    <2>1. t.color \in [Nodes -> Colors]
      BY Zenon, <1>1, <1>3 DEF Colors
    <2>2. t.cycles \in Seq(Seq(Nodes))
      BY Zenon, <1>1, <1>3, Fields
    <2> QED
      BY Zenon, <1>3, <1>4, <1>5, <2>1, <2>2 DEF Searches
  <1>8. /\ \A m \in Nodes : s.color[m] = "gray" <=> \E i \in 1..L : s.path[i] = m
        /\ \A i, j \in 1..L : s.path[i] = s.path[j] => i = j
        /\ \A i \in 1..(L - 1) : <<s.path[i], s.path[i + 1]>> \in E
    BY Zenon DEF DfsInv, PathIsGray
  <1>9. /\ \A i \in 1..L : i \in 1..(L - 1) \/ i = L
        /\ \A i \in 1..(L - 1) : i \in 1..L /\ i # L
        /\ \A i \in 1..(L - 1 - 1) : i \in 1..(L - 1) /\ i + 1 \in 1..(L - 1)
    BY <1>1
  <1>10. s.color[n] = "gray"
    BY Zenon, <1>2, <1>8
  <1> HIDE DEF n, L
  <1>11. PathIsGray(E, t)
    <2>1. ASSUME NEW m \in Nodes
          PROVE  t.color[m] = "gray" <=> \E i \in 1..(L - 1) : t.path[i] = m
      <3>1. CASE m = n
        <4>1. \A i \in 1..(L - 1) : t.path[i] # n
          BY Zenon, <1>2, <1>4, <1>8, <1>9 DEF n
        <4> QED
          BY Zenon, <1>6, <3>1, <4>1
      <3>2. CASE m # n
        <4>1. t.color[m] = "gray" <=> \E i \in 1..L : s.path[i] = m
          BY Zenon, <1>6, <1>8, <3>2
        <4>2. (\E i \in 1..(L - 1) : t.path[i] = m) => \E i \in 1..L : s.path[i] = m
          BY Zenon, <1>4, <1>9
        <4>3. ASSUME NEW i \in 1..L, s.path[i] = m PROVE \E j \in 1..(L - 1) : t.path[j] = m
          <5>1. i \in 1..(L - 1)
            BY Zenon, <1>9, <3>2, <4>3 DEF n
          <5> QED
            BY Zenon, <1>4, <4>3, <5>1
        <4> QED
          BY Zenon, <4>1, <4>2, <4>3
      <3> QED
        BY Zenon, <3>1, <3>2
    <2>2. \A i, j \in 1..(L - 1) : t.path[i] = t.path[j] => i = j
      BY Zenon, <1>4, <1>8, <1>9
    <2>3. \A i \in 1..(L - 1 - 1) : <<t.path[i], t.path[i + 1]>> \in E
      BY Zenon, <1>4, <1>8, <1>9
    <2> QED
      BY Zenon, <1>4, <1>5, <1>7, <2>1, <2>2, <2>3 DEF PathIsGray
  <1>12. AreCycles(E, t) /\ \A m : Reported(t, m) <=> Reported(s, m)
    BY Zenon, <1>3 DEF DfsInv, AreCycles, Reported
  <1>13. \A m \in Nodes : s.color[m] = "black" => t.color[m] = "black"
    BY Zenon, <1>6
  <1>14. \A i \in 1..L : \A m \in Successors(E, s.path[i]) :
           m <= s.cursor[i] =>
             s.color[m] = "black" \/ Reported(s, m) \/ (i < L /\ m = s.path[i + 1])
    BY Zenon DEF DfsInv, LookedAt, L
  <1>15. LookedAt(E, t)
    <2> SUFFICES ASSUME NEW i \in 1..(L - 1), NEW m \in Successors(E, t.path[i]), m <= t.cursor[i]
                 PROVE  t.color[m] = "black" \/ Reported(t, m) \/ (i < L - 1 /\ m = t.path[i + 1])
      BY Zenon, <1>4 DEF LookedAt
    <2>1. m \in Nodes
      BY Zenon DEF Successors
    <2>2. s.color[m] = "black" \/ Reported(s, m) \/ (i < L /\ m = s.path[i + 1])
      BY Zenon, <1>4, <1>5, <1>9, <1>14
    <2>3. CASE m = s.path[i + 1]
      <3>1. CASE i + 1 = L
        BY Zenon, <1>6, <2>3, <3>1 DEF n
      <3>2. CASE i + 1 # L
        <4>1. i + 1 \in 1..(L - 1) /\ i < L - 1
          BY <1>1, <3>2 DEF L
        <4> QED
          BY Zenon, <1>4, <2>3, <4>1
      <3> QED
        BY Zenon, <3>1, <3>2
    <2> QED
      BY Zenon, <1>12, <1>13, <2>1, <2>2, <2>3
  <1>16. BlackIsReported(E, t)
    <2> SUFFICES ASSUME NEW S \in SUBSET Nodes, Trapped(E, S), NEW b \in S, t.color[b] = "black"
                 PROVE  \E m \in S : Reported(s, m)
      BY Zenon, <1>12 DEF BlackIsReported
    <2>1. CASE \E m \in S : s.color[m] = "black"
      BY Zenon, <2>1 DEF DfsInv, BlackIsReported
    <2>2. CASE ~\E m \in S : s.color[m] = "black"
      <3>1. b = n
        BY Zenon, <1>6, <2>2
      <3>2. PICK m \in S : <<n, m>> \in E
        BY Zenon, <3>1 DEF Trapped
      <3>3. m \in Successors(E, n) /\ m \in Nat
        BY Zenon, <3>2, NodesAssumption DEF Successors
      <3>4. ~(m > s.cursor[L])
        BY Zenon, <1>1, <3>3 DEF Unvisited, Top, n, L
      <3>5. m <= s.cursor[L] /\ ~(L < L)
        BY <1>1, <1>2, <3>3, <3>4 DEF L
      <3>6. s.color[m] = "black" \/ Reported(s, m)
        BY Zenon, <1>2, <1>14, <3>3, <3>5 DEF n
      <3> QED
        BY Zenon, <2>2, <3>6
    <2> QED
      BY Zenon, <2>1, <2>2
  <1>17. Touched(s) \subseteq Touched(t) /\ Explored(s) \subseteq Explored(t) /\ Explored(s) # Explored(t)
    <2>1. n \in Explored(t) /\ n \notin Explored(s)
      BY Zenon, <1>2, <1>6, <1>10 DEF Explored
    <2>2. Touched(s) \subseteq Touched(t)
      BY Zenon, <1>6 DEF Touched
    <2>3. Explored(s) \subseteq Explored(t)
      BY Zenon, <1>13 DEF Explored
    <2> QED
      BY Zenon, <2>1, <2>2, <2>3
  <1>18. Looked(E, s) \subseteq Looked(E, t)
    <2> SUFFICES ASSUME NEW e \in Looked(E, s) PROVE e \in Looked(E, t)
      BY Zenon
    <2>1. e \in E /\ e[1] \in Nodes
      BY Zenon, EdgeFacts DEF Looked
    <2>2. CASE s.color[e[1]] = "black" \/ e[1] = n
      BY Zenon, <1>6, <1>13, <2>1, <2>2 DEF Looked
    <2>3. CASE \E i \in 1..L : s.path[i] = e[1] /\ e[2] <= s.cursor[i] /\ e[1] # n
      <3>1. PICK i \in 1..L : s.path[i] = e[1] /\ e[2] <= s.cursor[i] /\ e[1] # n
        BY Zenon, <2>3
      <3>2. i \in 1..(L - 1)
        BY Zenon, <1>9, <3>1 DEF n
      <3>3. i \in 1..Len(t.path) /\ t.path[i] = e[1] /\ e[2] <= t.cursor[i]
        BY Zenon, <1>4, <1>5, <3>1, <3>2
      <3> QED
        BY Zenon, <2>1, <3>3 DEF Looked
    <2> QED
      BY Zenon, <2>2, <2>3 DEF Looked, L
  <1> QED
    BY Zenon, <1>11, <1>12, <1>15, <1>16, <1>17, <1>18, SpentGrows DEF DfsInv, t
LEMMA VisitChildIs ==
    ASSUME NEW s \in Searches, NEW n,
           NEW u, u = [s EXCEPT !.cursor[Len(s.cursor)] = n]
    PROVE  /\ s.color[n] = "gray" => VisitChild(s, n) = [u EXCEPT !.cycles = Append(u.cycles, CycleFrom(s, n))]
           /\ s.color[n] = "white" => VisitChild(s, n) = Push(u, n)
           /\ s.color[n] = "black" => VisitChild(s, n) = u
  <1>1. CASE s.color[n] = "gray"
    BY Zenon, <1>1 DEF VisitChild
  <1>2. CASE s.color[n] = "white"
    BY Zenon, <1>2 DEF VisitChild
  <1>3. CASE s.color[n] = "black"
    BY Zenon, <1>3 DEF VisitChild
  <1> QED
    BY Zenon, <1>1, <1>2, <1>3

LEMMA ReportIs ==
    ASSUME NEW s \in Searches, NEW d
    PROVE  [s EXCEPT !.cycles = d] = [color |-> s.color, path |-> s.path, cursor |-> s.cursor, cycles |-> d]
  <1> DEFINE A == [Nodes -> Colors]
             B == Seq(Nodes)
             C == Seq(Nat)
             D == Seq(Seq(Nodes))
  <1>1. s \in [color : A, path : B, cursor : C, cycles : D]
    BY Zenon DEF Searches
  <1> HIDE DEF A, B, C, D
  <1> QED
    BY ONLY <1>1

LEMMA LookIs ==
    ASSUME NEW s \in Searches, NEW k, NEW n
    PROVE  [s EXCEPT !.cursor[k] = n]
             = [color |-> s.color, path |-> s.path, cursor |-> [s.cursor EXCEPT ![k] = n], cycles |-> s.cycles]
  <1> DEFINE A == [Nodes -> Colors]
             B == Seq(Nodes)
             C == Seq(Nat)
             D == Seq(Seq(Nodes))
  <1>1. s \in [color : A, path : B, cursor : C, cycles : D]
    BY Zenon DEF Searches
  <1> HIDE DEF A, B, C, D
  <1> QED
    BY ONLY <1>1

\* The least child that was not looked at yet.
LEMMA NextChild ==
    ASSUME NEW E \in SUBSET Edges, NEW s, DfsInv(E, s), s.path # <<>>, Unvisited(E, s) # {},
           NEW n, n = MinOf(Unvisited(E, s))
    PROVE  /\ n \in Nodes /\ n \in Nat /\ <<s.path[Len(s.path)], n>> \in E /\ s.cursor[Len(s.path)] < n
           /\ \A m \in Successors(E, s.path[Len(s.path)]) : m <= n => m <= s.cursor[Len(s.path)] \/ m = n
  <1>1. /\ Len(s.cursor) = Len(s.path) /\ Len(s.path) \in Nat /\ s.path \in Seq(Nodes)
        /\ \A i \in 1..Len(s.path) : s.cursor[i] \in Nat
    BY ONLY DfsInv(E, s), Stacks
  <1>2. Len(s.path) \in 1..Len(s.path)
    BY Zenon, <1>1, NotEmpty, LastPosition
  <1>3. Unvisited(E, s) = {m \in Successors(E, s.path[Len(s.path)]) : m > s.cursor[Len(s.path)]}
    BY Zenon, <1>1 DEF Unvisited, Top
  <1>4. Unvisited(E, s) \subseteq Nodes
    BY Zenon, <1>3 DEF Successors
  <1>5. n \in Unvisited(E, s) /\ \A m \in Unvisited(E, s) : n <= m
    BY Zenon, <1>4, MinOfFacts
  <1>6. n \in Nodes /\ n \in Nat /\ <<s.path[Len(s.path)], n>> \in E /\ n > s.cursor[Len(s.path)]
    BY Zenon, <1>3, <1>5, NodesAssumption DEF Successors
  <1>7. s.cursor[Len(s.path)] \in Nat
    BY Zenon, <1>1, <1>2
  <1>8. ASSUME NEW m \in Successors(E, s.path[Len(s.path)]), m <= n
        PROVE  m <= s.cursor[Len(s.path)] \/ m = n
    <2>1. m \in Nat
      BY Zenon, NodesAssumption DEF Successors
    <2>2. m > s.cursor[Len(s.path)] => n <= m
      BY Zenon, <1>3, <1>5
    <2> QED
      BY ONLY <1>6, <1>7, <1>8, <2>1, <2>2
  <1>9. s.cursor[Len(s.path)] < n
    BY ONLY <1>6, <1>7
  <1> QED
    BY Zenon, <1>6, <1>8, <1>9

\* n is the child to look at next; r is the cursor stack once it was.
IsNext(E, s, n) ==
    /\ Len(s.path) > 0 /\ <<s.path[Len(s.path)], n>> \in E /\ s.cursor[Len(s.path)] < n
    /\ \A m \in Successors(E, s.path[Len(s.path)]) : m <= n => m <= s.cursor[Len(s.path)] \/ m = n

IsMoved(s, n, r) ==
    /\ r \in Seq(Nat) /\ Len(r) = Len(s.path) /\ r[Len(s.path)] = n
    /\ \A i \in 1..Len(s.path) : i # Len(s.path) => r[i] = s.cursor[i]

LEMMA LookKeepsAgain ==
    ASSUME NEW E \in SUBSET Edges, NEW s, DfsInv(E, s), NEW n \in Nodes, NEW t \in Searches,
           IsNext(E, s, n), IsMoved(s, n, t.cursor), t.color = s.color, t.path = s.path,
           AreCycles(E, t), \A m : Reported(s, m) => Reported(t, m),
           s.color[n] = "black" \/ Reported(t, n)
    PROVE  DfsInv(E, t) /\ Spent(E, s) + 1 <= Spent(E, t)
  <1>1. Len(s.cursor) = Len(s.path)
    BY ONLY DfsInv(E, s), Stacks
  <1>2. /\ Len(s.path) > 0 /\ <<s.path[Len(s.path)], n>> \in E /\ s.cursor[Len(s.path)] < n
        /\ \A m \in Successors(E, s.path[Len(s.path)]) : m <= n => m <= s.cursor[Len(s.path)] \/ m = n
    BY Zenon DEF IsNext
  <1>3. /\ t.cursor[Len(s.path)] = n /\ Len(t.cursor) = Len(s.cursor)
        /\ \A i \in 1..Len(s.path) : i # Len(s.path) => t.cursor[i] = s.cursor[i]
    BY Zenon, <1>1 DEF IsMoved
  <1> QED
    BY Zenon, <1>2, <1>3, LookKeeps

\* An explored child is passed over.
LEMMA BlackKeeps ==
    ASSUME NEW E \in SUBSET Edges, NEW s, DfsInv(E, s), NEW n \in Nodes, s.color[n] = "black",
           IsNext(E, s, n), NEW u \in Searches, IsMoved(s, n, u.cursor),
           u.color = s.color, u.path = s.path, u.cycles = s.cycles
    PROVE  DfsInv(E, u) /\ Spent(E, s) + 1 <= Spent(E, u)
  <1>1. AreCycles(E, u) /\ \A m : Reported(s, m) => Reported(u, m)
    BY Zenon DEF DfsInv, AreCycles, Reported
  <1> QED
    BY Zenon, <1>1, LookKeepsAgain

\* A child on the path closes a cycle, which is reported.
LEMMA GrayKeeps ==
    ASSUME NEW E \in SUBSET Edges, NEW s, DfsInv(E, s), NEW n \in Nodes, s.color[n] = "gray",
           IsNext(E, s, n), NEW t \in Searches, IsMoved(s, n, t.cursor),
           t.color = s.color, t.path = s.path, t.cycles = Append(s.cycles, CycleFrom(s, n))
    PROVE  DfsInv(E, t) /\ Spent(E, s) + 1 <= Spent(E, t)
  <1> DEFINE c == CycleFrom(s, n)
  <1>1. /\ c \in Seq(Nodes) /\ IsElementary(c) /\ EdgesOf(c) \subseteq E
        /\ \E j \in 1..Len(c) : c[j] = n
    <2>1. <<s.path[Len(s.path)], n>> \in E
      BY Zenon DEF IsNext
    <2> QED
      BY ONLY DfsInv(E, s), n \in Nodes, s.color[n] = "gray", <2>1, CycleFromFacts
  <1>2. s.cycles \in Seq(Seq(Nodes)) /\ t.cycles = Append(s.cycles, c)
    BY Zenon, Stacks
  <1> HIDE DEF c
  <1>3. /\ Len(t.cycles) = Len(s.cycles) + 1 /\ t.cycles[Len(s.cycles) + 1] = c
        /\ \A i \in 1..Len(s.cycles) : t.cycles[i] = s.cycles[i]
    BY ONLY <1>1, <1>2, SeqAppend
  <1>4. /\ Len(s.cycles) + 1 \in 1..Len(t.cycles) /\ 1..Len(s.cycles) \subseteq 1..Len(t.cycles)
        /\ \A i \in 1..Len(t.cycles) : i \in 1..Len(s.cycles) \/ i = Len(s.cycles) + 1
    <2>1. Len(s.cycles) \in Nat
      BY Zenon, <1>2, SeqElements
    <2> QED
      BY ONLY <2>1, <1>3
  <1>5. AreCycles(E, t)
    <2> SUFFICES ASSUME NEW i \in 1..Len(t.cycles)
                 PROVE  IsElementary(t.cycles[i]) /\ EdgesOf(t.cycles[i]) \subseteq E
      BY Zenon DEF AreCycles
    <2>1. CASE i \in 1..Len(s.cycles)
      <3>1. IsElementary(s.cycles[i]) /\ EdgesOf(s.cycles[i]) \subseteq E
        BY Zenon, <2>1 DEF DfsInv, AreCycles
      <3> QED
        BY Zenon, <1>3, <2>1, <3>1
    <2>2. CASE i = Len(s.cycles) + 1
      BY Zenon, <1>1, <1>3, <2>2
    <2> QED
      BY Zenon, <1>4, <2>1, <2>2
  <1>6. ASSUME NEW m, Reported(s, m) PROVE Reported(t, m)
    <2>1. PICK i \in 1..Len(s.cycles) : \E j \in 1..Len(s.cycles[i]) : s.cycles[i][j] = m
      BY Zenon, <1>6 DEF Reported
    <2>2. i \in 1..Len(t.cycles) /\ t.cycles[i] = s.cycles[i]
      BY Zenon, <1>3, <1>4
    <2>3. \E j \in 1..Len(t.cycles[i]) : t.cycles[i][j] = m
      BY Zenon, <2>1, <2>2
    <2> QED
      BY Zenon, <2>2, <2>3 DEF Reported
  <1>7. Reported(t, n)
    <2>1. \E j \in 1..Len(t.cycles[Len(s.cycles) + 1]) : t.cycles[Len(s.cycles) + 1][j] = n
      BY Zenon, <1>1, <1>3
    <2> QED
      BY Zenon, <1>4, <2>1 DEF Reported
  <1> QED
    BY Zenon, <1>5, <1>6, <1>7, LookKeepsAgain

\* A child seen for the first time is pushed.
LEMMA WhiteKeeps ==
    ASSUME NEW E \in SUBSET Edges, NEW s, DfsInv(E, s), NEW n \in Nodes, s.color[n] = "white",
           IsNext(E, s, n), NEW r, IsMoved(s, n, r), NEW t \in Searches, t.cursor = Append(r, 0),
           t.color = [s.color EXCEPT ![n] = "gray"], t.path = Append(s.path, n), t.cycles = s.cycles
    PROVE  DfsInv(E, t) /\ Spent(E, s) + 1 <= Spent(E, t)
  <1>1. Len(s.path) \in Nat /\ \A i \in 1..Len(s.path) : s.cursor[i] \in Nat
    BY ONLY DfsInv(E, s), Stacks
  <1>2. /\ Len(s.path) > 0 /\ <<s.path[Len(s.path)], n>> \in E /\ s.cursor[Len(s.path)] < n
        /\ \A m \in Successors(E, s.path[Len(s.path)]) : m <= n => m <= s.cursor[Len(s.path)] \/ m = n
    BY Zenon DEF IsNext
  <1>3. /\ r \in Seq(Nat) /\ Len(r) = Len(s.path) /\ r[Len(s.path)] = n
        /\ \A i \in 1..Len(s.path) : i # Len(s.path) => r[i] = s.cursor[i]
    BY Zenon DEF IsMoved
  <1>4. /\ Len(Append(r, 0)) = Len(r) + 1 /\ Append(r, 0)[Len(r) + 1] = 0
        /\ \A i \in 1..Len(r) : Append(r, 0)[i] = r[i]
    BY ONLY <1>3, SeqAppend
  <1>5. /\ Len(t.cursor) = Len(s.path) + 1 /\ t.cursor[Len(s.path) + 1] = 0
        /\ \A i \in 1..Len(s.path) : t.cursor[i] = r[i]
    BY Zenon, <1>3, <1>4
  <1>6. Len(s.path) \in 1..Len(s.path) /\ \A i \in 1..Len(s.path) : i < Len(s.path) => i # Len(s.path)
    BY ONLY <1>1, <1>2
  <1>7. t.cursor[Len(s.path)] = n /\ \A i \in 1..Len(s.path) : i < Len(s.path) => t.cursor[i] = s.cursor[i]
    BY Zenon, <1>3, <1>5, <1>6
  <1>8. s.cursor[Len(s.path)] <= n
    <2>1. s.cursor[Len(s.path)] \in Nat /\ n \in Nat
      BY Zenon, <1>1, <1>6, NodesAssumption
    <2> QED
      BY ONLY <1>2, <2>1
  <1>9. /\ s.cursor[Len(s.path)] <= t.cursor[Len(s.path)]
        /\ \A m \in Successors(E, s.path[Len(s.path)]) :
             m <= t.cursor[Len(s.path)] => m <= s.cursor[Len(s.path)] \/ m = n
    BY Zenon, <1>2, <1>7, <1>8
  <1> QED
    BY Zenon, <1>2, <1>5, <1>7, <1>9, PushKeeps

\* The child is looked at; it is pushed, or closes a cycle, or is passed over.
LEMMA ChildKeeps ==
    ASSUME NEW E \in SUBSET Edges, NEW s, DfsInv(E, s), NEW n \in Nodes, n \in Nat, IsNext(E, s, n),
           s \in Searches
    PROVE  DfsInv(E, VisitChild(s, n)) /\ Spent(E, s) + 1 <= Spent(E, VisitChild(s, n))
  <1> DEFINE u == [s EXCEPT !.cursor[Len(s.cursor)] = n]
             r == [s.cursor EXCEPT ![Len(s.cursor)] = n]
             t == VisitChild(s, n)
  <1>1. /\ Len(s.path) \in Nat /\ Len(s.cursor) = Len(s.path)
        /\ s.color \in [Nodes -> Colors] /\ s.path \in Seq(Nodes) /\ s.cursor \in Seq(Nat)
        /\ s.cycles \in Seq(Seq(Nodes))
    BY ONLY DfsInv(E, s), Stacks
  <1> USE <1>1
  <1>2. Len(s.path) \in 1..Len(s.path)
    <2>1. Len(s.path) > 0
      BY Zenon DEF IsNext
    <2> QED
      BY Zenon, <1>1, <2>1, LastPosition
  <1>3. IsMoved(s, n, r)
    <2>1. Len(s.cursor) \in 1..Len(s.cursor)
      BY Zenon, <1>1, <1>2
    <2>2. /\ r \in Seq(Nat) /\ Len(r) = Len(s.cursor) /\ r[Len(s.cursor)] = n
          /\ \A i \in 1..Len(s.cursor) : i # Len(s.cursor) => r[i] = s.cursor[i]
      BY ONLY s.cursor \in Seq(Nat), n \in Nat, <2>1
    <2> HIDE DEF r
    <2> QED
      BY Zenon, <1>1, <2>2 DEF IsMoved
  <1>4. u = [color |-> s.color, path |-> s.path, cursor |-> r, cycles |-> s.cycles]
    BY Zenon, LookIs
  <1>5. /\ s.color[n] = "gray" => t = [u EXCEPT !.cycles = Append(u.cycles, CycleFrom(s, n))]
        /\ s.color[n] = "white" => t = Push(u, n)
        /\ s.color[n] = "black" => t = u
    BY Zenon, VisitChildIs
  <1> HIDE DEF r, u, t
  <1>6. u.color = s.color /\ u.path = s.path /\ u.cursor = r /\ u.cycles = s.cycles
    BY Zenon, <1>4
  <1>7. r \in Seq(Nat)
    BY Zenon, <1>3 DEF IsMoved
  <1>8. u \in Searches
    BY Zenon, <1>1, <1>4, <1>7 DEF Searches
  <1>9. CASE s.color[n] = "black"
    <2>1. IsMoved(s, n, u.cursor)
      BY Zenon, <1>3, <1>6
    <2>2. DfsInv(E, u) /\ Spent(E, s) + 1 <= Spent(E, u)
      BY Zenon, <1>6, <1>8, <1>9, <2>1, BlackKeeps
    <2> QED
      BY Zenon, <1>5, <1>9, <2>2 DEF t
  <1>10. CASE s.color[n] = "gray"
    <2> DEFINE d == Append(s.cycles, CycleFrom(s, n))
    <2>1. d \in Seq(Seq(Nodes))
      <3>1. <<s.path[Len(s.path)], n>> \in E
        BY Zenon DEF IsNext
      <3>2. CycleFrom(s, n) \in Seq(Nodes)
        BY ONLY DfsInv(E, s), n \in Nodes, <1>10, <3>1, CycleFromFacts
      <3> QED
        BY Zenon, <1>1, <3>2, SeqAppend
    <2>2. t = [u EXCEPT !.cycles = d]
      BY Zenon, <1>5, <1>6, <1>10
    <2> HIDE DEF d
    <2>3. t = [color |-> u.color, path |-> u.path, cursor |-> u.cursor, cycles |-> d]
      BY Zenon, <1>8, <2>2, ReportIs
    <2>4. t.color = u.color /\ t.path = u.path /\ t.cursor = u.cursor /\ t.cycles = d
      BY Zenon, <2>3
    <2>5. t.color = s.color /\ t.path = s.path /\ t.cursor = r
      BY Zenon, <1>6, <2>4
    <2>6. t = [color |-> s.color, path |-> s.path, cursor |-> r, cycles |-> d]
      BY Zenon, <1>6, <2>3
    <2>7. t \in Searches
      BY Zenon, <1>1, <1>7, <2>1, <2>6 DEF Searches
    <2>8. IsMoved(s, n, t.cursor) /\ t.cycles = Append(s.cycles, CycleFrom(s, n))
      BY Zenon, <1>3, <2>4, <2>5 DEF d
    <2>9. DfsInv(E, t) /\ Spent(E, s) + 1 <= Spent(E, t)
      BY Zenon, <1>10, <2>5, <2>7, <2>8, GrayKeeps
    <2> QED
      BY Zenon, <2>9 DEF t
  <1>11. CASE s.color[n] = "white"
    <2>1. t = [color |-> [u.color EXCEPT ![n] = "gray"], path |-> Append(u.path, n),
               cursor |-> Append(u.cursor, 0), cycles |-> u.cycles]
      BY Zenon, <1>5, <1>8, <1>11, PushIs
    <2>2. t = [color |-> [s.color EXCEPT ![n] = "gray"], path |-> Append(s.path, n),
               cursor |-> Append(r, 0), cycles |-> s.cycles]
      BY Zenon, <1>6, <2>1
    <2>3. /\ t.color = [s.color EXCEPT ![n] = "gray"] /\ t.path = Append(s.path, n)
          /\ t.cursor = Append(r, 0) /\ t.cycles = s.cycles
      BY Zenon, <2>2
    <2>4. [s.color EXCEPT ![n] = "gray"] \in [Nodes -> Colors] /\ Append(s.path, n) \in Seq(Nodes)
      BY Zenon, <1>1, SeqAppend DEF Colors
    <2>5. Append(r, 0) \in Seq(Nat)
      <3>1. 0 \in Nat
        OBVIOUS
      <3> QED
        BY Zenon, <1>7, <3>1, SeqAppend
    <2>6. t \in Searches
      BY Zenon, <1>1, <2>2, <2>4, <2>5 DEF Searches
    <2>7. DfsInv(E, t) /\ Spent(E, s) + 1 <= Spent(E, t)
      BY Zenon, <1>3, <1>11, <2>3, <2>6, WhiteKeeps
    <2> QED
      BY Zenon, <2>7 DEF t
  <1>12. s.color[n] \in Colors
    BY Zenon, <1>1
  <1> QED
    BY Zenon, <1>9, <1>10, <1>11, <1>12 DEF Colors

\* A white node with children is the root of a new search.
LEMMA RootKeeps ==
    ASSUME NEW E \in SUBSET Edges, NEW s, DfsInv(E, s), s.path = <<>>, NEW n \in Nodes,
           s.color[n] = "white"
    PROVE  DfsInv(E, Push(s, n)) /\ Spent(E, s) + 1 <= Spent(E, Push(s, n))
  <1> DEFINE t == Push(s, n)
  <1>1. /\ s \in Searches /\ Len(s.path) \in Nat /\ Len(s.cursor) = Len(s.path)
        /\ s.color \in [Nodes -> Colors] /\ s.path \in Seq(Nodes) /\ s.cursor \in Seq(Nat)
        /\ s.cycles \in Seq(Seq(Nodes))
    BY ONLY DfsInv(E, s), Stacks
  <1>2. t = [color |-> [s.color EXCEPT ![n] = "gray"], path |-> Append(s.path, n),
             cursor |-> Append(s.cursor, 0), cycles |-> s.cycles]
    BY Zenon, <1>1, PushIs
  <1> HIDE DEF t
  <1>3. /\ t.color = [s.color EXCEPT ![n] = "gray"] /\ t.path = Append(s.path, n)
        /\ t.cursor = Append(s.cursor, 0) /\ t.cycles = s.cycles
    BY Zenon, <1>2
  <1>4. [s.color EXCEPT ![n] = "gray"] \in [Nodes -> Colors] /\ Append(s.path, n) \in Seq(Nodes)
    BY Zenon, <1>1, SeqAppend DEF Colors
  <1>5. /\ Append(s.cursor, 0) \in Seq(Nat) /\ Len(Append(s.cursor, 0)) = Len(s.cursor) + 1
        /\ Append(s.cursor, 0)[Len(s.cursor) + 1] = 0
    <2>1. 0 \in Nat
      OBVIOUS
    <2> QED
      BY ONLY <1>1, <2>1, SeqAppend
  <1>6. t \in Searches
    BY Zenon, <1>1, <1>2, <1>4, <1>5 DEF Searches
  <1>7. Len(t.cursor) = Len(s.path) + 1 /\ t.cursor[Len(s.path) + 1] = 0
    BY Zenon, <1>1, <1>3, <1>5
  <1>8. Len(s.path) = 0
    BY ONLY s.path = <<>>
  <1>9. ~(Len(s.path) > 0) /\ \A i \in 1..Len(s.path) : i < Len(s.path) => t.cursor[i] = s.cursor[i]
    BY ONLY <1>8
  <1> QED
    BY Zenon, <1>3, <1>6, <1>7, <1>9, PushKeeps DEF t

\* One turn keeps what holds between turns, and uses something up.
LEMMA TurnKeeps ==
    ASSUME NEW E \in SUBSET Edges, NEW s, DfsInv(E, s), ~DfsDone(E, s)
    PROVE  DfsInv(E, DfsStep(E, s)) /\ Spent(E, s) + 1 <= Spent(E, DfsStep(E, s))
  <1>1. CASE s.path # <<>> /\ Unvisited(E, s) # {}
    <2> DEFINE n == MinOf(Unvisited(E, s))
    <2>1. /\ n \in Nodes /\ n \in Nat /\ <<s.path[Len(s.path)], n>> \in E /\ s.cursor[Len(s.path)] < n
          /\ \A m \in Successors(E, s.path[Len(s.path)]) : m <= n => m <= s.cursor[Len(s.path)] \/ m = n
      BY Zenon, <1>1, NextChild
    <2>2. DfsStep(E, s) = VisitChild(s, n)
      BY Zenon, <1>1 DEF DfsStep
    <2> HIDE DEF n
    <2>3. s \in Searches /\ s.path \in Seq(Nodes)
      BY ONLY DfsInv(E, s), Stacks
    <2>4. Len(s.path) > 0
      BY Zenon, <1>1, <2>3, NotEmpty
    <2>5. IsNext(E, s, n)
      BY Zenon, <2>1, <2>4 DEF IsNext
    <2> QED
      BY Zenon, <2>1, <2>2, <2>3, <2>5, ChildKeeps
  <1>2. CASE s.path # <<>> /\ Unvisited(E, s) = {}
    <2>1. DfsStep(E, s) = Pop(s)
      BY Zenon, <1>2 DEF DfsStep
    <2> QED
      BY Zenon, <1>2, <2>1, PopKeeps
  <1>3. CASE s.path = <<>>
    <2> DEFINE n == MinOf(Starts(E, s))
    <2>1. Starts(E, s) # {} /\ Starts(E, s) \subseteq Nodes
      BY Zenon, <1>3 DEF DfsDone, Starts
    <2>2. n \in Nodes /\ s.color[n] = "white"
      BY Zenon, <2>1, MinOfFacts DEF Starts
    <2>3. DfsStep(E, s) = Push(s, n)
      BY Zenon, <1>3, <2>1 DEF DfsStep
    <2> HIDE DEF n
    <2> QED
      BY Zenon, <1>3, <2>2, <2>3, RootKeeps
  <1> QED
    BY Zenon, <1>1, <1>2, <1>3
-----------------------------------------------------------------------------
(* The search, turn by turn.                                               *)

LEMMA StartKeeps ==
    ASSUME NEW E \in SUBSET Edges
    PROVE  DfsInv(E, DfsStart)
  <1> DEFINE s == DfsStart
  <1>1. /\ s = [color |-> [n \in Nodes |-> "white"], path |-> <<>>, cursor |-> <<>>, cycles |-> <<>>]
        /\ s.color = [n \in Nodes |-> "white"] /\ s.path = <<>> /\ s.cursor = <<>> /\ s.cycles = <<>>
    BY Zenon DEF DfsStart
  <1>2. <<>> \in Seq(Nodes) /\ <<>> \in Seq(Nat) /\ <<>> \in Seq(Seq(Nodes)) /\ Len(<<>>) = 0
    OBVIOUS
  <1>3. s \in Searches
    <2>1. [n \in Nodes |-> "white"] \in [Nodes -> Colors]
      BY Zenon DEF Colors
    <2> QED
      BY Zenon, <1>1, <1>2, <2>1 DEF Searches
  <1> HIDE DEF s
  <1>4. /\ Len(s.path) = 0 /\ Len(s.cursor) = Len(s.path) /\ Len(s.cycles) = 0
        /\ \A n \in Nodes : s.color[n] = "white"
    BY Zenon, <1>1, <1>2
  <1>5. \A i : i \notin 1..0 /\ i \notin 1..(0 - 1)
    OBVIOUS
  <1>6. PathIsGray(E, s)
    <2>1. \A n \in Nodes : s.color[n] # "gray" /\ ~\E i \in 1..Len(s.path) : s.path[i] = n
      BY Zenon, <1>4, <1>5
    <2>2. \A i, j \in 1..Len(s.path) : s.path[i] = s.path[j] => i = j
      BY Zenon, <1>4, <1>5
    <2>3. \A i \in 1..(Len(s.path) - 1) : <<s.path[i], s.path[i + 1]>> \in E
      BY Zenon, <1>4, <1>5
    <2> QED
      BY Zenon, <1>3, <1>4, <2>1, <2>2, <2>3 DEF PathIsGray
  <1>7. AreCycles(E, s) /\ LookedAt(E, s)
    BY Zenon, <1>4, <1>5 DEF AreCycles, LookedAt
  <1>8. BlackIsReported(E, s)
    <2>1. \A n \in Nodes : s.color[n] # "black"
      BY Zenon, <1>4
    <2> QED
      BY Zenon, <2>1 DEF BlackIsReported
  <1> QED
    BY Zenon, <1>6, <1>7, <1>8 DEF DfsInv, s

\* When the loops are over, no cycle was left without a reported member.
LEMMA DoneTouches ==
    ASSUME NEW E \in SUBSET Edges, NEW s, DfsInv(E, s), DfsDone(E, s),
           NEW S \in SUBSET Nodes, S # {}, Trapped(E, S)
    PROVE  \E i \in 1..Len(s.cycles) : \E j \in 1..Len(s.cycles[i]) : s.cycles[i][j] \in S
  <1>1. PICK n \in S : TRUE
    BY Zenon
  <1>2. PICK m \in S : <<n, m>> \in E
    BY Zenon, <1>1 DEF Trapped
  <1>3. n \in Nodes /\ Successors(E, n) # {}
    BY Zenon, <1>1, <1>2 DEF Successors
  <1>4. s.color[n] # "white" /\ s.path = <<>>
    BY Zenon, <1>3 DEF DfsDone, Starts
  <1>5. \A i : i \notin 1..Len(s.path)
    <2>1. Len(s.path) = 0
      BY ONLY <1>4
    <2> QED
      BY ONLY <2>1
  <1>6. s.color[n] # "gray"
    BY Zenon, <1>3, <1>5 DEF DfsInv, PathIsGray
  <1>7. s.color[n] \in Colors
    BY Zenon, <1>3, Stacks
  <1>8. s.color[n] = "black"
    BY Zenon, <1>4, <1>6, <1>7 DEF Colors
  <1>9. PICK k \in S : Reported(s, k)
    BY Zenon, <1>1, <1>8 DEF DfsInv, BlackIsReported
  <1> QED
    BY Zenon, <1>9 DEF Reported

\* What holds of the search after each turn; no turn is for nothing.
SearchInv ==
    /\ edges \in SUBSET Edges /\ DfsInv(edges, dfs)
    /\ taken \in Nat /\ taken <= Spent(edges, dfs)

LEMMA InitSearch == Init => SearchInv
  <1> SUFFICES ASSUME Init PROVE SearchInv
    OBVIOUS
  <1>1. edges \in SUBSET Edges /\ dfs = DfsStart /\ taken = 0
    BY Zenon DEF Init
  <1>2. DfsInv(edges, dfs)
    BY Zenon, <1>1, StartKeeps
  <1>3. Spent(edges, dfs) \in Nat
    BY Zenon, <1>1, SpentBounded
  <1>4. taken \in Nat /\ taken <= Spent(edges, dfs)
    BY ONLY <1>1, <1>3
  <1> QED
    BY Zenon, <1>1, <1>2, <1>4 DEF SearchInv

LEMMA NextSearch == SearchInv /\ [Next]_vars => SearchInv'
  <1> SUFFICES ASSUME SearchInv, [Next]_vars PROVE SearchInv'
    OBVIOUS
  <1>1. edges \in SUBSET Edges /\ DfsInv(edges, dfs) /\ taken \in Nat /\ taken <= Spent(edges, dfs)
    BY Zenon DEF SearchInv
  <1>2. CASE Turn
    <2>1. /\ ~DfsDone(edges, dfs) /\ dfs' = DfsStep(edges, dfs) /\ taken' = taken + 1 /\ edges' = edges
      BY Zenon, <1>2 DEF Turn
    <2>2. DfsInv(edges, dfs') /\ Spent(edges, dfs) + 1 <= Spent(edges, dfs')
      BY Zenon, <1>1, <2>1, TurnKeeps
    <2>3. Spent(edges, dfs) \in Nat /\ Spent(edges, dfs') \in Nat
      BY Zenon, <1>1, SpentBounded
    <2>4. taken' \in Nat /\ taken' <= Spent(edges, dfs')
      BY ONLY <1>1, <2>1, <2>2, <2>3
    <2>5. DfsInv(edges', dfs') /\ taken' <= Spent(edges', dfs')
      BY Zenon, <2>1, <2>2, <2>4
    <2> QED
      BY Zenon, <1>1, <2>1, <2>4, <2>5 DEF SearchInv
  <1>3. CASE UNCHANGED vars
    <2>1. edges' = edges /\ dfs' = dfs /\ taken' = taken
      BY Zenon, <1>3 DEF vars
    <2> QED
      BY Zenon, <1>1, <2>1 DEF SearchInv
  <1> QED
    BY Zenon, <1>2, <1>3 DEF Next

LEMMA SearchFinds == SearchInv => FindsCycles
  <1> SUFFICES ASSUME SearchInv PROVE FindsCycles
    OBVIOUS
  <1>1. edges \in SUBSET Edges /\ DfsInv(edges, dfs) /\ taken \in Nat /\ taken <= Spent(edges, dfs)
    BY Zenon DEF SearchInv
  <1>2. ReportsOnlyCycles
    BY Zenon, <1>1 DEF DfsInv, AreCycles, ReportsOnlyCycles
  <1>3. EveryCycleTouched
    BY Zenon, <1>1, DoneTouches DEF EveryCycleTouched, Trapped
  <1>4. TurnsBounded
    <2>1. Spent(edges, dfs) \in Nat /\ Spent(edges, dfs) <= DfsSteps(edges) /\ DfsSteps(edges) \in Nat
      BY Zenon, <1>1, SpentBounded
    <2>2. taken <= DfsSteps(edges)
      BY ONLY <1>1, <2>1
    <2> QED
      BY Zenon, <2>2 DEF TurnsBounded
  <1> QED
    BY Zenon, <1>2, <1>3, <1>4 DEF FindsCycles

\* find_cycles (crates/pg-txn/src/deadlock.rs), on any wait-for graph of any finite set of
\* transactions: every cycle it reports is an elementary cycle of the graph, no set of
\* transactions that wait for each other is left without a reported member when its loops end,
\* and the loops turn at most twice per transaction and once per edge.
THEOREM FindsEveryCycle == Spec => []FindsCycles
  <1>1. Init => SearchInv
    BY InitSearch
  <1>2. SearchInv /\ [Next]_vars => SearchInv'
    BY NextSearch
  <1>3. SearchInv => FindsCycles
    BY SearchFinds
  <1> QED
    BY <1>1, <1>2, <1>3, PTL DEF Spec
-----------------------------------------------------------------------------
(* FindCyclesIn, the search run to its end as the detector runs it.        *)

\* The first n turns.
IsRun(E, f, n) ==
    f = [k \in 0..n |-> IF k = 0 THEN DfsStart ELSE DfsStep(E, f[k - 1])]

LEMMA RunFacts ==
    ASSUME NEW E, NEW n \in Nat, NEW f, IsRun(E, f, n)
    PROVE  f[0] = DfsStart /\ \A k \in 1..n : f[k] = DfsStep(E, f[k - 1])
  <1>1. f = [k \in 0..n |-> IF k = 0 THEN DfsStart ELSE DfsStep(E, f[k - 1])]
    BY Zenon DEF IsRun
  <1>2. 0 \in 0..n /\ \A k \in 1..n : k \in 0..n /\ k # 0
    OBVIOUS
  <1>3. \A k \in 0..n : f[k] = IF k = 0 THEN DfsStart ELSE DfsStep(E, f[k - 1])
    BY Zenon, <1>1
  <1> QED
    BY Zenon, <1>2, <1>3

LEMMA RunExists ==
    ASSUME NEW E, NEW n \in Nat
    PROVE  \E f : IsRun(E, f, n)
  <1> DEFINE T == {k \in Nat : ~\E f : IsRun(E, f, k)}
  <1>1. SUFFICES ASSUME T # {} PROVE FALSE
    BY Zenon
  <1>2. PICK k \in T : \A m \in T : k <= m
    BY Zenon, <1>1, Least
  <1>3. k \in Nat /\ ~\E f : IsRun(E, f, k)
    BY Zenon, <1>2
  <1>4. CASE k = 0
    <2> DEFINE f == [j \in 0..k |-> DfsStart]
    <2>1. \A j \in 0..k : j = 0
      BY ONLY <1>4
    <2>2. f = [j \in 0..k |-> IF j = 0 THEN DfsStart ELSE DfsStep(E, f[j - 1])]
      BY Zenon, <2>1
    <2> HIDE DEF f
    <2> QED
      BY Zenon, <1>3, <2>2 DEF IsRun
  <1>5. CASE k # 0
    <2>1. k - 1 \in Nat /\ ~(k <= k - 1) /\ k \in 1..k
      BY ONLY <1>3, <1>5
    <2>2. PICK f : IsRun(E, f, k - 1)
      BY Zenon, <1>2, <2>1
    <2>3. f[0] = DfsStart /\ \A j \in 1..(k - 1) : f[j] = DfsStep(E, f[j - 1])
      BY Zenon, <2>1, <2>2, RunFacts
    <2> DEFINE g == [j \in 0..k |-> IF j = k THEN DfsStep(E, f[k - 1]) ELSE f[j]]
    <2>4. \A j \in 0..k : g[j] = IF j = k THEN DfsStep(E, f[k - 1]) ELSE f[j]
      BY Zenon
    <2>5. g = [j \in 0..k |-> g[j]]
      BY Zenon
    <2> HIDE DEF g
    <2>6. ASSUME NEW j \in 0..k PROVE g[j] = IF j = 0 THEN DfsStart ELSE DfsStep(E, g[j - 1])
      <3>1. CASE j = 0
        BY Zenon, <1>5, <2>3, <2>4, <3>1
      <3>2. CASE j # 0
        <4>1. j - 1 \in 0..k /\ j - 1 # k /\ (j # k => j \in 1..(k - 1))
          BY ONLY <1>3, <3>2, j \in 0..k
        <4>2. g[j - 1] = f[j - 1]
          BY Zenon, <2>4, <4>1
        <4>3. g[j] = DfsStep(E, f[j - 1])
          BY Zenon, <2>3, <2>4, <4>1
        <4> QED
          BY Zenon, <3>2, <4>2, <4>3
      <3> QED
        BY Zenon, <3>1, <3>2
    <2>7. g = [j \in 0..k |-> IF j = 0 THEN DfsStart ELSE DfsStep(E, g[j - 1])]
      BY Zenon, <2>5, <2>6
    <2> QED
      BY Zenon, <1>3, <2>7 DEF IsRun
  <1> QED
    BY Zenon, <1>4, <1>5

LEMMA RunsAgree ==
    ASSUME NEW E, NEW m \in Nat, NEW n \in Nat, m <= n, NEW f, NEW g, IsRun(E, f, m), IsRun(E, g, n)
    PROVE  f[m] = g[m]
  <1> DEFINE T == {k \in 0..m : f[k] # g[k]}
  <1>1. SUFFICES ASSUME T # {} PROVE FALSE
    <2>1. m \in 0..m
      OBVIOUS
    <2> QED
      BY Zenon, <2>1
  <1>2. T \subseteq Nat
    OBVIOUS
  <1>3. PICK k \in T : \A j \in T : k <= j
    BY Zenon, <1>1, <1>2, Least
  <1>4. k \in 0..m /\ f[k] # g[k]
    BY Zenon, <1>3
  <1>5. /\ f[0] = DfsStart /\ \A j \in 1..m : f[j] = DfsStep(E, f[j - 1])
        /\ g[0] = DfsStart /\ \A j \in 1..n : g[j] = DfsStep(E, g[j - 1])
    <2>1. f[0] = DfsStart /\ \A j \in 1..m : f[j] = DfsStep(E, f[j - 1])
      BY ONLY m \in Nat, IsRun(E, f, m), RunFacts
    <2>2. g[0] = DfsStart /\ \A j \in 1..n : g[j] = DfsStep(E, g[j - 1])
      BY ONLY n \in Nat, IsRun(E, g, n), RunFacts
    <2> QED
      BY Zenon, <2>1, <2>2
  <1>6. k # 0
    BY Zenon, <1>4, <1>5
  <1>7. k \in 1..m /\ k \in 1..n /\ k - 1 \in 0..m /\ ~(k <= k - 1)
    BY ONLY <1>4, <1>6, m \in Nat, n \in Nat, m <= n
  <1>8. f[k - 1] = g[k - 1]
    BY Zenon, <1>3, <1>7
  <1> QED
    BY Zenon, <1>4, <1>5, <1>7, <1>8

\* The function that FindCyclesIn defines by recursion exists.
RunOf(E) ==
    CHOOSE f : f = [n \in Nat |-> IF n = 0 THEN DfsStart
                                  ELSE CHOOSE t \in {DfsStep(E, s) : s \in {f[n - 1]}} : TRUE]

LEMMA RunOfFacts ==
    ASSUME NEW E
    PROVE  RunOf(E)[0] = DfsStart /\ \A n \in Nat : RunOf(E)[n + 1] = DfsStep(E, RunOf(E)[n])
  <1> DEFINE P(n) == CHOOSE f : IsRun(E, f, n)
             F == [n \in Nat |-> P(n)[n]]
  <1>1. \A n \in Nat : IsRun(E, P(n), n)
    BY Zenon, RunExists
  <1> HIDE DEF P
  <1>2. \A n \in Nat : F[n] = P(n)[n]
    BY Zenon
  <1>3. F = [n \in Nat |-> F[n]]
    BY Zenon
  <1> HIDE DEF F
  <1>4. ASSUME NEW f PROVE \A x : (CHOOSE t \in {DfsStep(E, s) : s \in {f[x]}} : TRUE) = DfsStep(E, f[x])
    <2> SUFFICES ASSUME NEW x PROVE (CHOOSE t \in {DfsStep(E, s) : s \in {f[x]}} : TRUE) = DfsStep(E, f[x])
      BY Zenon
    <2>1. DfsStep(E, f[x]) \in {DfsStep(E, s) : s \in {f[x]}}
      BY Zenon
    <2>2. (CHOOSE t \in {DfsStep(E, s) : s \in {f[x]}} : TRUE) \in {DfsStep(E, s) : s \in {f[x]}}
      BY Zenon, <2>1
    <2> QED
      BY Zenon, <2>2
  <1>5. ASSUME NEW n \in Nat PROVE F[n] = IF n = 0 THEN DfsStart ELSE DfsStep(E, F[n - 1])
    <2>1. P(n)[0] = DfsStart /\ \A k \in 1..n : P(n)[k] = DfsStep(E, P(n)[k - 1])
      BY Zenon, <1>1, RunFacts
    <2>2. CASE n = 0
      BY Zenon, <1>2, <2>1, <2>2
    <2>3. CASE n # 0
      <3>1. n \in 1..n /\ n - 1 \in Nat /\ n - 1 <= n
        BY ONLY n \in Nat, <2>3
      <3>2. IsRun(E, P(n), n) /\ IsRun(E, P(n - 1), n - 1)
        BY Zenon, <1>1, <3>1
      <3>3. P(n - 1)[n - 1] = P(n)[n - 1]
        BY ONLY n \in Nat, <3>1, <3>2, RunsAgree
      <3>4. F[n] = DfsStep(E, P(n)[n - 1])
        BY Zenon, <1>2, <2>1, <3>1
      <3>5. F[n - 1] = P(n - 1)[n - 1]
        BY Zenon, <1>2, <3>1
      <3> QED
        BY Zenon, <2>3, <3>3, <3>4, <3>5
    <2> QED
      BY Zenon, <2>2, <2>3
  <1>6. F = [n \in Nat |-> IF n = 0 THEN DfsStart
                           ELSE CHOOSE t \in {DfsStep(E, s) : s \in {F[n - 1]}} : TRUE]
    BY Zenon, <1>3, <1>4, <1>5
  <1> DEFINE R == RunOf(E)
  <1>7. R = [n \in Nat |-> IF n = 0 THEN DfsStart
                           ELSE CHOOSE t \in {DfsStep(E, s) : s \in {R[n - 1]}} : TRUE]
    BY Zenon, <1>6 DEF RunOf
  <1> HIDE DEF R
  <1>8. \A n \in Nat : R[n] = IF n = 0 THEN DfsStart
                              ELSE CHOOSE t \in {DfsStep(E, s) : s \in {R[n - 1]}} : TRUE
    BY Zenon, <1>7
  <1>9. \A n \in Nat : R[n] = IF n = 0 THEN DfsStart ELSE DfsStep(E, R[n - 1])
    BY Zenon, <1>4, <1>8
  <1>10. 0 \in Nat /\ \A n \in Nat : n + 1 \in Nat /\ n + 1 # 0 /\ (n + 1) - 1 = n
    OBVIOUS
  <1> QED
    BY Zenon, <1>9, <1>10 DEF R

LEMMA FindCyclesInIs ==
    ASSUME NEW E
    PROVE  FindCyclesIn(E) = RunOf(E)[DfsSteps(E)].cycles
BY Zenon DEF FindCyclesIn, RunOf

\* After any number of turns the search is over or has used up as much.
LEMMA RunKeeps ==
    ASSUME NEW E \in SUBSET Edges, NEW n \in Nat
    PROVE  DfsInv(E, RunOf(E)[n]) /\ (DfsDone(E, RunOf(E)[n]) \/ n <= Spent(E, RunOf(E)[n]))
  <1> DEFINE R == RunOf(E)
             Good(k) == DfsInv(E, R[k]) /\ (DfsDone(E, R[k]) \/ k <= Spent(E, R[k]))
             T == {k \in Nat : ~Good(k)}
  <1>1. SUFFICES ASSUME T # {} PROVE FALSE
    BY Zenon
  <1>2. PICK k \in T : \A j \in T : k <= j
    BY Zenon, <1>1, Least
  <1>3. R[0] = DfsStart /\ \A j \in Nat : R[j + 1] = DfsStep(E, R[j])
    BY Zenon, RunOfFacts
  <1> HIDE DEF R
  <1>4. k \in Nat /\ ~Good(k)
    BY Zenon, <1>2
  <1>5. CASE k = 0
    <2>1. DfsInv(E, R[0]) /\ Spent(E, R[0]) \in Nat
      BY Zenon, <1>3, StartKeeps, SpentBounded
    <2>2. 0 <= Spent(E, R[0])
      BY ONLY <2>1
    <2> QED
      BY Zenon, <1>4, <1>5, <2>1, <2>2
  <1>6. CASE k # 0
    <2> DEFINE j == k - 1
    <2>1. j \in Nat /\ ~(k <= j) /\ j + 1 = k
      BY ONLY <1>4, <1>6
    <2> HIDE DEF j
    <2>2. Good(j)
      BY Zenon, <1>2, <2>1
    <2>3. R[k] = DfsStep(E, R[j])
      BY Zenon, <1>3, <2>1
    <2>4. CASE DfsDone(E, R[j])
      <3>1. DfsStep(E, R[j]) = R[j]
        BY Zenon, <2>4 DEF DfsDone, DfsStep
      <3> QED
        BY Zenon, <1>4, <2>2, <2>3, <2>4, <3>1
    <2>5. CASE ~DfsDone(E, R[j])
      <3>1. DfsInv(E, R[k]) /\ Spent(E, R[j]) + 1 <= Spent(E, R[k])
        BY Zenon, <2>2, <2>3, <2>5, TurnKeeps
      <3>2. Spent(E, R[j]) \in Nat /\ Spent(E, R[k]) \in Nat /\ j <= Spent(E, R[j])
        BY Zenon, <2>2, <2>5, SpentBounded
      <3>3. k <= Spent(E, R[k])
        BY ONLY <1>4, <2>1, <3>1, <3>2
      <3> QED
        BY Zenon, <1>4, <3>1, <3>3
    <2> QED
      BY Zenon, <2>4, <2>5
  <1> QED
    BY Zenon, <1>5, <1>6

\* What the detector gets from find_cycles for the wait-for graph E: elementary cycles of E, and
\* one that meets every set of transactions that wait for each other.
THEOREM FindCyclesInFinds ==
    ASSUME NEW E \in SUBSET Edges
    PROVE  /\ FindCyclesIn(E) \in Seq(Seq(Nodes))
           /\ \A i \in 1..Len(FindCyclesIn(E)) :
                IsElementary(FindCyclesIn(E)[i]) /\ EdgesOf(FindCyclesIn(E)[i]) \subseteq E
           /\ \A S \in SUBSET Nodes :
                S # {} /\ (\A n \in S : \E m \in S : <<n, m>> \in E) =>
                  \E i \in 1..Len(FindCyclesIn(E)) : \E j \in 1..Len(FindCyclesIn(E)[i]) :
                      FindCyclesIn(E)[i][j] \in S
  <1> DEFINE s == RunOf(E)[DfsSteps(E)]
  <1>1. FindCyclesIn(E) = s.cycles
    BY Zenon, FindCyclesInIs
  <1>2. DfsSteps(E) \in Nat
    BY Zenon, SpentBounded
  <1>3. DfsInv(E, s) /\ (DfsDone(E, s) \/ DfsSteps(E) <= Spent(E, s))
    BY Zenon, <1>2, RunKeeps
  <1> HIDE DEF s
  <1>4. DfsDone(E, s)
    <2> SUFFICES ASSUME ~DfsDone(E, s) PROVE FALSE
      BY Zenon
    <2>1. Spent(E, s) + 1 <= Spent(E, DfsStep(E, s))
      BY Zenon, <1>3, TurnKeeps
    <2>2. /\ Spent(E, s) \in Nat /\ Spent(E, DfsStep(E, s)) \in Nat
          /\ Spent(E, DfsStep(E, s)) <= DfsSteps(E)
      BY Zenon, SpentBounded
    <2>3. DfsSteps(E) <= Spent(E, s)
      BY Zenon, <1>3
    <2> QED
      BY ONLY <1>2, <2>1, <2>2, <2>3
  <1>5. s.cycles \in Seq(Seq(Nodes))
    BY Zenon, <1>3, Stacks
  <1>6. \A i \in 1..Len(s.cycles) : IsElementary(s.cycles[i]) /\ EdgesOf(s.cycles[i]) \subseteq E
    BY Zenon, <1>3 DEF DfsInv, AreCycles
  <1>7. \A S \in SUBSET Nodes :
          S # {} /\ (\A n \in S : \E m \in S : <<n, m>> \in E) =>
            \E i \in 1..Len(s.cycles) : \E j \in 1..Len(s.cycles[i]) : s.cycles[i][j] \in S
    BY Zenon, <1>3, <1>4, DoneTouches DEF Trapped
  <1> QED
    BY Zenon, <1>1, <1>5, <1>6, <1>7
=============================================================================
