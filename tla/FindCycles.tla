------------------------------- MODULE FindCycles -------------------------------
(***************************************************************************)
(* find_cycles of crates/pg-txn/src/deadlock.rs: the iterative depth-first *)
(* search with white/gray/black colours that the deadlock detector runs    *)
(* over its snapshot of the wait-for graph.  DfsStep is one turn of the    *)
(* inner or of the outer loop; module CycleSearch runs it step by step.    *)
(***************************************************************************)
EXTENDS Integers, Sequences, FiniteSets

CONSTANT Nodes   \* the XIDs that may occur in the graph

ASSUME NodesAssumption == Nodes \subseteq Nat \ {0} /\ IsFiniteSet(Nodes)

Edges == Nodes \X Nodes

MaxOf(S) == CHOOSE n \in S : \A m \in S : m <= n
MinOf(S) == CHOOSE n \in S : \A m \in S : n <= m

\* The adjacency map: sorted, without duplicates.
Successors(E, n) == {m \in Nodes : <<n, m>> \in E}

\* `path` is the gray chain; `cursor[i]` is the last child of `path[i]` that
\* was looked at, 0 before the first (children are visited in XID order).
DfsStart ==
    [color |-> [n \in Nodes |-> "white"], path |-> <<>>, cursor |-> <<>>, cycles |-> <<>>]

\* `for start in nodes`: nodes are the keys of the adjacency map, in order.
Starts(E, s) == {n \in Nodes : Successors(E, n) # {} /\ s.color[n] = "white"}

\* Mutant: the cursor of the new node is forgotten.
MutPush(s, n) == [s EXCEPT !.color[n] = "gray", !.path = Append(@, n)]

Push(s, n) == [s EXCEPT !.color[n] = "gray",
                        !.path = Append(@, n),
                        !.cursor = Append(@, 0)]

Top(s) == s.path[Len(s.path)]

Unvisited(E, s) == {n \in Successors(E, Top(s)) : n > s.cursor[Len(s.cursor)]}

\* Mutant: the cycle is reported from the start of the path.
MutCycleFrom(s, n) == s.path

\* path[pos..] where pos is the position of the gray node n.
CycleFrom(s, n) ==
    SubSeq(s.path, CHOOSE i \in 1..Len(s.path) : s.path[i] = n, Len(s.path))

\* Mutant: a child that is on the path already is taken for explored.
MutVisitChild(s, n) ==
    LET t == [s EXCEPT !.cursor[Len(s.cursor)] = n]
    IN  IF s.color[n] = "white" THEN Push(t, n) ELSE t

VisitChild(s, n) ==
    LET t == [s EXCEPT !.cursor[Len(s.cursor)] = n]
    IN  CASE s.color[n] = "gray"  -> [t EXCEPT !.cycles = Append(@, CycleFrom(s, n))]
          [] s.color[n] = "white" -> Push(t, n)
          [] s.color[n] = "black" -> t

\* Mutant: an explored node is not coloured black.
MutPop(s) == [s EXCEPT !.color[Top(s)] = "white",
                       !.path = SubSeq(@, 1, Len(@) - 1),
                       !.cursor = SubSeq(@, 1, Len(@) - 1)]

Pop(s) == [s EXCEPT !.color[Top(s)] = "black",
                    !.path = SubSeq(@, 1, Len(@) - 1),
                    !.cursor = SubSeq(@, 1, Len(@) - 1)]

DfsDone(E, s) == s.path = <<>> /\ Starts(E, s) = {}

DfsStep(E, s) ==
    IF s.path # <<>>
    THEN IF Unvisited(E, s) # {} THEN VisitChild(s, MinOf(Unvisited(E, s))) ELSE Pop(s)
    ELSE IF Starts(E, s) # {} THEN Push(s, MinOf(Starts(E, s))) ELSE s

\* Each node is pushed and popped once, each edge is looked at once.
DfsSteps(E) == 2 * Cardinality(Nodes) + Cardinality(E)

\* The singleton set makes TLC evaluate the previous state once.
FindCyclesIn(E) ==
    LET run[n \in Nat] ==
            IF n = 0 THEN DfsStart
            ELSE CHOOSE t \in {DfsStep(E, s) : s \in {run[n - 1]}} : TRUE
    IN  run[DfsSteps(E)].cycles

\* The consecutive pairs of c and the pair that closes it.
EdgesOf(c) == {<<c[i], c[(i % Len(c)) + 1]>> : i \in 1..Len(c)}

=============================================================================
