------------------------------ MODULE CycleSearch ------------------------------
(***************************************************************************)
(* find_cycles, run turn by turn on every graph it can be given: a         *)
(* transaction never waits for itself (TxnError::SelfWait, and the test    *)
(* `holder != waiter` of wait_for_edges), any other graph is possible.     *)
(***************************************************************************)
EXTENDS FindCycles

VARIABLES
    edges,   \* the argument
    dfs,     \* the search
    taken    \* how many turns the loops have made

vars == <<edges, dfs, taken>>

Init ==
    /\ edges \in SUBSET {e \in Edges : e[1] # e[2]}
    /\ dfs = DfsStart
    /\ taken = 0

Turn ==
    /\ ~DfsDone(edges, dfs)
    /\ dfs' = DfsStep(edges, dfs)
    /\ taken' = taken + 1
    /\ UNCHANGED edges

Next == Turn

Spec == Init /\ [][Next]_vars

-----------------------------------------------------------------------------
(* Properties.                                                             *)

IsElementary(c) == c # <<>> /\ \A i, j \in 1..Len(c) : c[i] = c[j] => i = j

\* The state of the search: the stacks `path` and `next_child` have one length.
TypeOK ==
    /\ edges \subseteq Edges
    /\ dfs.color \in [Nodes -> {"white", "gray", "black"}]
    /\ dfs.path \in Seq(Nodes)
    /\ dfs.cursor \in Seq(Nodes \cup {0})
    /\ Len(dfs.cursor) = Len(dfs.path)
    /\ dfs.cycles \in Seq(Seq(Nodes))
    /\ taken \in Nat

\* Every reported cycle is an elementary cycle of the graph: consecutive
\* members, and the last with the first, are joined by an edge.
ReportsOnlyCycles ==
    \A i \in 1..Len(dfs.cycles) :
        IsElementary(dfs.cycles[i]) /\ EdgesOf(dfs.cycles[i]) \subseteq edges

\* Each cycle of the graph shares a member with some reported cycle, so that
\* a deadlocked transaction is never left with no victim near it.
EveryCycleTouched ==
    DfsDone(edges, dfs) =>
        \A S \in SUBSET Nodes :
            S # {} /\ (\A n \in S : \E m \in S : <<n, m>> \in edges) =>
                \E i \in 1..Len(dfs.cycles) : \E j \in 1..Len(dfs.cycles[i]) :
                    dfs.cycles[i][j] \in S

\* The loops end: they turn at most twice per node and once per edge.
TurnsBounded == taken <= DfsSteps(edges)

\* find_cycles does what the detector takes it to do on every wait-for graph: it ends,
\* reports cycles of the graph only, and leaves no cycle without a reported member.
FindsCycles == ReportsOnlyCycles /\ EveryCycleTouched /\ TurnsBounded

=============================================================================
