------------------------------- MODULE MCHeap -------------------------------
(***************************************************************************)
(* Small instances of Heap for TLC: pages of two tuples, three             *)
(* transactions after the loader.                                          *)
(***************************************************************************)
EXTENDS Heap

Op(kind, hot) == [kind |-> kind, hot |-> hot]
Ops(kinds) == {Op(k, FALSE) : k \in kinds}
One == {<<Loader, 1>>}

\* Row locks of all kinds on one row of a full page: writers have to move it.
LockCase == [rows |-> 2, touch |-> One, xids |-> Xids, menu |-> Ops({"share", "excl", "update"}),
             stmts |-> 4, aborts |-> 0]
\* HOT updates, and those that no longer fit, read by scans.
VersionCase == [rows |-> 1, touch |-> One, xids |-> Xids,
                menu |-> {Op("update", TRUE)} \cup Ops({"delete", "scan"}),
                stmts |-> 4, aborts |-> 1]
\* Inserts and moving updates that extend the chain at once.
ExtendCase == [rows |-> 2, touch |-> One, xids |-> Xids, menu |-> Ops({"insert", "update"}),
               stmts |-> 3, aborts |-> 0]

AllCases == {LockCase, VersionCase, ExtendCase}
=============================================================================
