------------------------------ MODULE MCEngine ------------------------------
(***************************************************************************)
(* Instances of Engine for model checking: two sessions, pages with room   *)
(* for two tuples, and five cases, each with the statements and the DDL    *)
(* that bring about one group of interleavings.                            *)
(***************************************************************************)
EXTENDS Engine

SessionSymmetry == Permutations(Sessions)

Insert(n, row) == [kind |-> "insert", tab |-> n, row |-> row]
Update(n, key, col, val) == [kind |-> "update", tab |-> n, key |-> key, col |-> col, val |-> val]
Delete(n, key) == [kind |-> "delete", tab |-> n, key |-> key]
Select(n, key) == [kind |-> "select", tab |-> n, key |-> key]
CreateTable(n) == [kind |-> "create_table", tab |-> n]
DropTable(n) == [kind |-> "drop_table", tab |-> n]
CreateIndex(n, col) == [kind |-> "create_index", tab |-> n, col |-> col]

Ample == [class |-> 9, attribute |-> 9, index |-> 9, relpages |-> 9]

NoBounds == [explicit |-> 0, stmts |-> 0, aborts |-> 0, victims |-> 0, ddl |-> 0,
             checkpoints |-> 0, crashes |-> 0]

\* An index is built while writers come and go.
BuildCase ==
    [name |-> "t", rows |-> <<<<1, 1>>>>, cols |-> <<1>>, room |-> Ample,
     menu |-> {Update("t", 1, 2, 2), Update("t", 1, 1, 2)},
     ddlMenu |-> {CreateIndex("t", 2)},
     bounds |-> [NoBounds EXCEPT !.explicit = 1, !.stmts = 2, !.aborts = 1, !.ddl = 1,
                                 !.crashes = 1]]
\* Transactions on a table with two indexes end in every way.
WriteCase ==
    [name |-> "t", rows |-> <<<<1, 1>>>>, cols |-> <<1, 2>>, room |-> Ample,
     menu |-> {Update("t", 1, 2, 2), Update("t", 1, 1, 2), Delete("t", 1), Insert("t", <<1, 0>>)},
     ddlMenu |-> {},
     bounds |-> [NoBounds EXCEPT !.explicit = 1, !.stmts = 2, !.aborts = 1, !.victims = 1,
                                 !.crashes = 1]]
\* A table is dropped and created again around statements on it.
DropCase ==
    [name |-> "t", rows |-> <<<<1, 1>>, <<2, 1>>, <<2, 2>>>>, cols |-> <<1>>, room |-> Ample,
     menu |-> {Insert("t", <<1, 1>>), Select("t", 1)},
     ddlMenu |-> {DropTable("t"), CreateTable("t"), CreateTable("u")},
     bounds |-> [NoBounds EXCEPT !.explicit = 1, !.stmts = 1, !.victims = 1, !.ddl = 2,
                                 !.crashes = 1]]
\* The catalog has no room for a second table.
FullCase ==
    [name |-> "t", rows |-> <<>>, cols |-> <<>>,
     room |-> [class |-> 3, attribute |-> 3, index |-> 0, relpages |-> 1],
     menu |-> {Insert("t", <<1, 1>>)},
     ddlMenu |-> {DropTable("t"), CreateTable("t"), CreateTable("u")},
     bounds |-> [NoBounds EXCEPT !.stmts = 1, !.ddl = 2, !.crashes = 1]]
\* Two crashes, with or without a checkpoint between the recoveries.
CrashCase ==
    [name |-> "t", rows |-> <<<<1, 1>>>>, cols |-> <<1>>, room |-> Ample,
     menu |-> {Delete("t", 1), Update("t", 1, 1, 2)},
     ddlMenu |-> {DropTable("t")},
     bounds |-> [NoBounds EXCEPT !.stmts = 3, !.ddl = 1, !.checkpoints = 1, !.crashes = 2]]

MCCases == {BuildCase, WriteCase, DropCase, FullCase, CrashCase}
=============================================================================
