----------------------------- MODULE MCRecovery -----------------------------
(* Recovery with small tables: one to change rows in, one to move space in. *)
EXTENDS Recovery

Row9(p, s) == HeapInsert(<<p, s>>, StampXmin(NewTuple(9, 0), Xid))
Page(p) == <<PageAlloc(p), FullPageImage(p, [lsn |-> 0] @@ InitPage)>>
Loaded == Page(1) \o <<Row9(1, 1)>>
Full == Loaded \o <<Row9(1, 2), Row9(1, 3)>>

\* Rows of one page, twice crashed, around a checkpoint.
RowCase ==
    [log |-> Loaded, free |-> <<>>, menu |-> {"insert", "delete", "hot", "lock"},
     system |-> {}, ops |-> 2, flushes |-> 1, ckpts |-> 1, fails |-> 0, crashes |-> 2, tears |-> 1]
\* Rows that move between two pages.
MoveCase ==
    [log |-> Loaded \o Page(2), free |-> <<>>, menu |-> {"update"},
     system |-> {}, ops |-> 2, flushes |-> 1, ckpts |-> 1, fails |-> 0, crashes |-> 1, tears |-> 1]
\* A table that grows by a page.
GrowCase ==
    [log |-> Loaded, free |-> <<>>, menu |-> {"extend", "insert"},
     system |-> {}, ops |-> 2, flushes |-> 1, ckpts |-> 1, fails |-> 1, crashes |-> 1, tears |-> 1]
\* A page with a row that one table has given up and another takes.
ReuseCase ==
    [log |-> Full \o Page(2) \o <<Row9(2, 1)>> \o <<PageFree(2)>>, free |-> <<2>>,
     menu |-> {"create", "drop", "insert"},
     system |-> {}, ops |-> 2, flushes |-> 0, ckpts |-> 1, fails |-> 0, crashes |-> 2, tears |-> 0]
\* A page given up and taken around two checkpoints, and two crashes.
SpaceCase ==
    [log |-> Page(1) \o Page(2), free |-> <<>>, menu |-> {"create", "drop"},
     system |-> {}, ops |-> 2, flushes |-> 0, ckpts |-> 2, fails |-> 0, crashes |-> 2, tears |-> 0]

\* A new directory, whose bootstrap and first relations are twice cut short.
BootCase ==
    [log |-> <<>>, free |-> <<>>, menu |-> {}, system |-> {1, 2},
     ops |-> 2, flushes |-> 0, ckpts |-> 1, fails |-> 0, crashes |-> 2, tears |-> 1]

MCCases == {BootCase, RowCase, MoveCase, GrowCase, ReuseCase, SpaceCase}
=============================================================================
