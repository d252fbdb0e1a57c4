------------------------------- MODULE Engine -------------------------------
(***************************************************************************)
(* The assembled engine (crates/pg-engine/src/engine.rs with the catalog   *)
(* of crates/pg-catalog): sessions run statements in explicit and in       *)
(* auto-commit transactions against tables with indexes, and create and    *)
(* drop tables and create indexes, under table locks and the DDL mutex; a  *)
(* crash discards what is in memory, and opening the engine rebuilds the   *)
(* registries from the catalog and compensates the index entries that      *)
(* transactions in flight had removed.                                     *)
(*                                                                         *)
(* The parts the engine is built from are taken at their word here, each   *)
(* being the subject of a module of its own: a heap call is one step on    *)
(* heap pages (Heap), an index call one step on a set of entries (BTree),  *)
(* a lock is granted when it conflicts with no other (LockManager), a      *)
(* snapshot is an instant (TxnManager), and redo restores every logged     *)
(* change (Recovery, SplitRecovery): after a crash the pages, the entries, *)
(* the catalog and the commit log are as they were.  Losing an unsynced    *)
(* end of the log is crashing earlier.                                     *)
(*                                                                         *)
(* Every table has two columns and a row is a pair of values, 0 for NULL.  *)
(* The catalog tables are lists of rows; their pages are not modelled      *)
(* beyond the number of rows each has room for.                            *)
(***************************************************************************)
EXTENDS HeapPage, FiniteSets, TLC

CONSTANTS
    Sessions,
    Names,          \* table names
    MaxPage, MaxXid,
    Cases           \* what to start from and what may happen: see Init

Pages == 1..MaxPage
Cols == {1, 2}

VARIABLES
    registry,       \* name -> table entry
    indexes,        \* the index registry
    locks,          \* granted table locks
    ddl,            \* the session that has ddl_lock, or NoSession
    ses,            \* what every session is doing
    active,         \* transactions in progress
    nextXid,
    clog,           \* "inprogress", "committed", "aborted", or "loser": aborted by
                    \* recovery, which the log does not tell and a crash forgets
    pages, free, nextPage,
    trees,          \* index oid -> its entries, pairs <<key, tid>>
    catalog,
    nextOid,
    savedOid,       \* next_oid of the superblock
    removed,        \* the HeapDelete and HeapUpdate records in the log
    opening,        \* what is left to do before the engine is open
    left,           \* what is left of the case's bounds
    owner,          \* history: the table every page was last initialised for
    acked,          \* history: the tables that exist as far as callers were told
    strayed         \* history: a window described with Strays was met

volatile == <<registry, indexes, locks, ddl, ses, active>>
durable == <<nextXid, clog, pages, free, nextPage, trees, catalog, nextOid, savedOid,
             removed>>
vars == <<volatile, durable, opening, left, owner, acked, strayed>>

NoSession == "none"
NoEntry == [oid |-> 0, first |-> 0]
Idle == [pc |-> "idle"]
Open == [pc |-> "open", victims |-> <<>>, calls |-> <<>>]

\* The snapshot of a reader with no transaction.
Fresh == [xid |-> 0, xmax |-> nextXid, xip |-> active, cid |-> 1]

\* walk_chain: the pages of a table.
ChainFrom(first) ==
    LET walk[seen \in Seq(Pages)] ==
          LET next == pages[seen[Len(seen)]].next IN
          IF next = 0 THEN seen ELSE walk[Append(seen, next)]
    IN  walk[<<first>>]
ChainSet(first) == {ChainFrom(first)[i] : i \in DOMAIN ChainFrom(first)}

TupleAt(tid) == pages[tid[1]].tuples[tid[2]]
Row(tid) == TupleAt(tid).row
RootOf(tid) == HotChainRoot(pages[tid[1]], tid)
ScanTable(entry, snap) ==
    UNION {ScanPage(pages[p], p, snap, clog) : p \in ChainSet(entry.first)}

\* Tids in page and slot order, as scans list them.
Before(a, b) == a[1] < b[1] \/ (a[1] = b[1] /\ a[2] < b[2])
InOrder(tids) ==
    CHOOSE s \in [1..Cardinality(tids) -> tids] :
        \A i, j \in DOMAIN s : i < j => Before(s[i], s[j])

\* indexes_of.
IndexesOf(entry) == SelectSeq(indexes, LAMBDA ix : ix.table = entry.oid)
\* index_lookup: the visible versions the entries of key lead to.
LookupAll(ix, key, snap) ==
    {VisibleVersion(pages[e[2][1]], e[2], snap, clog) :
        e \in {e \in trees[ix.oid] : e[1] = key}} \ {NoTid}

-----------------------------------------------------------------------------
(* Table locks                                                             *)

Conflicting ==
    {{"RowExclusive", "Exclusive"}, {"Exclusive"}, {"AccessExclusive"},
     {"AccessShare", "AccessExclusive"}, {"RowExclusive", "AccessExclusive"},
     {"Exclusive", "AccessExclusive"}}
CanLock(xid, oid, mode) ==
    \A l \in locks : l.oid = oid /\ l.xid # xid => {l.mode, mode} \notin Conflicting
Granted(xid, oid, mode) == locks \cup {[xid |-> xid, oid |-> oid, mode |-> mode]}

-----------------------------------------------------------------------------
(* Sessions                                                                *)

Goto(s, pc) == ses' = [ses EXCEPT ![s].pc = pc]
With(s, fields) == ses' = [ses EXCEPT ![s] = fields @@ @]
Me(s) == ses[s]
Xid(s) == ses[s].snap.xid

Spend(what) == left[what] > 0 /\ left' = [left EXCEPT ![what] = @ - 1]

\* begin_txn and snapshot; curcid is advanced before every statement.
Begun == [snap |-> [xid |-> nextXid, xmax |-> nextXid + 1, xip |-> active \cup {nextXid},
                    cid |-> 0],
          undo |-> <<>>, stmt |-> [kind |-> "none"], entry |-> NoEntry]
BeginTxn ==
    /\ nextXid <= MaxXid
    /\ nextXid' = nextXid + 1
    /\ active' = active \cup {nextXid}
    /\ clog' = clog

BeginExplicit(s) ==
    /\ opening = Open /\ Me(s) = Idle
    /\ Spend("explicit")
    /\ BeginTxn
    /\ With(s, [pc |-> "open", auto |-> FALSE] @@ Begun)
    /\ UNCHANGED <<savedOid, registry, indexes, locks, ddl, pages, free, nextPage, trees, catalog,
                   nextOid, removed, opening, owner, acked, strayed>>

\* A statement fails: auto-commit aborts, an explicit transaction is left to its
\* owner, for whom abort is the only safe operation.
FailedTo(s) == IF Me(s).auto THEN "undo" ELSE "failed"
Fail(s) == Goto(s, FailedTo(s))

\* lock_table_entry, first half: the name is resolved, then the lock requested.
Resolved(st, me) ==
    LET entry == registry[st.tab] IN
    [pc |-> IF entry = NoEntry THEN (IF me.auto THEN "undo" ELSE "failed") ELSE "lock",
     stmt |-> st, entry |-> entry,
     mode |-> IF st.kind = "select" THEN "AccessShare" ELSE "RowExclusive",
     snap |-> [me.snap EXCEPT !.cid = @ + 1]]

\* exec_txn: a statement of an open transaction.
StatementInTxn(s, st) ==
    /\ Me(s).pc = "open"
    /\ Spend("stmts")
    /\ With(s, Resolved(st, Me(s)))
    /\ UNCHANGED <<registry, indexes, locks, ddl, active, durable, opening, owner, acked,
                   strayed>>
\* auto_commit around one statement.  A select without a transaction takes no
\* lock and is not modelled.
StatementAuto(s, st) ==
    /\ opening = Open /\ Me(s) = Idle /\ st.kind # "select"
    /\ Spend("stmts")
    /\ BeginTxn
    /\ With(s, LET me == [auto |-> TRUE] @@ Begun IN Resolved(st, me) @@ me)
    /\ UNCHANGED <<savedOid, registry, indexes, locks, ddl, pages, free, nextPage, trees, catalog,
                   nextOid, removed, opening, owner, acked, strayed>>

Matches(st, row) == st.key # 0 /\ row[1] = st.key
NewRow(st, row) == [row EXCEPT ![st.col] = st.val]
TodoOf(st, entry, snap) ==
    IF st.kind = "insert" THEN <<[tid |-> NoTid, new |-> st.row]>>
    ELSE LET hits == {t \in ScanTable(entry, snap) : Matches(st, Row(t))}
             tids == InOrder(hits)
         IN  IF st.kind = "select" THEN <<>>
             ELSE [i \in DOMAIN tids |->
                     [tid |-> tids[i],
                      new |-> IF st.kind = "update" THEN NewRow(st, Row(tids[i])) ELSE <<0, 0>>]]

\* lock_table_entry, second half: with the lock granted the registry is read
\* again, and an update or a delete scans the table.
AcquireTable(s) ==
    LET current == registry[Me(s).stmt.tab] IN
    /\ Me(s).pc = "lock"
    /\ CanLock(Xid(s), Me(s).entry.oid, Me(s).mode)
    /\ locks' = Granted(Xid(s), Me(s).entry.oid, Me(s).mode)
    /\ IF current # Me(s).entry THEN Fail(s)
       ELSE With(s, [pc |-> "row", todo |-> TodoOf(Me(s).stmt, current, Me(s).snap)])
    /\ UNCHANGED <<registry, indexes, ddl, active, durable, opening, left, owner, acked, strayed>>

-----------------------------------------------------------------------------
(* The rows of a statement                                                 *)

\* An index whose transaction is over but which is not in the registry yet: the
\* table lock that kept writers out is released before create_index pushes the
\* entry, and a writer that lists the indexes in between maintains all but the
\* new one.
Unregistered(entry) ==
    \E d \in Sessions : /\ Me(d).pc = "after"
                        /\ Me(d).stmt.kind = "create_index" /\ ~Me(d).aborted
                        /\ Me(d).entry = entry

\* The start of insert_inner, update_inner and delete_inner for the next row: the
\* table's indexes are listed, the old values and the chain root read.
NextRow(s) ==
    /\ Me(s).pc = "row"
    /\ IF Me(s).todo = <<>>
       THEN /\ Goto(s, IF Me(s).auto THEN "commit" ELSE "open")
            /\ UNCHANGED strayed
       ELSE LET tid == Me(s).todo[1].tid IN
            /\ With(s, [pc |-> "heap", ixs |-> IndexesOf(Me(s).entry),
                        old |-> IF tid = NoTid THEN <<0, 0>> ELSE Row(tid),
                        root |-> IF tid = NoTid THEN NoTid ELSE RootOf(tid)])
            /\ strayed' = (strayed \/ Unregistered(Me(s).entry))
    /\ UNCHANGED <<registry, indexes, locks, ddl, active, durable, opening, left, owner, acked>>

\* acquire_page_with_room: the newest page with room, else the chain grows by
\* a page off the free list or the end of the file.
Room(entry, except) ==
    LET chain == ChainFrom(entry.first)
        able == {i \in DOMAIN chain : chain[i] # except /\ HasRoom(pages[chain[i]])}
    IN  IF able = {} THEN 0 ELSE chain[CHOOSE i \in able : \A j \in able : j <= i]
AllocPage == IF free = <<>> THEN nextPage ELSE free[Len(free)]
Allocated ==
    /\ AllocPage \in Pages
    /\ free' = IF free = <<>> THEN free ELSE SubSeq(free, 1, Len(free) - 1)
    /\ nextPage' = IF free = <<>> THEN nextPage + 1 ELSE nextPage
\* add_tuple on a page with room; the slot is the tuple's tid.
TidOn(p) == <<p, SlotCount(pages[p]) + 1>>
Tail1(entry) == LET chain == ChainFrom(entry.first) IN chain[Len(chain)]

\* Where a tuple goes, on the pages pgs: pgs' and the tuple's tid out.
Placed(entry, except, pgs, t, out) ==
    LET p == Room(entry, except) IN
    IF p # 0
    THEN /\ out = TidOn(p)
         /\ pages' = [pgs EXCEPT ![p] = AddTuple(@, t)]
         /\ UNCHANGED <<free, nextPage, owner>>
    ELSE /\ Allocated
         /\ out = <<AllocPage, 1>>
         /\ pages' = [pgs EXCEPT ![Tail1(entry)].next = AllocPage,
                                 ![AllocPage] = AddTuple(InitPage, t)]
         /\ owner' = [owner EXCEPT ![AllocPage] = entry.oid]

\* The index calls of a row, in order: delete_old and insert_new of every index.
IndexCalls(ixs, old, new, root, out) ==
    LET Calls(ix) ==
          (IF old # <<>> /\ old[ix.col] # 0
           THEN <<[op |-> "delete", ix |-> ix.oid, key |-> old[ix.col], tid |-> root]>> ELSE <<>>)
          \o (IF new # <<>> /\ new[ix.col] # 0
              THEN <<[op |-> "insert", ix |-> ix.oid, key |-> new[ix.col], tid |-> out]>> ELSE <<>>)
        all[i \in 0..Len(ixs)] == IF i = 0 THEN <<>> ELSE all[i - 1] \o Calls(ixs[i])
    IN  all[Len(ixs)]
AfterHeap(s, calls) == With(s, [pc |-> "index", calls |-> calls])

HeapInsert(s) ==
    LET me == Me(s)
        new == me.todo[1].new
    IN  /\ me.pc = "heap" /\ me.stmt.kind = "insert"
        /\ \E out \in Pages \X (1..PageCap) :
             /\ Placed(me.entry, 0, pages, StampXmin(NewTuple(new, me.snap.cid), Xid(s)), out)
             /\ AfterHeap(s, IndexCalls(me.ixs, <<>>, new, NoTid, out))
        /\ UNCHANGED <<savedOid, registry, indexes, locks, ddl, active, nextXid, clog, trees, catalog,
                       nextOid, removed, opening, left, acked, strayed>>

\* The row lock gate of heap_am for a writer, which waits for a live stamper.
Stamp(s) == TupleAt(Me(s).todo[1].tid).xmax
StampStatus(s) == IF Stamp(s) = 0 THEN "aborted" ELSE clog[Stamp(s)]
RowFree(s) == \/ Stamp(s) = Xid(s)
              \/ StampStatus(s) \in {"aborted", "loser"}
              \/ StampStatus(s) = "inprogress" /\ Stamp(s) \notin active
RowTaken(s) == Stamp(s) # Xid(s) /\ StampStatus(s) = "committed"

\* TupleConcurrentlyUpdated.
RowConflict(s) ==
    /\ Me(s).pc = "heap" /\ Me(s).stmt.kind \in {"update", "delete"}
    /\ RowTaken(s)
    /\ Fail(s)
    /\ UNCHANGED <<registry, indexes, locks, ddl, active, durable, opening, left, owner, acked,
                   strayed>>

\* Mutant: one index whose key stays makes the update HOT.
HotEligibleSome(me) ==
    \E i \in DOMAIN me.ixs : me.old[me.ixs[i].col] = me.todo[1].new[me.ixs[i].col]

HotEligible(me) ==
    me.ixs # <<>> /\ \A i \in DOMAIN me.ixs : me.old[me.ixs[i].col] = me.todo[1].new[me.ixs[i].col]

\* update_inner: a HOT update on the old version's page where the keys stay and
\* there is room; else old version stamped and new one placed, and the entry of
\* the chain root replaced.
HeapUpdate(s) ==
    LET me == Me(s)
        tid == me.todo[1].tid
        new == me.todo[1].new
        same == TidOn(tid[1])
        tuple == StampXmin(NewTuple(new, me.snap.cid), Xid(s))
        stamped == [pages EXCEPT ![tid[1]] =
                      OnSlot(@, tid[2], StampDeleted(TupleAt(tid), Xid(s), me.snap.cid, TRUE))]
        onPage == HasRoom(pages[tid[1]])
    IN  /\ me.pc = "heap" /\ me.stmt.kind = "update"
        /\ RowFree(s)
        /\ \/ /\ HotEligible(me) /\ onPage
              /\ pages' = [pages EXCEPT ![tid[1]] =
                    AddTuple(OnSlot(@, tid[2],
                                    StampHotUpdate(TupleAt(tid), same, Xid(s), me.snap.cid)),
                             StampHotOnly(tuple))]
              /\ AfterHeap(s, <<>>)
              /\ UNCHANGED <<free, nextPage, owner, removed>>
           \/ /\ ~HotEligible(me) /\ onPage
              /\ pages' = [stamped EXCEPT ![tid[1]] = AddTuple(@, tuple)]
              /\ AfterHeap(s, IndexCalls(me.ixs, me.old, new, me.root, same))
              /\ removed' = removed \cup {[xid |-> Xid(s), tid |-> tid, oid |-> me.entry.oid]}
              /\ UNCHANGED <<free, nextPage, owner>>
           \/ /\ ~onPage
              /\ \E out \in Pages \X (1..PageCap) :
                   /\ Placed(me.entry, tid[1], stamped, tuple, out)
                   /\ AfterHeap(s, IndexCalls(me.ixs, me.old, new, me.root, out))
              /\ removed' = removed \cup {[xid |-> Xid(s), tid |-> tid, oid |-> me.entry.oid]}
        /\ UNCHANGED <<savedOid, registry, indexes, locks, ddl, active, nextXid, clog, trees, catalog,
                       nextOid, opening, left, acked, strayed>>

HeapDelete(s) ==
    LET me == Me(s)
        tid == me.todo[1].tid
    IN  /\ me.pc = "heap" /\ me.stmt.kind = "delete"
        /\ RowFree(s)
        /\ pages' = [pages EXCEPT ![tid[1]] =
              OnSlot(@, tid[2], StampDeleted(TupleAt(tid), Xid(s), me.snap.cid, FALSE))]
        /\ removed' = removed \cup {[xid |-> Xid(s), tid |-> tid, oid |-> me.entry.oid]}
        /\ AfterHeap(s, IndexCalls(me.ixs, me.old, <<>>, me.root, NoTid))
        /\ UNCHANGED <<savedOid, registry, indexes, locks, ddl, active, nextXid, clog, free, nextPage,
                       trees, catalog, nextOid, opening, left, owner, acked, strayed>>

\* One call on an index and the note for undo.  A missing entry and an entry
\* that is already there are errors.
CallFails(c) == (c.op = "delete") # (<<c.key, c.tid>> \in trees[c.ix])
Applied(c) ==
    trees' = [trees EXCEPT ![c.ix] = IF c.op = "insert" THEN @ \cup {<<c.key, c.tid>>}
                                     ELSE @ \ {<<c.key, c.tid>>}]
IndexCall(s) ==
    LET me == Me(s) IN
    /\ me.pc = "index"
    /\ IF me.calls = <<>>
       THEN /\ With(s, [pc |-> "row", todo |-> Tail(me.todo)])
            /\ UNCHANGED trees
       ELSE IF CallFails(me.calls[1])
       THEN Fail(s) /\ UNCHANGED trees
       ELSE /\ Applied(me.calls[1])
            /\ With(s, [calls |-> Tail(me.calls), undo |-> Append(me.undo, me.calls[1])])
    /\ UNCHANGED <<savedOid, registry, indexes, locks, ddl, active, nextXid, clog, pages, free, nextPage,
                   catalog, nextOid, removed, opening, left, owner, acked, strayed>>

\* A wait, for a table lock or for a row, ends with the deadlock detector's error.
Victim(s) ==
    /\ \/ Me(s).pc \in {"lock", "ddl_lock"} /\ ~CanLock(Xid(s), Me(s).entry.oid, Me(s).mode)
       \/ /\ Me(s).pc = "heap" /\ Me(s).stmt.kind \in {"update", "delete"}
          /\ ~RowFree(s) /\ ~RowTaken(s)
    /\ Spend("victims")
    /\ Fail(s)
    /\ UNCHANGED <<registry, indexes, locks, ddl, active, durable, opening, owner, acked, strayed>>

-----------------------------------------------------------------------------
(* Ending a transaction                                                    *)

\* commit_txn; the locks go after it, and the undo log is discarded.
Commit(s) ==
    /\ Me(s).pc \in {"open", "commit"}
    /\ clog' = [clog EXCEPT ![Xid(s)] = "committed"]
    /\ active' = active \ {Xid(s)}
    /\ With(s, [pc |-> "release", aborted |-> FALSE])
    /\ UNCHANGED <<savedOid, registry, indexes, locks, ddl, nextXid, pages, free, nextPage, trees,
                   catalog, nextOid, removed, opening, left, owner, acked, strayed>>

\* TxnHandle::abort and the drop of a handle.
Abort(s) ==
    /\ \/ Me(s).pc = "open" /\ Spend("aborts")
       \/ Me(s).pc = "failed" /\ UNCHANGED left
    /\ Goto(s, "undo")
    /\ UNCHANGED <<registry, indexes, locks, ddl, active, durable, opening, owner, acked, strayed>>

\* apply_index_undo, last call first; a failed call is logged and skipped.
Opposite(c) == [c EXCEPT !.op = IF c.op = "insert" THEN "delete" ELSE "insert"]
UndoCall(s) ==
    LET undo == Me(s).undo
        c == Opposite(undo[Len(undo)])
    IN  /\ Me(s).pc = "undo" /\ undo # <<>>
        /\ IF CallFails(c) THEN UNCHANGED trees ELSE Applied(c)
        /\ With(s, [undo |-> SubSeq(undo, 1, Len(undo) - 1)])
        /\ UNCHANGED <<savedOid, registry, indexes, locks, ddl, active, nextXid, clog, pages, free,
                       nextPage, catalog, nextOid, removed, opening, left, owner, acked, strayed>>

\* Mutant: the transaction is over before its index calls are undone.
AbortTxnFirst(s) ==
    /\ Me(s).pc = "undo"
    /\ clog' = [clog EXCEPT ![Xid(s)] = "aborted"]
    /\ active' = active \ {Xid(s)}
    /\ IF Me(s).undo = <<>> THEN With(s, [pc |-> "release", aborted |-> TRUE]) ELSE UNCHANGED ses
    /\ UNCHANGED <<savedOid, registry, indexes, locks, ddl, nextXid, pages, free, nextPage, trees,
                   catalog, nextOid, removed, opening, left, owner, acked, strayed>>

\* abort_txn, once the index is as it was.
AbortTxn(s) ==
    /\ Me(s).pc = "undo" /\ Me(s).undo = <<>>
    /\ clog' = [clog EXCEPT ![Xid(s)] = "aborted"]
    /\ active' = active \ {Xid(s)}
    /\ With(s, [pc |-> "release", aborted |-> TRUE])
    /\ UNCHANGED <<savedOid, registry, indexes, locks, ddl, nextXid, pages, free, nextPage, trees,
                   catalog, nextOid, removed, opening, left, owner, acked, strayed>>

\* release_all.
Release(s) ==
    /\ Me(s).pc = "release"
    /\ locks' = {l \in locks : l.xid # Xid(s)}
    /\ IF ddl = s THEN Goto(s, "after") ELSE ses' = [ses EXCEPT ![s] = Idle]
    /\ UNCHANGED <<registry, indexes, ddl, active, durable, opening, left, owner, acked, strayed>>

-----------------------------------------------------------------------------
(* DDL                                                                     *)

\* The start of create_table, drop_table and create_index under ddl_lock: the
\* name is looked up, an oid allocated, and an auto-commit transaction begun.
Refused(st) ==
    CASE st.kind = "create_table" -> registry[st.tab] # NoEntry
      [] st.kind = "drop_table"   -> registry[st.tab] = NoEntry
      [] st.kind = "create_index" ->
           \/ registry[st.tab] = NoEntry
           \/ \E i \in DOMAIN indexes : /\ indexes[i].table = registry[st.tab].oid
                                        /\ indexes[i].col = st.col
           \/ \E t \in DOMAIN catalog : Len(catalog[t]) >= left.room[t]
ModeOf(st) == IF st.kind = "create_index" THEN "Exclusive" ELSE "AccessExclusive"
StartDdl(s, st) ==
    /\ opening = Open /\ Me(s) = Idle /\ ddl = NoSession
    /\ Spend("ddl")
    /\ ~Refused(st)
    /\ BeginTxn
    /\ ddl' = s
    /\ nextOid' = IF st.kind = "drop_table" THEN nextOid ELSE nextOid + 1
    /\ acked' = IF st.kind = "drop_table" THEN [acked EXCEPT ![st.tab] = NoEntry] ELSE acked
    /\ With(s, [pc |-> "ddl_lock", auto |-> TRUE, stmt |-> st, oid |-> nextOid,
                mode |-> ModeOf(st),
                entry |-> IF st.kind = "create_table" THEN [oid |-> nextOid, first |-> 0]
                          ELSE registry[st.tab]] @@ Begun)
    /\ UNCHANGED <<savedOid, registry, indexes, locks, pages, free, nextPage, trees, catalog, removed,
                   opening, owner, strayed>>

\* The lock; an index build then takes a new snapshot.
DdlLocked(s) ==
    /\ Me(s).pc = "ddl_lock"
    /\ CanLock(Xid(s), Me(s).entry.oid, Me(s).mode)
    /\ locks' = Granted(Xid(s), Me(s).entry.oid, Me(s).mode)
    /\ With(s, [pc |-> Me(s).stmt.kind,
                snap |-> IF Me(s).stmt.kind = "create_index"
                         THEN [xid |-> Xid(s), xmax |-> nextXid, xip |-> active, cid |-> 1]
                         ELSE Me(s).snap])
    /\ UNCHANGED <<registry, indexes, ddl, active, durable, opening, left, owner, acked, strayed>>

CatalogRow(tab, oid, row) == [tab |-> tab, row |-> [oid |-> oid] @@ row]

\* create_table_inner: the first page, then the rows.
CreateHeap(s) ==
    LET me == Me(s) IN
    /\ me.pc = "create_table"
    /\ Allocated
    /\ pages' = [pages EXCEPT ![AllocPage] = InitPage]
    /\ owner' = [owner EXCEPT ![AllocPage] = me.oid]
    /\ With(s, [pc |-> "rows", entry |-> [oid |-> me.oid, first |-> AllocPage],
                rows |-> <<CatalogRow("class", me.oid, [name |-> me.stmt.tab, kind |-> "r"]),
                           CatalogRow("attribute", me.oid, [col |-> 1]),
                           CatalogRow("attribute", me.oid, [col |-> 2]),
                           CatalogRow("relpages", me.oid, [first |-> AllocPage])>>])
    /\ UNCHANGED <<savedOid, registry, indexes, locks, ddl, active, nextXid, clog, trees, catalog, nextOid,
                   removed, opening, left, acked, strayed>>

\* Mutant: every entry is filed under the version the scan returned.
BuildIndexOnVisible(s) ==
    LET me == Me(s)
        col == me.stmt.col
        rows == {t \in ScanTable(me.entry, me.snap) : Row(t)[col] # 0}
    IN  /\ me.pc = "create_index"
        /\ trees' = (me.oid :> {<<Row(t)[col], t>> : t \in rows}) @@ trees
        /\ With(s, [pc |-> "rows", rows |-> <<>>])
        /\ UNCHANGED <<savedOid, registry, indexes, locks, ddl, active, nextXid, clog, pages,
                       free, nextPage, catalog, nextOid, removed, opening, left, owner, acked,
                       strayed>>

\* create_index: the tree is built from what the new snapshot sees, every entry
\* against the root of its chain; its pages are not reachable yet.
BuildIndex(s) ==
    LET me == Me(s)
        col == me.stmt.col
        rows == {t \in ScanTable(me.entry, me.snap) : Row(t)[col] # 0}
    IN  /\ me.pc = "create_index"
        /\ trees' = (me.oid :> {<<Row(t)[col], RootOf(t)>> : t \in rows}) @@ trees
        /\ With(s, [pc |-> "rows",
                    rows |-> <<CatalogRow("class", me.oid, [name |-> "index", kind |-> "i"]),
                               CatalogRow("attribute", me.oid, [col |-> col]),
                               CatalogRow("index", me.oid, [table |-> me.entry.oid]),
                               CatalogRow("relpages", me.oid, [first |-> 0])>>])
        /\ UNCHANGED <<savedOid, registry, indexes, locks, ddl, active, nextXid, clog, pages, free, nextPage,
                       catalog, nextOid, removed, opening, left, owner, acked, strayed>>

\* drop_table_inner: the row that marks the table dropped comes before any page
\* is freed.
MarkDropped(s) ==
    LET me == Me(s) IN
    /\ me.pc = "drop_table"
    /\ With(s, [pc |-> "rows", chain |-> ChainFrom(me.entry.first),
                rows |-> <<CatalogRow("class", me.entry.oid,
                                      [name |-> me.stmt.tab, kind |-> "d"])>>])
    /\ UNCHANGED <<registry, indexes, locks, ddl, active, durable, opening, left, owner, acked,
                   strayed>>

\* insert_catalog_row; a first page without room is CatalogFull.
InsertCatalogRow(s) ==
    LET me == Me(s)
        tab == me.rows[1].tab
    IN  /\ me.pc = "rows"
        /\ IF me.rows = <<>>
           THEN /\ Goto(s, IF me.stmt.kind = "drop_table" THEN "free" ELSE "commit")
                /\ UNCHANGED catalog
           ELSE IF Len(catalog[tab]) >= left.room[tab]
           THEN Fail(s) /\ UNCHANGED catalog
           ELSE /\ catalog' = [catalog EXCEPT ![tab] = Append(@, [xid |-> Xid(s)] @@ me.rows[1].row)]
                /\ With(s, [rows |-> Tail(me.rows)])
        /\ UNCHANGED <<savedOid, registry, indexes, locks, ddl, active, nextXid, clog, pages, free, nextPage,
                       trees, nextOid, removed, opening, left, owner, acked, strayed>>

\* Mutant: the entry of a dropped table stays in the registry.
FreePagesKeepEntry(s) ==
    LET chain == Me(s).chain IN
    /\ Me(s).pc = "free"
    /\ IF chain # <<>>
       THEN /\ free' = Append(free, chain[1])
            /\ With(s, [chain |-> Tail(chain)])
       ELSE Goto(s, "commit") /\ UNCHANGED free
    /\ UNCHANGED <<savedOid, registry, indexes, locks, ddl, active, nextXid, clog, pages,
                   nextPage, trees, catalog, nextOid, removed, opening, left, owner, acked, strayed>>

\* The pages of a dropped table are freed along the chain, then the entry leaves
\* the registry, before the commit releases the lock.
FreePages(s) ==
    LET chain == Me(s).chain IN
    /\ Me(s).pc = "free"
    /\ IF chain # <<>>
       THEN /\ free' = Append(free, chain[1])
            /\ With(s, [chain |-> Tail(chain)])
            /\ UNCHANGED registry
       ELSE /\ registry' = [registry EXCEPT ![Me(s).stmt.tab] = NoEntry]
            /\ Goto(s, "commit")
            /\ UNCHANGED free
    /\ UNCHANGED <<savedOid, indexes, locks, ddl, active, nextXid, clog, pages, nextPage, trees, catalog,
                   nextOid, removed, opening, left, owner, acked, strayed>>

\* The end of a DDL call: what was committed is registered.
Register(s) ==
    LET me == Me(s)
        made == ~me.aborted
    IN  /\ me.pc = "after"
        /\ registry' = IF made /\ me.stmt.kind = "create_table"
                       THEN [registry EXCEPT ![me.stmt.tab] = me.entry] ELSE registry
        /\ indexes' = IF made /\ me.stmt.kind = "create_index"
                      THEN Append(indexes, [oid |-> me.oid, table |-> me.entry.oid,
                                            col |-> me.stmt.col])
                      ELSE indexes
        /\ acked' = IF made /\ me.stmt.kind = "create_table"
                    THEN [acked EXCEPT ![me.stmt.tab] = me.entry]
                    ELSE IF me.aborted /\ me.stmt.kind = "drop_table"
                    THEN [acked EXCEPT ![me.stmt.tab] = me.entry] ELSE acked
        /\ ddl' = NoSession
        /\ ses' = [ses EXCEPT ![s] = Idle]
        /\ UNCHANGED <<locks, active, durable, opening, left, owner, strayed>>

-----------------------------------------------------------------------------
(* Checkpoint, crash, open                                                 *)

\* Engine::checkpoint: the commit log on disk now tells what recovery decided.
\* The segments with the records of transactions in flight are retained.
Checkpoint ==
    /\ opening = Open
    /\ Spend("checkpoints")
    /\ clog' = [x \in DOMAIN clog |-> IF clog[x] = "loser" THEN "aborted" ELSE clog[x]]
    /\ savedOid' = nextOid
    /\ UNCHANGED <<volatile, nextXid, pages, free, nextPage, trees, catalog, nextOid, removed,
                   opening, owner, acked, strayed>>

Crash ==
    /\ opening.pc # "failed"
    /\ Spend("crashes")
    /\ opening' = [Open EXCEPT !.pc = "recover"]
    /\ registry' = [n \in Names |-> NoEntry]
    /\ indexes' = <<>> /\ locks' = {} /\ active' = {}
    /\ ddl' = NoSession
    /\ ses' = [s \in Sessions |-> Idle]
    /\ UNCHANGED <<durable, owner, acked, strayed>>

\* build_registry: every row of pg_class counts, the last one per oid.
ClassOids == {catalog["class"][i].oid : i \in DOMAIN catalog["class"]}
LastClassRow(oid) ==
    LET at == {i \in DOMAIN catalog["class"] : catalog["class"][i].oid = oid}
    IN  catalog["class"][CHOOSE i \in at : \A j \in at : j <= i]
RelpagesOf(oid) == {i \in DOMAIN catalog["relpages"] : catalog["relpages"][i].oid = oid}
\* Mutant: a dropped version does not supersede the live one.
LiveTablesDroppedToo ==
    {oid \in ClassOids : RelpagesOf(oid) # {} /\ LastClassRow(oid).kind # "i"}

LiveTables == {oid \in ClassOids : LastClassRow(oid).kind = "r" /\ RelpagesOf(oid) # {}}
Named(n) == {oid \in LiveTables : LastClassRow(oid).name = n}
BuildRegistry ==
    [n \in Names |->
       IF Named(n) = {} THEN NoEntry
       ELSE LET oid == CHOOSE oid \in Named(n) : TRUE
                row == catalog["relpages"][CHOOSE i \in RelpagesOf(oid) : TRUE]
            IN  [oid |-> oid, first |-> row.first]]

\* build_index_registry: the rows of pg_index that Snapshot::everything sees, joined with the first
\* pg_attribute row and the pg_rust_relpages row of the index.
AttributesOf(oid) == {i \in DOMAIN catalog["attribute"] : catalog["attribute"][i].oid = oid}
BuildIndexRegistry ==
    LET whole == SelectSeq(catalog["index"],
                   LAMBDA r : /\ clog[r.xid] = "committed"
                              /\ AttributesOf(r.oid) # {} /\ RelpagesOf(r.oid) # {})
        first(oid) == CHOOSE i \in AttributesOf(oid) : \A j \in AttributesOf(oid) : i <= j
    IN  [i \in DOMAIN whole |->
           [oid |-> whole[i].oid, table |-> whole[i].table,
            col |-> catalog["attribute"][first(whole[i].oid)].col]]

\* The transactions analysis finds without an end, and the row versions their
\* records removed.
Losers == {x \in 1..(nextXid - 1) : clog[x] \in {"inprogress", "loser"}}
VictimTids == {r.tid : r \in {r \in removed : r.xid \in Losers}}

\* A record that an earlier recovery compensated already, and what it removed
\* has changed since: the version was removed again, by a transaction that
\* counts, or its page went to another table.
Revisited(r) ==
    /\ clog[r.xid] = "loser"
    /\ \/ owner[r.tid[1]] # r.oid
       \/ HasTuple(pages[r.tid[1]], r.tid[2]) /\ TupleAt(r.tid).xmax # r.xid

\* Engine::open up to the registries: redo has restored the pages, HeapUndo marks
\* the losers in the commit log's buffers.
Recover ==
    /\ opening.pc = "recover"
    /\ clog' = [x \in DOMAIN clog |-> IF x \in Losers THEN "loser" ELSE clog[x]]
    /\ LET used == {savedOid} \cup {oid + 1 : oid \in ClassOids}
       IN  nextOid' = CHOOSE o \in used : \A q \in used : q <= o
    /\ IF \E n \in Names : Cardinality(Named(n)) > 1
       THEN opening' = [opening EXCEPT !.pc = "failed"] /\ UNCHANGED <<registry, indexes>>
       ELSE /\ registry' = BuildRegistry
            /\ indexes' = BuildIndexRegistry
            /\ opening' = [pc |-> "compensate", victims |-> InOrder(VictimTids), calls |-> <<>>]
    /\ strayed' = (strayed \/ \E r \in removed : Revisited(r))
    /\ UNCHANGED <<savedOid, locks, ddl, ses, active, nextXid, pages, free, nextPage, trees, catalog,
                   removed, left, owner, acked>>

\* compensate_loser_index_entries, the next victim: the table whose chain has
\* its page, the row on the page, an insert for every index without the entry.
OwnersOf(p) == {n \in Names : registry[n] # NoEntry /\ p \in ChainSet(registry[n].first)}
Missing(entry, tid) ==
    SelectSeq(IndexCalls(IndexesOf(entry), <<>>, Row(tid), NoTid, RootOf(tid)),
              LAMBDA c : ~CallFails(c))
Compensate ==
    LET tid == opening.victims[1]
        entry == registry[CHOOSE n \in OwnersOf(tid[1]) : TRUE]
        next == [opening EXCEPT !.victims = Tail(@)]
    IN  /\ opening.pc = "compensate" /\ opening.calls = <<>> /\ opening.victims # <<>>
        /\ opening' =
             IF OwnersOf(tid[1]) = {} \/ IndexesOf(entry) = <<>> THEN next
             ELSE IF ~HasTuple(pages[tid[1]], tid[2]) THEN [opening EXCEPT !.pc = "failed"]
             ELSE [next EXCEPT !.calls = Missing(entry, tid)]
        /\ UNCHANGED <<volatile, durable, left, owner, acked, strayed>>
CompensateCall ==
    /\ opening.pc = "compensate" /\ opening.calls # <<>>
    /\ Applied(opening.calls[1])
    /\ opening' = [opening EXCEPT !.calls = Tail(@)]
    /\ UNCHANGED <<savedOid, volatile, nextXid, clog, pages, free, nextPage, catalog, nextOid, removed,
                   left, owner, acked, strayed>>
Opened ==
    /\ opening.pc = "compensate" /\ opening.calls = <<>> /\ opening.victims = <<>>
    /\ opening' = Open
    /\ UNCHANGED <<volatile, durable, left, owner, acked, strayed>>

-----------------------------------------------------------------------------
(* The specification                                                       *)

\* A case: a table c.name with the committed rows c.rows, indexes on the columns
\* c.cols, the rows c.room that the first page of every catalog table holds, the
\* statements c.menu and the DDL c.ddlMenu that may be issued, and how often what
\* may happen, c.bounds.
LoadedPages(rows) ==
    LET tuple(i) == StampXmin(NewTuple(rows[i], 0), 1)
        last == IF rows = <<>> THEN 1 ELSE (Len(rows) + PageCap - 1) \div PageCap
        on(p) == LET a == (p - 1) * PageCap
                     n == IF p < last THEN PageCap ELSE Len(rows) - a
                 IN  [i \in 1..n |-> tuple(a + i)]
    IN  [p \in Pages |-> IF p > last THEN FreshPage
                         ELSE [InitPage EXCEPT !.tuples = on(p),
                                               !.next = IF p < last THEN p + 1 ELSE 0]]
LoadedTree(rows, col) ==
    {<<rows[i][col], <<1 + (i - 1) \div PageCap, 1 + ((i - 1) % PageCap)>> >> :
        i \in {i \in DOMAIN rows : rows[i][col] # 0}}
Start(c) ==
    LET ixs == [i \in DOMAIN c.cols |-> [oid |-> 1 + i, table |-> 1, col |-> c.cols[i]]]
        Each(row(_)) == [i \in DOMAIN c.cols |-> [xid |-> 1, oid |-> 1 + i] @@ row(i)]
        table == [xid |-> 1, oid |-> 1]
        used == Cardinality({p \in Pages : LoadedPages(c.rows)[p].init})
    IN  /\ registry = [n \in Names |-> IF n = c.name THEN [oid |-> 1, first |-> 1] ELSE NoEntry]
        /\ acked = registry
        /\ indexes = ixs
        /\ nextOid = 2 + Len(c.cols)
        /\ savedOid = 2
        /\ pages = LoadedPages(c.rows)
        /\ nextPage = used + 1
        /\ owner = [p \in Pages |-> IF p <= used THEN 1 ELSE 0]
        /\ trees = [oid \in {ixs[i].oid : i \in DOMAIN ixs} |-> LoadedTree(c.rows, c.cols[oid - 1])]
        /\ catalog = [class |-> <<[name |-> c.name, kind |-> "r"] @@ table>>
                                \o Each(LAMBDA i : [name |-> "index", kind |-> "i"]),
                      attribute |-> <<[col |-> 1] @@ table, [col |-> 2] @@ table>>
                                    \o Each(LAMBDA i : [col |-> c.cols[i]]),
                      index |-> Each(LAMBDA i : [table |-> 1]),
                      relpages |-> <<[first |-> 1] @@ table>> \o Each(LAMBDA i : [first |-> 0])]
        /\ left = [menu |-> c.menu, ddlMenu |-> c.ddlMenu, room |-> c.room] @@ c.bounds
Init ==
    /\ \E c \in Cases : Start(c)
    /\ locks = {} /\ active = {} /\ removed = {} /\ free = <<>>
    /\ ddl = NoSession
    /\ ses = [s \in Sessions |-> Idle]
    /\ nextXid = 2
    /\ clog = [x \in 1..MaxXid |-> IF x = 1 THEN "committed" ELSE "inprogress"]
    /\ opening = Open
    /\ strayed = FALSE

Next ==
    \/ \E s \in Sessions :
         \/ BeginExplicit(s) \/ AcquireTable(s)
         \/ \E st \in left.menu : StatementInTxn(s, st) \/ StatementAuto(s, st)
         \/ NextRow(s) \/ HeapInsert(s) \/ RowConflict(s) \/ HeapUpdate(s) \/ HeapDelete(s)
         \/ IndexCall(s) \/ Victim(s)
         \/ Commit(s) \/ Abort(s) \/ UndoCall(s) \/ AbortTxn(s) \/ Release(s)
         \/ \E st \in left.ddlMenu : StartDdl(s, st)
         \/ DdlLocked(s) \/ CreateHeap(s) \/ BuildIndex(s) \/ MarkDropped(s)
         \/ InsertCatalogRow(s) \/ FreePages(s) \/ Register(s)
    \/ Checkpoint \/ Crash \/ Recover \/ Compensate \/ CompensateCall \/ Opened

Spec == Init /\ [][Next]_vars

-----------------------------------------------------------------------------
(* Properties                                                              *)

Served == {n \in Names : registry[n] # NoEntry}

\* Every row a new snapshot sees is found through every index of its table, unless
\* a transaction still in progress is replacing or deleting it.
\* (insert_inner, update_inner, delete_inner, create_index, the undo of index
\* calls before abort_txn, compensate_loser_index_entries)
IndexComplete ==
    opening = Open =>
      \A n \in Served : \A i \in DOMAIN IndexesOf(registry[n]) :
        LET ix == IndexesOf(registry[n])[i] IN
        \A t \in ScanTable(registry[n], Fresh) :
          (Row(t)[ix.col] # 0 /\ TupleAt(t).xmax \notin active)
            => t \in LookupAll(ix, Row(t)[ix.col], Fresh)
\* The same until create_index has let a writer in before the index was
\* registered, or a second recovery has met the same losers on changed rows.
IndexCompleteApart == strayed \/ IndexComplete

\* An index leads a new snapshot only to rows that hold the key: a HOT chain
\* never changes an indexed column.  (index_lookup, update_inner)
IndexSoundApart ==
    strayed \/ (opening = Open =>
      \A n \in Served : \A i \in DOMAIN IndexesOf(registry[n]) :
        LET ix == IndexesOf(registry[n])[i] IN
        \A e \in trees[ix.oid] : \A t \in LookupAll(ix, e[1], Fresh) : Row(t)[ix.col] = e[1])

\* An index lookup and a scan of the table agree: none of the rows of a new snapshot is
\* missing from an index and none is under a key it does not hold.
\* (insert, update, delete, abort, create_index, compensate_loser_index_entries)
IndexExactApart == IndexCompleteApart /\ IndexSoundApart

\* A statement never finds the entry it is to remove missing or the one it is to
\* add there: every row version's entry is filed under the root of its chain, by
\* builds, by statements, by undo and by compensation alike.
\* (BTreeIndex EntryNotFound and DuplicateKey through record_index_undo)
IndexCallsSucceedApart ==
    strayed \/ \A s \in Sessions :
      (Me(s).pc = "index" /\ Me(s).calls # <<>>) => ~CallFails(Me(s).calls[1])

\* A statement that holds its table lock works on pages of that table: none was
\* freed and none was given to another table.  So does a table that recovery put
\* back in the registry.  (lock_table_entry, drop_table, build_registry)
Working(s) == Me(s).pc \in {"row", "heap", "index"}
Dropping(n) == ddl # NoSession /\ Me(ddl).stmt.kind = "drop_table" /\ Me(ddl).stmt.tab = n
OwnPages(entry) ==
    \A p \in ChainSet(entry.first) : /\ owner[p] = entry.oid
                                     /\ \A i \in DOMAIN free : free[i] # p
TablesKeepTheirPages ==
    /\ \A s \in Sessions : Working(s) => OwnPages(Me(s).entry)
    /\ \A n \in Served : Dropping(n) \/ OwnPages(registry[n])

\* The engine opens again after every crash, and serves every table whose creation
\* was reported and whose drop was not begun.
\* (create_table, drop_table, build_registry, compensate_loser_index_entries)
TablesSurviveApart ==
    strayed \/ /\ opening.pc # "failed"
               /\ opening = Open =>
                    \A n \in Names : acked[n] # NoEntry => registry[n] = acked[n]

NotStrayed == ~strayed
=============================================================================
