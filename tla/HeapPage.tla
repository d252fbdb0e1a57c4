------------------------------ MODULE HeapPage ------------------------------
(***************************************************************************)
(* Heap pages and what is read off them (crates/pg-am-heap: slotted_page,  *)
(* tuple, the stamps and the two HOT chain walks of heap_am; the           *)
(* visibility rule of crates/pg-txn/src/visibility.rs): pure operators     *)
(* shared by Heap, Engine and Recovery.                                    *)
(*                                                                         *)
(* A page is a list of tuples, which are only ever appended, with room for *)
(* PageCap of them, and the link to the next page of its table.  A tid is  *)
(* a pair <<page, slot>>, slots counting from 1.  Transaction 0 is         *)
(* TxnId::INVALID and page 0 is PageId::INVALID.                           *)
(***************************************************************************)
EXTENDS Naturals, Sequences

CONSTANT PageCap

ASSUME PageCapAssumption == PageCap \in Nat \ {0}

NoTid == <<0, 0>>

-----------------------------------------------------------------------------
(* Pages                                                                   *)

FreshPage == [init |-> FALSE, tuples |-> <<>>, next |-> 0]
InitPage == [FreshPage EXCEPT !.init = TRUE]
InitIfFresh(pg) == IF pg.init THEN pg ELSE InitPage

SlotCount(pg) == Len(pg.tuples)
HasRoom(pg) == SlotCount(pg) < PageCap
HasTuple(pg, slot) == slot \in 1..SlotCount(pg)
AddTuple(pg, t) == [pg EXCEPT !.tuples = Append(@, t)]

-----------------------------------------------------------------------------
(* Tuples and stamps                                                       *)

\* tuple_header: what the engine encodes; the access method stamps the rest.
NewTuple(row, cid) ==
    [xmin |-> 0, xmax |-> 0, cid |-> cid, lock |-> "none", updated |-> FALSE,
     hot |-> FALSE, only |-> FALSE, ctid |-> NoTid, row |-> row]
StampXmin(t, xid) == [t EXCEPT !.xmin = xid]
StampHotOnly(t) == [t EXCEPT !.only = TRUE]

\* A real stamp clears the lock-only and share bits.
StampDeleted(t, xid, cid, updated) ==
    [t EXCEPT !.xmax = xid, !.cid = cid, !.lock = "none", !.updated = @ \/ updated]
StampHotUpdate(t, new, xid, cid) ==
    [StampDeleted(t, xid, cid, TRUE) EXCEPT !.hot = TRUE, !.ctid = new]
\* lock is "excl" (FOR UPDATE) or "share" (FOR SHARE).
StampLockOnly(t, xid, cid, lock) == [t EXCEPT !.xmax = xid, !.cid = cid, !.lock = lock]

OnSlot(pg, slot, t) == [pg EXCEPT !.tuples[slot] = t]

-----------------------------------------------------------------------------
(* Visibility                                                              *)

\* A lock-only stamp deletes nothing.
VisibilityXmax(t) == IF t.lock = "none" THEN t.xmax ELSE 0

\* A transaction other than one's own counts if it committed before the snapshot.
SeenBy(x, snap, clog) == x < snap.xmax /\ x \notin snap.xip /\ clog[x] = "committed"

IsVisible(t, snap, clog) ==
    LET xmax == VisibilityXmax(t) IN
    /\ IF t.xmin = snap.xid THEN t.cid < snap.cid ELSE SeenBy(t.xmin, snap, clog)
    /\ \/ xmax = 0
       \/ xmax = snap.xid /\ t.cid >= snap.cid
       \/ xmax # snap.xid /\ ~SeenBy(xmax, snap, clog)

-----------------------------------------------------------------------------
(* HOT chains                                                              *)

\* follow_hot_chain: the visible version of the chain from slot on, or 0.
FollowHotChain(pg, p, start, snap, clog) ==
    LET walk[fuel \in Nat, slot \in Nat] ==
          IF fuel = 0 \/ ~HasTuple(pg, slot) THEN 0
          ELSE LET t == pg.tuples[slot] IN
               IF IsVisible(t, snap, clog) THEN slot
               ELSE IF t.hot /\ t.ctid # <<p, slot>> /\ t.ctid[1] = p
               THEN walk[fuel - 1, t.ctid[2]]
               ELSE 0
    IN  IF start[1] = p THEN walk[SlotCount(pg), start[2]] ELSE 0

\* The slots whose HOT link leads to tid; the walk back takes the last one.
LinksTo(pg, tid) == {s \in 1..SlotCount(pg) : pg.tuples[s].hot /\ pg.tuples[s].ctid = tid}
\* hot_chain_root: the version that owns tid's index entries.
HotChainRoot(pg, tid) ==
    LET p == tid[1]
        walk[fuel \in Nat, slot \in Nat] ==
          IF fuel = 0 \/ ~HasTuple(pg, slot) \/ ~pg.tuples[slot].only
             \/ LinksTo(pg, <<p, slot>>) = {}
          THEN <<p, slot>>
          ELSE walk[fuel - 1, CHOOSE s \in LinksTo(pg, <<p, slot>>) :
                                  \A r \in LinksTo(pg, <<p, slot>>) : r <= s]
    IN  walk[SlotCount(pg), tid[2]]

\* Mutant: the chain's versions are not looked at.
VisibleVersionRoot(pg, tid, snap, clog) ==
    IF HasTuple(pg, tid[2]) /\ IsVisible(pg.tuples[tid[2]], snap, clog) THEN tid ELSE NoTid
\* What a lookup or a scan makes of a tuple it reaches: the tid of the version
\* the snapshot sees in the chain that starts there, or NoTid.
VisibleVersion(pg, tid, snap, clog) ==
    LET t == pg.tuples[tid[2]]
        slot == FollowHotChain(pg, tid[1], t.ctid, snap, clog)
    IN  IF ~HasTuple(pg, tid[2]) THEN NoTid
        ELSE IF IsVisible(t, snap, clog) THEN tid
        ELSE IF t.hot /\ t.ctid # tid /\ slot # 0 THEN <<tid[1], slot>>
        ELSE NoTid

\* HeapAM::scan of one page: a version only a chain leads to is not a start.
ScanPage(pg, p, snap, clog) ==
    {VisibleVersion(pg, <<p, s>>, snap, clog) :
        s \in {s \in 1..SlotCount(pg) : ~pg.tuples[s].only}} \ {NoTid}
=============================================================================
