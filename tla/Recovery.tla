------------------------------ MODULE Recovery ------------------------------
(***************************************************************************)
(* Crash recovery of pages and page space (crates/pg-storage: superblock,  *)
(* page_allocator, freelist_meta, checkpoint, analysis, recovery, engine;  *)
(* the heap redo handlers of crates/pg-am-heap/src/redo.rs): what the      *)
(* checkpoint writes and in which order, the crash at any point of it, of  *)
(* a page write or of a superblock write, and the redo that may itself     *)
(* crash.                                                                  *)
(*                                                                         *)
(* The log is the sequence of its records, position i is the LSN of record *)
(* i.  cache is what the buffer pool or, for a page not in it, the file    *)
(* gives a reader; disk is the file.  A change of a page, with the pins,   *)
(* images and records it takes, is one step: BufferPool has the            *)
(* interleavings inside it, CommitRecovery the commit log and the XIDs, so *)
(* that all rows are of one committed transaction here.                    *)
(***************************************************************************)
EXTENDS HeapPage, FiniteSets, TLC

CONSTANTS MaxPage, MaxLsn,
          Retained, \* RETAINED_SNAPSHOT_CHECKPOINTS
          Cases     \* what to start from and what may happen: see Init

Pages == 1..MaxPage
Tids == Pages \X (1..PageCap)
First == 1          \* the first page of a table that is never dropped
PgClass == 1        \* in the cases with a catalog
Xid == 1

VARIABLES
    wal, synced,    \* the log, and how much of it is fsynced
    recycled,       \* the first position that recycling has kept
    cache, dirty, disk,
    imaged,         \* the pages whose frame has needs_fpi
    ckptLsn,        \* checkpoint_lsn of the buffer pool
    next, free,     \* next_page_id and the freelist
    meta,           \* freelist.meta
    sb, sbNew,      \* the two superblock copies; the one being written
    ck,             \* where the checkpoint is
    mode, pos,      \* "run", "down", "redo", "boot" or "failed"; the redo position
    boot, nextOid,  \* where the opening of the catalog is; its OID counter
    snaps,          \* the checkpoints whose att and dpt snapshot files are there
    left,           \* the case's operations, and what is left of its bounds
    strayed         \* history: see Tear and Leak

log == <<wal, synced, recycled>>
pool == <<cache, dirty, disk, imaged, ckptLsn>>
space == <<next, free>>
super == <<meta, sb, sbNew, snaps>>
catalog == <<boot, nextOid>>
control == <<ck, mode, pos, strayed, catalog>>
vars == <<log, pool, space, super, control, left>>

Spend(what) == left[what] > 0 /\ left' = [left EXCEPT ![what] = @ - 1]
FirstUser == 1       \* the OIDs of system relations are below
Max2(a, b) == IF a > b THEN a ELSE b
Elems(s) == {s[i] : i \in DOMAIN s}

-----------------------------------------------------------------------------
(* Records, and the changes of pages that write them                       *)

NewPage == [lsn |-> 0] @@ FreshPage
PageAlloc(p) == [kind |-> "alloc", page |-> p]
PageFree(p) == [kind |-> "free", page |-> p]
FullPageImage(p, image) == [kind |-> "fpi", page |-> p, image |-> image]
HeapInsert(tid, t) == [kind |-> "insert", new |-> tid, tuple |-> t]
HeapDelete(tid) == [kind |-> "delete", old |-> tid]
HeapUpdate(old, new, t) == [kind |-> "update", old |-> old, new |-> new, tuple |-> t]
HeapHotUpdate(old, new, t) == [kind |-> "hot", old |-> old, new |-> new, tuple |-> t]
CheckpointBegin == [kind |-> "begin"]
CheckpointEnd(lsn) == [kind |-> "end", lsn |-> lsn]

\* for_each_touched_page, of the records that change a page.
Touched(rec) ==
    CASE rec.kind = "fpi" -> {rec.page}
      [] rec.kind = "insert" -> {rec.new[1]}
      [] rec.kind = "delete" -> {rec.old[1]}
      [] rec.kind \in {"update", "hot"} -> {rec.old[1], rec.new[1]}
      [] OTHER -> {}

\* An operation's work: the log and the pages as they get on.
Now == [wal |-> wal, cache |-> cache]
Logged(w, rec) == [w EXCEPT !.wal = Append(@, rec)]
Changed(w, p, pg) == [w EXCEPT !.cache[p] = [pg EXCEPT !.lsn = Len(w.wal)]]

\* pin_mut with ensure_fpi: an image if the page has one on disk that the
\* checkpoint cycle has not seen changed yet.
FpiDue(w, p) == p \in imaged /\ ckptLsn # 0 /\ w.cache[p].lsn < ckptLsn
PinMut(w, p) ==
    IF FpiDue(w, p) THEN Changed(Logged(w, FullPageImage(p, w.cache[p])), p, w.cache[p]) ELSE w

\* Records before CheckpointEnd that the bound still leaves room for.
Room(w) == Len(w.wal) < MaxLsn
Operate(w, pages) ==
    /\ mode = "run" /\ Room(w)
    /\ Spend("ops")
    /\ wal' = w.wal
    /\ cache' = w.cache
    /\ dirty' = dirty \cup pages

\* The pages allocated by a log: its last word on them is PageAlloc.
LastWord(lg, p) ==
    LET at == {i \in DOMAIN lg : lg[i].kind \in {"alloc", "free"} /\ lg[i].page = p} IN
    IF at = {} THEN "none" ELSE lg[CHOOSE i \in at : \A j \in at : j <= i].kind
InUse(lg) == {p \in Pages : LastWord(lg, p) = "alloc"}
Freed(lg) == {p \in Pages : LastWord(lg, p) = "free"}
Known(lg) == InUse(lg) \cup Freed(lg)

TupleAt(w, tid) == w.cache[tid[1]].tuples[tid[2]]
Row == StampXmin(NewTuple(left.ops, 0), Xid)
EndOf(w, p) == <<p, SlotCount(w.cache[p]) + 1>>
Rows == LET used == InUse(wal) IN
        {tid \in Tids : /\ tid[1] \in used /\ HasTuple(cache[tid[1]], tid[2])
                        /\ VisibilityXmax(TupleAt(Now, tid)) = 0}

\* HeapAM::insert, delete, update and lock_tuple on pages that are there.
Insert(p) ==
    LET w == Logged(PinMut(Now, p), HeapInsert(EndOf(Now, p), Row)) IN
    /\ "insert" \in left.menu
    /\ cache[p].init /\ HasRoom(cache[p])
    /\ Operate(Changed(w, p, AddTuple(w.cache[p], Row)), {p})
    /\ UNCHANGED <<synced, recycled, disk, imaged, ckptLsn, space, super, control>>

StampOld(w, tid, updated) ==
    Changed(w, tid[1], OnSlot(w.cache[tid[1]], tid[2],
                              StampDeleted(TupleAt(w, tid), Xid, 1, updated)))
Delete(tid) ==
    LET w == Logged(PinMut(Now, tid[1]), HeapDelete(tid)) IN
    /\ "delete" \in left.menu
    /\ Operate(StampOld(w, tid, FALSE), {tid[1]})
    /\ UNCHANGED <<synced, recycled, disk, imaged, ckptLsn, space, super, control>>

Update(tid, p) ==
    LET w == Logged(PinMut(PinMut(Now, tid[1]), p), HeapUpdate(tid, EndOf(Now, p), Row))
        stamped == StampOld(w, tid, TRUE)
    IN  /\ "update" \in left.menu
        /\ cache[p].init /\ HasRoom(cache[p])
        /\ Operate(Changed(stamped, p, AddTuple(stamped.cache[p], Row)), {tid[1], p})
        /\ UNCHANGED <<synced, recycled, disk, imaged, ckptLsn, space, super, control>>

HotUpdate(tid) ==
    LET p == tid[1]
        new == EndOf(Now, p)
        w == Logged(PinMut(Now, p), HeapHotUpdate(tid, new, StampHotOnly(Row)))
        stamped == OnSlot(w.cache[p], tid[2], StampHotUpdate(TupleAt(w, tid), new, Xid, 1))
    IN  /\ "hot" \in left.menu /\ HasRoom(cache[p])
        /\ Operate(Changed(w, p, AddTuple(stamped, StampHotOnly(Row))), {p})
        /\ UNCHANGED <<synced, recycled, disk, imaged, ckptLsn, space, super, control>>

\* A row lock is stamped without a record.
LockRow(tid) ==
    LET w == PinMut(Now, tid[1]) IN
    /\ "lock" \in left.menu
    /\ Operate([w EXCEPT !.cache[tid[1]] =
                  OnSlot(@, tid[2], StampLockOnly(TupleAt(w, tid), Xid, 1, "excl"))], {tid[1]})
    /\ UNCHANGED <<synced, recycled, disk, imaged, ckptLsn, space, super, control>>

-----------------------------------------------------------------------------
(* The page allocator                                                      *)

AllocId == IF free = <<>> THEN next ELSE free[Len(free)]
\* alloc_page: the freelist's last page, or the next one.
AllocPage ==
    /\ AllocId \in Pages
    /\ free' = IF free = <<>> THEN free ELSE SubSeq(free, 1, Len(free) - 1)
    /\ next' = IF AllocId = next THEN next + 1 ELSE next
    /\ imaged' = imaged \ {AllocId}

\* Mutant: the empty page is not logged.
CreatedUnlogged(w, p) == Changed(Logged(w, PageAlloc(p)), p, [lsn |-> 0] @@ InitPage)
\* new_page, then init and log_page_init: the image covers an earlier tenant.
Created(w, p) ==
    LET alloc == Logged(w, PageAlloc(p)) IN
    Changed(Logged(alloc, FullPageImage(p, [lsn |-> 0] @@ InitPage)), p, [lsn |-> 0] @@ InitPage)

CreateHeap ==
    /\ "create" \in left.menu
    /\ AllocPage
    /\ Operate(Created(Now, AllocId), {AllocId})
    /\ UNCHANGED <<synced, recycled, disk, ckptLsn, super, control>>

\* extend_chain: the tail's link is logged by an image of the tail.
ExtendChain ==
    LET w == PinMut(Created(Now, AllocId), First)
        linked == [w.cache[First] EXCEPT !.next = AllocId]
    IN  /\ "extend" \in left.menu
        /\ cache[First].next = 0
        /\ AllocPage
        /\ Operate(Changed(Logged(w, FullPageImage(First, linked)), First, linked),
                   {AllocId, First})
        /\ UNCHANGED <<synced, recycled, disk, ckptLsn, super, control>>

\* free_page, for a page that no chain leads to.
DropHeap(p) ==
    /\ "drop" \in left.menu
    /\ p \notin {First, cache[First].next}
    /\ p < next /\ p \notin Elems(free)
    /\ free' = Append(free, p)
    /\ Operate(Logged(Now, PageFree(p)), {})
    /\ UNCHANGED <<synced, recycled, disk, imaged, ckptLsn, next, super, control>>

-----------------------------------------------------------------------------
(* Page writes and the checkpoint                                          *)

\* flush_frame: the log first, up to the page's LSN.
WriteBack(p) ==
    /\ disk' = [disk EXCEPT ![p] = cache[p]]
    /\ synced' = Max2(synced, cache[p].lsn)
    /\ dirty' = dirty \ {p}
    /\ imaged' = imaged \cup {p}
\* An eviction; in redo also the flush of the pages that redo has changed.
Flush(p) ==
    /\ mode \in {"run", "redo", "boot"} /\ p \in dirty
    /\ IF mode # "redo" THEN Spend("flushes") ELSE UNCHANGED left
    /\ WriteBack(p)
    /\ UNCHANGED <<wal, recycled, cache, ckptLsn, space, super, control>>

Idle == [pc |-> "idle"]
CkGoto(from, fields) == ck.pc = from /\ ck' = fields @@ ck

\* Under the allocator's lock: CheckpointBegin, checkpoint_lsn, the freelist.
CkBegin ==
    /\ ck = Idle /\ Len(wal) < MaxLsn
    /\ IF boot = "checkpoint" THEN UNCHANGED left ELSE mode = "run" /\ Spend("ckpts")
    /\ wal' = Append(wal, CheckpointBegin)
    /\ ckptLsn' = Len(wal')
    /\ ck' = [pc |-> "collect", begin |-> Len(wal'), free |-> free]
    /\ UNCHANGED <<synced, recycled, cache, dirty, disk, imaged, space, super, mode, pos,
                   strayed, catalog>>
\* The att and dpt snapshot files, then dirty_page_ids.
CkCollect ==
    /\ CkGoto("collect", [pc |-> "flush", todo |-> dirty])
    /\ snaps' = snaps \cup {ck.begin}
    /\ UNCHANGED <<log, pool, space, meta, sb, sbNew, mode, pos, left, strayed, catalog>>
CkFlush(p) ==
    /\ ck.pc = "flush" /\ p \in ck.todo
    /\ ck' = [ck EXCEPT !.todo = @ \ {p}]
    /\ IF p \in dirty THEN WriteBack(p) ELSE UNCHANGED <<disk, synced, dirty, imaged>>
    /\ UNCHANGED <<wal, recycled, cache, ckptLsn, space, super, mode, pos, left, strayed, catalog>>
\* CheckpointEnd, flushed; next_page_id and next_oid are read for the superblock.
CkEnd ==
    /\ ck.pc = "flush" /\ ck.todo = {}
    /\ wal' = Append(wal, CheckpointEnd(ck.begin))
    /\ synced' = Len(wal')
    /\ ck' = [pc |-> "meta", next |-> next, oid |-> nextOid] @@ ck
    /\ UNCHANGED <<recycled, pool, space, super, mode, pos, left, strayed, catalog>>
\* freelist.meta; without one there is nothing to seed from at LSN 0 either.
FreelistMeta(lsn, pages) == [lsn |-> lsn, pages |-> pages]
\* The freelist snapshot, written atomically; a failure is only warned of.
CkFreelist ==
    /\ CkGoto("meta", [pc |-> "super"])
    /\ meta' = FreelistMeta(ck.begin, ck.free)
    /\ UNCHANGED <<log, pool, space, sb, sbNew, snaps, mode, pos, left, strayed, catalog>>
CkFreelistFails ==
    /\ CkGoto("meta", [pc |-> "super"])
    /\ Spend("fails")
    /\ UNCHANGED <<log, pool, space, super, mode, pos, strayed, catalog>>

\* read_with_offset: the readable copy with the higher LSN, the first if equal.
Copy(lsn, page, oid) == [lsn |-> lsn, next |-> page, oid |-> oid, torn |-> FALSE]
NewSuperblock == Copy(0, 1, FirstUser)
Torn == [NewSuperblock EXCEPT !.torn = TRUE]
Readable(copies) == {i \in DOMAIN copies : ~copies[i].torn}
Active(copies) == CHOOSE i \in Readable(copies) :
                     \A j \in Readable(copies) :
                        \/ copies[j].lsn < copies[i].lsn
                        \/ copies[j].lsn = copies[i].lsn /\ i <= j
NoWrite == [at |-> 0]

\* Mutant: the active copy is overwritten.
CkSuperActive ==
    /\ CkGoto("super", [pc |-> "sync"])
    /\ sbNew' = [at |-> Active(sb),
                 copy |-> Copy(ck.begin, ck.next, ck.oid)]
    /\ UNCHANGED <<log, pool, space, meta, sb, snaps, mode, pos, left, strayed, catalog>>
\* Superblock::write, to the copy that is not active.
CkSuper ==
    /\ CkGoto("super", [pc |-> "sync"])
    /\ ck.begin > sb[Active(sb)].lsn
    /\ sbNew' = [at |-> 3 - Active(sb),
                 copy |-> Copy(ck.begin, ck.next, ck.oid)]
    /\ UNCHANGED <<log, pool, space, meta, sb, snaps, mode, pos, left, strayed, catalog>>
CkSynced ==
    /\ CkGoto("sync", [pc |-> "recycle"])
    /\ sb' = [sb EXCEPT ![sbNew.at] = sbNew.copy]
    /\ sbNew' = NoWrite
    /\ UNCHANGED <<log, pool, space, meta, snaps, mode, pos, left, strayed, catalog>>
\* prune_snapshot_files: the newest stay, and the superblock's.
Pruned(lsn) ==
    {l \in snaps : l = lsn \/ Cardinality({m \in snaps : m > l}) < Retained}
\* recycle_before, as if each record were a segment; the bootstrap waits for this.
CkRecycle ==
    /\ ck.pc = "recycle" /\ ck' = Idle
    /\ recycled' = ck.begin
    /\ snaps' = Pruned(sb[Active(sb)].lsn)
    /\ boot' = IF boot = "checkpoint" THEN "read" ELSE boot
    /\ UNCHANGED <<wal, synced, pool, space, meta, sb, sbNew, mode, pos, left, strayed, nextOid>>
\* A page or a snapshot file that cannot be written ends the checkpoint.
CkFail ==
    /\ mode = "run" /\ ck.pc \in {"collect", "flush"}
    /\ Spend("fails")
    /\ ck' = Idle
    /\ UNCHANGED <<log, pool, space, super, mode, pos, strayed, catalog>>

-----------------------------------------------------------------------------
(* The crash                                                               *)

\* What a crash may leave of the superblock: a write in progress may be done,
\* torn or not begun.
Outcomes ==
    {sb} \cup (IF sbNew = NoWrite THEN {}
               ELSE {[sb EXCEPT ![sbNew.at] = c] : c \in {sbNew.copy, Torn}})

\* A page is safe from a torn write if its first record from the redo point on is
\* an image.  The first change of a page that has not been written yet logs none,
\* also if a checkpoint has begun since the page was created.  (The pages of a catalog
\* that is being written need no image: the bootstrap writes them again.)
FirstChange(lg, p, from) ==
    LET at == {i \in from..Len(lg) : p \in Touched(lg[i])} IN
    IF at = {} THEN "none" ELSE lg[CHOOSE i \in at : \A j \in at : i <= j].kind
LastChange(lg, p) ==
    LET at == {0} \cup {i \in DOMAIN lg : p \in Touched(lg[i])} IN
    CHOOSE i \in at : \A j \in at : j <= i
RedoPoint(copy) == IF copy.lsn = 0 THEN 1 ELSE copy.lsn
Tear(lg, copies, pages) ==
    \E p \in pages : FirstChange(lg, p, RedoPoint(copies[Active(copies)])) # "fpi"

\* The log keeps its fsynced part and some of the rest; of the dirty pages, some
\* may have been in the middle of a write, which needs their records flushed.
Garbage == {[lsn |-> l] @@ InitPage : l \in {0, MaxLsn + 3}}
Crash(n, pages, copies, garbage) ==
    /\ mode \in {"run", "redo", "boot"}
    /\ Spend("crashes")
    /\ \A p \in pages : p \in dirty /\ cache[p].lsn <= n
    /\ Cardinality(pages) <= left.tears
    /\ wal' = SubSeq(wal, 1, n)
    /\ synced' = n
    /\ sb' = copies
    /\ sbNew' = NoWrite
    /\ disk' = [p \in Pages |-> IF p \in pages THEN garbage ELSE disk[p]]
    /\ cache' = disk'
    /\ dirty' = {}
    /\ ck' = Idle
    /\ mode' = "down"
    /\ pos' = 0
    /\ strayed' = IF mode # "boot" /\ Tear(wal', sb', pages) THEN strayed \cup {"tear"} ELSE strayed
    /\ boot' = "no"
    /\ UNCHANGED <<recycled, imaged, ckptLsn, space, meta, snaps, nextOid>>

-----------------------------------------------------------------------------
(* Recovery                                                                *)

\* Mutant: the snapshot is not used.
SeededNot(copy) == <<>>
\* seed_freelist, if the snapshot is of the superblock's checkpoint.
Seeded(copy) == IF meta.lsn = copy.lsn THEN meta.pages ELSE <<>>
\* What was free at the redo point is not found again without the snapshot.
Leak(copy) ==
    meta.lsn # copy.lsn /\ Freed(SubSeq(wal, 1, RedoPoint(copy) - 1)) # {}

\* The log reader finds the segment of the position it starts at.
CanRead(lsn) == lsn >= recycled
\* PageAllocator::open_at and the seeding of its freelist.
AllocatorOpen(copy) == next' = copy.next /\ free' = Seeded(copy)
\* Open fails if no copy is readable or the log is gone from the redo point on.
Open ==
    LET copy == sb[Active(sb)]
        able == Readable(sb) # {} /\ CanRead(RedoPoint(copy))
    IN  /\ mode = "down"
        /\ mode' = IF able THEN "redo" ELSE "failed"
        /\ AllocatorOpen(copy)
        /\ strayed' = IF Leak(copy) THEN strayed \cup {"leak"} ELSE strayed
        /\ imaged' = Pages
        /\ ckptLsn' = 0
        /\ pos' = RedoPoint(copy)
        /\ UNCHANGED <<log, cache, dirty, disk, super, ck, left, catalog>>

\* The handlers.  Each gives the page after record rec of position lsn, or
\* Mismatch where the code reports an error.
Mismatch == [lsn |-> MaxLsn + 9]
Past(pg, lsn) == pg.lsn >= lsn
Stamped(pg, lsn) == [pg EXCEPT !.lsn = Max2(@, lsn)]
Fresh(pg) == InitIfFresh(pg) @@ pg
RedoAdd(pg, tid, t) ==
    IF pg # Mismatch /\ HasRoom(pg) /\ SlotCount(pg) + 1 = tid[2] THEN AddTuple(pg, t)
    ELSE Mismatch
\* The tuple of tid becomes t, but for its t_cid, which no record carries.
RedoStamp(pg, tid, t) ==
    IF HasTuple(pg, tid[2])
    THEN OnSlot(pg, tid[2], [t EXCEPT !.cid = pg.tuples[tid[2]].cid])
    ELSE Mismatch
OldTuple(pg, rec) == pg.tuples[rec.old[2]]

\* Mutant: an image is skipped like any other record if the page is ahead of it.
RedoFpiGuarded(pg, rec, lsn) == IF Past(pg, lsn) THEN pg ELSE Stamped(rec.image, lsn)
RedoFpi(pg, rec, lsn) == Stamped(rec.image, lsn)
RedoInsert(pg, rec) == RedoAdd(Fresh(pg), rec.new, rec.tuple)
RedoDelete(pg, rec) ==
    RedoStamp(pg, rec.old, StampDeleted(OldTuple(pg, rec), Xid, 0, FALSE))
\* Both halves under one guard if they are on one page, else one for each page.
RedoUpdate(p, pg, rec) ==
    LET stamped == RedoStamp(Fresh(pg), rec.old,
                             StampDeleted(OldTuple(Fresh(pg), rec), Xid, 0, TRUE)) IN
    IF rec.old[1] # p THEN RedoAdd(Fresh(pg), rec.new, rec.tuple)
    ELSE IF rec.new[1] # p THEN stamped
    ELSE RedoAdd(stamped, rec.new, rec.tuple)
RedoHotStamp(pg, rec) ==
    RedoStamp(pg, rec.old, StampHotUpdate(OldTuple(pg, rec), rec.new, Xid, 0))
RedoHotUpdate(pg, rec) == RedoAdd(RedoHotStamp(Fresh(pg), rec), rec.new, rec.tuple)

Redone(p, pg, rec, lsn) ==
    IF rec.kind # "fpi" /\ Past(pg, lsn) THEN pg
    ELSE LET new == CASE rec.kind = "fpi" -> RedoFpi(pg, rec, lsn)
                      [] rec.kind = "insert" -> RedoInsert(pg, rec)
                      [] rec.kind = "delete" -> RedoDelete(pg, rec)
                      [] rec.kind = "update" -> RedoUpdate(p, pg, rec)
                      [] rec.kind = "hot" -> RedoHotUpdate(pg, rec)
         IN  IF new = Mismatch THEN Mismatch ELSE Stamped(new, lsn)

\* Mutant: a page taken from the freelist stays on it in redo.
ApplyPageAllocKept(p) == next' = Max2(next, p + 1) /\ UNCHANGED free
ApplyPageAlloc(p) ==
    /\ next' = Max2(next, p + 1)
    /\ free' = SelectSeq(free, LAMBDA q : q # p)
ApplyPageFree(p) ==
    /\ free' = IF p \in Elems(free) THEN free ELSE Append(free, p)
    /\ UNCHANGED next

ReplayRecord(rec) ==
    CASE rec.kind = "alloc" -> ApplyPageAlloc(rec.page)
      [] rec.kind = "free" -> ApplyPageFree(rec.page)
      [] OTHER -> UNCHANGED space

\* registry.apply of the record at pos.  A guard on a page marks it dirty also if
\* the record is not applied to it.  A record that does not fit ends the recovery.
Replay ==
    LET rec == wal[pos]
        redone == [p \in Touched(rec) |-> Redone(p, cache[p], rec, pos)]
        fits == \A p \in Touched(rec) : redone[p] # Mismatch
    IN  /\ mode = "redo" /\ pos <= Len(wal)
        /\ mode' = IF fits THEN "redo" ELSE "failed"
        /\ cache' = IF fits THEN redone @@ cache ELSE cache
        /\ dirty' = dirty \cup Touched(rec)
        /\ pos' = pos + 1
        /\ ReplayRecord(rec)
        /\ UNCHANGED <<log, disk, imaged, ckptLsn, super, ck, left, strayed, catalog>>
\* The pages of redo are flushed; checkpoint_lsn is the superblock's again.
Recovered ==
    /\ mode = "redo" /\ pos > Len(wal) /\ dirty = {}
    /\ ckptLsn' = sb[Active(sb)].lsn
    /\ nextOid' = sb[Active(sb)].oid
    /\ IF left.system = {} THEN mode' = "run" /\ UNCHANGED boot
       ELSE mode' = "boot" /\ boot' = "alloc"
    /\ UNCHANGED <<log, cache, dirty, disk, imaged, space, super, ck, pos, left, strayed>>

-----------------------------------------------------------------------------
(* The system catalog's pages, which the bootstrap writes without a record *)
(* and makes durable by a checkpoint.                                      *)

BootPage == [lsn |-> 0] @@ AddTuple(InitPage, StampXmin(NewTuple(0, 0), Xid))

\* ensure_system_pages_allocated, a page at a time.
BootAlloc ==
    /\ boot = "alloc"
    /\ IF \A p \in left.system : p < next
       THEN boot' = "check" /\ UNCHANGED <<wal, cache, dirty, imaged, space>>
       ELSE /\ AllocPage
            /\ wal' = Append(wal, PageAlloc(AllocId))
            /\ cache' = [cache EXCEPT ![AllocId] = NewPage]
            /\ dirty' = dirty \cup {AllocId}
            /\ UNCHANGED boot
    /\ UNCHANGED <<synced, recycled, disk, ckptLsn, super, ck, mode, pos, strayed,
                   left, nextOid>>

\* user_ddl_present: a rewrite would lose rows that are not the bootstrap's.
UserRows == {<<p, s>> \in Tids : /\ p \in left.system /\ HasTuple(cache[p], s)
                                 /\ cache[p].tuples[s].row >= FirstUser}
Rewrite == IF UserRows = {} THEN boot' = "write" /\ UNCHANGED mode
           ELSE mode' = "failed" /\ UNCHANGED boot
\* bootstrap_if_needed: every system page must be initialised.
BootCheck ==
    /\ boot = "check"
    /\ IF \A p \in left.system : cache[p].init THEN boot' = "read" /\ UNCHANGED mode
       ELSE Rewrite
    /\ UNCHANGED <<log, pool, space, super, ck, pos, strayed, left, nextOid>>
\* write_all_system_tables, up to its checkpoint: pinned for a change, a page may
\* log an image of what the bootstrap overwrites.
BootWrite ==
    LET pinned[p \in 0..MaxPage] ==
          IF p = 0 THEN Now
          ELSE IF p \in left.system THEN PinMut(pinned[p - 1], p) ELSE pinned[p - 1]
    IN
    /\ boot = "write"
    /\ wal' = pinned[MaxPage].wal
    /\ cache' = [p \in left.system |-> BootPage] @@ cache
    /\ dirty' = dirty \cup left.system
    /\ boot' = "checkpoint"
    /\ UNCHANGED <<synced, recycled, disk, imaged, ckptLsn, space, super, ck, mode, pos, strayed,
                   left, nextOid>>

\* Mutant: the counter is the superblock's.
StartOidSaved == nextOid
\* The superblock's counter, or past every OID of pg_class, whoever sees the row.
StartOid ==
    LET used == {t.row : t \in Elems(cache[PgClass].tuples)} IN
    CHOOSE oid \in {nextOid} \cup {u + 1 : u \in used} :
        oid >= nextOid /\ \A u \in used : u < oid
\* validate_content: the bootstrap's rows are there.
ContentValid == \A p \in left.system : HasTuple(cache[p], 1) /\ cache[p].tuples[1].row = 0
\* Catalog::open with read_validated.
BootRead ==
    /\ boot = "read"
    /\ IF ContentValid
       THEN boot' = "no" /\ mode' = "run" /\ nextOid' = StartOid
       ELSE Rewrite /\ UNCHANGED nextOid
    /\ UNCHANGED <<log, pool, space, super, ck, pos, strayed, left>>

\* create_table and create_index write a row of pg_class and then one of pg_attribute,
\* under a new OID and on the first page only.
CreateRelation(p, q) ==
    LET row == StampXmin(NewTuple(nextOid, 0), Xid)
        Add(w, page) ==
            LET logged == Logged(PinMut(w, page), HeapInsert(EndOf(w, page), row)) IN
            Changed(logged, page, AddTuple(logged.cache[page], row))
    IN  /\ p = PgClass /\ q # p
        /\ HasRoom(cache[p]) /\ HasRoom(cache[q])
        /\ Operate(Add(Add(Now, p), q), {p, q})
        /\ nextOid' = nextOid + 1
        /\ UNCHANGED <<synced, recycled, disk, imaged, ckptLsn, space, super, ck, mode, pos,
                       strayed, boot>>

-----------------------------------------------------------------------------
(* What the log says of a page, record by record and without a guard.  Row *)
(* locks and command ids, which are not logged, do not count.              *)

Unlogged(t) == [t EXCEPT !.cid = 0, !.lock = "none", !.xmax = VisibilityXmax(t)]
Content(pg) == [init |-> pg.init, next |-> pg.next,
                tuples |-> [s \in 1..SlotCount(pg) |-> Unlogged(pg.tuples[s])]]

Said(p, pg, rec) ==
    LET stamped ==
          IF rec.kind \notin {"delete", "update", "hot"} \/ rec.old[1] # p THEN pg
          ELSE LET t == pg.tuples[rec.old[2]] IN
               OnSlot(pg, rec.old[2], IF rec.kind = "hot" THEN StampHotUpdate(t, rec.new, Xid, 0)
                                      ELSE StampDeleted(t, Xid, 0, rec.kind = "update"))
    IN  IF rec.kind = "fpi" THEN rec.image
        ELSE IF rec.kind \in {"insert", "update", "hot"} /\ rec.new[1] = p
        THEN AddTuple(stamped, rec.tuple)
        ELSE stamped
LogSays(lg, p, base) ==
    LET upTo[i \in 0..Len(lg)] ==
          IF i = 0 THEN base
          ELSE IF p \in Touched(lg[i]) THEN Said(p, upTo[i - 1], lg[i]) ELSE upTo[i - 1]
    IN  upTo[Len(lg)]

-----------------------------------------------------------------------------
\* A new directory, or a database that has run since it was created: c.log is its log
\* and c.free its freelist; the pages are still to be written.  A case without
\* system pages is about a user table's and opens no catalog.
Init ==
    \E c \in Cases :
      /\ wal = c.log
      /\ synced = Len(wal)
      /\ recycled = 1
      /\ cache = [p \in Pages |->
                    [LogSays(c.log, p, NewPage) EXCEPT !.lsn = LastChange(c.log, p)]]
      /\ dirty = Known(c.log)
      /\ disk = [p \in Pages |-> NewPage]
      /\ imaged = {}
      /\ ckptLsn = 0
      /\ next = Cardinality(Known(c.log)) + 1
      /\ free = c.free
      /\ meta = FreelistMeta(0, <<>>)
      /\ sb = <<NewSuperblock, NewSuperblock>>
      /\ sbNew = NoWrite
      /\ ck = Idle
      /\ snaps = {}
      /\ IF c.system = {} THEN mode = "run" /\ boot = "no" ELSE mode = "boot" /\ boot = "alloc"
      /\ nextOid = FirstUser
      /\ pos = 0
      /\ left = c
      /\ strayed = {}

Operation ==
    /\ mode = "run" /\ left.ops > 0
    /\ \/ \E p, q \in left.system : CreateRelation(p, q)
       \/ \E p \in InUse(wal) : Insert(p) \/ DropHeap(p)
       \/ \E tid \in Rows : Delete(tid) \/ HotUpdate(tid) \/ LockRow(tid)
       \/ \E tid \in Rows, p \in InUse(wal) : Update(tid, p)
       \/ CreateHeap \/ ExtendChain
Checkpoint ==
    \/ CkBegin \/ CkCollect \/ CkEnd \/ CkFreelist \/ CkFreelistFails
    \/ CkSuper \/ CkSynced \/ CkRecycle
    \/ CkFail \/ \E p \in Pages : CkFlush(p)
Restart ==
    \/ Open \/ Replay \/ Recovered
    \/ BootAlloc \/ BootCheck \/ BootWrite \/ BootRead
    \/ \E n \in synced..Len(wal), pages \in SUBSET dirty, copies \in Outcomes, g \in Garbage :
          Crash(n, pages, copies, g)

Next == Operation \/ Checkpoint \/ Restart \/ \E p \in Pages : Flush(p)

Spec == Init /\ [][Next]_vars

-----------------------------------------------------------------------------
(* Properties                                                              *)

\* While the engine runs, before a crash and after any number of recoveries, each
\* allocated page holds what the log says of it: changes are never made without
\* their record, and redo makes each of them once, over whatever the crash left in
\* the file (HeapInsertHandler and the others' pd_lsn guards, ensure_fpi,
\* log_page_init, trigger_checkpoint).
PagesRestored ==
    mode = "run" =>
        \A p \in InUse(wal) :
            LET base == IF p \in left.system THEN BootPage ELSE NewPage IN
            Content(cache[p]) = Content(LogSays(wal, p, base))

\* The same, except after a torn write of a page that had no image to repair it
\* (BufferPool::ensure_fpi with needs_fpi still FALSE).
PagesRestoredApart == "tear" \in strayed \/ PagesRestored

\* No recovery, also one after a crash in the middle of a recovery, stops at a record
\* that does not fit its page (the slot divergence and TupleNotFound errors of the heap
\* redo handlers), with the same exception.
RedoSucceedsApart == "tear" \in strayed \/ mode # "failed"

\* Recovery completes and every page is what its records made it, with that exception
\* (run_redo, the redo handlers, ensure_fpi).
PagesRecoveredApart == PagesRestoredApart /\ RedoSucceedsApart

\* The allocator never gives out a page that is in use: none is on the freelist,
\* nothing is there twice, and next_page_id is beyond all of them, whatever of
\* freelist.meta, the superblock and the log a crash has left (open_at, seed_freelist,
\* apply_page_alloc, apply_page_free).
FreelistSound ==
    mode = "run" =>
        /\ InUse(wal) \cap Elems(free) = {}
        /\ Cardinality(Elems(free)) = Len(free)
        /\ \A p \in InUse(wal) \cup Elems(free) : p < next

\* And a page that is free is on it, so that no space is lost to restarts.
FreelistComplete == mode = "run" => Freed(wal) \subseteq Elems(free)

\* The same, except after a recovery that could not use freelist.meta for what was free
\* at its redo point (recover_with_redo_handlers).
FreelistCompleteApart == "leak" \in strayed \/ FreelistComplete

\* Across crashes no page in use is on the freelist and every freed page is, with that
\* exception (open_at, seed_freelist, apply_page_alloc, apply_page_free).
FreelistExactApart == FreelistSound /\ FreelistCompleteApart

\* Whatever a crash leaves of a superblock write, a copy is readable, its redo point
\* has not been recycled, its att and dpt files are there, and every change before
\* the redo point is in the file (Superblock::write, trigger_checkpoint, recycle_before,
\* prune_snapshot_files).
SuperblockHolds ==
    \A copies \in Outcomes :
        /\ Readable(copies) # {}
        /\ LET redo == RedoPoint(copies[Active(copies)]) IN
           /\ recycled <= redo
           /\ redo = 1 \/ redo \in snaps
           /\ \A i \in 1..redo - 1 : \A p \in Touched(wal[i]) :
                 disk[p].lsn >= i \/ disk[p] \in Garbage

\* No two relations have the same OID, and neither have their attributes, though the
\* counter goes back to the last checkpoint's at a crash (Catalog::read_validated).
OidsUnique ==
    mode = "run" =>
        \A p \in left.system : \A s, t \in DOMAIN cache[p].tuples :
            cache[p].tuples[s].row = cache[p].tuples[t].row => s = t

\* Nothing is asked of what follows an exception.
NotStrayed == strayed = {}
=============================================================================
