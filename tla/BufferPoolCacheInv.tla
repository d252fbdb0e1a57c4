-------------------------- MODULE BufferPoolCacheInv --------------------------
(***************************************************************************)
(* What the buffer pool promises about the pages it caches, for any number *)
(* of pages, frames and threads, short of an overtaken flush: memory holds *)
(* the last change of a page, nothing leaves memory before it is durable,  *)
(* a checkpoint covers all that its redo point skips, and a page image is  *)
(* logged before the first change of a checkpoint cycle.                   *)
(***************************************************************************)
EXTENDS BufferPoolProofs

----------------------------------------------------------------------------
(* The inductive invariant                                                 *)

\* A frame that is evicted is in no other thread's hands.
Holding == {"pinned", "reading", "latched", "changed"}
HoldersApart ==
    \A t, u \in Threads : thread[t].pc = "evict" /\ thread[u].pc \in Holding =>
      thread[u].frame # thread[t].frame

\* The table and the frames agree; a page is loaded by one thread at a time.
FramesMapped ==
    /\ \A p \in Pages : table[p] # None => meta[table[p]].page = p
    /\ \A f \in Frames : meta[f].page # None => table[meta[f].page] = f
    /\ \A f \in Frames : meta[f].dirty => meta[f].page # None
    /\ \A t \in Threads : thread[t].pc \in Holding => meta[thread[t].frame].page = thread[t].page
    /\ \A t \in Threads : thread[t].pc = "evict" =>
         allocLock = t /\ table[thread[t].page] = None /\ thread[t].page \notin fresh
    /\ fresh \subseteq Pages /\ \A p \in fresh : table[p] = None

\* A flush in flight has its frame to itself, and the frame keeps its page; the
\* writer of a frame is the thread that says so.
InFlight(x) == flush[x].pc \in {"latch", "write", "cover", "sync", "finish"}
Quiet(f) == \A x \in Procs : InFlight(x) => flush[x].frame # f
FlushesApart ==
    /\ \A x \in Procs : InFlight(x) => /\ meta[flush[x].frame].flushing
                                       /\ meta[flush[x].frame].page = flush[x].page
    /\ \A x, y \in Procs : InFlight(x) /\ InFlight(y) /\ flush[x].frame = flush[y].frame => x = y
    /\ \A t \in Threads : flush[t].pc \in Busy => flush[t].frame = thread[t].frame
    /\ \A t \in Threads : flush[t].pc = "ok" =>
         ~meta[thread[t].frame].dirty /\ Quiet(thread[t].frame)
    /\ \A t \in Threads : InFlight(t) => ~meta[flush[t].frame].dirty
    /\ \A f \in Frames : latch[f].writer # None =>
         /\ thread[latch[f].writer].pc \in {"latched", "changed"}
         /\ thread[latch[f].writer].frame = f

\* LastRecord and Latest, as operators of the log.
LastOf(S) == IF S = {} THEN 0 ELSE CHOOSE i \in S : \A j \in S : j <= i
RecordsOf(l, p, n) == {i \in 1..n : l[i].page = p}
LastIn(l, p, n) == LastOf(RecordsOf(l, p, n))
Newest(l, p) == LastIn(l, p, Len(l))

\* The newest record of a page is one of it, or there is none; the files never run ahead.
NewestIsRecord ==
    \A p \in Pages : /\ Newest(log, p) \in 0..Len(log)
                     /\ Newest(log, p) # 0 => log[Newest(log, p)].page = p
FilesLag ==
    /\ durable \in [Pages -> Images]
    /\ \A p \in Pages : durable[p].lsn <= disk[p].lsn /\ disk[p].lsn <= Newest(log, p)

\* Memory holds the last change, and what is clean is on disk.
Untouched(p) == Newest(log, p) = 0 /\ disk[p].of = None
MemoryCurrent ==
    /\ \A f \in Frames : meta[f].page # None => content[f].lsn = Newest(log, meta[f].page)
    /\ \A p \in Pages : table[p] = None => durable[p].lsn = Newest(log, p)
    /\ \A p \in fresh : Untouched(p)
    /\ \A t \in Threads : thread[t].pc = "evict" /\ thread[t].new => Untouched(thread[t].page)
CleanIsDurable ==
    /\ \A f \in Frames : latch[f].writer # None =>
         meta[f].dirty \/ \E x \in Procs : flush[x].pc = "latch" /\ flush[x].frame = f
    /\ \A f \in Frames : meta[f].page # None /\ ~meta[f].dirty /\ Quiet(f) =>
         durable[meta[f].page].lsn = content[f].lsn
    /\ \A x \in Procs : flush[x].pc \in {"cover", "sync", "finish"} /\ ~meta[flush[x].frame].dirty =>
         disk[flush[x].page].lsn = content[flush[x].frame].lsn

\* The shared fsync: what syncedGen counts is durable.
Generations ==
    /\ syncedGen \in Nat /\ syncedGen <= flushGen
    /\ \A x \in Procs : flush[x].pc = "sync" => flush[x].covers <= flushGen
    /\ \A x \in Procs : flush[x].pc \in {"cover", "sync"} /\ syncedGen >= flush[x].gen =>
         durable[flush[x].page] = disk[flush[x].page]
    /\ \A x \in Procs : flush[x].pc = "finish" => durable[flush[x].page] = disk[flush[x].page]

\* flush(page) of the checkpoint: what the page held when it was called is durable
\* at the end, wherever the page went in between.
Reached(lsn) == durable[flush[Ckpt].asked].lsn >= lsn
AskedIsServed ==
    flush[Ckpt].pc \notin {"none", "err"} =>
      /\ ckpt.pc = "flush"
      /\ flush[Ckpt].asked \in Pages
      /\ LastIn(log, flush[Ckpt].asked, ckpt.begin) <= flush[Ckpt].want
      /\ flush[Ckpt].want <= Newest(log, flush[Ckpt].asked)
      /\ \/ Reached(flush[Ckpt].want)
         \/ flush[Ckpt].pc = "claim" /\ table[flush[Ckpt].asked] = flush[Ckpt].frame
         \/ flush[Ckpt].pc \in {"latch", "write"} /\ flush[Ckpt].asked = flush[Ckpt].page
         \/ /\ flush[Ckpt].pc \in {"cover", "sync", "finish"}
            /\ flush[Ckpt].asked = flush[Ckpt].page
            /\ disk[flush[Ckpt].page].lsn >= flush[Ckpt].want

\* The checkpoint in progress has yet to see, or to flush, what is not durable.
CheckpointUnderWay ==
    /\ redo \in Nat /\ redo <= Len(log) /\ ckpt.begin <= Len(log) /\ ckptLsn <= Len(log)
    /\ \A p \in Pages : /\ LastIn(log, p, redo) \in Nat
                        /\ LastIn(log, p, ckpt.begin) \in Nat
                        /\ LastIn(log, p, ckpt.begin) <= Newest(log, p)
    /\ ckpt.pc = "flush" =>
         \A p \in Pages : \/ durable[p].lsn >= LastIn(log, p, ckpt.begin)
                          \/ p \in ckpt.todo
                          \/ table[p] \in ckpt.scan
    /\ \A p \in Pages : durable[p].lsn >= LastIn(log, p, redo)

\* The gate of the image: a page without one in the file needs none, and a thread
\* that may change a page has a record of it in the cycle.
GateIsPassed ==
    /\ \A f \in Frames : meta[f].page # None /\ ~meta[f].needsFpi => disk[meta[f].page].of = None
    /\ \A t \in Threads : thread[t].pc = "latched" /\ thread[t].gate # 0
                          /\ disk[thread[t].page].of # None =>
         thread[t].gate <= content[thread[t].frame].lsn
    /\ FpiBeforeChange

CacheInv ==
    /\ FramesMapped /\ FlushesApart /\ NewestIsRecord /\ FilesLag
    /\ MemoryCurrent /\ CleanIsDurable /\ Generations /\ AskedIsServed
    /\ CheckpointUnderWay /\ GateIsPassed

----------------------------------------------------------------------------
(* Fields of updated records                                               *)

WithPins(m, n) == [m EXCEPT !.pins = n]
WithDirty(m, b) == [m EXCEPT !.dirty = b]
WithFpi(m, b) == [m EXCEPT !.needsFpi = b]
WithEvicting(m, b) == [m EXCEPT !.evicting = b]
WithFlushing(m, b) == [m EXCEPT !.flushing = b]

LEMMA WithPinsFields ==
    ASSUME NEW m \in Metas, NEW n \in Int
    PROVE  /\ WithPins(m, n) \in Metas /\ WithPins(m, n).pins = n
           /\ WithPins(m, n).page = m.page /\ WithPins(m, n).dirty = m.dirty
           /\ WithPins(m, n).needsFpi = m.needsFpi /\ WithPins(m, n).evicting = m.evicting
           /\ WithPins(m, n).flushing = m.flushing
BY Zenon DEF Metas, WithPins

LEMMA WithDirtyFields ==
    ASSUME NEW m \in Metas, NEW b \in BOOLEAN
    PROVE  /\ WithDirty(m, b) \in Metas /\ WithDirty(m, b).dirty = b
           /\ WithDirty(m, b).page = m.page /\ WithDirty(m, b).pins = m.pins
           /\ WithDirty(m, b).needsFpi = m.needsFpi /\ WithDirty(m, b).evicting = m.evicting
           /\ WithDirty(m, b).flushing = m.flushing
BY Zenon DEF Metas, WithDirty

LEMMA WithFpiFields ==
    ASSUME NEW m \in Metas
    PROVE  /\ WithFpi(m, TRUE) \in Metas /\ WithFpi(m, TRUE).needsFpi
           /\ WithFpi(m, TRUE).page = m.page /\ WithFpi(m, TRUE).pins = m.pins
           /\ WithFpi(m, TRUE).dirty = m.dirty /\ WithFpi(m, TRUE).evicting = m.evicting
           /\ WithFpi(m, TRUE).flushing = m.flushing
BY Zenon DEF Metas, WithFpi

LEMMA WithEvictingFields ==
    ASSUME NEW m \in Metas, NEW b \in BOOLEAN
    PROVE  /\ WithEvicting(m, b) \in Metas /\ WithEvicting(m, b).evicting = b
           /\ WithEvicting(m, b).page = m.page /\ WithEvicting(m, b).pins = m.pins
           /\ WithEvicting(m, b).dirty = m.dirty /\ WithEvicting(m, b).needsFpi = m.needsFpi
           /\ WithEvicting(m, b).flushing = m.flushing
BY Zenon DEF Metas, WithEvicting

LEMMA WithFlushingFields ==
    ASSUME NEW m \in Metas, NEW b \in BOOLEAN
    PROVE  /\ WithFlushing(m, b) \in Metas /\ WithFlushing(m, b).flushing = b
           /\ WithFlushing(m, b).page = m.page /\ WithFlushing(m, b).pins = m.pins
           /\ WithFlushing(m, b).dirty = m.dirty /\ WithFlushing(m, b).needsFpi = m.needsFpi
           /\ WithFlushing(m, b).evicting = m.evicting
BY Zenon DEF Metas, WithFlushing

----------------------------------------------------------------------------
(* The newest record of a page                                             *)

LEMMA LatestIsNewest ==
    /\ \A p \in Pages : Latest(p) = Newest(log, p)
    /\ \A p \in Pages, n \in Nat : LastRecord(p, n) = LastIn(log, p, n)
BY Zenon DEF Latest, LastRecord, Newest, LastIn, LastOf, RecordsOf

LEMMA AppendedFacts ==
    ASSUME NEW S, NEW l \in Seq(S), NEW r \in S
    PROVE  /\ Len(Append(l, r)) = Len(l) + 1 /\ Len(l) \in Nat
           /\ \A i \in 1..Len(l) : Append(l, r)[i] = l[i]
           /\ Append(l, r)[Len(l) + 1] = r
OBVIOUS

LEMMA LastInKept ==
    ASSUME NEW l \in Seq(LogRecords), NEW r \in LogRecords, NEW p, NEW n \in Nat, n <= Len(l)
    PROVE  LastIn(Append(l, r), p, n) = LastIn(l, p, n)
<1>1. \A i \in 1..n : Append(l, r)[i] = l[i]
  BY AppendedFacts
<1>2. RecordsOf(Append(l, r), p, n) = RecordsOf(l, p, n)
  BY Zenon, <1>1 DEF RecordsOf
<1> QED
  BY Zenon, <1>2 DEF LastIn

LEMMA NewestOther ==
    ASSUME NEW l \in Seq(LogRecords), NEW r \in LogRecords, NEW p, r.page # p
    PROVE  /\ Newest(Append(l, r), p) = Newest(l, p)
           /\ LastIn(Append(l, r), p, Len(l) + 1) = Newest(l, p)
<1>1. /\ Len(Append(l, r)) = Len(l) + 1 /\ Len(l) \in Nat
      /\ \A i \in 1..Len(l) : Append(l, r)[i] = l[i]
      /\ Append(l, r)[Len(l) + 1] = r
  BY Zenon, AppendedFacts
<1>2. RecordsOf(Append(l, r), p, Len(l) + 1) = RecordsOf(l, p, Len(l))
  BY <1>1 DEF RecordsOf
<1> QED
  BY Zenon, <1>1, <1>2 DEF LastIn, Newest

LEMMA NewestSame ==
    ASSUME NEW l \in Seq(LogRecords), NEW r \in LogRecords
    PROVE  Newest(Append(l, r), r.page) = Len(l) + 1
<1> DEFINE S == RecordsOf(Append(l, r), r.page, Len(l) + 1)
           n == Len(l) + 1
<1>1. Len(Append(l, r)) = n /\ n \in Nat /\ n >= 1 /\ Append(l, r)[n] = r
  BY AppendedFacts
<1>2. S \subseteq 1..n /\ n \in S
  BY <1>1 DEF RecordsOf
<1> HIDE DEF S
<1>3. n \in S /\ \A j \in S : j <= n
  BY <1>1, <1>2
<1>4. \A i \in S : (\A j \in S : j <= i) => i = n
  BY <1>1, <1>2
<1>5. (CHOOSE i \in S : \A j \in S : j <= i) = n
  BY Zenon, <1>3, <1>4
<1>6. LastOf(S) = n
  BY Zenon, <1>3, <1>5 DEF LastOf
<1> QED
  BY Zenon, <1>1, <1>6 DEF Newest, LastIn, S

\* What an appended record does to the log's side of the invariant.
LEMMA NewestIsRecordKept ==
    ASSUME NewestIsRecord, log \in Seq(LogRecords), NEW r \in LogRecords, log' = Append(log, r)
    PROVE  NewestIsRecord'
<1>1. /\ Len(log') = Len(log) + 1 /\ Len(log) \in Nat
      /\ \A i \in 1..Len(log) : log'[i] = log[i]
      /\ log'[Len(log) + 1] = r
  BY AppendedFacts
<1> SUFFICES ASSUME NEW p \in Pages
             PROVE  /\ Newest(log', p) \in 0..Len(log')
                    /\ Newest(log', p) # 0 => log'[Newest(log', p)].page = p
  BY Zenon DEF NewestIsRecord
<1>2. CASE r.page = p
  BY <1>1, <1>2, NewestSame
<1>3. CASE r.page # p
  <2>1. Newest(log', p) = Newest(log, p)
    BY Zenon, <1>3, NewestOther
  <2>2. Newest(log, p) \in 0..Len(log) /\ (Newest(log, p) # 0 => log[Newest(log, p)].page = p)
    BY Zenon DEF NewestIsRecord
  <2> QED
    BY <1>1, <2>1, <2>2
<1> QED
  BY Zenon, <1>2, <1>3

----------------------------------------------------------------------------
(* Steps that leave the data alone                                         *)

Moves(t) == \A u \in Threads : u # t => thread'[u] = thread[u]

LEMMA WriterKnown ==
    ASSUME PoolInv, CacheInv, NEW f \in Frames, latch[f].writer # None
    PROVE  /\ thread[latch[f].writer].pc \in {"latched", "changed"}
           /\ thread[latch[f].writer].frame = f /\ latch[f].writer \in Threads
<1>1. latch[f].writer \in Threads
  BY Zenon DEF PoolInv, PoolTypes, Latches
<1> QED
  BY Zenon, <1>1 DEF CacheInv, FlushesApart

\* The metadata keeps all that the invariant says about pages and their state.
MetaKept(f) ==
    /\ meta'[f].page = meta[f].page /\ meta'[f].dirty = meta[f].dirty
    /\ meta'[f].needsFpi = meta[f].needsFpi /\ meta'[f].flushing = meta[f].flushing

\* What a step cannot disturb that leaves images, latches, flushes and files alone.
LEMMA DataKept ==
    ASSUME PoolInv, CacheInv, \A f \in Frames : MetaKept(f),
           \A f \in Frames : latch'[f].writer = latch[f].writer,
           UNCHANGED <<content, table, flush, ckptState, files, wal>>
    PROVE  /\ NewestIsRecord' /\ FilesLag' /\ CleanIsDurable' /\ Generations'
           /\ AskedIsServed' /\ CheckpointUnderWay'
<1>1. UNCHANGED <<ckpt, ckptLsn, redo, disk, durable, flushGen, syncedGen, log, synced>>
  BY Zenon DEF ckptState, files, wal
<1>2. NewestIsRecord' /\ FilesLag' /\ Generations'
  BY Zenon, <1>1 DEF CacheInv, NewestIsRecord, FilesLag, Generations
<1>3. AskedIsServed' /\ CheckpointUnderWay'
  BY Zenon, <1>1 DEF CacheInv, AskedIsServed, CheckpointUnderWay, Reached
<1>4. CleanIsDurable'
  <2>1. \A f \in Frames : Quiet(f)' <=> Quiet(f)
    BY Zenon DEF Quiet, InFlight
  <2>2. \A x \in Procs : flush[x].pc \in {"cover", "sync", "finish"} => flush[x].frame \in Frames
    BY Zenon DEF PoolInv, TargetsExist, Busy
  <2> QED
    BY <1>1, <2>1, <2>2 DEF CacheInv, CleanIsDurable, MetaKept
<1> QED
  BY Zenon, <1>2, <1>3, <1>4

----------------------------------------------------------------------------
(* Pinning and the guards of readers                                       *)

\* What is left to show of a step that moves one thread and changes pins and marks.
LEMMA CursorStep ==
    ASSUME PoolInv, CacheInv, \A f \in Frames : MetaKept(f),
           NEW t \in Threads, Moves(t),
           thread'[t].pc \in {"idle", "pinned", "reading"},
           flush[t].pc = "none",
           thread[t].pc \notin {"latched", "changed"},
           thread'[t].pc # "idle" =>
             thread'[t].frame \in Frames /\ meta[thread'[t].frame].page = thread'[t].page,
           \A f \in Frames : latch'[f].writer = latch[f].writer,
           UNCHANGED <<content, table, allocLock, fresh, flush, ckptState, files, wal>>
    PROVE  CacheInv'
<1>1. FramesMapped'
  <2>1. \A p \in Pages : table[p] # None => table[p] \in Frames
    BY Zenon DEF PoolInv, PoolTypes, FrameOrNone
  <2>2. \A u \in Threads : thread'[u].pc \in Holding => meta'[thread'[u].frame].page = thread'[u].page
    <3> SUFFICES ASSUME NEW u \in Threads, thread'[u].pc \in Holding
                 PROVE  meta'[thread'[u].frame].page = thread'[u].page
      BY Zenon
    <3>1. CASE u = t
      BY Zenon, <3>1 DEF MetaKept, Holding
    <3>2. CASE u # t
      <4>1. thread'[u] = thread[u] /\ thread[u].frame \in Frames
        BY Zenon, <3>2 DEF Moves, PoolInv, TargetsExist, Holding
      <4>2. meta[thread[u].frame].page = thread[u].page
        BY Zenon, <4>1 DEF CacheInv, FramesMapped
      <4> QED
        BY Zenon, <4>1, <4>2 DEF MetaKept
    <3> QED
      BY Zenon, <3>1, <3>2
  <2>3. \A u \in Threads : thread'[u].pc = "evict" => thread'[u] = thread[u]
    BY Zenon DEF Moves
  <2> QED
    BY <2>1, <2>2, <2>3 DEF CacheInv, FramesMapped, MetaKept
<1>2. FlushesApart'
  <2>1. \A x \in Procs : InFlight(x) => flush[x].frame \in Frames
    BY Zenon DEF PoolInv, TargetsExist, Busy, InFlight
  <2>2. \A x \in Procs : InFlight(x)' <=> InFlight(x)
    BY Zenon DEF InFlight
  <2>3. \A f \in Frames : Quiet(f)' <=> Quiet(f)
    BY Zenon, <2>2 DEF Quiet
  <2>4. \A u \in Threads : flush[u].pc # "none" => thread'[u] = thread[u] /\ thread[u].frame \in Frames
    BY Zenon DEF Moves, PoolInv, TargetsExist
  <2>5. \A x \in Procs : InFlight(x)' => /\ meta'[flush'[x].frame].flushing
                                         /\ meta'[flush'[x].frame].page = flush'[x].page
    BY <2>1, <2>2 DEF CacheInv, FlushesApart, MetaKept
  <2>6. \A x, y \in Procs : InFlight(x)' /\ InFlight(y)' /\ flush'[x].frame = flush'[y].frame => x = y
    BY Zenon, <2>2 DEF CacheInv, FlushesApart
  <2>7. \A u \in Threads : flush'[u].pc \in Busy => flush'[u].frame = thread'[u].frame
    BY <2>4 DEF CacheInv, FlushesApart, Busy
  <2>8. \A u \in Threads : flush'[u].pc = "ok" =>
          ~meta'[thread'[u].frame].dirty /\ Quiet(thread[u].frame)'
    <3> SUFFICES ASSUME NEW u \in Threads, flush[u].pc = "ok"
                 PROVE  ~meta'[thread'[u].frame].dirty /\ Quiet(thread[u].frame)'
      BY Zenon
    <3>1. ~meta[thread[u].frame].dirty /\ Quiet(thread[u].frame)
      BY Zenon DEF CacheInv, FlushesApart
    <3>2. thread'[u].frame = thread[u].frame /\ thread[u].frame \in Frames
      BY Zenon, <2>4
    <3>3. Quiet(thread[u].frame)'
      BY Zenon, <3>1, <3>2 DEF Quiet, InFlight
    <3> QED
      BY Zenon, <3>1, <3>2, <3>3 DEF MetaKept
  <2>9. \A f \in Frames : latch'[f].writer # None =>
          /\ thread'[latch'[f].writer].pc \in {"latched", "changed"}
          /\ thread'[latch'[f].writer].frame = f
    <3> SUFFICES ASSUME NEW f \in Frames, latch[f].writer # None
                 PROVE  /\ thread'[latch[f].writer].pc \in {"latched", "changed"}
                        /\ thread'[latch[f].writer].frame = f
      BY Zenon
    <3>1. /\ thread[latch[f].writer].pc \in {"latched", "changed"}
          /\ thread[latch[f].writer].frame = f /\ latch[f].writer \in Threads
      BY Zenon, WriterKnown
    <3> QED
      BY Zenon, <3>1 DEF Moves
  <2>10. \A u \in Threads : InFlight(u)' => ~meta'[flush'[u].frame].dirty
    BY Zenon, <2>1, <2>2 DEF CacheInv, FlushesApart, MetaKept, Procs
  <2> QED
    BY Zenon, <2>5, <2>6, <2>7, <2>8, <2>9, <2>10 DEF FlushesApart
<1>3. MemoryCurrent' /\ GateIsPassed'
  <2>1. UNCHANGED <<disk, durable, log>>
    BY Zenon DEF files, wal
  <2>2. \A u \in Threads : thread'[u].pc \in {"evict", "latched"} => thread'[u] = thread[u]
    BY Zenon DEF Moves
  <2>3. MemoryCurrent'
    BY <2>1, <2>2 DEF CacheInv, MemoryCurrent, MetaKept, Untouched
  <2>4. GateIsPassed'
    BY <2>1, <2>2 DEF CacheInv, GateIsPassed, MetaKept, FpiBeforeChange
  <2> QED
    BY Zenon, <2>3, <2>4
<1> QED
  BY Zenon, <1>1, <1>2, <1>3, DataKept DEF CacheInv

LEMMA TryPinResidentCoheres ==
    ASSUME PoolInv, CacheInv, NEW t \in Threads, NEW p \in Pages, TryPinResident(t, p)
    PROVE  CacheInv'
<1> DEFINE f == table[p]
           m == WithPins(meta[f], meta[f].pins + 1)
           c == Pinned(p, f)
<1>1. /\ f \in Frames /\ meta[f] \in Metas /\ meta[f].pins + 1 \in Int /\ meta[f].page = p
      /\ thread[t].pc = "idle" /\ flush[t].pc = "none"
  BY DEF TryPinResident, Start, PoolInv, PoolTypes, FrameOrNone, Metas, TargetsExist
<1>2. /\ m.pins = meta[f].pins + 1 /\ m.page = meta[f].page /\ m.dirty = meta[f].dirty
      /\ m.needsFpi = meta[f].needsFpi /\ m.evicting = meta[f].evicting
      /\ m.flushing = meta[f].flushing
  BY Zenon, <1>1, WithPinsFields
<1>3. c.pc = "pinned" /\ c.frame = f /\ c.page = p
  BY Zenon, <1>1, PinnedCursor
<1>4. /\ meta' = [meta EXCEPT ![f] = m] /\ thread' = [thread EXCEPT ![t] = c]
      /\ UNCHANGED <<content, latch, table, allocLock, fresh, flush, ckptState, files, wal>>
  BY Zenon DEF TryPinResident, Pinned, WithPins
<1> HIDE DEF f, m, c
<1>5. /\ meta'[f] = m /\ \A g \in Frames : g # f => meta'[g] = meta[g]
      /\ thread'[t] = c /\ Moves(t)
  BY Zenon, <1>1, <1>4 DEF PoolInv, PoolTypes, Moves
<1>6. \A g \in Frames : MetaKept(g)
  BY Zenon, <1>2, <1>5 DEF MetaKept
<1> QED
  BY Zenon, <1>1, <1>3, <1>4, <1>5, <1>6, CursorStep

LEMMA PinReadCoheres ==
    ASSUME PoolInv, CacheInv, NEW t \in Threads, PinRead(t)
    PROVE  CacheInv'
<1> DEFINE f == thread[t].frame
           c == ThreadAt(thread[t], "reading")
           l == ReadersSet(latch[f], latch[f].readers \cup {t})
<1>1. /\ thread[t].pc = "pinned" /\ "reading" \in ThreadSteps /\ flush[t].pc = "none"
      /\ f \in Frames /\ thread[t] \in Cursors
      /\ latch[f] \in Latches /\ latch[f].readers \cup {t} \in SUBSET Procs
  BY Zenon, EvictTarget DEF PinRead, Latches, ThreadSteps, PoolInv, TargetsExist
<1>2. c.pc = "reading" /\ c.frame = f /\ c.page = thread[t].page
  BY Zenon, <1>1, CursorFields
<1>3. l.writer = latch[f].writer
  BY Zenon, <1>1, ReaderFields
<1>4. /\ thread' = [thread EXCEPT ![t] = c] /\ latch' = [latch EXCEPT ![f] = l]
      /\ UNCHANGED <<meta, content, table, allocLock, fresh, flush, ckptState, files, wal>>
  BY Zenon DEF PinRead, Goto, ThreadAt, ReadersSet
<1> HIDE DEF c, l
<1>5. /\ thread'[t] = c /\ Moves(t) /\ \A g \in Frames : latch'[g].writer = latch[g].writer
  BY Zenon, <1>1, <1>3, <1>4 DEF PoolInv, PoolTypes, Moves
<1>6. \A g \in Frames : MetaKept(g)
  BY Zenon, <1>4 DEF MetaKept
<1>7. meta[f].page = thread[t].page
  BY Zenon, <1>1 DEF CacheInv, FramesMapped, Holding
<1> QED
  BY Zenon, <1>1, <1>2, <1>4, <1>5, <1>6, <1>7, CursorStep

LEMMA DropReadCoheres ==
    ASSUME PoolInv, CacheInv, NEW t \in Threads, DropRead(t)
    PROVE  CacheInv'
<1> DEFINE f == thread[t].frame
           m == WithPins(meta[f], meta[f].pins - 1)
           l == ReadersSet(latch[f], latch[f].readers \ {t})
<1>1. /\ thread[t].pc = "reading" /\ flush[t].pc = "none"
      /\ f \in Frames /\ meta[f] \in Metas /\ meta[f].pins - 1 \in Int /\ meta[f].pins \in Int
      /\ latch[f] \in Latches /\ latch[f].readers \ {t} \in SUBSET Procs
  BY EvictTarget DEF DropRead, Latches, Metas, PoolInv, TargetsExist
<1>2. /\ m.pins = meta[f].pins - 1 /\ m.page = meta[f].page /\ m.dirty = meta[f].dirty
      /\ m.needsFpi = meta[f].needsFpi /\ m.evicting = meta[f].evicting
      /\ m.flushing = meta[f].flushing
  BY Zenon, <1>1, WithPinsFields
<1>3. l.writer = latch[f].writer
  BY Zenon, <1>1, ReaderFields
<1>4. /\ thread' = [thread EXCEPT ![t] = Idle] /\ latch' = [latch EXCEPT ![f] = l]
      /\ meta' = [meta EXCEPT ![f] = m]
      /\ UNCHANGED <<content, table, allocLock, fresh, flush, ckptState, files, wal>>
  BY Zenon DEF DropRead, ReadersSet, WithPins
<1> HIDE DEF m, l
<1>5. /\ meta'[f] = m /\ (\A g \in Frames : g # f => meta'[g] = meta[g])
      /\ thread'[t] = Idle /\ Moves(t) /\ \A g \in Frames : latch'[g].writer = latch[g].writer
  BY Zenon, <1>1, <1>3, <1>4 DEF PoolInv, PoolTypes, Moves
<1>6. \A g \in Frames : MetaKept(g)
  BY Zenon, <1>2, <1>5 DEF MetaKept
<1> QED
  BY Zenon, <1>1, <1>4, <1>5, <1>6, IdleCursor, CursorStep

LEMMA PoolFullCoheres ==
    ASSUME PoolInv, CacheInv, NEW t \in Threads, NEW p \in Pages, PoolFull(t, p)
    PROVE  CacheInv'
<1>1. /\ UNCHANGED <<meta, content, latch, table, allocLock, thread, flush, ckptState, files, wal>>
      /\ fresh' \subseteq fresh
  BY Zenon DEF PoolFull, pool
<1>2. \A f \in Frames : MetaKept(f)
  BY Zenon, <1>1 DEF MetaKept
<1>3. FramesMapped' /\ FlushesApart'
  <2>1. FlushesApart'
    BY <1>1 DEF CacheInv, FlushesApart, InFlight, Quiet
  <2>2. FramesMapped'
    BY Zenon, <1>1 DEF CacheInv, FramesMapped
  <2> QED
    BY Zenon, <2>1, <2>2
<1>4. MemoryCurrent' /\ GateIsPassed'
  BY Zenon, <1>1 DEF CacheInv, MemoryCurrent, GateIsPassed, FpiBeforeChange, Untouched, files, wal
<1> QED
  BY Zenon, <1>1, <1>2, <1>3, <1>4, DataKept DEF CacheInv

----------------------------------------------------------------------------
(* Evicting and loading                                                    *)

OneFlushMoves(x) == \A y \in Procs : y # x => flush'[y] = flush[y]
Ashore == {"none", "claim", "ok", "err"}

\* A process that has no flush in flight before or after a step leaves those of
\* the others as they are.
LEMMA AshoreFacts ==
    ASSUME NEW x \in Procs, OneFlushMoves(x), flush[x].pc \in Ashore, flush'[x].pc \in Ashore
    PROVE  /\ \A y \in Procs : InFlight(y)' <=> InFlight(y)
           /\ \A y \in Procs : InFlight(y) => flush'[y] = flush[y]
           /\ \A y \in Procs : flush[y].pc \in {"latch", "write", "cover", "sync", "finish"} =>
                flush'[y] = flush[y]
           /\ \A y \in Procs : flush'[y].pc \in {"latch", "write", "cover", "sync", "finish"} =>
                flush'[y] = flush[y]
           /\ \A f \in Frames : Quiet(f)' <=> Quiet(f)
<1>1. \A y \in Procs : flush[y].pc \in {"latch", "write", "cover", "sync", "finish"} =>
         flush'[y] = flush[y]
  BY Zenon DEF OneFlushMoves, Ashore
<1>2. \A y \in Procs : flush'[y].pc \in {"latch", "write", "cover", "sync", "finish"} =>
         flush'[y] = flush[y]
  BY Zenon DEF OneFlushMoves, Ashore
<1>3. \A y \in Procs : InFlight(y)' <=> InFlight(y)
  BY Zenon, <1>1, <1>2 DEF InFlight
<1>4. \A y \in Procs : InFlight(y) => flush'[y] = flush[y]
  BY Zenon, <1>1 DEF InFlight
<1>5. \A f \in Frames : Quiet(f)' <=> Quiet(f)
  BY Zenon, <1>3, <1>4 DEF Quiet
<1> QED
  BY Zenon, <1>1, <1>2, <1>3, <1>4, <1>5

LEMMA EvictorStep ==
    ASSUME PoolInv, PoolInv', CacheInv, \A f \in Frames : MetaKept(f),
           NEW t \in Threads, Moves(t), OneFlushMoves(t), FramesMapped',
           flush[t].pc \in Ashore, flush'[t].pc \in Ashore,
           thread[t].pc \in {"idle", "evict"}, thread'[t].pc \in {"idle", "evict"},
           flush'[t].pc = "claim" => flush'[t].frame = thread'[t].frame,
           \A f \in Frames : flush'[t].pc = "ok" /\ thread'[t].frame = f => ~meta[f].dirty /\ Quiet(f),
           thread'[t].pc = "evict" /\ thread'[t].new => Untouched(thread'[t].page),
           fresh' \subseteq fresh,
           UNCHANGED <<content, latch, table, ckptState, files, wal>>
    PROVE  CacheInv'
<1>1. t \in Procs /\ Ckpt \in Procs /\ Ckpt # t
  BY Zenon, PoolAssumption DEF Procs
<1>2. UNCHANGED <<ckpt, ckptLsn, redo, disk, durable, flushGen, syncedGen, log, synced>>
  BY Zenon DEF ckptState, files, wal
<1>3. flush'[Ckpt] = flush[Ckpt]
  BY Zenon, <1>1 DEF OneFlushMoves
<1>4. NewestIsRecord' /\ FilesLag'
  BY Zenon, <1>2 DEF CacheInv, NewestIsRecord, FilesLag
<1>5. AskedIsServed'
  BY Zenon, <1>2, <1>3 DEF CacheInv, AskedIsServed, Reached
<1>6. CheckpointUnderWay'
  BY Zenon, <1>2 DEF CacheInv, CheckpointUnderWay
<1>7. Generations'
  BY <1>1, <1>2, AshoreFacts DEF CacheInv, Generations
<1>8. CleanIsDurable'
  <2>1. \A x \in Procs : flush[x].pc \in {"cover", "sync", "finish"} => flush[x].frame \in Frames
    BY Zenon DEF PoolInv, TargetsExist, Busy
  <2>2. \A f \in Frames : latch'[f].writer # None =>
         meta'[f].dirty \/ \E x \in Procs : flush'[x].pc = "latch" /\ flush'[x].frame = f
    BY <1>1, AshoreFacts DEF CacheInv, CleanIsDurable, MetaKept
  <2>3. \A f \in Frames : meta'[f].page # None /\ ~meta'[f].dirty /\ Quiet(f)' =>
         durable'[meta'[f].page].lsn = content'[f].lsn
    BY <1>1, <1>2, AshoreFacts DEF CacheInv, CleanIsDurable, MetaKept
  <2>4. \A x \in Procs : flush'[x].pc \in {"cover", "sync", "finish"} /\ ~meta'[flush'[x].frame].dirty =>
         disk'[flush'[x].page].lsn = content'[flush'[x].frame].lsn
    BY <1>1, <1>2, <2>1, AshoreFacts DEF CacheInv, CleanIsDurable, MetaKept
  <2> QED
    BY Zenon, <2>2, <2>3, <2>4 DEF CleanIsDurable
<1>9. FlushesApart'
  <2>1. \A x \in Procs : InFlight(x) => flush[x].frame \in Frames
    BY Zenon DEF PoolInv, TargetsExist, Busy, InFlight
  <2>2. \A u \in Threads : flush'[u].pc # "none" => thread'[u].frame \in Frames
    BY Zenon DEF PoolInv, TargetsExist
  <2>3. \A u \in Threads : u # t => thread'[u] = thread[u] /\ flush'[u] = flush[u]
    BY Zenon DEF Moves, OneFlushMoves, Procs
  <2>5. \A x \in Procs : InFlight(x)' => /\ meta'[flush'[x].frame].flushing
                                         /\ meta'[flush'[x].frame].page = flush'[x].page
    BY <1>1, <2>1, AshoreFacts DEF CacheInv, FlushesApart, MetaKept
  <2>6. \A x, y \in Procs : InFlight(x)' /\ InFlight(y)' /\ flush'[x].frame = flush'[y].frame => x = y
    BY <1>1, AshoreFacts DEF CacheInv, FlushesApart
  <2>7. \A u \in Threads : flush'[u].pc \in Busy => flush'[u].frame = thread'[u].frame
    BY <2>3 DEF CacheInv, FlushesApart, Busy, Ashore
  <2>8. \A u \in Threads : flush'[u].pc = "ok" =>
          ~meta'[thread'[u].frame].dirty /\ Quiet(thread[u].frame)'
    <3> SUFFICES ASSUME NEW u \in Threads, flush'[u].pc = "ok",
                        NEW f \in Frames, f = thread'[u].frame
                 PROVE  ~meta'[f].dirty /\ Quiet(f)'
      BY Zenon, <2>2
    <3>1. ~meta[f].dirty /\ Quiet(f)
      BY Zenon, <2>3 DEF CacheInv, FlushesApart
    <3> QED
      BY Zenon, <1>1, <3>1, AshoreFacts DEF MetaKept
  <2>9. \A f \in Frames : latch'[f].writer # None =>
          /\ thread'[latch'[f].writer].pc \in {"latched", "changed"}
          /\ thread'[latch'[f].writer].frame = f
    <3> SUFFICES ASSUME NEW f \in Frames, latch[f].writer # None
                 PROVE  /\ thread'[latch[f].writer].pc \in {"latched", "changed"}
                        /\ thread'[latch[f].writer].frame = f
      BY Zenon
    <3>1. /\ thread[latch[f].writer].pc \in {"latched", "changed"}
          /\ thread[latch[f].writer].frame = f /\ latch[f].writer \in Threads
      BY Zenon, WriterKnown
    <3> QED
      BY Zenon, <3>1 DEF Moves
  <2>10. \A u \in Threads : InFlight(u)' => ~meta'[flush'[u].frame].dirty
    BY <1>1, <2>1, AshoreFacts DEF CacheInv, FlushesApart, MetaKept, Procs
  <2> QED
    BY Zenon, <2>5, <2>6, <2>7, <2>8, <2>9, <2>10 DEF FlushesApart
<1>10. MemoryCurrent'
  <2>1. \A u \in Threads : thread'[u].pc = "evict" /\ thread'[u].new => Untouched(thread[u].page)'
    <3> SUFFICES ASSUME NEW u \in Threads, thread'[u].pc = "evict", thread'[u].new
                 PROVE  Newest(log, thread'[u].page) = 0 /\ disk[thread'[u].page].of = None
      BY Zenon, <1>2 DEF Untouched
    <3> QED
      BY Zenon DEF Moves, CacheInv, MemoryCurrent, Untouched
  <2> QED
    BY Zenon, <1>2, <2>1 DEF CacheInv, MemoryCurrent, MetaKept, Untouched
<1>11. GateIsPassed'
  <2>1. \A u \in Threads : thread'[u].pc = "latched" => thread'[u] = thread[u]
    BY Zenon DEF Moves
  <2> QED
    BY <1>2, <2>1 DEF CacheInv, GateIsPassed, MetaKept, FpiBeforeChange
<1> QED
  BY Zenon, <1>4, <1>5, <1>6, <1>7, <1>8, <1>9, <1>10, <1>11 DEF CacheInv

LEMMA EvictingFields ==
    ASSUME NEW p, NEW f, NEW b
    PROVE  /\ Evicting(p, f, b).pc = "evict" /\ Evicting(p, f, b).page = p
           /\ Evicting(p, f, b).frame = f /\ Evicting(p, f, b).new = b
BY Zenon DEF Idle, Evicting

LEMMA AskedFields ==
    ASSUME NEW p, NEW f, NEW n
    PROVE  /\ Asked(p, f, n).pc = "claim" /\ Asked(p, f, n).asked = p
           /\ Asked(p, f, n).frame = f /\ Asked(p, f, n).want = n
BY Zenon DEF NoFlush, Asked

LEMMA OkFields ==
    ASSUME NEW c \in Flushes
    PROVE  FlushAt(c, "ok").pc = "ok"
BY Zenon DEF Flushes, FlushAt

LEMMA EvictFrameCoheres ==
    ASSUME PoolInv, PoolInv', CacheInv, ~overtaken',
           NEW t \in Threads, NEW p \in Pages, NEW f \in Frames, NEW b \in BOOLEAN,
           EvictFrame(t, p, f, b), thread[t].pc = "idle",
           allocLock = None, allocLock' = t, table[p] = None,
           b => p \in fresh, fresh' \subseteq fresh, p \notin fresh',
           UNCHANGED <<content, latch, table, ckptState, files, wal>>
    PROVE  CacheInv'
<1> DEFINE m == WithEvicting(meta[f], TRUE)
           c == Evicting(p, f, b)
           d == IF meta[f].dirty /\ meta[f].page # None
                THEN Asked(meta[f].page, f, content[f].lsn) ELSE FlushAt(flush[t], "ok")
<1>1. /\ meta \in [Frames -> Metas] /\ meta[f] \in Metas /\ t \in Procs /\ flush[t] \in Flushes
      /\ flush[t].pc = "none"
  BY Zenon DEF PoolInv, PoolTypes, Procs, TargetsExist
<1>2. /\ m.page = meta[f].page
      /\ m.dirty = meta[f].dirty /\ m.needsFpi = meta[f].needsFpi /\ m.flushing = meta[f].flushing
  BY Zenon, <1>1, WithEvictingFields
<1>3. c.pc = "evict" /\ c.page = p /\ c.frame = f /\ c.new = b
  BY EvictingFields
<1>4. /\ d.pc \in {"claim", "ok"}
      /\ d.pc = "claim" => d.frame = f
      /\ d.pc = "ok" => ~meta[f].dirty
  <2>1. FlushAt(flush[t], "ok").pc = "ok"
    BY Zenon, <1>1, OkFields
  <2>2. meta[f].dirty => meta[f].page # None
    BY Zenon DEF CacheInv, FramesMapped
  <2> QED
    BY <2>1, <2>2, AskedFields
<1>5. /\ meta' = [meta EXCEPT ![f] = m] /\ thread' = [thread EXCEPT ![t] = c]
      /\ flush' = [flush EXCEPT ![t] = d]
  BY Zenon DEF EvictFrame, Evicting, StartFlush, Asked, FlushAt, WithEvicting
<1>6. ~meta[f].dirty => ~meta[f].flushing
  BY Zenon DEF EvictFrame
<1> HIDE DEF m, c, d
<1>7. /\ meta'[f] = m /\ \A g \in Frames : g # f => meta'[g] = meta[g]
      /\ thread'[t] = c /\ Moves(t) /\ flush'[t] = d /\ OneFlushMoves(t)
  BY Zenon, <1>1, <1>5 DEF PoolInv, PoolTypes, Moves, OneFlushMoves
<1>8. \A g \in Frames : MetaKept(g)
  BY Zenon, <1>2, <1>7 DEF MetaKept
<1>9. \A u \in Threads : thread[u].pc # "evict"
  BY Zenon, PoolAssumption DEF CacheInv, FramesMapped
<1>11. FramesMapped'
  <2>1. \A q \in Pages : table[q] # None => table[q] \in Frames
    BY Zenon DEF PoolInv, PoolTypes, FrameOrNone
  <2>2. \A u \in Threads : thread'[u].pc \in Holding =>
          thread'[u] = thread[u] /\ thread[u].frame \in Frames
    BY Zenon, <1>3, <1>7 DEF Moves, Holding, PoolInv, TargetsExist
  <2>3. \A u \in Threads : thread'[u].pc = "evict" => u = t
    BY Zenon, <1>9, <1>7 DEF Moves
  <2> QED
    BY <1>3, <1>7, <1>8, <2>1, <2>2, <2>3 DEF CacheInv, FramesMapped, MetaKept
<1>12. ~meta[f].dirty => Quiet(f)
  BY Zenon, <1>6 DEF CacheInv, FlushesApart, Quiet
<1>13. b => Untouched(p)
  BY Zenon DEF CacheInv, MemoryCurrent
<1>14. /\ flush[t].pc \in Ashore /\ flush'[t].pc \in Ashore
       /\ thread'[t].pc = "evict"
       /\ flush'[t].pc = "claim" => flush'[t].frame = thread'[t].frame
       /\ \A g \in Frames : flush'[t].pc = "ok" /\ thread'[t].frame = g => ~meta[g].dirty /\ Quiet(g)
       /\ thread'[t].new => Untouched(thread'[t].page)
  BY Zenon, <1>1, <1>3, <1>4, <1>7, <1>12, <1>13 DEF Ashore
<1> QED
  BY Zenon, <1>7, <1>8, <1>11, <1>14, EvictorStep

LEMMA AllocFrameCoheres ==
    ASSUME PoolInv, PoolInv', CacheInv, ~overtaken',
           NEW t \in Threads, NEW p \in Pages, NEW f \in Frames, AllocFrame(t, p, f)
    PROVE  CacheInv'
<1>1. /\ EvictFrame(t, p, f, FALSE) /\ thread[t].pc = "idle" /\ allocLock = None
      /\ allocLock' = t /\ table[p] = None /\ p \notin fresh /\ fresh' = fresh
      /\ UNCHANGED <<content, latch, table, ckptState, files, wal>>
  BY Zenon DEF AllocFrame, Start
<1> QED
  BY Zenon, <1>1, EvictFrameCoheres

LEMMA NewPageCoheres ==
    ASSUME PoolInv, PoolInv', CacheInv, ~overtaken',
           NEW t \in Threads, NEW p \in Pages, NEW f \in Frames, NewPage(t, p, f)
    PROVE  CacheInv'
<1>1. /\ EvictFrame(t, p, f, TRUE) /\ thread[t].pc = "idle" /\ allocLock = None
      /\ allocLock' = t /\ p \in fresh /\ fresh' \subseteq fresh /\ p \notin fresh'
      /\ UNCHANGED <<content, latch, table, ckptState, files, wal>>
  BY Zenon DEF NewPage, Start
<1>2. table[p] = None
  BY Zenon, <1>1 DEF CacheInv, FramesMapped
<1> QED
  BY Zenon, <1>1, <1>2, EvictFrameCoheres

LEMMA EvictFlushFailedCoheres ==
    ASSUME PoolInv, PoolInv', CacheInv, NEW t \in Threads, EvictFlushFailed(t)
    PROVE  CacheInv'
<1> DEFINE f == thread[t].frame
           m == WithEvicting(meta[f], FALSE)
<1>1. /\ meta \in [Frames -> Metas] /\ f \in Frames /\ meta[f] \in Metas /\ t \in Procs
      /\ thread[t].pc = "evict" /\ flush[t].pc = "err" /\ fresh' = fresh
      /\ UNCHANGED <<content, latch, table, ckptState, files, wal>>
  BY Zenon, EvictTarget DEF PoolInv, PoolTypes, EvictFlushFailed
<1>2. /\ m.page = meta[f].page
      /\ m.dirty = meta[f].dirty /\ m.needsFpi = meta[f].needsFpi /\ m.flushing = meta[f].flushing
  BY Zenon, <1>1, WithEvictingFields
<1>3. /\ meta' = [meta EXCEPT ![f] = m] /\ thread' = [thread EXCEPT ![t] = Idle]
      /\ flush' = [flush EXCEPT ![t] = NoFlush]
  BY Zenon DEF EvictFlushFailed, WithEvicting
<1> HIDE DEF f, m
<1>4. /\ meta'[f] = m /\ \A g \in Frames : g # f => meta'[g] = meta[g]
      /\ thread'[t] = Idle /\ Moves(t) /\ flush'[t] = NoFlush /\ OneFlushMoves(t)
  BY Zenon, <1>1, <1>3 DEF PoolInv, PoolTypes, Moves, OneFlushMoves
<1>5. \A g \in Frames : MetaKept(g)
  BY Zenon, <1>2, <1>4 DEF MetaKept
<1>6. \A u \in Threads : thread'[u].pc # "evict"
  BY Zenon, <1>1, <1>4, IdleCursor DEF CacheInv, FramesMapped, Moves
<1>8. FramesMapped'
  <2>1. \A q \in Pages : table[q] # None => table[q] \in Frames
    BY Zenon DEF PoolInv, PoolTypes, FrameOrNone
  <2>2. \A u \in Threads : thread'[u].pc \in Holding =>
          thread'[u] = thread[u] /\ thread[u].frame \in Frames
    BY Zenon, <1>4, IdleCursor DEF Moves, Holding, PoolInv, TargetsExist
  <2> QED
    BY <1>1, <1>5, <1>6, <2>1, <2>2 DEF CacheInv, FramesMapped, MetaKept
<1>9. /\ flush[t].pc \in Ashore /\ flush'[t].pc \in Ashore /\ flush'[t].pc = "none"
      /\ thread'[t].pc = "idle"
  BY Zenon, <1>1, <1>4, IdleCursor, NoFlushFields DEF Ashore
<1> QED
  BY Zenon, <1>1, <1>4, <1>5, <1>8, <1>9, EvictorStep


\* The frame a thread has evicted: nobody's, clean, and its page durable.
LEMMA EvictedFacts ==
    ASSUME PoolInv, CacheInv, HoldersApart, NEW t \in Threads, Loadable(t),
           NEW f, f = thread[t].frame, NEW p, p = thread[t].page, NEW q, q = meta[f].page
    PROVE  /\ f \in Frames /\ p \in Pages /\ q \in PageOrNone /\ f # None /\ p # q
           /\ \A u \in Threads : thread[u].pc \in Holding => u # t /\ thread[u].frame # f
           /\ Quiet(f) /\ latch[f].writer = None
           /\ table[p] = None /\ p \notin fresh
           /\ q # None => table[q] = f /\ durable[q].lsn = Newest(log, q)
           /\ \A u \in Threads : thread[u].pc = "evict" => u = t
           /\ \A g \in Frames : g # f /\ meta[g].page # None =>
                meta[g].page # q /\ meta[g].page # p
           /\ durable[p].lsn = Newest(log, p) /\ disk[p].lsn = Newest(log, p)
           /\ thread[t].new => Newest(log, p) = 0 /\ disk[p].of = None
<1>1. thread[t].pc = "evict" /\ flush[t].pc = "ok" /\ latch[f] = Unlatched
  BY Zenon DEF Loadable
<1>2. f \in Frames /\ p \in Pages /\ q \in PageOrNone /\ f # None
  BY Zenon, <1>1, EvictTarget, PoolAssumption DEF Metas
<1>3. ~meta[f].dirty /\ Quiet(f) /\ latch[f].writer = None
  BY <1>1 DEF CacheInv, FlushesApart, Unlatched
<1>4. \A u \in Threads : thread[u].pc \in Holding => u # t /\ thread[u].frame # f
  BY Zenon, <1>1 DEF HoldersApart, Holding
<1>5. table[p] = None /\ p \notin fresh /\ allocLock = t
  BY Zenon, <1>1 DEF CacheInv, FramesMapped
<1>6. q # None => table[q] = f /\ durable[q].lsn = Newest(log, q) /\ p # q
  <2>1. q # None => table[q] = f
    BY Zenon, <1>2 DEF CacheInv, FramesMapped
  <2>2. q # None => durable[q].lsn = content[f].lsn /\ content[f].lsn = Newest(log, q)
    BY Zenon, <1>2, <1>3 DEF CacheInv, CleanIsDurable, MemoryCurrent
  <2> QED
    BY Zenon, <1>2, <1>5, <2>1, <2>2
<1>7. p # q
  BY Zenon, <1>2, <1>6, PoolAssumption
<1>8. \A u \in Threads : thread[u].pc = "evict" => u = t
  BY Zenon, <1>5 DEF CacheInv, FramesMapped
<1>9. \A g \in Frames : g # f /\ meta[g].page # None => meta[g].page # q /\ meta[g].page # p
  <2> SUFFICES ASSUME NEW g \in Frames, g # f, meta[g].page # None
               PROVE  meta[g].page # q /\ meta[g].page # p
    BY Zenon
  <2>1. table[meta[g].page] = g /\ g # None
    BY Zenon, PoolAssumption DEF CacheInv, FramesMapped
  <2> QED
    BY Zenon, <1>5, <1>6, <2>1
<1>10. durable[p].lsn = Newest(log, p) /\ disk[p].lsn = Newest(log, p)
  <2>1. durable[p].lsn = Newest(log, p)
    BY Zenon, <1>2, <1>5 DEF CacheInv, MemoryCurrent
  <2>2. durable[p].lsn <= disk[p].lsn /\ disk[p].lsn <= Newest(log, p)
    BY Zenon, <1>2 DEF CacheInv, FilesLag
  <2>3. disk[p].lsn \in Nat /\ durable[p].lsn \in Nat
    BY Zenon, <1>2 DEF CacheInv, FilesLag, PoolInv, PoolTypes, Images
  <2> QED
    BY <2>1, <2>2, <2>3
<1>11. thread[t].new => Newest(log, p) = 0 /\ disk[p].of = None
  BY Zenon, <1>1 DEF CacheInv, MemoryCurrent, Untouched
<1> QED
  BY <1>2, <1>3, <1>4, <1>5, <1>6, <1>7, <1>8, <1>9, <1>10, <1>11

\* The frame is given another page, or none.
LoadedWith(t, f, p) ==
    /\ table'[p] = f /\ meta'[f].page = p
    /\ thread'[t].pc = "pinned" /\ thread'[t].frame = f /\ thread'[t].page = p
    /\ content'[f].lsn = Newest(log, p)
    /\ meta'[f].dirty \/ durable[p].lsn = content'[f].lsn
    /\ meta'[f].needsFpi \/ disk[p].of = None
LeftEmpty(t, f, p) ==
    /\ table'[p] = None /\ meta'[f].page = None /\ ~meta'[f].dirty
    /\ thread'[t].pc = "idle"
FrameIsReset(t, f, p) ==
    /\ Loadable(t) /\ f = thread[t].frame /\ p = thread[t].page
    /\ Moves(t) /\ OneFlushMoves(t) /\ flush'[t].pc = "none"
    /\ \A g \in Frames : g # f => meta'[g] = meta[g] /\ content'[g] = content[g]
    /\ \A r \in Pages : r # p => table'[r] = IF r = meta[f].page THEN None ELSE table[r]
    /\ LoadedWith(t, f, p) \/ LeftEmpty(t, f, p)
    /\ UNCHANGED <<latch, fresh, ckptState, files, wal>>

LEMMA FrameReset ==
    ASSUME PoolInv, PoolInv', CacheInv, HoldersApart,
           NEW t \in Threads, NEW f, NEW p, FrameIsReset(t, f, p)
    PROVE  CacheInv'
<1> DEFINE q == meta[f].page
<1>1. /\ f \in Frames /\ p \in Pages /\ q \in PageOrNone /\ f # None /\ p # q
      /\ \A u \in Threads : thread[u].pc \in Holding => u # t /\ thread[u].frame # f
      /\ Quiet(f) /\ latch[f].writer = None
      /\ table[p] = None /\ p \notin fresh
      /\ q # None => table[q] = f /\ durable[q].lsn = Newest(log, q)
      /\ \A u \in Threads : thread[u].pc = "evict" => u = t
      /\ \A g \in Frames : g # f /\ meta[g].page # None =>
                meta[g].page # q /\ meta[g].page # p
      /\ durable[p].lsn = Newest(log, p)
  BY EvictedFacts DEF FrameIsReset
<1> HIDE DEF q
<1>2. /\ t \in Procs /\ Ckpt \in Procs /\ Ckpt # t /\ None \notin Frames /\ None \notin Pages
      /\ thread[t].pc = "evict" /\ flush[t].pc = "ok"
  BY Zenon, PoolAssumption DEF Procs, Loadable, FrameIsReset
<1>3. UNCHANGED <<ckpt, ckptLsn, redo, disk, durable, flushGen, syncedGen, log, synced, latch, fresh>>
  BY Zenon DEF ckptState, files, wal, FrameIsReset
<1>4. /\ Moves(t) /\ OneFlushMoves(t) /\ flush'[t].pc = "none"
      /\ LoadedWith(t, f, p) \/ LeftEmpty(t, f, p)
      /\ \A g \in Frames : g # f => meta'[g] = meta[g] /\ content'[g] = content[g]
  BY Zenon DEF FrameIsReset
<1>5. \A r \in Pages : r # p => table'[r] = IF r = q THEN None ELSE table[r]
  BY Zenon DEF FrameIsReset, q
<1>6. flush[t].pc \in Ashore /\ flush'[t].pc \in Ashore /\ flush'[Ckpt] = flush[Ckpt]
  BY Zenon, <1>2, <1>4 DEF Ashore, OneFlushMoves
<1>7. \A x \in Procs : InFlight(x) => flush[x].frame # f /\ flush[x].frame \in Frames
  BY Zenon, <1>1 DEF Quiet, PoolInv, TargetsExist, Busy, InFlight
<1>8. \A u \in Threads : thread[u].pc \in Holding => thread[u].frame \in Frames
  BY Zenon DEF Holding, PoolInv, TargetsExist
<1>9. \A u \in Threads : thread'[u].pc # "evict"
  BY Zenon, <1>1, <1>4 DEF Moves, LoadedWith, LeftEmpty
<1>10. NewestIsRecord' /\ FilesLag'
  BY Zenon, <1>3 DEF CacheInv, NewestIsRecord, FilesLag
<1>11. Generations'
  BY <1>2, <1>3, <1>4, <1>6, AshoreFacts DEF CacheInv, Generations
<1>12. FramesMapped'
  <2>1. \A r \in Pages : table'[r] # None =>
           \/ r # p /\ r # q /\ table'[r] = table[r] /\ table[r] # f /\ table[r] \in Frames
           \/ r = p /\ LoadedWith(t, f, p)
    <3> SUFFICES ASSUME NEW r \in Pages, table'[r] # None, r # p
                 PROVE  r # q /\ table'[r] = table[r] /\ table[r] # f /\ table[r] \in Frames
      BY Zenon, <1>4 DEF LeftEmpty
    <3>1. r # q /\ table'[r] = table[r] /\ table[r] # None
      BY Zenon, <1>5
    <3>2. meta[table[r]].page = r /\ table[r] \in Frames
      BY Zenon, <3>1 DEF CacheInv, FramesMapped, PoolInv, PoolTypes, FrameOrNone
    <3> QED
      BY Zenon, <3>1, <3>2 DEF q
  <2>2. \A r \in Pages : table'[r] # None => meta'[table'[r]].page = r
    BY <1>4, <2>1 DEF CacheInv, FramesMapped, LoadedWith
  <2>3. \A g \in Frames : meta'[g].page # None => table'[meta'[g].page] = g
    <3> SUFFICES ASSUME NEW g \in Frames, meta'[g].page # None
                 PROVE  table'[meta'[g].page] = g
      BY Zenon
    <3>1. CASE g = f
      BY Zenon, <1>4, <3>1 DEF LoadedWith, LeftEmpty
    <3>2. CASE g # f
      <4>1. meta'[g] = meta[g] /\ meta[g].page # q /\ meta[g].page # p
        BY Zenon, <1>1, <1>4, <3>2
      <4>2. table[meta[g].page] = g /\ meta[g].page \in Pages
        BY <4>1, <1>2 DEF CacheInv, FramesMapped, PoolInv, PoolTypes, Metas, PageOrNone
      <4> QED
        BY Zenon, <1>5, <4>1, <4>2
    <3> QED
      BY Zenon, <3>1, <3>2
  <2>4. \A g \in Frames : meta'[g].dirty => meta'[g].page # None
    BY <1>1, <1>2, <1>4 DEF CacheInv, FramesMapped, LoadedWith, LeftEmpty
  <2>5. \A u \in Threads : thread'[u].pc \in Holding => meta'[thread'[u].frame].page = thread'[u].page
    <3> SUFFICES ASSUME NEW u \in Threads, thread'[u].pc \in Holding
                 PROVE  meta'[thread'[u].frame].page = thread'[u].page
      BY Zenon
    <3>1. CASE u = t
      BY Zenon, <1>4, <3>1 DEF LoadedWith, LeftEmpty, Holding
    <3>2. CASE u # t
      BY <1>1, <1>4, <1>8, <3>2 DEF Moves, CacheInv, FramesMapped
    <3> QED
      BY Zenon, <3>1, <3>2
  <2>6. fresh' \subseteq Pages /\ \A r \in fresh' : table'[r] = None
    BY Zenon, <1>1, <1>3, <1>5 DEF CacheInv, FramesMapped
  <2> QED
    BY Zenon, <1>9, <2>2, <2>3, <2>4, <2>5, <2>6 DEF FramesMapped
<1>13. FlushesApart'
  <2>1. \A x \in Procs : InFlight(x)' => InFlight(x) /\ flush'[x] = flush[x]
    BY Zenon, <1>2, <1>4, <1>6, AshoreFacts
  <2>2. \A x \in Procs : InFlight(x)' => /\ meta'[flush'[x].frame].flushing
                                         /\ meta'[flush'[x].frame].page = flush'[x].page
    <3>1. \A x \in Procs : InFlight(x) => /\ meta[flush[x].frame].flushing
                                          /\ meta[flush[x].frame].page = flush[x].page
      BY Zenon DEF CacheInv, FlushesApart
    <3>2. \A x \in Procs : InFlight(x) => meta'[flush[x].frame] = meta[flush[x].frame]
      BY Zenon, <1>4, <1>7
    <3> QED
      BY <2>1, <3>1, <3>2
  <2>3. \A x, y \in Procs : InFlight(x)' /\ InFlight(y)' /\ flush'[x].frame = flush'[y].frame => x = y
    BY Zenon, <2>1 DEF CacheInv, FlushesApart
  <2>4. \A u \in Threads : flush'[u].pc = "none"
    BY Zenon, <1>9 DEF PoolInv, TargetsExist
  <2>5. \A g \in Frames : latch'[g].writer # None =>
          /\ thread'[latch'[g].writer].pc \in {"latched", "changed"}
          /\ thread'[latch'[g].writer].frame = g
    <3> SUFFICES ASSUME NEW g \in Frames, latch[g].writer # None
                 PROVE  /\ thread'[latch[g].writer].pc \in {"latched", "changed"}
                        /\ thread'[latch[g].writer].frame = g
      BY Zenon, <1>3
    <3>1. /\ thread[latch[g].writer].pc \in {"latched", "changed"}
          /\ thread[latch[g].writer].frame = g /\ latch[g].writer \in Threads
      BY Zenon, WriterKnown
    <3> QED
      BY Zenon, <1>2, <1>4, <3>1 DEF Moves
  <2> QED
    BY Zenon, <2>2, <2>3, <2>4, <2>5 DEF FlushesApart, Busy, InFlight
<1>14. MemoryCurrent'
  <2>1. \A g \in Frames : meta'[g].page # None => content'[g].lsn = Newest(log, meta'[g].page)
    BY Zenon, <1>4 DEF CacheInv, MemoryCurrent, LoadedWith, LeftEmpty
  <2>2. \A r \in Pages : table'[r] = None => durable[r].lsn = Newest(log, r)
    BY Zenon, <1>1, <1>2, <1>5 DEF CacheInv, MemoryCurrent
  <2> QED
    BY Zenon, <1>3, <1>9, <2>1, <2>2 DEF CacheInv, MemoryCurrent, Untouched
<1>15. CleanIsDurable'
  <2>1. \A g \in Frames : latch'[g].writer # None =>
         meta'[g].dirty \/ \E x \in Procs : flush'[x].pc = "latch" /\ flush'[x].frame = g
    <3> SUFFICES ASSUME NEW g \in Frames, latch[g].writer # None
                 PROVE  meta'[g].dirty \/ \E x \in Procs : flush'[x].pc = "latch" /\ flush'[x].frame = g
      BY Zenon, <1>3
    <3>1. meta[g].dirty \/ \E x \in Procs : flush[x].pc = "latch" /\ flush[x].frame = g
      BY Zenon DEF CacheInv, CleanIsDurable
    <3>2. meta'[g] = meta[g]
      BY Zenon, <1>1, <1>4
    <3>3. \A x \in Procs : flush[x].pc = "latch" => flush'[x] = flush[x]
      BY Zenon, <1>2, <1>4, <1>6, AshoreFacts
    <3> QED
      BY Zenon, <3>1, <3>2, <3>3
  <2>2. \A g \in Frames : meta'[g].page # None /\ ~meta'[g].dirty /\ Quiet(g)' =>
         durable'[meta'[g].page].lsn = content'[g].lsn
    <3> SUFFICES ASSUME NEW g \in Frames, meta'[g].page # None, ~meta'[g].dirty, Quiet(g)'
                 PROVE  durable[meta'[g].page].lsn = content'[g].lsn
      BY Zenon, <1>3
    <3>1. CASE g = f
      BY Zenon, <1>4, <3>1 DEF LoadedWith, LeftEmpty
    <3>2. CASE g # f
      <4>1. Quiet(g) /\ meta'[g] = meta[g] /\ content'[g] = content[g]
        BY Zenon, <1>2, <1>4, <1>6, <3>2, AshoreFacts
      <4> QED
        BY Zenon, <4>1 DEF CacheInv, CleanIsDurable
    <3> QED
      BY Zenon, <3>1, <3>2
  <2>3. \A x \in Procs : flush'[x].pc \in {"cover", "sync", "finish"} =>
          flush'[x] = flush[x] /\ flush[x].frame # f /\ flush[x].frame \in Frames
    BY Zenon, <1>2, <1>4, <1>6, <1>7, AshoreFacts DEF InFlight
  <2>4. \A x \in Procs : flush'[x].pc \in {"cover", "sync", "finish"} /\ ~meta'[flush'[x].frame].dirty =>
         disk'[flush'[x].page].lsn = content'[flush'[x].frame].lsn
    BY <1>3, <1>4, <2>3 DEF CacheInv, CleanIsDurable
  <2> QED
    BY Zenon, <2>1, <2>2, <2>4 DEF CleanIsDurable
<1>16. AskedIsServed'
  <2> DEFINE a == flush[Ckpt].asked
  <2> SUFFICES ASSUME flush[Ckpt].pc \notin {"none", "err"}
               PROVE  AskedIsServed'
    BY Zenon, <1>6 DEF AskedIsServed
  <2>1. a \in Pages /\ flush[Ckpt].want <= Newest(log, a)
    BY Zenon DEF CacheInv, AskedIsServed
  <2>2. CASE a = q
    <3>1. Reached(flush[Ckpt].want)
      BY Zenon, <1>1, <1>2, <2>1, <2>2 DEF Reached, CacheInv, NewestIsRecord
    <3> QED
      BY Zenon, <1>3, <1>6, <3>1 DEF CacheInv, AskedIsServed, Reached
  <2>3. CASE a # q
    <3>1. flush[Ckpt].pc = "claim" /\ table[a] = flush[Ckpt].frame => table'[a] = flush[Ckpt].frame
      <4>1. flush[Ckpt].pc = "claim" => flush[Ckpt].frame \in Frames
        BY Zenon, <1>2 DEF PoolInv, TargetsExist, Busy
      <4> QED
        BY Zenon, <1>1, <1>2, <1>5, <2>1, <2>3, <4>1
    <3> QED
      BY Zenon, <1>3, <1>6, <3>1 DEF CacheInv, AskedIsServed, Reached
  <2> QED
    BY Zenon, <2>2, <2>3
<1>17. CheckpointUnderWay'
  <2>1. ASSUME ckpt.pc = "flush", NEW r \in Pages
        PROVE  \/ durable[r].lsn >= LastIn(log, r, ckpt.begin)
               \/ r \in ckpt.todo
               \/ table'[r] \in ckpt.scan
    <3>1. LastIn(log, r, ckpt.begin) \in Nat /\ LastIn(log, r, ckpt.begin) <= Newest(log, r)
      BY Zenon DEF CacheInv, CheckpointUnderWay
    <3>2. \/ durable[r].lsn >= LastIn(log, r, ckpt.begin)
          \/ r \in ckpt.todo
          \/ table[r] \in ckpt.scan
      BY Zenon, <2>1 DEF CacheInv, CheckpointUnderWay
    <3>3. Newest(log, r) \in Nat
      BY DEF CacheInv, NewestIsRecord
    <3>4. r = p \/ r = q => durable[r].lsn = Newest(log, r)
      BY Zenon, <1>1, <1>2
    <3>5. CASE r = p \/ r = q
      BY Zenon, <3>1, <3>3, <3>4, <3>5
    <3>6. CASE r # p /\ r # q
      BY Zenon, <1>5, <3>2, <3>6
    <3> QED
      BY Zenon, <3>5, <3>6
  <2> QED
    BY Zenon, <1>3, <2>1 DEF CacheInv, CheckpointUnderWay
<1>18. GateIsPassed'
  <2>1. \A g \in Frames : meta'[g].page # None /\ ~meta'[g].needsFpi => disk[meta'[g].page].of = None
    BY Zenon, <1>4 DEF CacheInv, GateIsPassed, LoadedWith, LeftEmpty
  <2>2. \A u \in Threads : thread'[u].pc = "latched" =>
          thread'[u] = thread[u] /\ content'[thread[u].frame] = content[thread[u].frame]
    BY Zenon, <1>1, <1>4, <1>8 DEF Moves, LoadedWith, LeftEmpty, Holding
  <2> QED
    BY <1>3, <2>1, <2>2 DEF CacheInv, GateIsPassed, FpiBeforeChange
<1> QED
  BY <1>10, <1>11, <1>12, <1>13, <1>14, <1>15, <1>16, <1>17, <1>18 DEF CacheInv

LoadedFrame(p, b) == [Empty EXCEPT !.page = p, !.pins = 1, !.dirty = b, !.needsFpi = ~b]
LEMMA LoadedFrameFields ==
    ASSUME NEW p, NEW b \in BOOLEAN
    PROVE  /\ LoadedFrame(p, b).page = p /\ LoadedFrame(p, b).dirty = b
           /\ LoadedFrame(p, b).needsFpi = ~b
BY Zenon DEF LoadedFrame, Empty

LEMMA LoadFrameCoheres ==
    ASSUME PoolInv, PoolInv', CacheInv, HoldersApart, NEW t \in Threads, LoadFrame(t)
    PROVE  CacheInv'
<1> DEFINE f == thread[t].frame
           p == thread[t].page
           b == thread[t].new
           m == LoadedFrame(p, b)
           c == ThreadAt(thread[t], "pinned")
           i == IF b THEN Zeroed ELSE disk[p]
<1>1. Loadable(t) /\ f \in Frames /\ p \in Pages /\ b \in BOOLEAN /\ thread[t] \in Cursors
  BY Zenon, EvictTarget DEF LoadFrame, Loadable, Cursors
<1>2. m.page = p /\ m.dirty = b /\ m.needsFpi = ~b
  BY Zenon, <1>1, LoadedFrameFields
<1>3. c.pc = "pinned" /\ c.frame = f /\ c.page = p
  BY Zenon, <1>1 DEF ThreadAt, Cursors
<1>4. /\ meta' = [meta EXCEPT ![f] = m] /\ thread' = [thread EXCEPT ![t] = c]
      /\ content' = [content EXCEPT ![f] = i] /\ flush' = [flush EXCEPT ![t] = NoFlush]
      /\ table' = [Unmapped(t) EXCEPT ![p] = f]
      /\ UNCHANGED <<latch, fresh, ckptState, files, wal>>
  BY Zenon DEF LoadFrame, Goto, ThreadAt, LoadedFrame
<1>5. /\ durable[p].lsn = Newest(log, p) /\ disk[p].lsn = Newest(log, p)
      /\ b => Newest(log, p) = 0 /\ disk[p].of = None
  BY <1>1, EvictedFacts
<1>6. i.lsn = Newest(log, p)
  BY Zenon, <1>5 DEF Zeroed
<1> HIDE DEF m, c, i
<1>7. /\ meta'[f] = m /\ thread'[t] = c /\ content'[f] = i /\ flush'[t] = NoFlush
      /\ Moves(t) /\ OneFlushMoves(t)
      /\ \A g \in Frames : g # f => meta'[g] = meta[g] /\ content'[g] = content[g]
  BY Zenon, <1>1, <1>4 DEF Moves, OneFlushMoves, PoolInv, PoolTypes, Procs
<1>8. /\ table'[p] = f
      /\ \A r \in Pages : r # p => table'[r] = IF r = meta[f].page THEN None ELSE table[r]
  BY Zenon, <1>1, <1>4 DEF Unmapped
<1>9. LoadedWith(t, f, p)
  BY Zenon, <1>1, <1>2, <1>3, <1>5, <1>6, <1>7, <1>8 DEF LoadedWith
<1>10. FrameIsReset(t, f, p)
  BY <1>1, <1>4, <1>7, <1>8, <1>9, NoFlushFields DEF FrameIsReset
<1> QED
  BY Zenon, <1>10, FrameReset

LEMMA ReadFailsCoheres ==
    ASSUME PoolInv, PoolInv', CacheInv, HoldersApart, NEW t \in Threads, ReadFails(t)
    PROVE  CacheInv'
<1> DEFINE f == thread[t].frame
           p == thread[t].page
<1>1. Loadable(t) /\ f \in Frames /\ p \in Pages
  BY Zenon, EvictTarget DEF ReadFails, Loadable
<1>2. /\ meta' = [meta EXCEPT ![f] = Empty] /\ thread' = [thread EXCEPT ![t] = Idle]
      /\ content' = [content EXCEPT ![f] = Zeroed] /\ flush' = [flush EXCEPT ![t] = NoFlush]
      /\ table' = Unmapped(t)
      /\ UNCHANGED <<latch, fresh, ckptState, files, wal>>
  BY Zenon DEF ReadFails
<1>3. /\ meta'[f] = Empty /\ thread'[t] = Idle /\ flush'[t] = NoFlush
      /\ Moves(t) /\ OneFlushMoves(t)
      /\ \A g \in Frames : g # f => meta'[g] = meta[g] /\ content'[g] = content[g]
  BY Zenon, <1>1, <1>2 DEF Moves, OneFlushMoves, PoolInv, PoolTypes, Procs
<1>4. table[p] = None
  BY <1>1, EvictedFacts
<1>5. /\ table'[p] = None
      /\ \A r \in Pages : r # p => table'[r] = IF r = meta[f].page THEN None ELSE table[r]
  BY Zenon, <1>1, <1>2, <1>4 DEF Unmapped
<1>6. Empty.page = None /\ ~Empty.dirty
  BY Zenon DEF Empty
<1>7. LeftEmpty(t, f, p)
  BY Zenon, <1>3, <1>5, <1>6, IdleCursor DEF LeftEmpty
<1>8. FrameIsReset(t, f, p)
  BY Zenon, <1>1, <1>2, <1>3, <1>5, <1>7, NoFlushFields DEF FrameIsReset
<1> QED
  BY <1>8, FrameReset
----------------------------------------------------------------------------
(* Records                                                                 *)

\* What a step does to the newest records: only those of page p may move on.
LogGrew(p) ==
    /\ Len(log) \in Nat /\ Len(log') \in Nat /\ Len(log) <= Len(log')
    /\ \A q \in Pages : /\ Newest(log, q) \in Nat /\ Newest(log', q) \in Nat
                        /\ Newest(log, q) <= Newest(log', q)
                        /\ q # p => Newest(log', q) = Newest(log, q)
                        /\ \A n \in 0..Len(log) : LastIn(log', q, n) = LastIn(log, q, n)
    /\ NewestIsRecord'

LEMMA LogStays ==
    ASSUME PoolInv, CacheInv, log' = log, NEW p
    PROVE  LogGrew(p)
<1>1. Len(log) \in Nat
  BY DEF PoolInv, PoolTypes
<1>2. NewestIsRecord' /\ NewestIsRecord
  BY Zenon DEF CacheInv, NewestIsRecord
<1>3. \A q \in Pages : Newest(log, q) \in Nat /\ Newest(log, q) <= Newest(log, q)
  BY <1>1, <1>2 DEF NewestIsRecord
<1> QED
  BY <1>1, <1>2, <1>3 DEF LogGrew

LEMMA LogAppends ==
    ASSUME PoolInv, CacheInv, NEW r \in LogRecords, log' = Append(log, r)
    PROVE  /\ LogGrew(r.page) /\ Len(log') = Len(log) + 1
           /\ Newest(log', r.page) = Len(log')
           /\ log'[Len(log')] = r /\ \A i \in 1..Len(log) : log'[i] = log[i]
<1>1. log \in Seq(LogRecords) /\ NewestIsRecord
  BY Zenon DEF PoolInv, PoolTypes, CacheInv
<1>2. /\ Len(log') = Len(log) + 1 /\ Len(log) \in Nat
      /\ \A i \in 1..Len(log) : log'[i] = log[i]
      /\ log'[Len(log')] = r
  BY <1>1, AppendedFacts
<1>3. Newest(log', r.page) = Len(log')
  BY Zenon, <1>1, <1>2, NewestSame
<1>4. NewestIsRecord'
  BY Zenon, <1>1, NewestIsRecordKept
<1>5. ASSUME NEW q \in Pages
      PROVE  /\ Newest(log, q) \in Nat /\ Newest(log', q) \in Nat
             /\ Newest(log, q) <= Newest(log', q)
             /\ q # r.page => Newest(log', q) = Newest(log, q)
             /\ \A n \in 0..Len(log) : LastIn(log', q, n) = LastIn(log, q, n)
  <2>1. Newest(log, q) \in 0..Len(log) /\ Newest(log', q) \in 0..Len(log')
    BY Zenon, <1>1, <1>4 DEF NewestIsRecord
  <2>2. q # r.page => Newest(log', q) = Newest(log, q)
    BY Zenon, <1>1, NewestOther
  <2>3. Newest(log, q) <= Newest(log', q)
    BY <1>2, <1>3, <2>1, <2>2
  <2>4. \A n \in 0..Len(log) : LastIn(log', q, n) = LastIn(log, q, n)
    <3> SUFFICES ASSUME NEW n \in 0..Len(log) PROVE LastIn(log', q, n) = LastIn(log, q, n)
      BY Zenon
    <3>1. n \in Nat /\ n <= Len(log)
      BY <1>2
    <3> QED
      BY Zenon, <1>1, <3>1, LastInKept
  <2> QED
    BY <1>2, <2>1, <2>2, <2>3, <2>4
<1>6. LogGrew(r.page)
  BY <1>2, <1>4, <1>5 DEF LogGrew
<1> QED
  BY Zenon, <1>2, <1>3, <1>6

LEMMA StampLogs ==
    ASSUME PoolInv, CacheInv, NEW f \in Frames, NEW p \in Pages, NEW n \in Nat,
           NEW k \in {"fpi", "update"}, Stamp(f, k, p, n)
    PROVE  /\ LogGrew(p) /\ Len(log') = Len(log) + 1
           /\ content'[f].lsn = Newest(log', p) /\ content'[f].lsn = Len(log')
           /\ \A g \in Frames : g # f => content'[g] = content[g]
           /\ log'[Len(log')].kind = k /\ log'[Len(log')].page = p
           /\ log'[Len(log')].since = IF disk[p].of # None THEN n ELSE 0
           /\ \A i \in 1..Len(log) : log'[i] = log[i]
<1> DEFINE r == [kind |-> k, page |-> p,
                 since |-> IF p # None /\ disk[p].of # None THEN n ELSE 0]
<1>1. log' = Append(log, r)
  BY Zenon DEF Stamp, AppendRecord
<1>2. r \in LogRecords /\ r.kind = k /\ r.page = p /\ r.since = IF disk[p].of # None THEN n ELSE 0
  BY Zenon, PoolAssumption DEF LogRecords, PageOrNone
<1> HIDE DEF r
<1>3. /\ LogGrew(p) /\ Len(log') = Len(log) + 1 /\ Newest(log', p) = Len(log')
      /\ log'[Len(log')] = r /\ \A i \in 1..Len(log) : log'[i] = log[i]
  BY Zenon, <1>1, <1>2, LogAppends
<1>4. content'[f].lsn = Len(log') /\ \A g \in Frames : g # f => content'[g] = content[g]
  BY Zenon, StampAppends
<1> QED
  BY Zenon, <1>2, <1>3, <1>4

\* The checkpoint and its flush look at what was logged before it began.
LEMMA LogGrewCheckpoint ==
    ASSUME PoolInv, CacheInv, NEW p, LogGrew(p), UNCHANGED <<table, flush>>,
           UNCHANGED <<ckpt, ckptLsn, redo, disk, durable, flushGen, syncedGen>>
    PROVE  CheckpointUnderWay' /\ AskedIsServed'
<1>1. /\ redo \in Nat /\ redo <= Len(log) /\ ckpt.begin \in Nat /\ ckpt.begin <= Len(log)
      /\ ckptLsn \in Nat /\ ckptLsn <= Len(log)
  BY Zenon DEF CacheInv, CheckpointUnderWay, PoolInv, PoolTypes, Ckpts
<1>2. /\ Len(log) \in Nat /\ Len(log') \in Nat /\ Len(log) <= Len(log')
      /\ \A q \in Pages : /\ Newest(log, q) \in Nat /\ Newest(log', q) \in Nat
                          /\ Newest(log, q) <= Newest(log', q)
                          /\ \A n \in 0..Len(log) : LastIn(log', q, n) = LastIn(log, q, n)
  BY Zenon DEF LogGrew
<1>3. redo \in 0..Len(log) /\ ckpt.begin \in 0..Len(log) /\ redo <= Len(log') /\ ckpt.begin <= Len(log') /\ ckptLsn <= Len(log')
  BY <1>1, <1>2
<1>4. \A q \in Pages : LastIn(log', q, redo) = LastIn(log, q, redo) /\ LastIn(log', q, ckpt.begin) = LastIn(log, q, ckpt.begin)
  BY Zenon, <1>2, <1>3
<1>5. \A q \in Pages : LastIn(log, q, ckpt.begin) \in Nat /\ LastIn(log, q, ckpt.begin) <= Newest(log, q)
  BY Zenon DEF CacheInv, CheckpointUnderWay
<1>6. \A q \in Pages : LastIn(log, q, ckpt.begin) <= Newest(log', q)
  BY <1>2, <1>5
<1>7. CheckpointUnderWay'
  BY Zenon, <1>3, <1>4, <1>6 DEF CacheInv, CheckpointUnderWay
<1>8. AskedIsServed'
  <2> SUFFICES ASSUME flush[Ckpt].pc \notin {"none", "err"} PROVE AskedIsServed'
    BY Zenon DEF AskedIsServed
  <2>1. flush[Ckpt].asked \in Pages /\ flush[Ckpt].want <= Newest(log, flush[Ckpt].asked) /\ flush[Ckpt].want \in Nat
    BY Zenon DEF CacheInv, AskedIsServed, PoolInv, PoolTypes, Flushes, Procs
  <2>2. flush[Ckpt].want <= Newest(log', flush[Ckpt].asked)
    BY <1>2, <2>1
  <2> QED
    BY Zenon, <1>4, <2>1, <2>2 DEF CacheInv, AskedIsServed, Reached
<1> QED
  BY Zenon, <1>7, <1>8

----------------------------------------------------------------------------
(* Writers                                                                 *)

\* A step of the thread t that holds or takes the content lock of f alone, and may
\* stamp a record on page p.
WriterMove(t, f, p) ==
    /\ thread[t].pc \in {"pinned", "latched", "changed"}
    /\ f = thread[t].frame /\ p = thread[t].page
    /\ Moves(t) /\ thread'[t].pc \in {"idle", "latched", "changed"}
    /\ thread'[t].pc # "idle" => thread'[t].frame = f /\ thread'[t].page = p
    /\ latch[f].writer \in {None, t}
    /\ \A g \in Frames : g # f => meta'[g] = meta[g] /\ latch'[g] = latch[g] /\ content'[g] = content[g]
    /\ latch'[f].writer = IF thread'[t].pc = "idle" THEN None ELSE t
    /\ meta'[f].page = p /\ meta'[f].needsFpi = meta[f].needsFpi /\ meta'[f].flushing = meta[f].flushing
    /\ meta'[f].dirty \/ (latch[f].writer = t /\ meta'[f] = meta[f])
    /\ LogGrew(p) /\ content'[f].lsn = Newest(log', p)
    /\ UNCHANGED <<table, allocLock, flush, ckptState, fresh, files>>

LEMMA WriterMoves ==
    ASSUME PoolInv, PoolInv', CacheInv, HoldersApart,
           NEW t \in Threads, NEW f, NEW p, WriterMove(t, f, p), GateIsPassed'
    PROVE  CacheInv'
<1>1. /\ f \in Frames /\ p \in Pages /\ thread[t].pc \in Holding /\ thread[t].frame = f
      /\ meta[f].page = p /\ table[p] = f /\ p # None /\ f # None /\ t # None
  <2>1. f \in Frames /\ p \in Pages /\ thread[t].pc \in Holding
    BY Zenon DEF WriterMove, PoolInv, TargetsExist, Holding
  <2>2. meta[f].page = p /\ p # None /\ f # None /\ t # None /\ thread[t].frame = f
    BY Zenon, <2>1, PoolAssumption DEF WriterMove, CacheInv, FramesMapped
  <2>3. table[p] = f
    BY Zenon, <2>1, <2>2 DEF CacheInv, FramesMapped
  <2> QED
    BY Zenon, <2>1, <2>2, <2>3
<1>2. /\ UNCHANGED <<table, allocLock, flush, fresh>>
      /\ UNCHANGED <<ckpt, ckptLsn, redo, disk, durable, flushGen, syncedGen>>
  BY Zenon DEF WriterMove, ckptState, files
<1>3. \A g \in Frames : g # f => meta'[g] = meta[g] /\ latch'[g] = latch[g] /\ content'[g] = content[g]
  BY Zenon DEF WriterMove
<1>4. /\ meta'[f].page = p /\ meta'[f].needsFpi = meta[f].needsFpi /\ meta'[f].flushing = meta[f].flushing
      /\ latch'[f].writer = IF thread'[t].pc = "idle" THEN None ELSE t
      /\ meta'[f].dirty \/ (latch[f].writer = t /\ meta'[f] = meta[f])
      /\ latch[f].writer \in {None, t}
  BY Zenon DEF WriterMove
<1>5. /\ Moves(t) /\ thread'[t].pc \in {"idle", "latched", "changed"}
      /\ thread'[t].pc # "idle" => thread'[t].frame = f /\ thread'[t].page = p
  BY Zenon DEF WriterMove
<1>6. LogGrew(p) /\ content'[f].lsn = Newest(log', p)
  BY Zenon DEF WriterMove
<1>7. \A u \in Threads : thread[u].pc = "evict" => thread[u].frame # f /\ thread[u].frame \in Frames
  BY Zenon, <1>1 DEF HoldersApart, PoolInv, TargetsExist
<1>8. FramesMapped'
  <2>1. \A q \in Pages : table[q] # None => table[q] \in Frames
    BY Zenon DEF PoolInv, PoolTypes, FrameOrNone
  <2>2. \A g \in Frames : meta'[g].page = meta[g].page
    BY Zenon, <1>1, <1>3, <1>4
  <2>3. \A u \in Threads : thread'[u].pc \in Holding => meta'[thread'[u].frame].page = thread'[u].page
    <3> SUFFICES ASSUME NEW u \in Threads, thread'[u].pc \in Holding
                 PROVE  meta'[thread'[u].frame].page = thread'[u].page
      BY Zenon
    <3>1. CASE u = t
      BY Zenon, <1>4, <1>5, <3>1 DEF Holding
    <3>2. CASE u # t
      <4>1. thread'[u] = thread[u] /\ thread[u].frame \in Frames
        BY Zenon, <1>5, <3>2 DEF Moves, PoolInv, TargetsExist, Holding
      <4> QED
        BY <2>2, <4>1 DEF CacheInv, FramesMapped
    <3> QED
      BY Zenon, <3>1, <3>2
  <2>4. \A u \in Threads : thread'[u].pc = "evict" => thread'[u] = thread[u]
    BY Zenon, <1>5 DEF Moves
  <2>5. \A g \in Frames : meta'[g].dirty => meta'[g].page # None
    BY <1>1, <1>3, <1>4 DEF CacheInv, FramesMapped
  <2> QED
    BY <1>2, <2>1, <2>2, <2>3, <2>4, <2>5 DEF CacheInv, FramesMapped
<1>9. FlushesApart'
  <2>1. \A x \in Procs : InFlight(x)' <=> InFlight(x)
    BY Zenon, <1>2 DEF InFlight
  <2>2. \A x \in Procs : InFlight(x) => flush[x].frame \in Frames
    BY Zenon DEF PoolInv, TargetsExist, Busy, InFlight
  <2>3. \A x \in Procs : InFlight(x)' => /\ meta'[flush'[x].frame].flushing
                                         /\ meta'[flush'[x].frame].page = flush'[x].page
    <3>1. \A g \in Frames : meta'[g].flushing = meta[g].flushing /\ meta'[g].page = meta[g].page
      BY Zenon, <1>1, <1>3, <1>4
    <3>2. \A x \in Procs : InFlight(x) => meta[flush[x].frame].flushing /\ meta[flush[x].frame].page = flush[x].page
      BY Zenon DEF CacheInv, FlushesApart
    <3> QED
      BY Zenon, <1>2, <2>1, <2>2, <3>1, <3>2
  <2>4. \A x, y \in Procs : InFlight(x)' /\ InFlight(y)' /\ flush'[x].frame = flush'[y].frame => x = y
    BY Zenon, <1>2, <2>1 DEF CacheInv, FlushesApart
  <2>5. \A u \in Threads : flush[u].pc # "none" => thread'[u] = thread[u] /\ thread[u].frame # f /\ thread[u].frame \in Frames
    BY <1>1, <1>5, <1>7 DEF Moves, PoolInv, TargetsExist, Holding
  <2>6. \A u \in Threads : flush'[u].pc \in Busy => flush'[u].frame = thread'[u].frame
    BY <1>2, <2>5 DEF CacheInv, FlushesApart, Busy
  <2>7. \A u \in Threads : flush'[u].pc = "ok" =>
          ~meta'[thread'[u].frame].dirty /\ Quiet(thread[u].frame)'
    <3> SUFFICES ASSUME NEW u \in Threads, flush[u].pc = "ok"
                 PROVE  ~meta'[thread'[u].frame].dirty /\ Quiet(thread[u].frame)'
      BY Zenon, <1>2
    <3>1. thread'[u] = thread[u] /\ meta'[thread[u].frame] = meta[thread[u].frame]
      BY Zenon, <1>3, <2>5
    <3>2. ~meta[thread[u].frame].dirty /\ Quiet(thread[u].frame)
      BY Zenon DEF CacheInv, FlushesApart
    <3>3. Quiet(thread[u].frame)'
      BY Zenon, <1>2, <2>1, <3>1, <3>2 DEF Quiet
    <3> QED
      BY Zenon, <3>1, <3>2, <3>3
  <2>8. \A g \in Frames : latch'[g].writer # None =>
          /\ thread'[latch'[g].writer].pc \in {"latched", "changed"}
          /\ thread'[latch'[g].writer].frame = g
    <3> SUFFICES ASSUME NEW g \in Frames, latch'[g].writer # None
                 PROVE  /\ thread'[latch'[g].writer].pc \in {"latched", "changed"}
                        /\ thread'[latch'[g].writer].frame = g
      BY Zenon
    <3>1. CASE g = f
      BY Zenon, <1>4, <1>5, <3>1
    <3>2. CASE g # f
      <4>1. latch'[g] = latch[g]
        BY Zenon, <1>3, <3>2
      <4>2. /\ thread[latch[g].writer].pc \in {"latched", "changed"}
            /\ thread[latch[g].writer].frame = g /\ latch[g].writer \in Threads
        BY Zenon, <4>1, WriterKnown
      <4> QED
        BY Zenon, <1>1, <1>5, <3>2, <4>1, <4>2 DEF Moves
    <3> QED
      BY Zenon, <3>1, <3>2
  <2>9. \A u \in Threads : InFlight(u)' => ~meta'[flush'[u].frame].dirty
    <3> SUFFICES ASSUME NEW u \in Threads, InFlight(u) PROVE ~meta'[flush[u].frame].dirty
      BY Zenon, <1>2, <2>1 DEF Procs
    <3>1. flush[u].pc # "none" /\ flush[u].pc \in Busy
      BY Zenon DEF InFlight, Busy
    <3>2. flush[u].frame # f /\ flush[u].frame \in Frames /\ ~meta[flush[u].frame].dirty
      BY Zenon, <2>5, <3>1 DEF CacheInv, FlushesApart
    <3> QED
      BY Zenon, <1>3, <3>2
  <2> QED
    BY Zenon, <2>3, <2>4, <2>6, <2>7, <2>8, <2>9 DEF FlushesApart
<1>10. FilesLag'
  <2>1. \A q \in Pages : /\ disk[q].lsn \in Nat /\ Newest(log, q) \in Nat /\ Newest(log', q) \in Nat
                         /\ Newest(log, q) <= Newest(log', q)
    BY Zenon, <1>6 DEF LogGrew, PoolInv, PoolTypes, Images
  <2>2. \A q \in Pages : durable[q].lsn <= disk[q].lsn /\ disk[q].lsn <= Newest(log, q)
    BY Zenon DEF CacheInv, FilesLag
  <2>3. \A q \in Pages : disk[q].lsn <= Newest(log', q)
    BY <2>1, <2>2
  <2> QED
    BY Zenon, <1>2, <2>2, <2>3 DEF CacheInv, FilesLag
<1>11. MemoryCurrent'
  <2>1. \A q \in Pages : q # p => Newest(log', q) = Newest(log, q)
    BY Zenon, <1>6 DEF LogGrew
  <2>2. \A g \in Frames : meta'[g].page # None => content'[g].lsn = Newest(log', meta'[g].page)
    <3> SUFFICES ASSUME NEW g \in Frames, meta'[g].page # None
                 PROVE  content'[g].lsn = Newest(log', meta'[g].page)
      BY Zenon
    <3>1. CASE g = f
      BY Zenon, <1>4, <1>6, <3>1
    <3>2. CASE g # f
      <4>1. meta'[g] = meta[g] /\ content'[g] = content[g] /\ content[g].lsn = Newest(log, meta[g].page)
        BY Zenon, <1>3, <3>2 DEF CacheInv, MemoryCurrent
      <4>2. meta[g].page \in Pages /\ meta[g].page # p
        BY <1>1, <3>2, <4>1 DEF CacheInv, FramesMapped, PoolInv, PoolTypes, Metas, PageOrNone
      <4> QED
        BY Zenon, <2>1, <4>1, <4>2
    <3> QED
      BY Zenon, <3>1, <3>2
  <2>3. \A q \in Pages : table[q] = None => q # p
    BY Zenon, <1>1
  <2>4. \A q \in Pages : table'[q] = None => durable'[q].lsn = Newest(log', q)
    BY Zenon, <1>2, <2>1, <2>3 DEF CacheInv, MemoryCurrent
  <2>5. \A q \in Pages : q # p /\ Untouched(q) => Untouched(q)'
    BY Zenon, <1>2, <2>1 DEF Untouched
  <2>6. \A q \in fresh' : Untouched(q)'
    BY Zenon, <1>2, <2>3, <2>5 DEF CacheInv, FramesMapped, MemoryCurrent
  <2>7. \A u \in Threads : thread'[u].pc = "evict" /\ thread'[u].new => Untouched(thread[u].page)'
    <3> SUFFICES ASSUME NEW u \in Threads, thread'[u].pc = "evict", thread'[u].new
                 PROVE  Newest(log', thread'[u].page) = 0 /\ disk'[thread'[u].page].of = None
      BY Zenon DEF Untouched
    <3>1. thread'[u] = thread[u]
      BY Zenon, <1>5 DEF Moves
    <3>2. thread[u].page \in Pages /\ thread[u].page # p /\ Untouched(thread[u].page)
      BY Zenon, <2>3, <3>1 DEF CacheInv, FramesMapped, MemoryCurrent, PoolInv, TargetsExist
    <3> QED
      BY Zenon, <1>2, <2>1, <3>1, <3>2 DEF Untouched
  <2> QED
    BY Zenon, <2>2, <2>4, <2>6, <2>7 DEF MemoryCurrent
<1>12. CleanIsDurable'
  <2>1. latch[f].writer = t =>
          meta[f].dirty \/ \E x \in Procs : flush[x].pc = "latch" /\ flush[x].frame = f
    BY Zenon, <1>1 DEF CacheInv, CleanIsDurable
  <2>2. \A g \in Frames : latch'[g].writer # None =>
         meta'[g].dirty \/ \E x \in Procs : flush'[x].pc = "latch" /\ flush'[x].frame = g
    BY Zenon, <1>2, <1>3, <1>4, <2>1 DEF CacheInv, CleanIsDurable
  <2>3. \A x \in Procs : flush[x].pc \in {"cover", "sync", "finish"} /\ flush[x].frame = f => meta'[f].dirty
    BY <1>4, <2>1 DEF CacheInv, FlushesApart, InFlight
  <2>4. \A g \in Frames : Quiet(g)' <=> Quiet(g)
    BY Zenon, <1>2 DEF Quiet, InFlight
  <2>5. Quiet(f) => meta'[f].dirty
    BY Zenon, <1>4, <2>1 DEF Quiet, InFlight
  <2>6. \A g \in Frames : meta'[g].page # None /\ ~meta'[g].dirty /\ Quiet(g)' =>
         durable'[meta'[g].page].lsn = content'[g].lsn
    <3> SUFFICES ASSUME NEW g \in Frames, meta'[g].page # None, ~meta'[g].dirty, Quiet(g)'
                 PROVE  durable'[meta'[g].page].lsn = content'[g].lsn
      BY Zenon
    <3>1. Quiet(g) /\ g # f
      BY Zenon, <2>4, <2>5
    <3>2. meta'[g] = meta[g] /\ content'[g] = content[g]
      BY Zenon, <1>3, <3>1
    <3>3. durable[meta[g].page].lsn = content[g].lsn
      BY Zenon, <3>1, <3>2 DEF CacheInv, CleanIsDurable
    <3> QED
      BY Zenon, <1>2, <3>2, <3>3
  <2>7. \A x \in Procs : flush[x].pc \in {"cover", "sync", "finish"} => flush[x].frame \in Frames
    BY Zenon DEF PoolInv, TargetsExist, Busy
  <2>8. \A x \in Procs : flush'[x].pc \in {"cover", "sync", "finish"} /\ ~meta'[flush'[x].frame].dirty =>
         disk'[flush'[x].page].lsn = content'[flush'[x].frame].lsn
    <3> SUFFICES ASSUME NEW x \in Procs, flush'[x].pc \in {"cover", "sync", "finish"},
                        ~meta'[flush'[x].frame].dirty
                 PROVE  disk'[flush'[x].page].lsn = content'[flush'[x].frame].lsn
      BY Zenon
    <3> DEFINE g == flush[x].frame
    <3>1. flush' = flush /\ disk' = disk
      BY Zenon, <1>2
    <3>2. flush[x].pc \in {"cover", "sync", "finish"} /\ ~meta'[g].dirty
      BY Zenon, <3>1
    <3>3. g \in Frames /\ g # f
      BY Zenon, <2>3, <2>7, <3>2
    <3>4. meta'[g] = meta[g] /\ content'[g] = content[g]
      BY Zenon, <1>3, <3>3
    <3>5. disk[flush[x].page].lsn = content[g].lsn
      BY Zenon, <3>2, <3>4 DEF CacheInv, CleanIsDurable
    <3> QED
      BY Zenon, <3>1, <3>4, <3>5
  <2> QED
    BY Zenon, <2>2, <2>6, <2>8 DEF CleanIsDurable
<1>13. Generations'
  BY Zenon, <1>2 DEF CacheInv, Generations
<1>14. CheckpointUnderWay' /\ AskedIsServed'
  BY Zenon, <1>2, <1>6, LogGrewCheckpoint
<1> QED
  BY Zenon, <1>6, <1>8, <1>9, <1>10, <1>11, <1>12, <1>13, <1>14 DEF CacheInv, LogGrew

\* The gate of the other threads stays passed: the page only gets newer.
LEMMA WriterGate ==
    ASSUME PoolInv, CacheInv, NEW t \in Threads, NEW f \in Frames, NEW p \in Pages,
           WriterMove(t, f, p), FpiBeforeChange',
           thread'[t].pc = "latched" /\ thread'[t].gate # 0 /\ disk[p].of # None =>
             thread'[t].gate <= content'[f].lsn
    PROVE  GateIsPassed'
<1>1. /\ \A g \in Frames : g # f => meta'[g] = meta[g] /\ content'[g] = content[g]
      /\ meta'[f].page = p /\ meta'[f].needsFpi = meta[f].needsFpi
      /\ Moves(t) /\ thread'[t].pc \in {"idle", "latched", "changed"}
      /\ thread'[t].pc # "idle" => thread'[t].frame = f /\ thread'[t].page = p
      /\ LogGrew(p) /\ content'[f].lsn = Newest(log', p)
  BY Zenon DEF WriterMove
<1>2. UNCHANGED disk
  BY Zenon DEF WriterMove, files
<1>3. meta[f].page = p /\ p # None
  BY Zenon, PoolAssumption DEF WriterMove, CacheInv, FramesMapped, Holding
<1>4. \A g \in Frames : meta'[g].page # None /\ ~meta'[g].needsFpi => disk'[meta'[g].page].of = None
  BY Zenon, <1>1, <1>2, <1>3 DEF CacheInv, GateIsPassed
<1>5. content[f].lsn \in Nat /\ content[f].lsn <= content'[f].lsn /\ content'[f].lsn \in Nat
  BY Zenon, <1>1, <1>3 DEF CacheInv, MemoryCurrent, LogGrew
<1>6. ASSUME NEW u \in Threads, thread'[u].pc = "latched", thread'[u].gate # 0,
             disk'[thread'[u].page].of # None
      PROVE  thread'[u].gate <= content'[thread'[u].frame].lsn
  <2>1. CASE u = t
    BY Zenon, <1>1, <1>2, <1>6, <2>1
  <2>2. CASE u # t
    <3>1. thread'[u] = thread[u] /\ thread[u].frame \in Frames /\ thread[u].gate \in Nat
      BY Zenon, <1>1, <1>6, <2>2, EvictTarget DEF Moves, Cursors
    <3>2. thread[u].gate <= content[thread[u].frame].lsn
      BY Zenon, <1>2, <1>6, <3>1 DEF CacheInv, GateIsPassed
    <3> QED
      BY <1>1, <1>5, <3>1, <3>2
  <2> QED
    BY Zenon, <2>1, <2>2
<1> QED
  BY Zenon, <1>4, <1>6 DEF GateIsPassed

\* Only a record of a change adds to what the gate promises of the log.
LEMMA FpiKept ==
    ASSUME PoolInv, CacheInv, Len(log') = Len(log) + 1,
           \A i \in 1..Len(log) : log'[i] = log[i],
           log' \in Seq(LogRecords),
           log'[Len(log')].kind = "update" /\ log'[Len(log')].since # 0 =>
             \E j \in log'[Len(log')].since..Len(log) : log[j].page = log'[Len(log')].page
    PROVE  FpiBeforeChange'
<1>1. Len(log) \in Nat /\ DOMAIN log = 1..Len(log) /\ DOMAIN log' = 1..(Len(log) + 1)
  BY DEF PoolInv, PoolTypes
<1> SUFFICES ASSUME NEW i \in DOMAIN log', log'[i].kind = "update", log'[i].since # 0
             PROVE  \E j \in log'[i].since..(i - 1) : log'[j].page = log'[i].page
  BY Zenon DEF FpiBeforeChange
<1>2. log'[i].since \in Nat \ {0}
  <2>1. log'[i] \in LogRecords
    BY <1>1
  <2> QED
    BY Zenon, <2>1 DEF LogRecords
<1>3. CASE i \in 1..Len(log)
  <2>1. log'[i] = log[i]
    BY Zenon, <1>3
  <2>2. PICK j \in log[i].since..(i - 1) : log[j].page = log[i].page
    BY Zenon, <1>1, <1>3, <2>1 DEF CacheInv, GateIsPassed, FpiBeforeChange
  <2>3. j \in 1..Len(log) /\ j \in log'[i].since..(i - 1)
    BY <1>1, <1>2, <1>3, <2>1
  <2> QED
    BY Zenon, <2>1, <2>2, <2>3
<1>4. CASE i = Len(log')
  <2>1. PICK j \in log'[i].since..Len(log) : log[j].page = log'[i].page
    BY Zenon, <1>4
  <2>2. j \in 1..Len(log) /\ j \in log'[i].since..(i - 1)
    BY <1>1, <1>2, <1>4, <2>1
  <2> QED
    BY Zenon, <2>1, <2>2
<1> QED
  BY <1>1, <1>3, <1>4

LEMMA GatedFields ==
    ASSUME NEW c \in Cursors, NEW n \in Nat
    PROVE  /\ Gated(c, n).pc = "latched" /\ Gated(c, n).gate = n
           /\ Gated(c, n).frame = c.frame /\ Gated(c, n).page = c.page
BY Zenon DEF Cursors, Gated

LEMMA PinMutCoheres ==
    ASSUME PoolInv, PoolInv', CacheInv, HoldersApart, NEW t \in Threads, PinMut(t)
    PROVE  CacheInv'
<1> DEFINE f == thread[t].frame
           p == thread[t].page
           n == IF thread[t].new THEN 0 ELSE ckptLsn
           c == Gated(thread[t], n)
           m == WithDirty(meta[f], TRUE)
           l == WriterSet(latch[f], t)
<1>1. /\ thread[t].pc = "pinned" /\ latch[f] = Unlatched /\ ckptLsn \in Nat /\ n \in Nat
      /\ f \in Frames /\ p \in Pages /\ thread[t] \in Cursors
      /\ meta[f] \in Metas /\ latch[f] \in Latches
  BY Zenon, EvictTarget DEF PinMut, PoolInv, PoolTypes
<1>2. c.pc = "latched" /\ c.frame = f /\ c.page = p /\ c.gate = n
  BY Zenon, <1>1, GatedFields
<1>3. m.dirty /\ m.page = meta[f].page /\ m.needsFpi = meta[f].needsFpi /\ m.flushing = meta[f].flushing
  BY Zenon, <1>1, WithDirtyFields
<1>4. l.writer = t /\ latch[f].writer = None
  <2>1. t \in Threads \cup {None}
    BY Zenon
  <2>2. latch[f].writer = None
    BY <1>1 DEF Unlatched
  <2> QED
    BY Zenon, <1>1, <2>1, <2>2, WriterFields
<1>5. /\ thread' = [thread EXCEPT ![t] = c] /\ latch' = [latch EXCEPT ![f] = l]
      /\ meta' = [meta EXCEPT ![f] = m]
      /\ UNCHANGED <<table, allocLock, flush, ckptState, fresh, files>>
  BY Zenon DEF PinMut, Gated, WriterSet, WithDirty
<1>6. IF ~thread[t].new /\ FpiDue(f) THEN Stamp(f, "fpi", p, ckptLsn) ELSE UNCHANGED <<log, content>>
  BY Zenon DEF PinMut
<1>7. meta[f].page = p /\ p # None /\ t # None /\ content[f].lsn = Newest(log, p)
  <2>1. meta[f].page = p /\ p # None /\ t # None
    BY Zenon, <1>1, PoolAssumption DEF CacheInv, FramesMapped, Holding
  <2> QED
    BY Zenon, <1>1, <2>1 DEF CacheInv, MemoryCurrent
<1> HIDE DEF c, m, l, n
<1>8. /\ thread'[t] = c /\ Moves(t) /\ latch'[f] = l /\ meta'[f] = m
      /\ \A g \in Frames : g # f => meta'[g] = meta[g] /\ latch'[g] = latch[g]
  BY Zenon, <1>1, <1>5 DEF PoolInv, PoolTypes, Moves
<1> HIDE DEF f, p
<1>9. /\ LogGrew(p) /\ content'[f].lsn = Newest(log', p)
      /\ \A g \in Frames : g # f => content'[g] = content[g]
      /\ FpiBeforeChange'
      /\ ~thread[t].new /\ FpiDue(f) => content'[f].lsn = Len(log') /\ Len(log') = Len(log) + 1
      /\ ~(~thread[t].new /\ FpiDue(f)) => content' = content
  <2>1. CASE ~thread[t].new /\ FpiDue(f)
    <3>1. Stamp(f, "fpi", p, ckptLsn)
      BY Zenon, <1>6, <2>1
    <3>2. /\ LogGrew(p) /\ Len(log') = Len(log) + 1
          /\ content'[f].lsn = Newest(log', p) /\ content'[f].lsn = Len(log')
          /\ \A g \in Frames : g # f => content'[g] = content[g]
          /\ log'[Len(log')].kind = "fpi" /\ \A i \in 1..Len(log) : log'[i] = log[i]
      BY Zenon, <1>1, <3>1, StampLogs
    <3>3. FpiBeforeChange'
      BY Zenon, <3>2, FpiKept DEF PoolInv, PoolTypes
    <3> QED
      BY Zenon, <2>1, <3>2, <3>3
  <2>2. CASE ~(~thread[t].new /\ FpiDue(f))
    <3>1. log' = log /\ content' = content
      BY Zenon, <1>6, <2>2
    <3>2. FpiBeforeChange'
      BY Zenon, <3>1 DEF CacheInv, GateIsPassed, FpiBeforeChange
    <3> QED
      BY Zenon, <1>7, <2>2, <3>1, <3>2, LogStays
  <2> QED
    BY Zenon, <2>1, <2>2
<1>10. n # 0 /\ disk[p].of # None => n <= content'[f].lsn
  <2> SUFFICES ASSUME n # 0, disk[p].of # None PROVE n <= content'[f].lsn
    BY Zenon
  <2>1. ~thread[t].new /\ n = ckptLsn /\ meta[f].needsFpi /\ content[f].lsn \in Nat
        /\ ckptLsn <= Len(log) /\ Len(log) \in Nat
    <3>1. ~thread[t].new /\ n = ckptLsn
      BY Zenon DEF n
    <3>2. meta[f].needsFpi
      BY Zenon, <1>1, <1>7 DEF CacheInv, GateIsPassed
    <3>3. content[f].lsn \in Nat /\ Len(log) \in Nat
      <4>1. content[f] \in Images /\ log \in Seq(LogRecords)
        BY Zenon, <1>1 DEF PoolInv, PoolTypes
      <4> QED
        BY <4>1 DEF Images
    <3>4. ckptLsn <= Len(log)
      BY Zenon DEF CacheInv, CheckpointUnderWay
    <3> QED
      BY Zenon, <3>1, <3>2, <3>3, <3>4
  <2>2. CASE FpiDue(f)
    <3>1. content'[f].lsn = Len(log) + 1
      BY Zenon, <1>9, <2>1, <2>2
    <3> QED
      BY <1>1, <2>1, <3>1
  <2>3. CASE ~FpiDue(f)
    BY <1>1, <1>9, <2>1, <2>3 DEF FpiDue
  <2> QED
    BY Zenon, <2>2, <2>3
<1>11. WriterMove(t, f, p)
  <2>1. /\ meta'[f].dirty /\ meta'[f].page = p /\ meta'[f].needsFpi = meta[f].needsFpi
        /\ meta'[f].flushing = meta[f].flushing /\ latch'[f].writer = t
        /\ thread'[t].pc = "latched" /\ thread'[t].frame = f /\ thread'[t].page = p
    BY Zenon, <1>2, <1>3, <1>4, <1>7, <1>8
  <2> QED
    BY Zenon, <1>1, <1>4, <1>5, <1>7, <1>8, <1>9, <2>1 DEF WriterMove, f, p
<1>12. GateIsPassed'
  BY Zenon, <1>1, <1>2, <1>8, <1>9, <1>10, <1>11, WriterGate
<1> QED
  BY Zenon, <1>11, <1>12, WriterMoves

LEMMA ModifyCoheres ==
    ASSUME PoolInv, PoolInv', CacheInv, HoldersApart, NEW t \in Threads, Modify(t)
    PROVE  CacheInv'
<1> DEFINE f == thread[t].frame
           p == thread[t].page
           c == ThreadAt(thread[t], "changed")
<1>1. /\ thread[t].pc = "latched" /\ "changed" \in ThreadSteps /\ thread[t].gate \in Nat
      /\ f \in Frames /\ p \in Pages /\ thread[t] \in Cursors
  BY Zenon, EvictTarget DEF Modify, ThreadSteps, Cursors
<1>2. c.pc = "changed" /\ c.frame = f /\ c.page = p
  BY Zenon, <1>1, CursorFields
<1>3. latch[f].writer = t
  BY Zenon, <1>1 DEF PoolInv, LatchesExclude
<1>4. /\ thread' = [thread EXCEPT ![t] = c]
      /\ UNCHANGED <<latch, meta, table, allocLock, flush, ckptState, fresh, files>>
  BY Zenon DEF Modify, Goto, ThreadAt
<1>5. Stamp(f, "update", p, thread[t].gate)
  BY Zenon DEF Modify
<1>6. meta[f].page = p /\ p # None /\ t # None /\ content[f].lsn = Newest(log, p)
  <2>1. meta[f].page = p /\ p # None /\ t # None
    BY Zenon, <1>1, PoolAssumption DEF CacheInv, FramesMapped, Holding
  <2> QED
    BY Zenon, <1>1, <2>1 DEF CacheInv, MemoryCurrent
<1>7. disk[p].of # None /\ thread[t].gate # 0 => thread[t].gate <= content[f].lsn
  BY Zenon, <1>1 DEF CacheInv, GateIsPassed
<1> HIDE DEF c
<1>8. thread'[t] = c /\ Moves(t)
  BY Zenon, <1>1, <1>4 DEF PoolInv, PoolTypes, Moves
<1> HIDE DEF f, p
<1>9. /\ LogGrew(p) /\ Len(log') = Len(log) + 1
      /\ content'[f].lsn = Newest(log', p) /\ content'[f].lsn = Len(log')
      /\ \A g \in Frames : g # f => content'[g] = content[g]
      /\ log'[Len(log')].kind = "update" /\ log'[Len(log')].page = p
      /\ log'[Len(log')].since = IF disk[p].of # None THEN thread[t].gate ELSE 0
      /\ \A i \in 1..Len(log) : log'[i] = log[i]
  BY Zenon, <1>1, <1>5, StampLogs
<1>10. FpiBeforeChange'
  <2>1. log'[Len(log')].since # 0 =>
          \E j \in log'[Len(log')].since..Len(log) : log[j].page = log'[Len(log')].page
    <3> SUFFICES ASSUME log'[Len(log')].since # 0
                 PROVE  \E j \in log'[Len(log')].since..Len(log) : log[j].page = p
      BY Zenon, <1>9
    <3>1. log'[Len(log')].since = thread[t].gate /\ thread[t].gate # 0 /\ thread[t].gate <= Newest(log, p)
      BY Zenon, <1>6, <1>7, <1>9
    <3>2. Newest(log, p) \in 0..Len(log) /\ (Newest(log, p) # 0 => log[Newest(log, p)].page = p)
      BY Zenon, <1>1 DEF CacheInv, NewestIsRecord
    <3>3. Newest(log, p) \in log'[Len(log')].since..Len(log) /\ Newest(log, p) # 0
      BY <1>1, <3>1, <3>2
    <3> QED
      BY Zenon, <3>2, <3>3
  <2>2. log' \in Seq(LogRecords)
    BY Zenon DEF PoolInv, PoolTypes
  <2> QED
    BY Zenon, <1>9, <2>1, <2>2, FpiKept
<1>11. WriterMove(t, f, p)
  <2>1. meta'[f] = meta[f] /\ latch'[f] = latch[f]
        /\ \A g \in Frames : g # f => meta'[g] = meta[g] /\ latch'[g] = latch[g]
    BY Zenon, <1>4
  <2> QED
    BY Zenon, <1>1, <1>2, <1>3, <1>4, <1>6, <1>8, <1>9, <2>1 DEF WriterMove, f, p
<1>12. GateIsPassed'
  BY Zenon, <1>1, <1>2, <1>8, <1>10, <1>11, WriterGate
<1> QED
  BY Zenon, <1>11, <1>12, WriterMoves

LEMMA DropMutCoheres ==
    ASSUME PoolInv, PoolInv', CacheInv, HoldersApart, NEW t \in Threads, DropMut(t)
    PROVE  CacheInv'
<1> DEFINE f == thread[t].frame
           p == thread[t].page
           d == WithDirty(meta[f], TRUE)
           m == WithPins(d, d.pins - 1)
           l == WriterSet(latch[f], None)
<1>1. /\ thread[t].pc \in {"latched", "changed"}
      /\ f \in Frames /\ p \in Pages /\ meta[f] \in Metas /\ latch[f] \in Latches
  BY Zenon, EvictTarget DEF DropMut
<1>2. m.dirty /\ m.page = meta[f].page /\ m.needsFpi = meta[f].needsFpi /\ m.flushing = meta[f].flushing
  <2>1. /\ d \in Metas /\ d.dirty /\ d.page = meta[f].page /\ d.needsFpi = meta[f].needsFpi
        /\ d.flushing = meta[f].flushing
    BY Zenon, <1>1, WithDirtyFields
  <2> HIDE DEF d
  <2>2. d.pins - 1 \in Int
    BY <2>1 DEF Metas
  <2> QED
    BY Zenon, <2>1, <2>2, WithPinsFields
<1>3. l.writer = None
  BY Zenon, <1>1, WriterFields
<1>4. latch[f].writer = t
  BY Zenon, <1>1 DEF PoolInv, LatchesExclude
<1>5. /\ thread' = [thread EXCEPT ![t] = Idle] /\ latch' = [latch EXCEPT ![f] = l]
      /\ log' = log /\ content' = content
      /\ UNCHANGED <<table, allocLock, flush, ckptState, fresh, files>>
  BY Zenon DEF DropMut, WriterSet, wal
<1>6. meta' = [meta EXCEPT ![f] = m]
  <2> DEFINE e == [[meta[f] EXCEPT !.dirty = TRUE] EXCEPT !.pins = @ - 1]
  <2> HIDE DEF m, l, d
  <2>1. meta' = [meta EXCEPT ![f] = e]
    BY <1>1, Zenon DEF DropMut
  <2>2. e = m
    BY Zenon DEF WithPins, WithDirty, m, d
  <2> QED
    BY Zenon, <2>1, <2>2
<1>7. meta[f].page = p /\ p # None /\ t # None /\ content[f].lsn = Newest(log, p)
  <2>1. meta[f].page = p /\ p # None /\ t # None
    BY Zenon, <1>1, PoolAssumption DEF CacheInv, FramesMapped, Holding
  <2> QED
    BY Zenon, <1>1, <2>1 DEF CacheInv, MemoryCurrent
<1> HIDE DEF m, l, d
<1>8. /\ thread'[t] = Idle /\ Moves(t) /\ latch'[f] = l /\ meta'[f] = m
      /\ \A g \in Frames : g # f => meta'[g] = meta[g] /\ latch'[g] = latch[g]
  BY Zenon, <1>1, <1>5, <1>6 DEF PoolInv, PoolTypes, Moves
<1> HIDE DEF f, p
<1>9. LogGrew(p) /\ FpiBeforeChange' /\ thread'[t].pc = "idle"
  BY Zenon, <1>5, <1>8, LogStays, IdleCursor DEF CacheInv, GateIsPassed, FpiBeforeChange
<1>10. WriterMove(t, f, p)
  <2>1. /\ meta'[f].dirty /\ meta'[f].page = p /\ meta'[f].needsFpi = meta[f].needsFpi
        /\ meta'[f].flushing = meta[f].flushing /\ latch'[f].writer = None
        /\ content'[f].lsn = Newest(log', p)
    BY Zenon, <1>2, <1>3, <1>5, <1>7, <1>8
  <2>2. \A g \in Frames : g # f => meta'[g] = meta[g] /\ latch'[g] = latch[g] /\ content'[g] = content[g]
    BY Zenon, <1>5, <1>8
  <2>3. thread[t].pc \in {"pinned", "latched", "changed"} /\ f = thread[t].frame /\ p = thread[t].page
    BY Zenon, <1>1 DEF f, p
  <2> QED
    BY <1>4, <1>5, <1>8, <1>9, <2>1, <2>2, <2>3 DEF WriterMove
<1>11. GateIsPassed'
  BY Zenon, <1>1, <1>9, <1>10, WriterGate
<1> QED
  BY Zenon, <1>10, <1>11, WriterMoves
=============================================================================
