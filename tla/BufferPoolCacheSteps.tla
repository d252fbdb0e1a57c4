------------------------ MODULE BufferPoolCacheSteps ------------------------
(***************************************************************************)
(* The steps of flush_frame and of the checkpoint keep the invariant of    *)
(* the cache, and with the others so does every step.                      *)
(***************************************************************************)
EXTENDS BufferPoolCacheInv

----------------------------------------------------------------------------
(* flush_frame                                                             *)

\* A step of the flush x of frame f, which is the only one in flight there, to d.
AtSea == {"latch", "write", "cover", "sync", "finish"}
FlushShift(x, f, d) ==
    /\ flush[x].pc \in Busy /\ f = flush[x].frame
    /\ flush'[x] = d /\ OneFlushMoves(x)
    /\ d.pc \in AtSea \cup {"ok", "err"}
    /\ d.asked = flush[x].asked /\ d.want = flush[x].want
    /\ d.pc \in AtSea => /\ d.frame = f /\ d.page = meta[f].page /\ meta'[f].flushing
                         /\ x \in Threads => ~meta'[f].dirty
    /\ d.pc = "ok" /\ x \in Threads => ~meta'[f].dirty
    /\ flush[x].pc = "claim" /\ ~meta[f].dirty => d.pc \notin AtSea /\ ~meta'[f].dirty
    /\ \A y \in Procs : y # x /\ InFlight(y) => flush[y].frame # f
    /\ \A g \in Frames : g # f => meta'[g] = meta[g]
    /\ meta'[f].page = meta[f].page /\ (meta'[f].dirty => meta[f].page # None)
    /\ \A g \in Frames : latch'[g].writer = latch[g].writer
    /\ UNCHANGED <<content, table, allocLock, thread, ckptState, fresh, log>>

\* The files only get newer, and only where a page is in the pool.
FilesGrow ==
    /\ durable' \in [Pages -> Images]
    /\ \A q \in Pages : /\ durable[q].lsn <= durable'[q].lsn /\ disk[q].lsn <= disk'[q].lsn
                        /\ durable'[q].lsn <= disk'[q].lsn /\ disk'[q].lsn <= Newest(log, q)
                        /\ table[q] = None => disk'[q] = disk[q]

LEMMA FlushShiftsFrames ==
    ASSUME PoolInv, PoolInv', CacheInv, NEW x \in Procs, NEW f, NEW d, FlushShift(x, f, d)
    PROVE  FramesMapped' /\ FlushesApart'
<1>1. /\ flush[x].pc \in Busy /\ f = flush[x].frame /\ f \in Frames
      /\ flush'[x] = d /\ OneFlushMoves(x)
      /\ d.pc \in AtSea \cup {"ok", "err"}
      /\ d.pc \in AtSea => /\ d.frame = f /\ d.page = meta[f].page /\ meta'[f].flushing
                           /\ x \in Threads => ~meta'[f].dirty
      /\ d.pc = "ok" /\ x \in Threads => ~meta'[f].dirty
      /\ flush[x].pc = "claim" /\ ~meta[f].dirty => d.pc \notin AtSea /\ ~meta'[f].dirty
  BY Zenon DEF FlushShift, PoolInv, TargetsExist
<1>2. /\ \A y \in Procs : y # x /\ InFlight(y) => flush[y].frame # f
      /\ \A g \in Frames : g # f => meta'[g] = meta[g]
      /\ meta'[f].page = meta[f].page /\ (meta'[f].dirty => meta[f].page # None)
      /\ \A g \in Frames : latch'[g].writer = latch[g].writer
      /\ UNCHANGED <<table, allocLock, thread, fresh>>
  BY Zenon DEF FlushShift
<1>3. \A g \in Frames : meta'[g].page = meta[g].page
  BY Zenon, <1>2
<1>4. FramesMapped'
  <2>1. \A p \in Pages : table[p] # None => table[p] \in Frames
    BY Zenon DEF PoolInv, PoolTypes, FrameOrNone
  <2>2. \A u \in Threads : thread[u].pc \in Holding => thread[u].frame \in Frames
    BY Zenon DEF PoolInv, TargetsExist, Holding
  <2>3. \A g \in Frames : meta'[g].dirty => meta'[g].page # None
    BY Zenon, <1>2, <1>3 DEF CacheInv, FramesMapped
  <2> QED
    BY Zenon, <1>2, <1>3, <2>1, <2>2, <2>3 DEF CacheInv, FramesMapped
<1>5. FlushesApart'
  <2>1. \A y \in Procs : y # x /\ InFlight(y)' =>
          flush'[y] = flush[y] /\ InFlight(y) /\ flush[y].frame # f /\ flush[y].frame \in Frames
    BY Zenon, <1>1, <1>2 DEF OneFlushMoves, InFlight, PoolInv, TargetsExist, Busy
  <2>2. InFlight(x)' => d.frame = f /\ d.page = meta[f].page /\ meta'[f].flushing
    BY Zenon, <1>1 DEF InFlight, AtSea
  <2>3. \A y \in Procs : InFlight(y)' => /\ meta'[flush'[y].frame].flushing
                                         /\ meta'[flush'[y].frame].page = flush'[y].page
    <3> SUFFICES ASSUME NEW y \in Procs, InFlight(y)'
                 PROVE  meta'[flush'[y].frame].flushing /\ meta'[flush'[y].frame].page = flush'[y].page
      BY Zenon
    <3>1. CASE y = x
      BY Zenon, <1>1, <1>2, <2>2, <3>1
    <3>2. CASE y # x
      BY <1>2, <2>1, <3>2 DEF CacheInv, FlushesApart
    <3> QED
      BY Zenon, <3>1, <3>2
  <2>4. \A y, z \in Procs : InFlight(y)' /\ InFlight(z)' /\ flush'[y].frame = flush'[z].frame => y = z
    BY <1>1, <2>1, <2>2 DEF CacheInv, FlushesApart
  <2>5. \A u \in Threads : flush'[u].pc \in Busy => flush'[u].frame = thread'[u].frame
    <3> SUFFICES ASSUME NEW u \in Threads, flush'[u].pc \in Busy
                 PROVE  flush'[u].frame = thread[u].frame
      BY Zenon, <1>2
    <3>1. CASE u = x
      BY Zenon, <1>1, <3>1 DEF AtSea, Busy, CacheInv, FlushesApart
    <3>2. CASE u # x
      BY Zenon, <1>1, <3>2 DEF OneFlushMoves, Procs, CacheInv, FlushesApart
    <3> QED
      BY Zenon, <3>1, <3>2
  <2>6. \A u \in Threads : flush'[u].pc = "ok" =>
          ~meta'[thread'[u].frame].dirty /\ Quiet(thread[u].frame)'
    <3> SUFFICES ASSUME NEW u \in Threads, flush'[u].pc = "ok",
                        NEW g, g = thread[u].frame
                 PROVE  ~meta'[g].dirty /\ Quiet(g)'
      BY Zenon, <1>2
    <3>1. CASE u = x
      <4>1. g = f
        BY Zenon, <1>1, <3>1 DEF CacheInv, FlushesApart
      <4>2. ~InFlight(x)'
        BY Zenon, <1>1, <3>1 DEF InFlight
      <4>3. Quiet(g)'
        BY Zenon, <2>1, <4>1, <4>2 DEF Quiet
      <4> QED
        BY Zenon, <1>1, <3>1, <4>1, <4>3
    <3>2. CASE u # x
      <4>1. flush[u].pc = "ok" /\ u \in Procs
        BY Zenon, <1>1, <3>2 DEF OneFlushMoves, Procs
      <4>2. ~meta[g].dirty /\ Quiet(g) /\ g \in Frames
        <5>1. thread[u].pc # "idle"
          BY Zenon, <4>1 DEF PoolInv, TargetsExist
        <5> QED
          BY Zenon, <4>1, <5>1 DEF CacheInv, FlushesApart, PoolInv, TargetsExist
      <4>3. CASE g # f
        <5>1. Quiet(g)'
          BY Zenon, <2>1, <2>2, <4>2, <4>3, <1>1 DEF Quiet
        <5> QED
          BY Zenon, <1>2, <4>2, <4>3, <5>1
      <4>4. CASE g = f
        <5>1. flush[x].pc = "claim"
          BY Zenon, <1>1, <4>2, <4>4 DEF Quiet, InFlight, Busy
        <5>2. d.pc \notin AtSea /\ ~meta'[f].dirty
          BY Zenon, <1>1, <4>2, <4>4, <5>1
        <5>3. ~InFlight(x)'
          BY Zenon, <1>1, <5>2 DEF InFlight, AtSea
        <5>4. Quiet(g)'
          BY Zenon, <2>1, <4>4, <5>3 DEF Quiet
        <5> QED
          BY Zenon, <4>4, <5>2, <5>4
      <4> QED
        BY Zenon, <4>3, <4>4
    <3> QED
      BY Zenon, <3>1, <3>2
  <2>7. \A u \in Threads : InFlight(u)' => ~meta'[flush'[u].frame].dirty
    <3> SUFFICES ASSUME NEW u \in Threads, InFlight(u)' PROVE ~meta'[flush'[u].frame].dirty
      BY Zenon
    <3>1. CASE u = x
      BY Zenon, <1>1, <2>2, <3>1 DEF InFlight, AtSea
    <3>2. CASE u # x
      <4>1. u \in Procs
        BY Zenon DEF Procs
      <4>2. flush'[u] = flush[u] /\ InFlight(u) /\ flush[u].frame # f /\ flush[u].frame \in Frames
        BY Zenon, <2>1, <3>2, <4>1
      <4>3. ~meta[flush[u].frame].dirty
        BY Zenon, <4>2 DEF CacheInv, FlushesApart
      <4>4. meta'[flush[u].frame] = meta[flush[u].frame]
        BY Zenon, <1>2, <4>2
      <4> QED
        BY Zenon, <4>2, <4>3, <4>4
    <3> QED
      BY Zenon, <3>1, <3>2
  <2>8. \A g \in Frames : latch'[g].writer # None =>
          /\ thread'[latch'[g].writer].pc \in {"latched", "changed"}
          /\ thread'[latch'[g].writer].frame = g
    BY Zenon, <1>2 DEF CacheInv, FlushesApart
  <2> QED
    BY Zenon, <2>3, <2>4, <2>5, <2>6, <2>7, <2>8 DEF FlushesApart
<1> QED
  BY Zenon, <1>4, <1>5

\* What the shared steps of a flush leave to show.
ServedAt(d) ==
    \/ Reached(d.want)
    \/ d.pc \in {"latch", "write"} /\ d.asked = d.page
    \/ d.pc \in {"cover", "sync", "finish"} /\ d.asked = d.page /\ disk[d.page].lsn >= d.want

LEMMA FlushShifts ==
    ASSUME PoolInv, PoolInv', CacheInv, NEW x \in Procs, NEW f, NEW d, FlushShift(x, f, d),
           FilesGrow, CleanIsDurable', Generations', GateIsPassed',
           x = Ckpt /\ d.pc # "err" => ServedAt(flush[x])'
    PROVE  CacheInv'
<1>1. FramesMapped' /\ FlushesApart'
  BY Zenon, FlushShiftsFrames
<1>2. /\ flush[x].pc \in Busy /\ f = flush[x].frame /\ f \in Frames
      /\ flush'[x] = d /\ OneFlushMoves(x)
      /\ d.asked = flush[x].asked /\ d.want = flush[x].want
      /\ \A g \in Frames : g # f => meta'[g] = meta[g]
      /\ meta'[f].page = meta[f].page
      /\ d.pc \in AtSea \cup {"ok", "err"}
      /\ UNCHANGED <<content, table, thread, ckpt, ckptLsn, redo, fresh, log>>
  BY Zenon DEF FlushShift, PoolInv, TargetsExist, ckptState
<1>3. NewestIsRecord' /\ FilesLag'
  BY Zenon, <1>2 DEF CacheInv, NewestIsRecord, FilesLag, FilesGrow
<1>4. \A q \in Pages : /\ durable[q].lsn \in Nat /\ durable'[q].lsn \in Nat
                       /\ disk[q].lsn \in Nat /\ disk'[q].lsn \in Nat
                       /\ durable[q].lsn <= durable'[q].lsn /\ disk[q].lsn <= disk'[q].lsn
                       /\ durable'[q].lsn <= Newest(log, q) /\ Newest(log, q) \in Nat
  <2>1. \A q \in Pages : /\ durable[q].lsn \in Nat /\ durable'[q].lsn \in Nat
                         /\ disk[q].lsn \in Nat /\ disk'[q].lsn \in Nat
    BY Zenon, <1>3 DEF CacheInv, FilesLag, PoolInv, PoolTypes, Images
  <2>2. \A q \in Pages : Newest(log, q) \in Nat
    BY DEF CacheInv, NewestIsRecord
  <2> QED
    BY <2>1, <2>2 DEF FilesGrow
<1>5. MemoryCurrent'
  <2>1. \A g \in Frames : meta'[g].page # None => content'[g].lsn = Newest(log', meta'[g].page)
    BY Zenon, <1>2 DEF CacheInv, MemoryCurrent
  <2>2. \A q \in Pages : table'[q] = None => durable'[q].lsn = Newest(log', q)
    BY <1>2, <1>4 DEF CacheInv, MemoryCurrent
  <2>3. \A q \in Pages : table[q] = None /\ Untouched(q) => Untouched(q)'
    BY Zenon, <1>2 DEF Untouched, FilesGrow
  <2>4. \A q \in fresh' : Untouched(q)'
    BY Zenon, <1>2, <2>3 DEF CacheInv, MemoryCurrent, FramesMapped
  <2>5. \A u \in Threads : thread'[u].pc = "evict" /\ thread'[u].new => Untouched(thread[u].page)'
    <3> SUFFICES ASSUME NEW u \in Threads, thread[u].pc = "evict", thread[u].new
                 PROVE  Untouched(thread[u].page)'
      BY Zenon, <1>2
    <3>1. thread[u].page \in Pages /\ table[thread[u].page] = None /\ Untouched(thread[u].page)
      BY Zenon, EvictTarget DEF CacheInv, MemoryCurrent, FramesMapped, PoolInv, TargetsExist
    <3>2. disk'[thread[u].page] = disk[thread[u].page]
      BY Zenon, <3>1 DEF FilesGrow
    <3> QED
      BY Zenon, <1>2, <3>1, <3>2 DEF Untouched
  <2> QED
    BY Zenon, <2>1, <2>2, <2>4, <2>5 DEF MemoryCurrent
<1>6. CheckpointUnderWay'
  <2>1. \A q \in Pages : /\ LastIn(log, q, redo) \in Nat /\ LastIn(log, q, ckpt.begin) \in Nat
    BY Zenon DEF CacheInv, CheckpointUnderWay
  <2>2. \A q \in Pages : durable[q].lsn >= LastIn(log, q, redo) => durable'[q].lsn >= LastIn(log, q, redo)
    BY <1>4, <2>1
  <2>3. \A q \in Pages : durable[q].lsn >= LastIn(log, q, ckpt.begin) => durable'[q].lsn >= LastIn(log, q, ckpt.begin)
    BY <1>4, <2>1
  <2> QED
    BY Zenon, <1>2, <2>2, <2>3 DEF CacheInv, CheckpointUnderWay
<1>7. AskedIsServed'
  <2> SUFFICES ASSUME flush'[Ckpt].pc \notin {"none", "err"} PROVE AskedIsServed'
    BY Zenon DEF AskedIsServed
  <2>1. /\ flush[Ckpt].pc \notin {"none", "err"} /\ flush'[Ckpt].asked = flush[Ckpt].asked
        /\ flush'[Ckpt].want = flush[Ckpt].want
    BY Zenon, <1>2 DEF OneFlushMoves, Busy, Procs
  <2>2. /\ ckpt.pc = "flush" /\ flush[Ckpt].asked \in Pages
        /\ LastIn(log, flush[Ckpt].asked, ckpt.begin) <= flush[Ckpt].want
        /\ flush[Ckpt].want <= Newest(log, flush[Ckpt].asked)
    BY Zenon, <2>1 DEF CacheInv, AskedIsServed
  <2>3. CASE x = Ckpt
    <3>1. ServedAt(flush[Ckpt])'
      BY Zenon, <1>2, <2>3
    <3> QED
      BY Zenon, <1>2, <2>1, <2>2, <3>1 DEF AskedIsServed, ServedAt
  <2>4. CASE x # Ckpt
    <3>1. flush'[Ckpt] = flush[Ckpt] /\ flush[Ckpt].want \in Nat
      BY Zenon, <1>2, <2>4 DEF OneFlushMoves, Procs, PoolInv, PoolTypes, Flushes
    <3>2. Reached(flush[Ckpt].want) => Reached(flush[Ckpt].want)'
      BY <1>4, <2>2, <3>1 DEF Reached
    <3>3. flush[Ckpt].page \in Pages /\ disk[flush[Ckpt].page].lsn >= flush[Ckpt].want
            => disk'[flush[Ckpt].page].lsn >= flush[Ckpt].want
      BY <1>4, <3>1
    <3>4. flush[Ckpt].pc \in {"cover", "sync", "finish"} => flush[Ckpt].page \in Pages
      BY Zenon DEF PoolInv, TargetsExist, Busy, Procs
    <3> QED
      BY Zenon, <1>2, <2>1, <2>2, <3>1, <3>2, <3>3, <3>4 DEF CacheInv, AskedIsServed
  <2> QED
    BY Zenon, <2>3, <2>4
<1> QED
  BY Zenon, <1>1, <1>3, <1>5, <1>6, <1>7 DEF CacheInv

\* A flush in flight: its page is in its frame, and nobody else flushes either.
LEMMA InFlightFacts ==
    ASSUME PoolInv, CacheInv, NEW x \in Procs, InFlight(x),
           NEW f, f = flush[x].frame, NEW p, p = flush[x].page
    PROVE  /\ flush[x].pc \in Busy /\ f \in Frames /\ p \in Pages /\ p # None
           /\ meta[f].page = p /\ meta[f].flushing /\ table[p] = f
           /\ content[f].lsn = Newest(log, p)
           /\ \A y \in Procs : y # x /\ InFlight(y) => flush[y].frame # f /\ flush[y].page # p
           /\ x \in Threads => ~meta[f].dirty
           /\ latch[f].writer # None => meta[f].dirty \/ flush[x].pc = "latch"
<1>1. flush[x].pc \in Busy /\ f \in Frames /\ p \in Pages /\ p # None
  <2>1. flush[x].pc \in Busy \ {"claim"}
    BY Zenon DEF InFlight, Busy
  <2> QED
    BY Zenon, <2>1, PoolAssumption DEF PoolInv, TargetsExist
<1>2. meta[f].page = p /\ meta[f].flushing
  BY Zenon DEF CacheInv, FlushesApart
<1>3. table[p] = f /\ content[f].lsn = Newest(log, p)
  <2>1. table[p] = f
    BY Zenon, <1>1, <1>2 DEF CacheInv, FramesMapped
  <2>2. content[f].lsn = Newest(log, p)
    BY Zenon, <1>1, <1>2 DEF CacheInv, MemoryCurrent
  <2> QED
    BY Zenon, <2>1, <2>2
<1>4. \A y \in Procs : y # x /\ InFlight(y) => flush[y].frame # f /\ flush[y].page # p
  <2> SUFFICES ASSUME NEW y \in Procs, y # x, InFlight(y) PROVE flush[y].frame # f /\ flush[y].page # p
    BY Zenon
  <2>1. flush[y].frame # f
    BY Zenon DEF CacheInv, FlushesApart
  <2>2. meta[flush[y].frame].page = flush[y].page /\ flush[y].frame \in Frames /\ flush[y].page \in Pages
    BY Zenon DEF CacheInv, FlushesApart, PoolInv, TargetsExist, InFlight, Busy
  <2>3. flush[y].page # None
    BY Zenon, <2>2, PoolAssumption
  <2>4. table[flush[y].page] = flush[y].frame
    BY Zenon, <2>2, <2>3 DEF CacheInv, FramesMapped
  <2> QED
    BY Zenon, <1>3, <2>1, <2>4
<1>5. x \in Threads => ~meta[f].dirty
  BY Zenon DEF CacheInv, FlushesApart
<1>6. latch[f].writer # None => meta[f].dirty \/ flush[x].pc = "latch"
  <2> SUFFICES ASSUME latch[f].writer # None, ~meta[f].dirty PROVE flush[x].pc = "latch"
    BY Zenon
  <2>1. PICK y \in Procs : flush[y].pc = "latch" /\ flush[y].frame = f
    BY Zenon, <1>1 DEF CacheInv, CleanIsDurable
  <2>2. InFlight(y)
    BY Zenon, <2>1 DEF InFlight
  <2> QED
    BY Zenon, <1>4, <2>1, <2>2
<1> QED
  BY Zenon, <1>1, <1>2, <1>3, <1>4, <1>5, <1>6

\* What a flush has to keep about the frame it works on.
StaysClean(x, f, d) ==
    /\ latch[f].writer # None => meta'[f].dirty \/ d.pc = "latch"
    /\ meta[f].page # None /\ ~meta'[f].dirty /\ d.pc \notin AtSea =>
         durable'[meta[f].page].lsn = content[f].lsn
    /\ d.pc \in {"cover", "sync", "finish"} /\ ~meta'[f].dirty => disk'[d.page].lsn = content[f].lsn
    /\ \A y \in Procs : y # x /\ InFlight(y) => disk'[flush[y].page] = disk[flush[y].page]

LEMMA CleanShifts ==
    ASSUME PoolInv, PoolInv', CacheInv, NEW x \in Procs, NEW f, NEW d, FlushShift(x, f, d),
           FilesGrow, StaysClean(x, f, d)
    PROVE  CleanIsDurable'
<1>1. /\ f = flush[x].frame /\ f \in Frames /\ flush'[x] = d /\ OneFlushMoves(x)
      /\ d.pc \in AtSea => d.frame = f /\ d.page = meta[f].page
      /\ \A y \in Procs : y # x /\ InFlight(y) => flush[y].frame # f
      /\ \A g \in Frames : g # f => meta'[g] = meta[g]
      /\ meta'[f].page = meta[f].page
      /\ \A g \in Frames : latch'[g].writer = latch[g].writer
      /\ UNCHANGED content
  BY Zenon DEF FlushShift, PoolInv, TargetsExist
<1>2. /\ latch[f].writer # None => meta'[f].dirty \/ d.pc = "latch"
      /\ meta[f].page # None /\ ~meta'[f].dirty /\ d.pc \notin AtSea =>
           durable'[meta[f].page].lsn = content[f].lsn
      /\ d.pc \in {"cover", "sync", "finish"} /\ ~meta'[f].dirty => disk'[d.page].lsn = content[f].lsn
      /\ \A y \in Procs : y # x /\ InFlight(y) => disk'[flush[y].page] = disk[flush[y].page]
  BY Zenon DEF StaysClean
<1>3. \A y \in Procs : y # x => flush'[y] = flush[y]
  BY Zenon, <1>1 DEF OneFlushMoves
<1>4. ASSUME NEW g \in Frames, latch'[g].writer # None
      PROVE  meta'[g].dirty \/ \E y \in Procs : flush'[y].pc = "latch" /\ flush'[y].frame = g
  <2>1. CASE g = f
    BY Zenon, <1>1, <1>2, <1>4, <2>1 DEF AtSea
  <2>2. CASE g # f
    <3>1. meta[g].dirty \/ \E y \in Procs : flush[y].pc = "latch" /\ flush[y].frame = g
      BY Zenon, <1>1, <1>4 DEF CacheInv, CleanIsDurable
    <3>2. \A y \in Procs : flush[y].frame = g => flush'[y] = flush[y]
      BY Zenon, <1>1, <1>3, <2>2
    <3> QED
      BY Zenon, <1>1, <2>2, <3>1, <3>2
  <2> QED
    BY Zenon, <2>1, <2>2
<1>5. ASSUME NEW g \in Frames, meta'[g].page # None, ~meta'[g].dirty, Quiet(g)'
      PROVE  durable'[meta'[g].page].lsn = content'[g].lsn
  <2>1. CASE g = f
    <3>1. d.pc \notin AtSea
      BY Zenon, <1>1, <1>5, <2>1 DEF Quiet, InFlight, AtSea
    <3> QED
      BY Zenon, <1>1, <1>2, <1>5, <2>1, <3>1
  <2>2. CASE g # f
    <3>1. meta'[g] = meta[g] /\ meta[g].page \in Pages /\ content'[g] = content[g]
      BY Zenon, <1>1, <1>5, <2>2 DEF PoolInv, PoolTypes, Metas, PageOrNone
    <3>2. Quiet(g)
      BY Zenon, <1>1, <1>3, <1>5, <2>2 DEF Quiet, InFlight
    <3>3. durable[meta[g].page].lsn = content[g].lsn /\ content[g].lsn = Newest(log, meta[g].page)
      BY Zenon, <1>5, <3>1, <3>2 DEF CacheInv, CleanIsDurable, MemoryCurrent
    <3>4. /\ durable[meta[g].page].lsn <= durable'[meta[g].page].lsn
          /\ durable'[meta[g].page].lsn <= disk'[meta[g].page].lsn
          /\ disk'[meta[g].page].lsn <= Newest(log, meta[g].page)
      BY Zenon, <3>1 DEF FilesGrow
    <3>5. /\ durable[meta[g].page].lsn \in Nat /\ durable'[meta[g].page].lsn \in Nat
          /\ disk'[meta[g].page].lsn \in Nat
      BY Zenon, <3>1 DEF FilesGrow, CacheInv, FilesLag, PoolInv, PoolTypes, Images
    <3> QED
      BY <3>1, <3>3, <3>4, <3>5
  <2> QED
    BY Zenon, <2>1, <2>2
<1>6. ASSUME NEW y \in Procs, flush'[y].pc \in {"cover", "sync", "finish"}, ~meta'[flush'[y].frame].dirty
      PROVE  disk'[flush'[y].page].lsn = content'[flush'[y].frame].lsn
  <2>1. CASE y = x
    <3>1. d.frame = f
      BY Zenon, <1>1, <1>6, <2>1 DEF AtSea
    <3> QED
      BY Zenon, <1>1, <1>2, <1>6, <2>1, <3>1
  <2>2. CASE y # x
    <3>1. flush'[y] = flush[y] /\ InFlight(y)
      BY Zenon, <1>3, <1>6, <2>2 DEF InFlight
    <3>2. flush[y].frame # f /\ flush[y].frame \in Frames
      BY Zenon, <1>1, <2>2, <3>1 DEF InFlight, Busy, PoolInv, TargetsExist
    <3>3. meta'[flush[y].frame] = meta[flush[y].frame] /\ disk'[flush[y].page] = disk[flush[y].page]
      BY Zenon, <1>1, <1>2, <2>2, <3>1, <3>2
    <3> QED
      BY <1>1, <1>6, <3>1, <3>3 DEF CacheInv, CleanIsDurable
  <2> QED
    BY Zenon, <2>1, <2>2
<1> QED
  BY Zenon, <1>4, <1>5, <1>6 DEF CleanIsDurable

\* What a flush has to keep about the shared fsync.
StaysCounted(x, d) ==
    /\ syncedGen' \in Nat /\ syncedGen' <= flushGen' /\ flushGen \in Nat /\ flushGen <= flushGen'
    /\ \A y \in Procs : y # x /\ InFlight(y) =>
         \/ durable'[flush[y].page] = disk'[flush[y].page]
         \/ /\ durable'[flush[y].page] = durable[flush[y].page]
            /\ disk'[flush[y].page] = disk[flush[y].page]
            /\ syncedGen' = syncedGen
    /\ d.pc = "sync" => d.covers <= flushGen'
    /\ d.pc \in {"cover", "sync"} /\ syncedGen' >= d.gen => durable'[d.page] = disk'[d.page]
    /\ d.pc = "finish" => durable'[d.page] = disk'[d.page]

LEMMA GenerationsShift ==
    ASSUME PoolInv, CacheInv, PoolInv', NEW x \in Procs, NEW d, flush'[x] = d, OneFlushMoves(x),
           StaysCounted(x, d)
    PROVE  Generations'
<1>1. \A y \in Procs : y # x => flush'[y] = flush[y]
  BY Zenon DEF OneFlushMoves
<1>2. syncedGen' \in Nat /\ syncedGen' <= flushGen' /\ flushGen \in Nat /\ flushGen' \in Nat /\ flushGen <= flushGen'
  BY Zenon DEF StaysCounted, PoolInv, PoolTypes
<1>3. \A y \in Procs : y # x /\ InFlight(y) =>
         \/ durable'[flush[y].page] = disk'[flush[y].page]
         \/ /\ durable'[flush[y].page] = durable[flush[y].page]
            /\ disk'[flush[y].page] = disk[flush[y].page]
            /\ syncedGen' = syncedGen
  BY Zenon DEF StaysCounted
<1>4. ASSUME NEW y \in Procs, flush'[y].pc = "sync" PROVE flush'[y].covers <= flushGen'
  <2>1. CASE y = x
    BY Zenon, <1>4, <2>1 DEF StaysCounted
  <2>2. CASE y # x
    <3>1. flush[y].covers <= flushGen /\ flush[y].covers \in Nat /\ flush'[y] = flush[y]
      BY Zenon, <1>1, <1>4, <2>2 DEF CacheInv, Generations, PoolInv, PoolTypes, Flushes
    <3> QED
      BY <1>2, <3>1
  <2> QED
    BY Zenon, <2>1, <2>2
<1>5. ASSUME NEW y \in Procs, flush'[y].pc \in {"cover", "sync"}, syncedGen' >= flush'[y].gen
      PROVE  durable'[flush'[y].page] = disk'[flush'[y].page]
  <2>1. CASE y = x
    BY Zenon, <1>5, <2>1 DEF StaysCounted
  <2>2. CASE y # x
    <3>1. flush'[y] = flush[y] /\ InFlight(y)
      BY Zenon, <1>1, <1>5, <2>2 DEF InFlight
    <3>2. syncedGen >= flush[y].gen => durable[flush[y].page] = disk[flush[y].page]
      BY Zenon, <1>5, <3>1 DEF CacheInv, Generations
    <3> QED
      BY <1>3, <1>5, <2>2, <3>1, <3>2
  <2> QED
    BY Zenon, <2>1, <2>2
<1>6. ASSUME NEW y \in Procs, flush'[y].pc = "finish"
      PROVE  durable'[flush'[y].page] = disk'[flush'[y].page]
  <2>1. CASE y = x
    BY Zenon, <1>6, <2>1 DEF StaysCounted
  <2>2. CASE y # x
    <3>1. flush'[y] = flush[y] /\ InFlight(y)
      BY Zenon, <1>1, <1>6, <2>2 DEF InFlight
    <3>2. durable[flush[y].page] = disk[flush[y].page]
      BY Zenon, <1>6, <3>1 DEF CacheInv, Generations
    <3> QED
      BY <1>3, <2>2, <3>1, <3>2
  <2> QED
    BY Zenon, <2>1, <2>2
<1> QED
  BY Zenon, <1>2, <1>4, <1>5, <1>6 DEF Generations

\* A flush that writes nothing keeps the gates as they are.
LEMMA GateShifts ==
    ASSUME PoolInv, CacheInv, NEW x, NEW f, NEW d, FlushShift(x, f, d), f \in Frames,
           disk' = disk, meta'[f].needsFpi = meta[f].needsFpi
    PROVE  GateIsPassed'
<1>1. /\ \A g \in Frames : g # f => meta'[g] = meta[g]
      /\ meta'[f].page = meta[f].page
      /\ UNCHANGED <<content, thread, log>>
  BY Zenon DEF FlushShift
<1>2. \A g \in Frames : meta'[g].page = meta[g].page /\ meta'[g].needsFpi = meta[g].needsFpi
  BY Zenon, <1>1
<1> QED
  BY Zenon, <1>1, <1>2 DEF CacheInv, GateIsPassed, FpiBeforeChange

\* A step of a flush that leaves the files alone.
StaysCountedDry(d) ==
    /\ d.pc = "sync" => d.covers <= flushGen
    /\ d.pc \in {"cover", "sync"} /\ syncedGen >= d.gen => durable[d.page] = disk[d.page]
    /\ d.pc = "finish" => durable[d.page] = disk[d.page]

LEMMA DryShifts ==
    ASSUME PoolInv, PoolInv', CacheInv, NEW x \in Procs, NEW f, NEW d, FlushShift(x, f, d),
           UNCHANGED files, meta'[f].needsFpi = meta[f].needsFpi,
           latch[f].writer # None => meta'[f].dirty \/ d.pc = "latch",
           meta[f].page # None /\ ~meta'[f].dirty /\ d.pc \notin AtSea =>
             durable[meta[f].page].lsn = content[f].lsn,
           d.pc \in {"cover", "sync", "finish"} /\ ~meta'[f].dirty => disk[d.page].lsn = content[f].lsn,
           StaysCountedDry(d),
           x = Ckpt /\ d.pc # "err" => ServedAt(flush[x])'
    PROVE  CacheInv'
<1>1. UNCHANGED <<disk, durable, flushGen, syncedGen>>
  BY Zenon DEF files
<1>2. f \in Frames /\ flush'[x] = d /\ OneFlushMoves(x)
  BY Zenon DEF FlushShift, PoolInv, TargetsExist
<1>3. FilesGrow
  <2>1. \A q \in Pages : disk[q].lsn \in Nat /\ durable[q].lsn \in Nat
    BY Zenon DEF CacheInv, FilesLag, PoolInv, PoolTypes, Images
  <2>2. \A q \in Pages : disk[q].lsn <= disk[q].lsn /\ durable[q].lsn <= durable[q].lsn
    BY <2>1
  <2> QED
    BY Zenon, <1>1, <2>2 DEF FilesGrow, CacheInv, FilesLag
<1>4. StaysClean(x, f, d)
  BY Zenon, <1>1 DEF StaysClean
<1>5. StaysCounted(x, d)
  <2>1. syncedGen \in Nat /\ syncedGen <= flushGen /\ flushGen \in Nat /\ flushGen <= flushGen
    BY DEF CacheInv, Generations, PoolInv, PoolTypes
  <2> QED
    BY Zenon, <1>1, <2>1 DEF StaysCounted, StaysCountedDry
<1>6. CleanIsDurable' /\ Generations' /\ GateIsPassed'
  BY Zenon, <1>1, <1>2, <1>3, <1>4, <1>5, CleanShifts, GenerationsShift, GateShifts
<1> QED
  BY Zenon, <1>3, <1>6, FlushShifts

LEMMA FlushAtKeeps ==
    ASSUME NEW c \in Flushes, NEW s \in FlushSteps
    PROVE  /\ FlushAt(c, s).asked = c.asked /\ FlushAt(c, s).want = c.want
           /\ FlushAt(c, s).gen = c.gen /\ FlushAt(c, s).covers = c.covers
BY Zenon DEF Flushes, FlushAt

LEMMA ClaimedKeeps ==
    ASSUME NEW c \in Flushes, NEW p \in Pages
    PROVE  Claimed(c, p).asked = c.asked /\ Claimed(c, p).want = c.want
BY Zenon DEF Flushes, Claimed

LEMMA CountedKeeps ==
    ASSUME NEW c \in Flushes, NEW n \in Nat
    PROVE  /\ Written(c, n).asked = c.asked /\ Written(c, n).want = c.want /\ Written(c, n).gen = n
           /\ Covering(c, n).asked = c.asked /\ Covering(c, n).want = c.want
           /\ Covering(c, n).gen = c.gen /\ Covering(c, n).covers = n
BY Zenon DEF Flushes, Written, Covering

\* A process that claims a frame finds no flush in flight there.
LEMMA ClaimFacts ==
    ASSUME PoolInv, CacheInv, NEW x \in Procs, flush[x].pc = "claim",
           NEW f, f = flush[x].frame, ~meta[f].flushing
    PROVE  /\ f \in Frames /\ Quiet(f) /\ \A y \in Procs : y # x /\ InFlight(y) => flush[y].frame # f
           /\ latch[f].writer # None => meta[f].dirty
           /\ meta[f].page # None /\ ~meta[f].dirty => durable[meta[f].page].lsn = content[f].lsn
           /\ meta[f].page # None => content[f].lsn = Newest(log, meta[f].page)
<1>1. f \in Frames
  BY Zenon DEF PoolInv, TargetsExist, Busy
<1>2. Quiet(f)
  BY Zenon DEF CacheInv, FlushesApart, Quiet
<1>3. \A y \in Procs : y # x /\ InFlight(y) => flush[y].frame # f
  BY Zenon, <1>2 DEF Quiet
<1>4. latch[f].writer # None => meta[f].dirty
  BY Zenon, <1>1, <1>2 DEF CacheInv, CleanIsDurable, Quiet, InFlight
<1>5. meta[f].page # None /\ ~meta[f].dirty => durable[meta[f].page].lsn = content[f].lsn
  BY Zenon, <1>1, <1>2 DEF CacheInv, CleanIsDurable
<1>6. meta[f].page # None => content[f].lsn = Newest(log, meta[f].page)
  BY Zenon, <1>1 DEF CacheInv, MemoryCurrent
<1> QED
  BY Zenon, <1>1, <1>2, <1>3, <1>4, <1>5, <1>6

\* The page the checkpoint asks for is in the frame it claims, or is durable already.
LEMMA ClaimAsked ==
    ASSUME PoolInv, CacheInv, flush[Ckpt].pc = "claim"
    PROVE  /\ flush[Ckpt].asked \in Pages /\ flush[Ckpt].want \in Nat
           /\ flush[Ckpt].want <= Newest(log, flush[Ckpt].asked)
           /\ \/ Reached(flush[Ckpt].want)
              \/ /\ table[flush[Ckpt].asked] = flush[Ckpt].frame
                 /\ meta[flush[Ckpt].frame].page = flush[Ckpt].asked
                 /\ flush[Ckpt].asked # None
<1>1. Ckpt \in Procs
  BY Zenon DEF Procs
<1>2. /\ flush[Ckpt].asked \in Pages /\ flush[Ckpt].want <= Newest(log, flush[Ckpt].asked)
      /\ Reached(flush[Ckpt].want) \/ table[flush[Ckpt].asked] = flush[Ckpt].frame
  BY Zenon DEF CacheInv, AskedIsServed
<1>3. flush[Ckpt].frame \in Frames /\ flush[Ckpt].want \in Nat
  BY Zenon, <1>1 DEF PoolInv, TargetsExist, Busy, PoolTypes, Flushes
<1>4. flush[Ckpt].frame # None /\ flush[Ckpt].asked # None
  BY Zenon, <1>2, <1>3, PoolAssumption
<1>5. table[flush[Ckpt].asked] = flush[Ckpt].frame => meta[flush[Ckpt].frame].page = flush[Ckpt].asked
  BY Zenon, <1>2, <1>4 DEF CacheInv, FramesMapped
<1> QED
  BY Zenon, <1>2, <1>3, <1>4, <1>5

LEMMA FlushClaimCoheres ==
    ASSUME PoolInv, PoolInv', CacheInv, NEW x \in Procs, FlushClaim(x)
    PROVE  CacheInv'
<1> DEFINE f == flush[x].frame
           p == meta[f].page
           m == [[meta[f] EXCEPT !.flushing = TRUE] EXCEPT !.dirty = FALSE]
<1>1. /\ flush[x].pc = "claim" /\ flush[x].pc \in Busy /\ "ok" \in FlushSteps /\ ~meta[f].flushing
  BY Zenon DEF FlushClaim, Busy, FlushSteps
<1>2. f \in Frames /\ flush[x] \in Flushes /\ meta \in [Frames -> Metas] /\ meta[f] \in Metas
  BY Zenon, <1>1, FlushTarget
<1>3. /\ UNCHANGED <<content, latch, table, allocLock, thread, ckptState, fresh, files>>
      /\ log' = log /\ flush \in [Procs -> Flushes]
  BY Zenon DEF FlushClaim, wal, PoolInv, PoolTypes
<1>4. /\ Quiet(f) /\ \A y \in Procs : y # x /\ InFlight(y) => flush[y].frame # f
      /\ latch[f].writer # None => meta[f].dirty
      /\ p # None /\ ~meta[f].dirty => durable[p].lsn = content[f].lsn
      /\ p # None => content[f].lsn = Newest(log, p)
  BY Zenon, <1>1, ClaimFacts
<1>5. meta[f].dirty => p # None
  BY Zenon, <1>2 DEF CacheInv, FramesMapped
<1>6. CASE ~meta[f].dirty \/ p = None
  <2> DEFINE d == FlushAt(flush[x], "ok")
  <2>1. d.pc = "ok" /\ d.asked = flush[x].asked /\ d.want = flush[x].want
    BY Zenon, <1>1, <1>2, FlushAtFields, FlushAtKeeps
  <2>2. flush' = [flush EXCEPT ![x] = d] /\ meta' = meta
    BY Zenon, <1>6 DEF FlushClaim, FlushTo, FlushAt
  <2> HIDE DEF d
  <2>3. flush'[x] = d /\ OneFlushMoves(x)
    BY Zenon, <1>3, <2>2 DEF OneFlushMoves
  <2>4. ~meta[f].dirty
    BY Zenon, <1>5, <1>6
  <2> HIDE DEF f
  <2>5. FlushShift(x, f, d)
    BY Zenon, <1>1, <1>3, <1>4, <2>1, <2>2, <2>3, <2>4 DEF FlushShift, AtSea, f
  <2>6. x = Ckpt => ServedAt(flush[x])'
    <3> SUFFICES ASSUME x = Ckpt PROVE Reached(flush[Ckpt].want)'
      BY Zenon DEF ServedAt, Reached
    <3>1. \/ Reached(flush[Ckpt].want)
          \/ /\ p = flush[Ckpt].asked /\ p # None
             /\ flush[Ckpt].want \in Nat /\ flush[Ckpt].want <= Newest(log, p)
      BY Zenon, <1>1, ClaimAsked DEF f
    <3>2. p \in Pages => Newest(log, p) \in Nat
      BY DEF CacheInv, NewestIsRecord
    <3>3. Reached(flush[Ckpt].want)
      BY <1>4, <2>4, <3>1 DEF Reached
    <3>4. durable' = durable /\ flush'[Ckpt].asked = flush[Ckpt].asked /\ flush'[Ckpt].want = flush[Ckpt].want
      BY Zenon, <1>3, <2>1, <2>3 DEF files
    <3> QED
      BY Zenon, <3>3, <3>4 DEF Reached
  <2> QED
    BY Zenon, <1>3, <1>4, <2>1, <2>2, <2>4, <2>5, <2>6, DryShifts DEF StaysCountedDry, AtSea
<1>7. CASE ~(~meta[f].dirty \/ p = None)
  <2> DEFINE d == Claimed(flush[x], p)
  <2>1. p \in Pages
    BY Zenon, <1>2, <1>7 DEF Metas, PageOrNone
  <2>2. d.pc = "latch" /\ d.frame = f /\ d.page = p /\ d.asked = flush[x].asked /\ d.want = flush[x].want
    BY Zenon, <1>2, <2>1, ClaimedFields, ClaimedKeeps
  <2>3. m.page = p /\ m.needsFpi = meta[f].needsFpi /\ ~m.dirty /\ m.flushing
    BY <1>2, Zenon DEF Metas
  <2>4. flush' = [flush EXCEPT ![x] = d]
    BY <1>7, Zenon DEF FlushClaim, Claimed, PoolInv, PoolTypes
  <2>5. meta' = [meta EXCEPT ![f] = m]
    BY <1>2, <1>7, Zenon DEF FlushClaim
  <2> HIDE DEF d, m
  <2>6. /\ flush'[x] = d /\ OneFlushMoves(x)
        /\ meta'[f] = m /\ \A g \in Frames : g # f => meta'[g] = meta[g]
    BY Zenon, <1>2, <1>3, <2>4, <2>5 DEF OneFlushMoves
  <2> HIDE DEF f, p
  <2>7. /\ meta'[f].page = p /\ meta'[f].needsFpi = meta[f].needsFpi /\ ~meta'[f].dirty /\ meta'[f].flushing
        /\ p = meta[f].page /\ p # None /\ d.pc \in AtSea /\ d.pc # "ok" /\ meta[f].dirty /\ f = flush[x].frame
    BY <1>7, <2>2, <2>3, <2>6 DEF p, f, AtSea
  <2>8. FlushShift(x, f, d)
    BY Zenon, <1>1, <1>3, <1>4, <2>2, <2>6, <2>7 DEF FlushShift
  <2>9. x = Ckpt => ServedAt(flush[x])'
    <3> SUFFICES ASSUME x = Ckpt PROVE ServedAt(flush[Ckpt])'
      BY Zenon
    <3>1. \/ Reached(flush[Ckpt].want)
          \/ p = flush[Ckpt].asked
      BY Zenon, <1>1, <2>7, ClaimAsked
    <3>2. /\ durable' = durable /\ flush'[Ckpt].asked = flush[Ckpt].asked /\ flush'[Ckpt].page = p
          /\ flush'[Ckpt].want = flush[Ckpt].want /\ flush'[Ckpt].pc = "latch"
      BY Zenon, <1>3, <2>2, <2>6 DEF files
    <3> QED
      BY Zenon, <3>1, <3>2 DEF ServedAt, Reached
  <2>10. StaysCountedDry(d) /\ d.pc \notin {"cover", "sync", "finish"}
    BY Zenon, <2>2 DEF StaysCountedDry
  <2> QED
    BY Zenon, <1>3, <2>2, <2>7, <2>8, <2>9, <2>10, DryShifts
<1> QED
  BY Zenon, <1>6, <1>7


\* What the checkpoint's flush carries on as it moves on.
LEMMA ServedFacts ==
    ASSUME PoolInv, CacheInv, InFlight(Ckpt)
    PROVE  /\ ServedAt(flush[Ckpt]) /\ flush[Ckpt].asked \in Pages /\ flush[Ckpt].want \in Nat
           /\ flush[Ckpt].want <= Newest(log, flush[Ckpt].asked)
<1>1. Ckpt \in Procs
  BY Zenon DEF Procs
<1>2. flush[Ckpt].pc \notin {"none", "err", "claim"}
  BY Zenon DEF InFlight
<1>3. ServedAt(flush[Ckpt])
  BY Zenon, <1>2 DEF CacheInv, AskedIsServed, ServedAt
<1>4. flush[Ckpt].asked \in Pages /\ flush[Ckpt].want <= Newest(log, flush[Ckpt].asked)
  BY Zenon, <1>2 DEF CacheInv, AskedIsServed
<1>5. flush[Ckpt].want \in Nat
  BY Zenon, <1>1 DEF PoolInv, PoolTypes, Flushes
<1> QED
  BY Zenon, <1>3, <1>4, <1>5

LEMMA FlushWalCoheres ==
    ASSUME PoolInv, PoolInv', CacheInv, NEW x \in Procs, FlushWal(x)
    PROVE  CacheInv'
<1> DEFINE f == flush[x].frame
           d == FlushAt(flush[x], "write")
           l == ReadersSet(latch[f], latch[f].readers \cup {x})
<1>1. /\ flush[x].pc = "latch" /\ flush[x].pc \in Busy /\ "write" \in FlushSteps
      /\ latch[f].writer = None /\ InFlight(x)
  BY Zenon DEF FlushWal, Busy, FlushSteps, InFlight
<1>2. /\ f \in Frames /\ flush[x] \in Flushes /\ flush[x].page \in Pages
      /\ latch[f] \in Latches /\ latch[f].readers \cup {x} \in SUBSET Procs
  BY Zenon, <1>1, FlushTarget
<1>3. /\ d.pc = "write" /\ d.frame = f /\ d.page = flush[x].page
      /\ d.asked = flush[x].asked /\ d.want = flush[x].want
  BY Zenon, <1>1, <1>2, FlushAtFields, FlushAtKeeps
<1>4. l.writer = None
  BY Zenon, <1>1, <1>2, ReaderFields
<1>5. /\ flush' = [flush EXCEPT ![x] = d] /\ latch' = [latch EXCEPT ![f] = l]
      /\ UNCHANGED <<meta, content, table, allocLock, thread, ckptState, fresh, files, log>>
  BY Zenon DEF FlushWal, FlushTo, FlushAt, ReadersSet
<1>6. /\ meta[f].page = flush[x].page /\ meta[f].page # None /\ meta[f].flushing
      /\ \A y \in Procs : y # x /\ InFlight(y) => flush[y].frame # f
      /\ x \in Threads => ~meta[f].dirty
  BY <1>1, InFlightFacts
<1> HIDE DEF d, l
<1>7. /\ flush'[x] = d /\ OneFlushMoves(x) /\ \A g \in Frames : latch'[g].writer = latch[g].writer
  BY Zenon, <1>1, <1>2, <1>4, <1>5 DEF PoolInv, PoolTypes, OneFlushMoves
<1>8. d.pc \in AtSea /\ d.pc # "ok" /\ d.pc # "err" /\ flush[x].pc # "claim"
  BY Zenon, <1>1, <1>3 DEF AtSea
<1> HIDE DEF f
<1>9. FlushShift(x, f, d)
  BY Zenon, <1>1, <1>3, <1>5, <1>6, <1>7, <1>8 DEF FlushShift, f
<1>10. x = Ckpt => ServedAt(flush[x])'
  <2> SUFFICES ASSUME x = Ckpt PROVE ServedAt(flush[Ckpt])'
    BY Zenon
  <2>1. Reached(flush[Ckpt].want) \/ flush[Ckpt].asked = flush[Ckpt].page
    BY Zenon, <1>1, ServedFacts DEF ServedAt
  <2>2. /\ durable' = durable /\ flush'[Ckpt].asked = flush[Ckpt].asked /\ flush'[Ckpt].page = flush[Ckpt].page
        /\ flush'[Ckpt].want = flush[Ckpt].want /\ flush'[Ckpt].pc = "write"
    BY Zenon, <1>3, <1>5, <1>7 DEF files
  <2> QED
    BY Zenon, <2>1, <2>2 DEF ServedAt, Reached
<1>11. StaysCountedDry(d) /\ d.pc \notin {"cover", "sync", "finish"}
  BY Zenon, <1>3 DEF StaysCountedDry
<1> QED
  BY Zenon, <1>1, <1>5, <1>8, <1>9, <1>10, <1>11, DryShifts DEF f

LEMMA FlushCoverCoheres ==
    ASSUME PoolInv, PoolInv', CacheInv, NEW x \in Procs, FlushCover(x)
    PROVE  CacheInv'
<1> DEFINE f == flush[x].frame
           p == flush[x].page
           d == IF syncedGen >= flush[x].gen THEN FlushAt(flush[x], "finish")
                ELSE Covering(flush[x], flushGen)
<1>1. flush[x].pc = "cover" /\ flush[x].pc \in Busy /\ "finish" \in FlushSteps /\ InFlight(x)
  BY Zenon DEF FlushCover, Busy, FlushSteps, InFlight
<1>2. flush[x] \in Flushes /\ f \in Frames /\ p \in Pages /\ flushGen \in Nat
  BY Zenon, <1>1, FlushTarget
<1>3. /\ d.frame = f /\ d.page = p
      /\ d.asked = flush[x].asked /\ d.want = flush[x].want
      /\ \/ d.pc = "finish" /\ syncedGen >= flush[x].gen
         \/ d.pc = "sync" /\ ~(syncedGen >= flush[x].gen) /\ d.gen = flush[x].gen /\ d.covers = flushGen
  BY Zenon, <1>1, <1>2, FlushAtFields, CountedFields, FlushAtKeeps, CountedKeeps
<1>4. flush' = [flush EXCEPT ![x] = d]
  BY Zenon DEF FlushCover, FlushAt, Covering
<1>5. UNCHANGED <<meta, content, latch, table, allocLock, thread, ckptState, fresh, files, log>>
  BY Zenon DEF FlushCover, pool, wal
<1>6. /\ meta[f].page = p /\ meta[f].page # None /\ meta[f].flushing
      /\ \A y \in Procs : y # x /\ InFlight(y) => flush[y].frame # f
      /\ x \in Threads => ~meta[f].dirty
      /\ latch[f].writer # None => meta[f].dirty \/ flush[x].pc = "latch"
  BY <1>1, InFlightFacts
<1>7. ~meta[f].dirty => disk[p].lsn = content[f].lsn
  BY Zenon, <1>1 DEF CacheInv, CleanIsDurable
<1>8. syncedGen >= flush[x].gen => durable[p] = disk[p]
  BY Zenon, <1>1 DEF CacheInv, Generations
<1> HIDE DEF d
<1>9. flush'[x] = d /\ OneFlushMoves(x)
  BY Zenon, <1>4 DEF PoolInv, PoolTypes, OneFlushMoves
<1>10. d.pc \in AtSea /\ d.pc # "ok" /\ d.pc # "err" /\ flush[x].pc # "claim" /\ flush[x].pc # "latch"
  BY Zenon, <1>1, <1>3 DEF AtSea
<1> HIDE DEF f, p
<1>11. FlushShift(x, f, d)
  BY Zenon, <1>1, <1>3, <1>5, <1>6, <1>9, <1>10 DEF FlushShift, f
<1>12. x = Ckpt => ServedAt(flush[x])'
  <2> SUFFICES ASSUME x = Ckpt PROVE ServedAt(flush[Ckpt])'
    BY Zenon
  <2>1. \/ Reached(flush[Ckpt].want)
        \/ flush[Ckpt].asked = flush[Ckpt].page /\ disk[flush[Ckpt].page].lsn >= flush[Ckpt].want
    BY Zenon, <1>1, ServedFacts DEF ServedAt
  <2>2. /\ durable' = durable /\ disk' = disk
        /\ flush'[Ckpt].asked = flush[Ckpt].asked /\ flush'[Ckpt].page = flush[Ckpt].page
        /\ flush'[Ckpt].want = flush[Ckpt].want /\ flush'[Ckpt].pc \in {"sync", "finish"}
    BY Zenon, <1>3, <1>5, <1>9 DEF files, p
  <2> QED
    BY Zenon, <2>1, <2>2 DEF ServedAt, Reached
<1>13. StaysCountedDry(d)
  <2>1. flushGen <= flushGen
    BY <1>2
  <2> QED
    BY <1>3, <1>8, <2>1 DEF StaysCountedDry
<1> QED
  BY Zenon, <1>3, <1>5, <1>6, <1>7, <1>10, <1>11, <1>12, <1>13, DryShifts

LEMMA FlushFinishCoheres ==
    ASSUME PoolInv, PoolInv', CacheInv, NEW x \in Procs, FlushFinish(x)
    PROVE  CacheInv'
<1> DEFINE f == flush[x].frame
           p == flush[x].page
           d == FlushAt(flush[x], "ok")
           m == WithFlushing(meta[f], FALSE)
<1>1. flush[x].pc = "finish" /\ flush[x].pc \in Busy /\ "ok" \in FlushSteps /\ InFlight(x)
  BY Zenon DEF FlushFinish, Busy, FlushSteps, InFlight
<1>2. f \in Frames /\ flush[x] \in Flushes /\ meta \in [Frames -> Metas] /\ meta[f] \in Metas
  BY Zenon, <1>1, FlushTarget
<1>3. d.pc = "ok" /\ d.asked = flush[x].asked /\ d.want = flush[x].want
  BY Zenon, <1>1, <1>2, FlushAtFields, FlushAtKeeps
<1>4. m.page = meta[f].page /\ m.dirty = meta[f].dirty /\ m.needsFpi = meta[f].needsFpi
  BY Zenon, <1>2, WithFlushingFields
<1>5. /\ flush' = [flush EXCEPT ![x] = d] /\ meta' = [meta EXCEPT ![f] = m]
      /\ UNCHANGED <<content, latch, table, allocLock, thread, ckptState, fresh, files>> /\ log' = log
  BY Zenon DEF FlushFinish, FlushTo, FlushAt, WithFlushing, wal
<1>6. /\ meta[f].page = p /\ meta[f].page # None
      /\ \A y \in Procs : y # x /\ InFlight(y) => flush[y].frame # f
      /\ x \in Threads => ~meta[f].dirty
      /\ latch[f].writer # None => meta[f].dirty \/ flush[x].pc = "latch"
  BY <1>1, InFlightFacts
<1>7. durable[p] = disk[p]
  BY Zenon, <1>1 DEF CacheInv, Generations
<1>8. ~meta[f].dirty => durable[p].lsn = content[f].lsn
  BY Zenon, <1>1, <1>7 DEF CacheInv, CleanIsDurable
<1> HIDE DEF d, m
<1>9. /\ flush'[x] = d /\ OneFlushMoves(x)
      /\ meta'[f] = m /\ \A g \in Frames : g # f => meta'[g] = meta[g]
  BY Zenon, <1>2, <1>5 DEF PoolInv, PoolTypes, OneFlushMoves
<1> HIDE DEF f, p
<1>10. /\ d.pc \notin AtSea /\ d.pc # "err" /\ flush[x].pc # "claim" /\ flush[x].pc # "latch"
       /\ meta'[f].page = p /\ (meta'[f].dirty <=> meta[f].dirty) /\ meta'[f].needsFpi = meta[f].needsFpi
  BY <1>1, <1>3, <1>4, <1>6, <1>9 DEF AtSea
<1>11. FlushShift(x, f, d)
  BY Zenon, <1>1, <1>3, <1>5, <1>6, <1>9, <1>10 DEF FlushShift, f
<1>12. x = Ckpt => ServedAt(flush[x])'
  <2> SUFFICES ASSUME x = Ckpt PROVE ServedAt(flush[Ckpt])'
    BY Zenon
  <2>1. \/ Reached(flush[Ckpt].want)
        \/ flush[Ckpt].asked = flush[Ckpt].page /\ disk[flush[Ckpt].page].lsn >= flush[Ckpt].want
    BY Zenon, <1>1, ServedFacts DEF ServedAt
  <2>2. Reached(flush[Ckpt].want)
    BY Zenon, <1>7, <2>1 DEF Reached, p
  <2>3. /\ durable' = durable
        /\ flush'[Ckpt].asked = flush[Ckpt].asked /\ flush'[Ckpt].want = flush[Ckpt].want
    BY Zenon, <1>3, <1>5, <1>9 DEF files
  <2> QED
    BY Zenon, <2>2, <2>3 DEF ServedAt, Reached
<1>13. StaysCountedDry(d) /\ d.pc \notin {"cover", "sync", "finish"}
  BY Zenon, <1>3 DEF StaysCountedDry
<1> QED
  BY Zenon, <1>5, <1>6, <1>8, <1>10, <1>11, <1>12, <1>13, DryShifts

LEMMA FlushFailCoheres ==
    ASSUME PoolInv, PoolInv', CacheInv, NEW x \in Procs, FlushFail(x)
    PROVE  CacheInv'
<1> DEFINE f == flush[x].frame
           p == flush[x].page
           d == FlushAt(flush[x], "err")
           l == ReadersSet(latch[f], latch[f].readers \ {x})
           m == [[meta[f] EXCEPT !.dirty = TRUE] EXCEPT !.flushing = FALSE]
<1>1. flush[x].pc \in Busy /\ "err" \in FlushSteps /\ InFlight(x) /\ flush[x].pc # "claim"
  BY Zenon DEF FlushFail, Busy, FlushSteps, InFlight
<1>2. /\ f \in Frames /\ flush[x] \in Flushes
      /\ latch[f] \in Latches /\ latch[f].readers \ {x} \in SUBSET Procs
      /\ meta \in [Frames -> Metas] /\ meta[f] \in Metas
  BY Zenon, <1>1, FlushTarget
<1>3. d.pc = "err" /\ d.asked = flush[x].asked /\ d.want = flush[x].want
  BY Zenon, <1>1, <1>2, FlushAtFields, FlushAtKeeps
<1>4. l.writer = latch[f].writer
  BY Zenon, <1>2, ReaderFields
<1>5. m.page = meta[f].page /\ m.dirty /\ m.needsFpi = meta[f].needsFpi
  BY <1>2, Zenon DEF Metas
<1>6. flush' = [flush EXCEPT ![x] = d] /\ latch' = [latch EXCEPT ![f] = l]
      /\ UNCHANGED <<content, table, allocLock, thread, ckptState, fresh, files>> /\ log' = log
  BY Zenon DEF FlushFail, FlushTo, FlushAt, ReadersSet, wal
<1>7. meta' = [meta EXCEPT ![f] = m]
  BY <1>2, Zenon DEF FlushFail
<1>8. /\ meta[f].page = p /\ meta[f].page # None
      /\ \A y \in Procs : y # x /\ InFlight(y) => flush[y].frame # f
  BY <1>1, InFlightFacts
<1> HIDE DEF d, m, l
<1>9. /\ flush'[x] = d /\ OneFlushMoves(x)
      /\ meta'[f] = m /\ (\A g \in Frames : g # f => meta'[g] = meta[g])
      /\ \A g \in Frames : latch'[g].writer = latch[g].writer
  BY Zenon, <1>2, <1>4, <1>6, <1>7 DEF PoolInv, PoolTypes, OneFlushMoves
<1> HIDE DEF f, p
<1>10. /\ d.pc \notin AtSea /\ d.pc # "ok"
       /\ meta'[f].page = meta[f].page /\ meta'[f].dirty /\ meta'[f].needsFpi = meta[f].needsFpi
  BY Zenon, <1>3, <1>5, <1>9 DEF AtSea
<1>11. FlushShift(x, f, d)
  BY Zenon, <1>1, <1>3, <1>6, <1>8, <1>9, <1>10 DEF FlushShift, f
<1>12. StaysCountedDry(d) /\ d.pc \notin {"cover", "sync", "finish"}
  BY Zenon, <1>3 DEF StaysCountedDry
<1> QED
  BY Zenon, <1>3, <1>6, <1>10, <1>11, <1>12, DryShifts

LEMMA FlushSyncCoheres ==
    ASSUME PoolInv, PoolInv', CacheInv, NEW x \in Procs, FlushSync(x)
    PROVE  CacheInv'
<1> DEFINE f == flush[x].frame
           p == flush[x].page
           d == FlushAt(flush[x], "finish")
<1>1. flush[x].pc = "sync" /\ flush[x].pc \in Busy /\ "finish" \in FlushSteps /\ InFlight(x)
  BY Zenon DEF FlushSync, Busy, FlushSteps, InFlight
<1>2. flush[x] \in Flushes /\ f \in Frames /\ p \in Pages /\ flushGen \in Nat
  BY Zenon, <1>1, FlushTarget
<1>3. d.pc = "finish" /\ d.frame = f /\ d.page = p /\ d.asked = flush[x].asked /\ d.want = flush[x].want
  BY Zenon, <1>1, <1>2, FlushAtFields, FlushAtKeeps
<1>4. /\ flush' = [flush EXCEPT ![x] = d]
      /\ durable' = disk /\ disk' = disk /\ flushGen' = flushGen
      /\ syncedGen' = Larger(syncedGen, flush[x].covers)
      /\ UNCHANGED <<meta, content, latch, table, allocLock, thread, ckptState, fresh, log>>
  BY Zenon DEF FlushSync, FlushTo, FlushAt, pool, wal
<1>5. /\ meta[f].page = p /\ meta[f].page # None /\ meta[f].flushing
      /\ \A y \in Procs : y # x /\ InFlight(y) => flush[y].frame # f
      /\ x \in Threads => ~meta[f].dirty
      /\ latch[f].writer # None => meta[f].dirty \/ flush[x].pc = "latch"
  BY <1>1, InFlightFacts
<1>6. ~meta[f].dirty => disk[p].lsn = content[f].lsn
  BY Zenon, <1>1 DEF CacheInv, CleanIsDurable
<1>7. /\ syncedGen \in Nat /\ syncedGen <= flushGen /\ flush[x].covers \in Nat
      /\ flush[x].covers <= flushGen
  BY Zenon, <1>1, <1>2 DEF CacheInv, Generations, Flushes
<1> HIDE DEF d
<1>8. flush'[x] = d /\ OneFlushMoves(x)
  BY Zenon, <1>4 DEF PoolInv, PoolTypes, OneFlushMoves
<1>9. d.pc \in AtSea /\ d.pc # "ok" /\ d.pc # "err" /\ flush[x].pc # "claim" /\ flush[x].pc # "latch"
      /\ d.pc \notin {"cover", "sync"}
  BY Zenon, <1>1, <1>3 DEF AtSea
<1> HIDE DEF f, p
<1>10. FlushShift(x, f, d)
  BY Zenon, <1>1, <1>3, <1>4, <1>5, <1>8, <1>9 DEF FlushShift, f
<1>11. FilesGrow
  <2>1. disk \in [Pages -> Images] /\ \A q \in Pages : disk[q].lsn \in Nat
    BY Zenon DEF PoolInv, PoolTypes, Images
  <2>2. \A q \in Pages : disk[q].lsn <= disk[q].lsn
    BY <2>1
  <2> QED
    BY Zenon, <1>4, <2>1, <2>2 DEF FilesGrow, CacheInv, FilesLag
<1>12. StaysClean(x, f, d)
  BY Zenon, <1>3, <1>4, <1>5, <1>6, <1>9 DEF StaysClean
<1>13. StaysCounted(x, d)
  <2>1. syncedGen' \in Nat /\ syncedGen' <= flushGen' /\ flushGen <= flushGen'
    BY <1>2, <1>4, <1>7 DEF Larger
  <2> QED
    BY Zenon, <1>2, <1>4, <1>9, <2>1 DEF StaysCounted
<1>14. CleanIsDurable' /\ Generations' /\ GateIsPassed'
  <2>1. f \in Frames /\ meta'[f].needsFpi = meta[f].needsFpi
    BY Zenon, <1>2, <1>4 DEF f
  <2> QED
    BY Zenon, <1>4, <1>8, <1>10, <1>11, <1>12, <1>13, <2>1, CleanShifts, GenerationsShift, GateShifts
<1>15. x = Ckpt => ServedAt(flush[x])'
  <2> SUFFICES ASSUME x = Ckpt PROVE ServedAt(flush[Ckpt])'
    BY Zenon
  <2>1. /\ flush[Ckpt].asked \in Pages /\ flush[Ckpt].want \in Nat
        /\ \/ Reached(flush[Ckpt].want)
           \/ flush[Ckpt].asked = flush[Ckpt].page /\ disk[flush[Ckpt].page].lsn >= flush[Ckpt].want
    BY Zenon, <1>1, ServedFacts DEF ServedAt
  <2>2. /\ durable[flush[Ckpt].asked].lsn \in Nat /\ disk[flush[Ckpt].asked].lsn \in Nat
        /\ durable[flush[Ckpt].asked].lsn <= disk[flush[Ckpt].asked].lsn
    BY Zenon, <2>1 DEF CacheInv, FilesLag, PoolInv, PoolTypes, Images
  <2>3. disk[flush[Ckpt].asked].lsn >= flush[Ckpt].want
    BY <2>1, <2>2 DEF Reached
  <2>4. flush'[Ckpt].asked = flush[Ckpt].asked /\ flush'[Ckpt].want = flush[Ckpt].want
    BY Zenon, <1>3, <1>8
  <2> QED
    BY Zenon, <1>4, <2>3, <2>4 DEF ServedAt, Reached
<1> QED
  BY Zenon, <1>9, <1>10, <1>11, <1>14, <1>15, FlushShifts

LEMMA FlushWriteCoheres ==
    ASSUME PoolInv, PoolInv', CacheInv, NEW x \in Procs, FlushWrite(x)
    PROVE  CacheInv'
<1> DEFINE f == flush[x].frame
           p == flush[x].page
           d == Written(flush[x], flushGen + 1)
           l == ReadersSet(latch[f], latch[f].readers \ {x})
           m == WithFpi(meta[f], TRUE)
<1>1. flush[x].pc = "write" /\ flush[x].pc \in Busy /\ InFlight(x)
  BY Zenon DEF FlushWrite, Busy, InFlight
<1>2. /\ f \in Frames /\ flush[x] \in Flushes /\ p \in Pages
      /\ latch[f] \in Latches /\ latch[f].readers \ {x} \in SUBSET Procs
      /\ meta \in [Frames -> Metas] /\ meta[f] \in Metas
      /\ content[f] \in Images /\ disk \in [Pages -> Images]
      /\ flushGen \in Nat /\ flushGen + 1 \in Nat
  <2>1. /\ f \in Frames /\ flush[x] \in Flushes /\ p \in Pages
        /\ latch[f] \in Latches /\ latch[f].readers \in SUBSET Procs
        /\ meta \in [Frames -> Metas] /\ meta[f] \in Metas
        /\ content[f] \in Images /\ disk \in [Pages -> Images]
        /\ flushGen \in Nat
    BY Zenon, <1>1, FlushTarget
  <2>2. flushGen + 1 \in Nat /\ latch[f].readers \ {x} \in SUBSET Procs
    BY <2>1
  <2> QED
    BY Zenon, <2>1, <2>2
<1>3. /\ d.pc = "cover" /\ d.frame = f /\ d.page = p /\ d.gen = flushGen + 1
      /\ d.asked = flush[x].asked /\ d.want = flush[x].want
  BY Zenon, <1>2, CountedFields, CountedKeeps
<1>4. l.writer = latch[f].writer
  BY Zenon, <1>2, ReaderFields
<1>5. m.page = meta[f].page /\ m.dirty = meta[f].dirty /\ m.flushing = meta[f].flushing /\ m.needsFpi
  BY Zenon, <1>2, WithFpiFields
<1>6. /\ flush' = [flush EXCEPT ![x] = d] /\ latch' = [latch EXCEPT ![f] = l]
      /\ meta' = [meta EXCEPT ![f] = m]
  BY Zenon DEF FlushWrite, Written, ReadersSet, WithFpi
<1>7. /\ disk' = [disk EXCEPT ![p] = content[f]] /\ flushGen' = flushGen + 1
      /\ durable' = durable /\ syncedGen' = syncedGen
      /\ UNCHANGED <<content, table, allocLock, thread, ckptState, fresh, log>>
  BY Zenon DEF FlushWrite, wal
<1>8. /\ meta[f].page = p /\ meta[f].page # None /\ meta[f].flushing /\ table[p] = f
      /\ content[f].lsn = Newest(log, p)
      /\ \A y \in Procs : y # x /\ InFlight(y) => flush[y].frame # f /\ flush[y].page # p
      /\ x \in Threads => ~meta[f].dirty
      /\ latch[f].writer # None => meta[f].dirty \/ flush[x].pc = "latch"
  BY <1>1, InFlightFacts
<1>9. latch[f].writer = None
  BY Zenon, <1>1, <1>2 DEF PoolInv, LatchesExclude, WritesAreLogged
<1> HIDE DEF d, m, l
<1>10. /\ flush'[x] = d /\ OneFlushMoves(x)
       /\ meta'[f] = m /\ (\A g \in Frames : g # f => meta'[g] = meta[g])
       /\ \A g \in Frames : latch'[g].writer = latch[g].writer
  BY Zenon, <1>2, <1>4, <1>6 DEF PoolInv, PoolTypes, OneFlushMoves
<1>11. disk'[p] = content[f] /\ \A q \in Pages : q # p => disk'[q] = disk[q]
  BY Zenon, <1>2, <1>7
<1> HIDE DEF f, p
<1>12. /\ d.pc \in AtSea /\ d.pc # "ok" /\ d.pc # "err" /\ d.pc # "finish" /\ flush[x].pc # "claim"
       /\ d.pc # "sync" /\ flush[x].pc # "latch"
       /\ meta'[f].page = meta[f].page /\ (meta'[f].dirty <=> meta[f].dirty) /\ meta'[f].flushing
       /\ meta'[f].needsFpi
  BY <1>1, <1>3, <1>5, <1>8, <1>10 DEF AtSea
<1>13. FlushShift(x, f, d)
  BY Zenon, <1>1, <1>3, <1>7, <1>8, <1>10, <1>12 DEF FlushShift, f
<1>14. FilesGrow
  <2>1. \A q \in Pages : disk[q].lsn \in Nat /\ durable[q].lsn \in Nat /\ Newest(log, q) \in Nat
    BY DEF PoolInv, PoolTypes, Images, CacheInv, FilesLag, NewestIsRecord
  <2>2. \A q \in Pages : durable[q].lsn <= disk[q].lsn /\ disk[q].lsn <= Newest(log, q)
    BY Zenon DEF CacheInv, FilesLag
  <2>3. table[p] # None
    BY Zenon, <1>2, <1>8, PoolAssumption
  <2>4. durable' \in [Pages -> Images]
    BY Zenon, <1>7 DEF CacheInv, FilesLag
  <2>5. /\ durable[p].lsn <= durable[p].lsn /\ disk[p].lsn <= disk'[p].lsn
        /\ durable[p].lsn <= disk'[p].lsn /\ disk'[p].lsn <= Newest(log, p)
    BY <1>2, <1>8, <1>11, <2>1, <2>2
  <2>6. \A q \in Pages : q # p => /\ durable[q].lsn <= durable[q].lsn /\ disk[q].lsn <= disk'[q].lsn
                                 /\ durable[q].lsn <= disk'[q].lsn /\ disk'[q].lsn <= Newest(log, q)
    BY <1>11, <2>1, <2>2
  <2>7. \A q \in Pages : table[q] = None => disk'[q] = disk[q]
    BY Zenon, <1>11, <2>3
  <2> QED
    BY Zenon, <1>7, <2>4, <2>5, <2>6, <2>7 DEF FilesGrow
<1>15. \A y \in Procs : y # x /\ InFlight(y) => disk'[flush[y].page] = disk[flush[y].page]
  <2>1. \A y \in Procs : InFlight(y) => flush[y].page \in Pages
    BY Zenon DEF InFlight, PoolInv, TargetsExist, Busy
  <2> QED
    BY Zenon, <1>8, <1>11, <2>1
<1>16. StaysClean(x, f, d)
  BY Zenon, <1>3, <1>9, <1>11, <1>12, <1>15 DEF StaysClean
<1>17. StaysCounted(x, d)
  <2>1. syncedGen \in Nat /\ syncedGen <= flushGen
    BY Zenon DEF CacheInv, Generations
  <2>2. /\ syncedGen' \in Nat /\ syncedGen' <= flushGen' /\ flushGen \in Nat /\ flushGen <= flushGen'
        /\ ~(syncedGen' >= d.gen)
    BY <1>2, <1>3, <1>7, <2>1
  <2> QED
    BY Zenon, <1>7, <1>12, <1>15, <2>2 DEF StaysCounted
<1>18. GateIsPassed'
  <2>1. ASSUME NEW g \in Frames, meta'[g].page # None, ~meta'[g].needsFpi
        PROVE  disk'[meta'[g].page].of = None
    <3>1. g # f /\ meta'[g] = meta[g]
      BY Zenon, <1>10, <1>12, <2>1
    <3>2. table[meta[g].page] = g /\ meta[g].page \in Pages
      BY Zenon, <2>1, <3>1 DEF CacheInv, FramesMapped, PoolInv, PoolTypes, Metas, PageOrNone
    <3>3. disk'[meta[g].page] = disk[meta[g].page]
      BY Zenon, <1>8, <1>11, <3>1, <3>2
    <3> QED
      BY Zenon, <2>1, <3>1, <3>3 DEF CacheInv, GateIsPassed
  <2>2. ASSUME NEW u \in Threads, thread'[u].pc = "latched", thread'[u].gate # 0,
               disk'[thread'[u].page].of # None
        PROVE  thread'[u].gate <= content'[thread'[u].frame].lsn
    <3>1. /\ thread' = thread /\ content' = content /\ thread[u].pc = "latched" /\ thread[u].pc \in Holding
          /\ thread[u].page \in Pages /\ thread[u].frame \in Frames
      BY Zenon, <1>7, <2>2 DEF Holding, PoolInv, TargetsExist
    <3>2. latch[thread[u].frame].writer = u /\ u # None
      BY Zenon, <3>1, PoolAssumption DEF PoolInv, LatchesExclude
    <3>3. thread[u].frame # f
      BY Zenon, <1>9, <3>2
    <3>4. meta[thread[u].frame].page = thread[u].page /\ thread[u].page # None
      BY Zenon, <3>1, PoolAssumption DEF CacheInv, FramesMapped
    <3>5. table[thread[u].page] = thread[u].frame
      BY Zenon, <3>1, <3>4 DEF CacheInv, FramesMapped
    <3>6. disk'[thread[u].page] = disk[thread[u].page]
      BY Zenon, <1>8, <1>11, <3>1, <3>3, <3>5
    <3> QED
      BY Zenon, <2>2, <3>1, <3>6 DEF CacheInv, GateIsPassed
  <2>3. FpiBeforeChange'
    BY Zenon, <1>7 DEF CacheInv, GateIsPassed, FpiBeforeChange
  <2> QED
    BY Zenon, <2>1, <2>2, <2>3 DEF GateIsPassed
<1>19. CleanIsDurable' /\ Generations'
  BY Zenon, <1>10, <1>13, <1>14, <1>16, <1>17, CleanShifts, GenerationsShift
<1>20. x = Ckpt => ServedAt(flush[x])'
  <2> SUFFICES ASSUME x = Ckpt PROVE ServedAt(flush[Ckpt])'
    BY Zenon
  <2>1. /\ flush[Ckpt].want \in Nat /\ flush[Ckpt].want <= Newest(log, flush[Ckpt].asked)
        /\ Reached(flush[Ckpt].want) \/ flush[Ckpt].asked = flush[Ckpt].page
    BY Zenon, <1>1, ServedFacts DEF ServedAt
  <2>2. /\ flush'[Ckpt].asked = flush[Ckpt].asked /\ flush'[Ckpt].page = flush[Ckpt].page
        /\ flush'[Ckpt].want = flush[Ckpt].want /\ flush'[Ckpt].pc = "cover"
    BY Zenon, <1>3, <1>10 DEF p
  <2>3. CASE Reached(flush[Ckpt].want)
    BY Zenon, <1>7, <2>2, <2>3 DEF ServedAt, Reached
  <2>4. CASE flush[Ckpt].asked = flush[Ckpt].page
    <3>1. disk'[p].lsn = Newest(log, p) /\ Newest(log, p) \in Nat /\ p = flush[Ckpt].page
      BY <1>2, <1>8, <1>11 DEF CacheInv, NewestIsRecord, p
    <3>2. disk'[flush'[Ckpt].page].lsn >= flush'[Ckpt].want
      BY Zenon, <2>1, <2>2, <2>4, <3>1
    <3> QED
      BY Zenon, <2>2, <2>4, <3>2 DEF ServedAt
  <2> QED
    BY Zenon, <2>1, <2>3, <2>4
<1> QED
  BY Zenon, <1>12, <1>13, <1>14, <1>18, <1>19, <1>20, FlushShifts

LEMMA FlushStepCoheres ==
    ASSUME PoolInv, PoolInv', CacheInv, NEW x \in Procs, FlushStep(x)
    PROVE  CacheInv'
BY Zenon, FlushClaimCoheres, FlushWalCoheres, FlushWriteCoheres, FlushCoverCoheres,
   FlushSyncCoheres, FlushFinishCoheres, FlushFailCoheres DEF FlushStep
----------------------------------------------------------------------------
(* The checkpoint                                                          *)

\* A step of the checkpoint leaves the pool alone, and touches only a flush of its
\* own that has not claimed its frame.
CkptMove ==
    /\ UNCHANGED <<pool, thread, fresh, files>>
    /\ \A x \in Procs : \/ flush'[x] = flush[x]
                        \/ /\ x = Ckpt /\ flush[x].pc \in {"none", "claim", "ok", "err"}
                           /\ flush'[x].pc \in {"none", "claim"}

LEMMA CheckpointShifts ==
    ASSUME PoolInv, CacheInv, CkptMove, LogGrew(None), FpiBeforeChange',
           AskedIsServed', CheckpointUnderWay'
    PROVE  CacheInv'
<1>1. /\ UNCHANGED <<meta, content, latch, table, allocLock, thread, fresh>>
      /\ UNCHANGED <<disk, durable, flushGen, syncedGen>>
  BY Zenon DEF CkptMove, pool, files
<1>2. \A t \in Threads : t \in Procs /\ flush'[t] = flush[t]
  <2>1. \A t \in Threads : t \in Procs /\ t # Ckpt
    BY Zenon, PoolAssumption DEF Procs
  <2> QED
    BY Zenon, <2>1 DEF CkptMove
<1>3. \A x \in Procs : flush'[x] = flush[x] \/ (~InFlight(x) /\ flush'[x].pc \in {"none", "claim"})
  <2>1. \A x \in Procs : \/ flush'[x] = flush[x]
                         \/ flush[x].pc \in {"none", "claim", "ok", "err"} /\ flush'[x].pc \in {"none", "claim"}
    BY Zenon DEF CkptMove
  <2>2. \A x \in Procs : flush[x].pc \in {"none", "claim", "ok", "err"} => ~InFlight(x)
    BY Zenon DEF InFlight
  <2> QED
    BY Zenon, <2>1, <2>2
<1>4. \A x \in Procs : flush'[x].pc \in AtSea \/ flush'[x].pc \in {"latch", "finish"} => flush'[x] = flush[x]
  BY Zenon, <1>3 DEF AtSea
<1>5. \A x \in Procs : InFlight(x) <=> InFlight(x)'
  BY Zenon, <1>3 DEF InFlight
<1>6. \A x \in Procs : InFlight(x) => flush'[x] = flush[x]
  BY Zenon, <1>3
<1>7. \A f \in Frames : Quiet(f)' <=> Quiet(f)
  BY Zenon, <1>5, <1>6 DEF Quiet
<1>8. \A q \in Pages : Newest(log', q) = Newest(log, q)
  BY Zenon, PoolAssumption DEF LogGrew
<1>9. FramesMapped'
  BY Zenon, <1>1 DEF CacheInv, FramesMapped
<1>10. FlushesApart'
  <2>1. \A x \in Procs : InFlight(x)' => /\ meta'[flush'[x].frame].flushing
                                         /\ meta'[flush'[x].frame].page = flush'[x].page
    BY Zenon, <1>1, <1>5, <1>6 DEF CacheInv, FlushesApart
  <2>2. \A x, y \in Procs : InFlight(x)' /\ InFlight(y)' /\ flush'[x].frame = flush'[y].frame => x = y
    BY Zenon, <1>5, <1>6 DEF CacheInv, FlushesApart
  <2>3. \A t \in Threads : /\ flush'[t].pc \in Busy => flush'[t].frame = thread'[t].frame
                           /\ flush'[t].pc = "ok" => ~meta'[thread'[t].frame].dirty
    BY Zenon, <1>1, <1>2 DEF CacheInv, FlushesApart
  <2>4. \A t \in Threads : flush'[t].pc = "ok" => \A x \in Procs : InFlight(x)' => flush'[x].frame # thread'[t].frame
    <3>1. \A t \in Threads : flush[t].pc = "ok" => \A x \in Procs : InFlight(x) => flush[x].frame # thread[t].frame
      BY Zenon DEF CacheInv, FlushesApart, Quiet
    <3> QED
      BY Zenon, <1>1, <1>2, <1>5, <1>6, <3>1
  <2>5. \A t \in Threads : InFlight(t)' => ~meta'[flush'[t].frame].dirty
    <3>1. \A t \in Threads : InFlight(t) => ~meta[flush[t].frame].dirty
      BY Zenon DEF CacheInv, FlushesApart
    <3> QED
      BY Zenon, <1>1, <1>2, <1>5, <3>1
  <2>6. \A f \in Frames : latch'[f].writer # None =>
           thread'[latch'[f].writer].pc \in {"latched", "changed"} /\ thread'[latch'[f].writer].frame = f
    BY Zenon, <1>1 DEF CacheInv, FlushesApart
  <2> QED
    BY Zenon, <2>1, <2>2, <2>3, <2>4, <2>5, <2>6 DEF FlushesApart, Quiet
<1>11. FilesLag'
  BY Zenon, <1>1, <1>8 DEF CacheInv, FilesLag
<1>12. MemoryCurrent'
  <2>1. \A f \in Frames : meta[f].page # None => meta[f].page \in Pages
    BY Zenon DEF PoolInv, PoolTypes, Metas, PageOrNone
  <2>2. fresh \subseteq Pages /\ \A t \in Threads : thread[t].pc = "evict" => thread[t].page \in Pages
    BY Zenon DEF CacheInv, FramesMapped, PoolInv, TargetsExist
  <2> QED
    BY Zenon, <1>1, <1>8, <2>1, <2>2 DEF CacheInv, MemoryCurrent, Untouched
<1>13. CleanIsDurable'
  <2>1. \A f \in Frames : latch'[f].writer # None =>
          meta'[f].dirty \/ \E x \in Procs : flush'[x].pc = "latch" /\ flush'[x].frame = f
    <3>1. \A x \in Procs : flush[x].pc = "latch" => InFlight(x)
      BY Zenon DEF InFlight
    <3>2. \A f \in Frames : latch[f].writer # None =>
            meta[f].dirty \/ \E x \in Procs : flush[x].pc = "latch" /\ flush[x].frame = f
      BY Zenon DEF CacheInv, CleanIsDurable
    <3>3. \A x \in Procs : flush[x].pc = "latch" => flush'[x].pc = "latch" /\ flush'[x].frame = flush[x].frame
      BY Zenon, <1>6, <3>1
    <3> QED
      BY <1>1, <3>2, <3>3
  <2>2. \A f \in Frames : meta'[f].page # None /\ ~meta'[f].dirty /\ Quiet(f)' =>
          durable'[meta'[f].page].lsn = content'[f].lsn
    BY Zenon, <1>1, <1>7 DEF CacheInv, CleanIsDurable
  <2>3. \A x \in Procs : flush'[x].pc \in {"cover", "sync", "finish"} => flush'[x] = flush[x]
    BY Zenon, <1>3
  <2>4. \A x \in Procs : flush'[x].pc \in {"cover", "sync", "finish"} /\ ~meta'[flush'[x].frame].dirty =>
          disk'[flush'[x].page].lsn = content'[flush'[x].frame].lsn
    BY Zenon, <1>1, <2>3 DEF CacheInv, CleanIsDurable
  <2> QED
    BY Zenon, <2>1, <2>2, <2>4 DEF CleanIsDurable
<1>14. Generations'
  <2>1. \A x \in Procs : flush'[x].pc \in {"cover", "sync"} \/ flush'[x].pc = "finish" \/ flush'[x].pc = "sync" => flush'[x] = flush[x]
    BY Zenon, <1>3
  <2> QED
    BY Zenon, <1>1, <2>1 DEF CacheInv, Generations
<1>15. GateIsPassed'
  BY Zenon, <1>1 DEF CacheInv, GateIsPassed
<1>16. NewestIsRecord'
  BY Zenon DEF LogGrew
<1> QED
  BY Zenon, <1>9, <1>10, <1>11, <1>12, <1>13, <1>14, <1>15, <1>16 DEF CacheInv

\* Facts about the checkpoint that its steps share.
LEMMA CheckpointFacts ==
    ASSUME PoolInv, CacheInv
    PROVE  /\ ckpt \in Ckpts /\ ckpt.begin \in Nat /\ ckpt.begin <= Len(log)
           /\ ckptLsn \in Nat /\ ckptLsn <= Len(log) /\ redo \in Nat /\ redo <= Len(log)
           /\ Len(log) \in Nat /\ flush \in [Procs -> Flushes]
           /\ ckpt.pc # "flush" => flush[Ckpt].pc \in {"none", "err"}
           /\ \A p \in Pages : /\ durable[p].lsn \in Nat /\ Newest(log, p) \in Nat
                               /\ LastIn(log, p, redo) \in Nat /\ durable[p].lsn >= LastIn(log, p, redo)
                               /\ LastIn(log, p, ckpt.begin) \in Nat
                               /\ LastIn(log, p, ckpt.begin) <= Newest(log, p)
                               /\ table[p] = None => durable[p].lsn >= LastIn(log, p, ckpt.begin)
<1>1. /\ ckpt \in Ckpts /\ ckptLsn \in Nat /\ Len(log) \in Nat /\ flush \in [Procs -> Flushes]
  BY DEF PoolInv, PoolTypes
<1>2. ckpt.begin \in Nat
  BY Zenon, <1>1 DEF Ckpts
<1>3. /\ ckpt.begin <= Len(log) /\ ckptLsn <= Len(log) /\ redo \in Nat /\ redo <= Len(log)
      /\ \A p \in Pages : /\ LastIn(log, p, redo) \in Nat /\ durable[p].lsn >= LastIn(log, p, redo)
                          /\ LastIn(log, p, ckpt.begin) \in Nat
                          /\ LastIn(log, p, ckpt.begin) <= Newest(log, p)
  BY Zenon DEF CacheInv, CheckpointUnderWay
<1>4. ckpt.pc # "flush" => flush[Ckpt].pc \in {"none", "err"}
  BY Zenon DEF CacheInv, AskedIsServed
<1>5. \A p \in Pages : durable[p].lsn \in Nat /\ Newest(log, p) \in Nat
  BY <1>1 DEF CacheInv, FilesLag, Images, NewestIsRecord
<1>6. \A p \in Pages : table[p] = None => durable[p].lsn = Newest(log, p)
  BY Zenon DEF CacheInv, MemoryCurrent
<1>7. \A p \in Pages : table[p] = None => durable[p].lsn >= LastIn(log, p, ckpt.begin)
  BY Zenon, <1>3, <1>5, <1>6
<1> QED
  BY Zenon, <1>1, <1>2, <1>3, <1>4, <1>5, <1>7

LEMMA NoneBefore ==
    ASSUME NEW l, NEW p
    PROVE  LastIn(l, p, 0) = 0
BY DEF LastIn, LastOf, RecordsOf

\* The steps after the begin record: the cycle goes on, ends or is given up.
CycleMove ==
    /\ CkptMove /\ log' = log
    /\ redo' = redo \/ (redo' = ckpt.begin /\ \A p \in Pages : durable[p].lsn >= LastIn(log, p, ckpt.begin))
    /\ ckptLsn' = ckptLsn \/ ckptLsn' = ckpt.begin
    /\ ckpt'.begin = ckpt.begin \/ ckpt' = NoCkpt
    /\ ckpt'.pc = "flush" =>
         /\ ckpt'.begin = ckpt.begin
         /\ \A p \in Pages : \/ durable[p].lsn >= LastIn(log, p, ckpt.begin)
                             \/ p \in ckpt'.todo
                             \/ table[p] \in ckpt'.scan

LEMMA CycleMoves ==
    ASSUME PoolInv, CacheInv, CycleMove, AskedIsServed'
    PROVE  CacheInv'
<1>1. /\ CkptMove /\ log' = log /\ UNCHANGED <<durable, table>>
  BY Zenon DEF CycleMove, CkptMove, pool, files
<1>2. FpiBeforeChange'
  BY Zenon, <1>1 DEF CacheInv, GateIsPassed, FpiBeforeChange
<1>3. LogGrew(None)
  BY Zenon, <1>1, LogStays
<1>4. NoCkpt.begin = 0
  BY Zenon DEF NoCkpt
<1>5. CheckpointUnderWay'
  <2>1. redo' \in Nat /\ redo' <= Len(log') /\ ckptLsn' <= Len(log')
    BY Zenon, <1>1, CheckpointFacts DEF CycleMove
  <2>2. ckpt'.begin = ckpt.begin \/ ckpt'.begin = 0
    BY Zenon, <1>4 DEF CycleMove
  <2>3. ckpt'.begin <= Len(log')
    BY <1>1, <2>2, CheckpointFacts
  <2>4. \A p \in Pages : LastIn(log', p, redo') \in Nat /\ durable'[p].lsn >= LastIn(log', p, redo')
    BY Zenon, <1>1, CheckpointFacts DEF CycleMove
  <2>5. \A p \in Pages : 0 \in Nat /\ 0 <= Newest(log, p)
    BY CheckpointFacts
  <2>6. \A p \in Pages : LastIn(log', p, ckpt'.begin) \in Nat /\ LastIn(log', p, ckpt'.begin) <= Newest(log', p)
    <3>1. CASE ckpt'.begin = ckpt.begin
      BY Zenon, <1>1, <3>1, CheckpointFacts
    <3>2. CASE ckpt'.begin = 0
      BY Zenon, <1>1, <2>5, <3>2, NoneBefore
    <3> QED
      BY Zenon, <2>2, <3>1, <3>2
  <2>7. ckpt'.pc = "flush" =>
          \A p \in Pages : \/ durable'[p].lsn >= LastIn(log', p, ckpt'.begin)
                           \/ p \in ckpt'.todo
                           \/ table'[p] \in ckpt'.scan
    BY Zenon, <1>1 DEF CycleMove
  <2> QED
    BY Zenon, <2>1, <2>3, <2>4, <2>6, <2>7 DEF CheckpointUnderWay
<1> QED
  BY Zenon, <1>1, <1>2, <1>3, <1>5, CheckpointShifts

LEMMA CkptBeginCoheres ==
    ASSUME PoolInv, PoolInv', CacheInv, CkptBegin
    PROVE  CacheInv'
<1> DEFINE r == [kind |-> "begin", page |-> None, since |-> 0]
<1>1. log' = Append(log, r) /\ ckpt' = Begun(Len(log')) /\ ckpt.pc = "idle"
  BY Zenon DEF CkptBegin, AppendRecord, Begun
<1>2. r \in LogRecords /\ r.kind # "update" /\ r.page = None
  BY Zenon DEF LogRecords, PageOrNone
<1> HIDE DEF r
<1>3. /\ LogGrew(None) /\ Len(log') = Len(log) + 1
      /\ log'[Len(log')] = r /\ \A i \in 1..Len(log) : log'[i] = log[i]
  BY Zenon, <1>1, <1>2, LogAppends
<1>4. log' \in Seq(LogRecords)
  BY Zenon DEF PoolInv, PoolTypes
<1>5. FpiBeforeChange'
  BY Zenon, <1>2, <1>3, <1>4, FpiKept
<1>6. CkptMove /\ flush' = flush /\ ckptLsn' = ckptLsn /\ redo' = redo /\ UNCHANGED <<durable, table>>
  BY Zenon DEF CkptBegin, CkptMove, pool, files
<1>7. ckpt'.pc = "publish" /\ ckpt'.begin = Len(log')
  BY <1>1, Zenon DEF Begun, NoCkpt
<1>8. AskedIsServed'
  <2>1. flush[Ckpt].pc \in {"none", "err"}
    BY Zenon, <1>1, CheckpointFacts
  <2> QED
    BY Zenon, <1>6, <2>1 DEF AskedIsServed
<1>9. CheckpointUnderWay'
  <2>1. redo' \in Nat /\ redo' <= Len(log') /\ ckptLsn' <= Len(log') /\ ckpt'.begin <= Len(log') /\ redo \in 0..Len(log)
    BY <1>3, <1>6, <1>7, CheckpointFacts
  <2>2. \A p \in Pages : LastIn(log', p, redo) = LastIn(log, p, redo)
    BY Zenon, <1>3, <2>1 DEF LogGrew
  <2>3. \A p \in Pages : LastIn(log', p, redo') \in Nat /\ durable'[p].lsn >= LastIn(log', p, redo')
    BY Zenon, <1>6, <2>2, CheckpointFacts
  <2>4. \A p \in Pages : LastIn(log', p, ckpt'.begin) = Newest(log', p) /\ Newest(log', p) \in Nat
    BY Zenon, <1>3, <1>7 DEF LogGrew, Newest
  <2>5. \A p \in Pages : LastIn(log', p, ckpt'.begin) \in Nat /\ LastIn(log', p, ckpt'.begin) <= Newest(log', p)
    BY <2>4
  <2>6. ckpt'.pc # "flush"
    BY Zenon, <1>7
  <2> QED
    BY Zenon, <2>1, <2>3, <2>5, <2>6 DEF CheckpointUnderWay
<1> QED
  BY Zenon, <1>3, <1>5, <1>6, <1>8, <1>9, CheckpointShifts

\* A cycle that does not touch the flush of the checkpoint keeps what it promised.
LEMMA StillAsked ==
    ASSUME CacheInv, log' = log, flush' = flush, UNCHANGED <<durable, disk, table>>,
           \/ ckpt'.pc = "flush" /\ ckpt'.begin = ckpt.begin
           \/ flush[Ckpt].pc \in {"none", "err"}
    PROVE  AskedIsServed'
<1>1. CASE flush[Ckpt].pc \in {"none", "err"}
  BY Zenon, <1>1 DEF AskedIsServed
<1>2. CASE ckpt'.pc = "flush" /\ ckpt'.begin = ckpt.begin
  BY Zenon, <1>2 DEF CacheInv, AskedIsServed, Reached
<1> QED
  BY Zenon, <1>1, <1>2

LEMMA CkptPublishCoheres ==
    ASSUME PoolInv, CacheInv, CkptPublish
    PROVE  CacheInv'
<1>1. /\ ckpt' = Published(ckpt) /\ ckpt.pc = "publish" /\ ckptLsn' = ckpt.begin
      /\ redo' = redo /\ flush' = flush /\ log' = log /\ UNCHANGED <<durable, disk, table>>
  BY Zenon DEF CkptPublish, Published, pool, files, wal
<1>2. ckpt'.scan = Frames /\ ckpt'.begin = ckpt.begin
  BY <1>1, CheckpointFacts, Zenon DEF Ckpts, Published
<1>3. CkptMove
  BY Zenon, <1>1 DEF CkptPublish, CkptMove
<1>4. flush[Ckpt].pc \in {"none", "err"}
  BY Zenon, <1>1, CheckpointFacts
<1>5. \A p \in Pages : table[p] = None \/ table[p] \in Frames
  BY Zenon DEF PoolInv, PoolTypes, FrameOrNone
<1>6. \A p \in Pages : durable[p].lsn >= LastIn(log, p, ckpt.begin) \/ table[p] \in ckpt'.scan
  BY Zenon, <1>2, <1>5, CheckpointFacts
<1>7. CycleMove
  BY Zenon, <1>1, <1>2, <1>3, <1>6 DEF CycleMove
<1>8. AskedIsServed'
  BY Zenon, <1>1, <1>4, StillAsked
<1> QED
  BY Zenon, <1>7, <1>8, CycleMoves

\* A frame that the scan passes is listed, or what it holds is durable.
LEMMA CkptScanCoheres ==
    ASSUME PoolInv, CacheInv, NEW f \in Frames, CkptScan(f), ~overtaken'
    PROVE  CacheInv'
<1> DEFINE s == IF meta[f].dirty /\ meta[f].page # None
                THEN ckpt.todo \cup {meta[f].page} ELSE ckpt.todo
<1>1. ckpt' = Scanned(ckpt, f, s)
  BY CkptFacts, Zenon DEF CkptScan, Scanned, Ckpts
<1>2. /\ ckpt.pc = "flush" /\ redo' = redo /\ ckptLsn' = ckptLsn
      /\ flush' = flush /\ log' = log /\ UNCHANGED <<durable, disk, table>>
  BY Zenon DEF CkptScan, pool, files, wal
<1>3. ckpt.todo \subseteq s /\ (meta[f].dirty /\ meta[f].page # None => meta[f].page \in s)
  BY Zenon
<1>4. ~(meta[f].flushing /\ ~(meta[f].dirty /\ meta[f].page # None))
  BY Zenon DEF CkptScan
<1> HIDE DEF s
<1>5. ckpt'.begin = ckpt.begin /\ ckpt'.pc = "flush" /\ ckpt'.todo = s /\ ckpt'.scan = ckpt.scan \ {f}
  BY <1>1, <1>2, CheckpointFacts, Zenon DEF Ckpts, Scanned
<1>6. ASSUME NEW p \in Pages, table[p] = f, meta[f].page # None, ~meta[f].dirty
      PROVE  durable[p].lsn >= LastIn(log, p, ckpt.begin)
  <2>1. meta[f].page = p
    BY Zenon, <1>6, PoolAssumption DEF CacheInv, FramesMapped
  <2>2. Quiet(f)
    BY Zenon, <1>4, <1>6 DEF CacheInv, FlushesApart, Quiet
  <2>3. durable[p].lsn = content[f].lsn /\ content[f].lsn = Newest(log, p)
    BY Zenon, <1>6, <2>1, <2>2 DEF CacheInv, CleanIsDurable, MemoryCurrent
  <2> QED
    BY Zenon, <2>3, CheckpointFacts
<1>7. ASSUME NEW p \in Pages
      PROVE  \/ durable[p].lsn >= LastIn(log, p, ckpt.begin)
             \/ p \in ckpt'.todo \/ table[p] \in ckpt'.scan
  <2>1. CASE table[p] = f
    <3>1. meta[f].page = p /\ p # None
      BY Zenon, <2>1, PoolAssumption DEF CacheInv, FramesMapped
    <3> QED
      BY Zenon, <1>3, <1>5, <1>6, <2>1, <3>1
  <2>2. CASE table[p] # f
    <3>1. \/ durable[p].lsn >= LastIn(log, p, ckpt.begin)
          \/ p \in ckpt.todo \/ table[p] \in ckpt.scan
      BY Zenon, <1>2 DEF CacheInv, CheckpointUnderWay
    <3> QED
      BY Zenon, <1>3, <1>5, <2>2, <3>1
  <2> QED
    BY Zenon, <2>1, <2>2
<1>8. CkptMove
  BY Zenon, <1>2 DEF CkptScan, CkptMove
<1>9. CycleMove
  BY Zenon, <1>2, <1>5, <1>7, <1>8 DEF CycleMove
<1>10. AskedIsServed'
  BY Zenon, <1>2, <1>5, StillAsked
<1> QED
  BY Zenon, <1>9, <1>10, CycleMoves

\* flush(page) begins with what the frame holds, the newest record of the page; a
\* page that is not in the pool is durable already.
LEMMA CkptFlushPageCoheres ==
    ASSUME PoolInv, CacheInv, NEW p \in Pages, CkptFlushPage(p)
    PROVE  CacheInv'
<1>1. /\ ckpt.pc = "flush" /\ flush[Ckpt].pc = "none" /\ redo' = redo /\ ckptLsn' = ckptLsn
      /\ log' = log /\ UNCHANGED <<durable, disk, table>>
      /\ UNCHANGED <<pool, thread, fresh, files>>
  BY Zenon DEF CkptFlushPage, pool, files, wal
<1>2. \A q \in Pages : \/ durable[q].lsn >= LastIn(log, q, ckpt.begin)
                       \/ q \in ckpt.todo \/ table[q] \in ckpt.scan
  BY Zenon, <1>1 DEF CacheInv, CheckpointUnderWay
<1>3. CASE table[p] = None
  <2>1. ckpt' = Todo(ckpt, ckpt.todo \ {p}) /\ flush' = flush
    BY Zenon, <1>3 DEF CkptFlushPage, Todo
  <2>2. /\ ckpt'.begin = ckpt.begin /\ ckpt'.pc = "flush"
        /\ ckpt'.todo = ckpt.todo \ {p} /\ ckpt'.scan = ckpt.scan
    BY <1>1, <2>1, CheckpointFacts, Zenon DEF Ckpts, Todo
  <2>3. durable[p].lsn >= LastIn(log, p, ckpt.begin)
    BY Zenon, <1>3, CheckpointFacts
  <2>4. \A q \in Pages : \/ durable[q].lsn >= LastIn(log, q, ckpt.begin)
                         \/ q \in ckpt'.todo \/ table[q] \in ckpt'.scan
    BY Zenon, <1>2, <2>2, <2>3
  <2>5. CkptMove
    BY Zenon, <1>1, <2>1 DEF CkptMove
  <2>6. CycleMove
    BY Zenon, <1>1, <2>2, <2>4, <2>5 DEF CycleMove
  <2>7. AskedIsServed'
    BY Zenon, <1>1, <2>1, <2>2, StillAsked
  <2> QED
    BY Zenon, <2>6, <2>7, CycleMoves
<1>4. CASE table[p] # None
  <2> DEFINE d == Asked(p, table[p], content[table[p]].lsn)
  <2>1. /\ table[p] \in Frames /\ meta[table[p]].page = p /\ p # None
        /\ content[table[p]].lsn = Newest(log, p)
    <3>1. table[p] \in Frames /\ meta[table[p]].page = p /\ p # None
      BY Zenon, <1>4, PoolAssumption DEF PoolInv, PoolTypes, FrameOrNone, CacheInv, FramesMapped
    <3> QED
      BY Zenon, <3>1 DEF CacheInv, MemoryCurrent
  <2>2. d.pc = "claim" /\ d.asked = p /\ d.frame = table[p] /\ d.want = content[table[p]].lsn
    BY Zenon DEF NoFlush, Asked
  <2>3. flush' = [flush EXCEPT ![Ckpt] = d] /\ ckpt' = ckpt
    BY Zenon, <1>4 DEF CkptFlushPage, StartFlush, Asked
  <2> HIDE DEF d
  <2>4. flush'[Ckpt] = d /\ \A x \in Procs : x # Ckpt => flush'[x] = flush[x]
    <3>1. Ckpt \in Procs
      BY Zenon DEF Procs
    <3> QED
      BY Zenon, <2>3, <3>1, CheckpointFacts
  <2>5. CkptMove
    <3>1. flush'[Ckpt].pc \in {"none", "claim"} /\ flush[Ckpt].pc \in {"none", "claim", "ok", "err"}
      BY Zenon, <1>1, <2>2, <2>4
    <3> QED
      BY Zenon, <1>1, <2>4, <3>1 DEF CkptMove
  <2>6. CycleMove
    BY Zenon, <1>1, <1>2, <2>3, <2>5 DEF CycleMove
  <2>7. AskedIsServed'
    <3>1. /\ flush'[Ckpt].pc = "claim" /\ flush'[Ckpt].asked = p /\ flush'[Ckpt].want = Newest(log, p)
          /\ table'[p] = flush'[Ckpt].frame
      BY Zenon, <1>1, <2>1, <2>2, <2>4
    <3>2. LastIn(log, p, ckpt.begin) <= Newest(log, p) /\ Newest(log, p) <= Newest(log, p)
      BY CheckpointFacts
    <3> QED
      BY Zenon, <1>1, <2>3, <3>1, <3>2 DEF AskedIsServed
  <2> QED
    BY Zenon, <2>6, <2>7, CycleMoves
<1> QED
  BY Zenon, <1>3, <1>4

\* A flush that returns has made durable what the page held at the begin record; one
\* that fails gives the cycle up.
LEMMA CkptFlushedCoheres ==
    ASSUME PoolInv, CacheInv, CkptFlushed
    PROVE  CacheInv'
<1> DEFINE s == ckpt.todo \ {flush[Ckpt].asked}
<1>1. /\ ckpt.pc = "flush" /\ flush[Ckpt].pc \in {"ok", "err"} /\ redo' = redo /\ ckptLsn' = ckptLsn
      /\ log' = log /\ UNCHANGED <<durable, disk, table>>
      /\ UNCHANGED <<pool, thread, fresh, files>> /\ flush' = [flush EXCEPT ![Ckpt] = NoFlush]
  BY Zenon DEF CkptFlushed, pool, files, wal
<1>2. ckpt' = IF flush[Ckpt].pc = "ok" THEN Todo(ckpt, s) ELSE NoCkpt
  BY Zenon DEF CkptFlushed, Todo
<1>3. flush'[Ckpt].pc = "none" /\ \A x \in Procs : x # Ckpt => flush'[x] = flush[x]
  <2>1. Ckpt \in Procs
    BY Zenon DEF Procs
  <2> QED
    BY Zenon, <1>1, <2>1, CheckpointFacts, NoFlushFields
<1>4. CkptMove
  <2>1. flush'[Ckpt].pc \in {"none", "claim"} /\ flush[Ckpt].pc \in {"none", "claim", "ok", "err"}
    BY Zenon, <1>1, <1>3
  <2> QED
    BY Zenon, <1>1, <1>3, <2>1 DEF CkptMove
<1>5. AskedIsServed'
  BY Zenon, <1>3 DEF AskedIsServed
<1>6. CASE flush[Ckpt].pc = "ok"
  <2>1. ckpt' = Todo(ckpt, s)
    BY Zenon, <1>2, <1>6
  <2>2. /\ ckpt'.begin = ckpt.begin /\ ckpt'.pc = "flush" /\ ckpt'.todo = s /\ ckpt'.scan = ckpt.scan
    BY <1>1, <2>1, CheckpointFacts, Zenon DEF Ckpts, Todo
  <2>3. /\ flush[Ckpt].asked \in Pages
        /\ LastIn(log, flush[Ckpt].asked, ckpt.begin) <= flush[Ckpt].want
        /\ Reached(flush[Ckpt].want)
    BY Zenon, <1>6 DEF CacheInv, AskedIsServed
  <2>4. flush[Ckpt].want \in Nat
    BY Zenon, CkptFacts DEF Flushes
  <2>5. durable[flush[Ckpt].asked].lsn >= LastIn(log, flush[Ckpt].asked, ckpt.begin)
    BY <2>3, <2>4, CheckpointFacts DEF Reached
  <2>6. \A q \in Pages : \/ durable[q].lsn >= LastIn(log, q, ckpt.begin)
                         \/ q \in ckpt.todo \/ table[q] \in ckpt.scan
    BY Zenon, <1>1 DEF CacheInv, CheckpointUnderWay
  <2>7. \A q \in Pages : \/ durable[q].lsn >= LastIn(log, q, ckpt.begin)
                         \/ q \in ckpt'.todo \/ table[q] \in ckpt'.scan
    BY Zenon, <2>2, <2>5, <2>6
  <2>8. CycleMove
    BY Zenon, <1>1, <1>4, <2>2, <2>7 DEF CycleMove
  <2> QED
    BY Zenon, <1>5, <2>8, CycleMoves
<1>7. CASE flush[Ckpt].pc # "ok"
  <2>1. ckpt' = NoCkpt /\ NoCkpt.pc # "flush"
    BY Zenon, <1>2, <1>7 DEF NoCkpt
  <2>2. CycleMove
    BY Zenon, <1>1, <1>4, <2>1 DEF CycleMove
  <2> QED
    BY Zenon, <1>5, <2>2, CycleMoves
<1> QED
  BY Zenon, <1>6, <1>7

\* When nothing is left to scan or to flush, the begin record is a redo point.
LEMMA CkptEndCoheres ==
    ASSUME PoolInv, CacheInv, CkptEnd
    PROVE  CacheInv'
<1>1. /\ ckpt.pc = "flush" /\ ckpt.scan = {} /\ ckpt.todo = {} /\ flush[Ckpt].pc = "none"
      /\ redo' = ckpt.begin /\ ckpt' = NoCkpt /\ ckptLsn' = ckptLsn
      /\ flush' = flush /\ log' = log /\ UNCHANGED <<durable, disk, table>>
  BY Zenon DEF CkptEnd, pool, files
<1>2. CkptMove
  BY Zenon, <1>1 DEF CkptEnd, CkptMove
<1>3. \A p \in Pages : durable[p].lsn >= LastIn(log, p, ckpt.begin)
  BY Zenon, <1>1 DEF CacheInv, CheckpointUnderWay
<1>4. NoCkpt.pc # "flush"
  BY Zenon DEF NoCkpt
<1>5. CycleMove
  BY Zenon, <1>1, <1>2, <1>3, <1>4 DEF CycleMove
<1>6. AskedIsServed'
  BY Zenon, <1>1 DEF AskedIsServed
<1> QED
  BY Zenon, <1>5, <1>6, CycleMoves

LEMMA CkptStepCoheres ==
    ASSUME PoolInv, PoolInv', CacheInv, ~overtaken', CkptStep
    PROVE  CacheInv'
BY Zenon, CkptBeginCoheres, CkptPublishCoheres, CkptScanCoheres, CkptFlushPageCoheres,
   CkptFlushedCoheres, CkptEndCoheres DEF CkptStep

----------------------------------------------------------------------------
(* The whole pool                                                          *)

LEMMA PinStepCoheres ==
    ASSUME PoolInv, PoolInv', CacheInv, HoldersApart, ~overtaken', NEW t \in Threads, PinStep(t)
    PROVE  CacheInv'
BY Zenon, TryPinResidentCoheres, PoolFullCoheres, AllocFrameCoheres, NewPageCoheres,
   EvictFlushFailedCoheres, LoadFrameCoheres, ReadFailsCoheres DEF PinStep

LEMMA GuardStepCoheres ==
    ASSUME PoolInv, PoolInv', CacheInv, HoldersApart, NEW t \in Threads, GuardStep(t)
    PROVE  CacheInv'
BY Zenon, PinReadCoheres, DropReadCoheres, PinMutCoheres, ModifyCoheres, DropMutCoheres
   DEF GuardStep

\* Every step keeps the cache coherent, unless it overtakes a flush.
LEMMA CacheInvNext ==
    ASSUME PoolInv, PoolInv', CacheInv, HoldersApart, Next, ~overtaken'
    PROVE  CacheInv'
BY Zenon, PinStepCoheres, GuardStepCoheres, FlushStepCoheres, CkptStepCoheres DEF Next

LEMMA CacheInvInit == ASSUME Init PROVE CacheInv
<1>1. /\ \A t \in Threads : thread[t].pc = "idle"
      /\ \A x \in Procs : flush[x].pc = "none"
      /\ Ckpt \in Procs /\ \A t \in Threads : t \in Procs
  BY Zenon DEF Init, Idle, NoFlush, Procs
<1>2. /\ \A f \in Frames : meta[f].page = None /\ ~meta[f].dirty /\ ~meta[f].needsFpi
      /\ \A f \in Frames : latch[f].writer = None
      /\ \A p \in Pages : table[p] = None
  BY Zenon DEF Init, Empty, Unlatched
<1>3. \A p \in Pages : LastIn(log, p, 0) = 0
  BY Zenon, NoneBefore
<1>4. log = <<>> /\ Len(log) = 0 /\ fresh = Fresh /\ Fresh \subseteq Pages /\ durable = disk
      /\ flushGen = 0 /\ syncedGen = 0 /\ redo = 0 /\ ckptLsn = 0
  BY Zenon, PoolAssumption DEF Init
<1>5. \A p \in Pages : Newest(log, p) = 0
  BY Zenon, <1>3, <1>4 DEF Newest
<1>6. /\ disk \in [Pages -> Images]
      /\ \A p \in Pages : disk[p].lsn = 0 /\ (p \in Fresh => disk[p].of = None)
  <2>1. \A p \in Pages : [of |-> p, lsn |-> 0] \in Images
    BY Zenon DEF Images, PageOrNone
  <2>2. disk = [p \in Pages |-> IF p \in Fresh THEN Zeroed ELSE [of |-> p, lsn |-> 0]]
    BY Zenon DEF Init
  <2>3. \A p \in Pages : disk[p].lsn = 0 /\ (p \in Fresh => disk[p].of = None)
    BY Zenon, <2>2 DEF Zeroed
  <2> QED
    BY Zenon, <2>1, <2>2, <2>3, ZeroedImage
<1>7. ckpt.pc = "idle" /\ ckpt.begin = 0
  BY Zenon DEF Init, NoCkpt
<1>8. FramesMapped
  BY <1>1, <1>2, <1>4 DEF FramesMapped, Holding
<1>9. FlushesApart
  BY Zenon, <1>1, <1>2 DEF FlushesApart, InFlight, Busy, Quiet
<1>10. NewestIsRecord
  BY <1>4, <1>5 DEF NewestIsRecord
<1>11. FilesLag
  BY <1>4, <1>5, <1>6 DEF FilesLag
<1>12. MemoryCurrent
  BY <1>1, <1>2, <1>4, <1>5, <1>6 DEF MemoryCurrent, Untouched
<1>13. CleanIsDurable
  BY Zenon, <1>1, <1>2 DEF CleanIsDurable
<1>14. Generations
  BY <1>1, <1>4 DEF Generations
<1>15. AskedIsServed
  BY Zenon, <1>1 DEF AskedIsServed
<1>16. CheckpointUnderWay
  BY <1>3, <1>4, <1>5, <1>6, <1>7 DEF CheckpointUnderWay
<1>17. GateIsPassed
  <2>1. FpiBeforeChange
    BY <1>4 DEF FpiBeforeChange
  <2> QED
    BY Zenon, <1>1, <1>2, <2>1 DEF GateIsPassed
<1> QED
  BY Zenon, <1>8, <1>9, <1>10, <1>11, <1>12, <1>13, <1>14, <1>15, <1>16, <1>17 DEF CacheInv
=============================================================================
