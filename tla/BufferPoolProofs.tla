-------------------------- MODULE BufferPoolProofs --------------------------
(***************************************************************************)
(* WAL before data, for any number of pages, frames and threads: no image  *)
(* reaches the data file before the records that made it are durable,      *)
(* whatever flushes, evictions, checkpoints and I/O errors come between    *)
(* the fsync of the log and the write of the page.                         *)
(***************************************************************************)
EXTENDS BufferPool, TLAPS

----------------------------------------------------------------------------
(* The inductive invariant                                                 *)

PageOrNone == Pages \cup {None}
FrameOrNone == Frames \cup {None}
Images == [of : PageOrNone, lsn : Nat]
Metas == [page : PageOrNone, pins : Int, dirty : BOOLEAN, needsFpi : BOOLEAN,
          evicting : BOOLEAN, flushing : BOOLEAN]
Latches == [writer : Threads \cup {None}, readers : SUBSET Procs]
ThreadSteps == {"idle", "pinned", "evict", "reading", "latched", "changed"}
Cursors == [pc : ThreadSteps,
            page : PageOrNone, frame : FrameOrNone, new : BOOLEAN, gate : Nat]
FlushSteps == {"none", "claim", "latch", "write", "cover", "sync", "finish", "ok", "err"}
Flushes == [pc : FlushSteps,
            asked : PageOrNone, page : PageOrNone, frame : FrameOrNone,
            want : Nat, gen : Nat, covers : Nat]
Ckpts == [pc : {"idle", "publish", "flush"}, begin : Nat,
          scan : SUBSET Frames, todo : SUBSET Pages]
LogRecords == [kind : {"fpi", "update", "begin"}, page : PageOrNone, since : Nat]

PoolTypes ==
    /\ meta \in [Frames -> Metas]
    /\ content \in [Frames -> Images]
    /\ latch \in [Frames -> Latches]
    /\ table \in [Pages -> FrameOrNone]
    /\ thread \in [Threads -> Cursors]
    /\ flush \in [Procs -> Flushes]
    /\ ckpt \in Ckpts
    /\ ckptLsn \in Nat
    /\ disk \in [Pages -> Images]
    /\ flushGen \in Nat
    /\ log \in Seq(LogRecords)
    /\ synced \in Nat

\* What a thread or a flush works on exists from the moment it is chosen.
Busy == {"claim", "latch", "write", "cover", "sync", "finish"}
TargetsExist ==
    /\ \A t \in Threads : thread[t].pc # "idle" => thread[t].frame \in Frames /\ thread[t].page \in Pages
    /\ \A x \in Procs : flush[x].pc \in Busy => flush[x].frame \in Frames
    /\ \A x \in Procs : flush[x].pc \in Busy \ {"claim"} => flush[x].page \in Pages
    /\ \A t \in Threads : thread[t].pc # "evict" => flush[t].pc = "none"

\* The content lock: a writer is alone, and whoever changes a page holds it.
LatchesExclude ==
    /\ \A f \in Frames : latch[f].writer # None => latch[f].readers = {}
    /\ \A t \in Threads : thread[t].pc \in {"latched", "changed"} =>
          latch[thread[t].frame].writer = t

\* Between the fsync of the log and the write the image cannot change.
WritesAreLogged ==
    \A x \in Procs : flush[x].pc = "write" =>
       /\ x \in latch[flush[x].frame].readers
       /\ content[flush[x].frame].lsn <= synced

ImagesAreLogged ==
    /\ synced <= Len(log)
    /\ \A f \in Frames : content[f].lsn <= Len(log)
    /\ \A p \in Pages : disk[p].lsn <= synced

PoolInv == PoolTypes /\ TargetsExist /\ LatchesExclude /\ WritesAreLogged /\ ImagesAreLogged

----------------------------------------------------------------------------
(* Fields of updated records                                               *)

LEMMA Updated ==
    ASSUME NEW A, NEW R, NEW F \in [A -> R], NEW a \in A, NEW r \in R
    PROVE  /\ [F EXCEPT ![a] = r] \in [A -> R]
           /\ [F EXCEPT ![a] = r][a] = r
           /\ \A b \in A : b # a => [F EXCEPT ![a] = r][b] = F[b]
BY Zenon

LEMMA Logged ==
    ASSUME NEW S, NEW l \in Seq(S), NEW r \in S
    PROVE  Append(l, r) \in Seq(S) /\ Len(Append(l, r)) = Len(l) + 1
OBVIOUS

LEMMA MetaFields ==
    ASSUME NEW m \in Metas, NEW b \in BOOLEAN, NEW n \in Int
    PROVE  /\ [m EXCEPT !.pins = n] \in Metas
           /\ [m EXCEPT !.dirty = b] \in Metas
           /\ [m EXCEPT !.needsFpi = b] \in Metas
           /\ [m EXCEPT !.evicting = b] \in Metas
           /\ [m EXCEPT !.flushing = b] \in Metas
BY Zenon DEF Metas

WriterSet(l, w) == [l EXCEPT !.writer = w]
ReadersSet(l, s) == [l EXCEPT !.readers = s]
LEMMA WriterFields ==
    ASSUME NEW l \in Latches, NEW w \in Threads \cup {None}
    PROVE  /\ WriterSet(l, w) \in Latches
           /\ WriterSet(l, w).writer = w /\ WriterSet(l, w).readers = l.readers
BY Zenon DEF Latches, WriterSet

LEMMA ReaderFields ==
    ASSUME NEW l \in Latches, NEW s \in SUBSET Procs
    PROVE  /\ ReadersSet(l, s) \in Latches
           /\ ReadersSet(l, s).writer = l.writer /\ ReadersSet(l, s).readers = s
BY Zenon DEF Latches, ReadersSet

ThreadAt(c, s) == [c EXCEPT !.pc = s]
Gated(c, n) == [c EXCEPT !.pc = "latched", !.gate = n]
LEMMA CursorFields ==
    ASSUME NEW c \in Cursors, NEW s \in ThreadSteps, NEW n \in Nat
    PROVE  /\ ThreadAt(c, s) \in Cursors /\ ThreadAt(c, s).pc = s
           /\ ThreadAt(c, s).frame = c.frame /\ ThreadAt(c, s).page = c.page
           /\ Gated(c, n) \in Cursors /\ Gated(c, n).pc = "latched"
           /\ Gated(c, n).frame = c.frame /\ Gated(c, n).page = c.page
BY Zenon DEF Cursors, ThreadSteps, ThreadAt, Gated

Pinned(p, f) == [Idle EXCEPT !.pc = "pinned", !.page = p, !.frame = f]
Evicting(p, f, b) == [Idle EXCEPT !.pc = "evict", !.page = p, !.frame = f, !.new = b]
LEMMA IdleCursor == Idle \in Cursors /\ Idle.pc = "idle"
BY Zenon DEF Idle, Cursors, ThreadSteps, PageOrNone, FrameOrNone

LEMMA PinnedCursor ==
    ASSUME NEW p \in Pages, NEW f \in Frames
    PROVE  /\ Pinned(p, f) \in Cursors /\ Pinned(p, f).pc = "pinned"
           /\ Pinned(p, f).page = p /\ Pinned(p, f).frame = f
BY Zenon DEF Idle, Cursors, ThreadSteps, PageOrNone, FrameOrNone, Pinned

LEMMA EvictCursor ==
    ASSUME NEW p \in Pages, NEW f \in Frames, NEW b \in BOOLEAN
    PROVE  /\ Evicting(p, f, b) \in Cursors /\ Evicting(p, f, b).pc = "evict"
           /\ Evicting(p, f, b).page = p /\ Evicting(p, f, b).frame = f
BY Zenon DEF Idle, Cursors, ThreadSteps, PageOrNone, FrameOrNone, Evicting

FlushAt(c, s) == [c EXCEPT !.pc = s]
Claimed(c, p) == [c EXCEPT !.pc = "latch", !.page = p]
Written(c, n) == [c EXCEPT !.pc = "cover", !.gen = n]
Covering(c, n) == [c EXCEPT !.pc = "sync", !.covers = n]
LEMMA FlushAtFields ==
    ASSUME NEW c \in Flushes, NEW s \in FlushSteps
    PROVE  /\ FlushAt(c, s) \in Flushes /\ FlushAt(c, s).pc = s
           /\ FlushAt(c, s).frame = c.frame /\ FlushAt(c, s).page = c.page
BY Zenon DEF Flushes, FlushAt

LEMMA ClaimedFields ==
    ASSUME NEW c \in Flushes, NEW p \in Pages
    PROVE  /\ Claimed(c, p) \in Flushes /\ Claimed(c, p).pc = "latch"
           /\ Claimed(c, p).frame = c.frame /\ Claimed(c, p).page = p
BY Zenon DEF Flushes, FlushSteps, PageOrNone, Claimed

LEMMA CountedFields ==
    ASSUME NEW c \in Flushes, NEW n \in Nat
    PROVE  /\ Written(c, n) \in Flushes /\ Written(c, n).pc = "cover"
           /\ Written(c, n).frame = c.frame /\ Written(c, n).page = c.page
           /\ Covering(c, n) \in Flushes /\ Covering(c, n).pc = "sync"
           /\ Covering(c, n).frame = c.frame /\ Covering(c, n).page = c.page
BY Zenon DEF Flushes, FlushSteps, Written, Covering

Asked(p, f, n) == [NoFlush EXCEPT !.pc = "claim", !.asked = p, !.frame = f, !.want = n]
LEMMA NewFlush ==
    ASSUME NEW p \in Pages, NEW f \in Frames, NEW n \in Nat
    PROVE  /\ NoFlush \in Flushes /\ NoFlush.pc = "none"
           /\ Asked(p, f, n) \in Flushes /\ Asked(p, f, n).pc = "claim"
           /\ Asked(p, f, n).frame = f
BY Zenon DEF NoFlush, Flushes, FlushSteps, PageOrNone, FrameOrNone, Asked

----------------------------------------------------------------------------
(* Pinning, loading and evicting                                           *)

\* A step that leaves images, latches and flushes alone, moves one thread and
\* keeps the metadata typed.
LEMMA ThreadStep ==
    ASSUME PoolInv, NEW t \in Threads, NEW c \in Cursors,
           thread' = [thread EXCEPT ![t] = c],
           c.pc # "idle" => c.frame \in Frames /\ c.page \in Pages,
           c.pc \notin {"latched", "changed"},
           c.pc = "evict" \/ flush[t].pc = "none",
           meta' \in [Frames -> Metas],
           UNCHANGED <<content, latch, table, flush, ckptState, files, wal>>
    PROVE  PoolInv'
<1>1. /\ thread' \in [Threads -> Cursors] /\ thread'[t] = c
      /\ \A u \in Threads : u # t => thread'[u] = thread[u]
  BY Zenon, Updated DEF PoolInv, PoolTypes
<1>2. PoolTypes'
  BY Zenon, <1>1 DEF PoolInv, PoolTypes, ckptState, files, wal
<1>3. TargetsExist' /\ LatchesExclude'
  BY Zenon, <1>1 DEF PoolInv, TargetsExist, LatchesExclude
<1>4. WritesAreLogged' /\ ImagesAreLogged'
  BY Zenon DEF PoolInv, WritesAreLogged, ImagesAreLogged, files, wal
<1> QED
  BY Zenon, <1>2, <1>3, <1>4 DEF PoolInv

LEMMA TryPinResidentKeeps ==
    ASSUME PoolInv, NEW t \in Threads, NEW p \in Pages, TryPinResident(t, p)
    PROVE  PoolInv'
<1> DEFINE f == table[p]
           m == [meta[f] EXCEPT !.pins = @ + 1]
           c == Pinned(p, f)
<1>1. f \in Frames /\ meta[f] \in Metas /\ meta[f].pins + 1 \in Int
  BY DEF TryPinResident, PoolInv, PoolTypes, FrameOrNone, Metas
<1>2. m \in Metas
  BY Zenon, <1>1, MetaFields
<1>3. c \in Cursors /\ c.pc = "pinned" /\ c.page = p /\ c.frame = f
  BY <1>1, PinnedCursor
<1>4. meta' = [meta EXCEPT ![f] = m] /\ thread' = [thread EXCEPT ![t] = c]
  BY Zenon DEF TryPinResident, Pinned
<1>5. flush[t].pc = "none" /\ UNCHANGED <<content, latch, table, flush, ckptState, files, wal>>
  BY Zenon DEF TryPinResident, Start, PoolInv, TargetsExist
<1> HIDE DEF f, m, c
<1>6. meta' \in [Frames -> Metas]
  BY Zenon, <1>1, <1>2, <1>4 DEF PoolInv, PoolTypes
<1> QED
  BY Zenon, <1>1, <1>3, <1>4, <1>5, <1>6, ThreadStep

LEMMA PoolFullKeeps ==
    ASSUME PoolInv, NEW t \in Threads, NEW p \in Pages, PoolFull(t, p)
    PROVE  PoolInv'
BY Zenon DEF PoolFull, pool, ckptState, files, wal, PoolInv, PoolTypes, TargetsExist, LatchesExclude,
       WritesAreLogged, ImagesAreLogged

\* The same, when the thread's flush starts or ends with the step.
LEMMA EvictStep ==
    ASSUME PoolInv, NEW t \in Threads, NEW c \in Cursors, NEW d \in Flushes,
           thread' = [thread EXCEPT ![t] = c], flush' = [flush EXCEPT ![t] = d],
           c.pc # "idle" => c.frame \in Frames /\ c.page \in Pages,
           c.pc \notin {"latched", "changed"},
           c.pc = "evict" \/ d.pc = "none",
           d.pc \in {"none", "claim", "ok"},
           d.pc = "claim" => d.frame \in Frames,
           meta' \in [Frames -> Metas], table' \in [Pages -> FrameOrNone],
           UNCHANGED <<latch, ckptState, files, wal>>,
           content' \in [Frames -> Images],
           \A f \in Frames : \/ content'[f] = content[f]
                             \/ latch[f] = Unlatched /\ content'[f].lsn <= Len(log)
    PROVE  PoolInv'
<1>1. /\ thread' \in [Threads -> Cursors] /\ thread'[t] = c
      /\ \A u \in Threads : u # t => thread'[u] = thread[u]
  BY Zenon, Updated DEF PoolInv, PoolTypes
<1>2. /\ flush' \in [Procs -> Flushes] /\ flush'[t] = d
      /\ \A x \in Procs : x # t => flush'[x] = flush[x]
  BY Zenon, Updated DEF PoolInv, PoolTypes, Procs
<1>3. PoolTypes'
  BY Zenon, <1>1, <1>2 DEF PoolInv, PoolTypes, ckptState, files, wal
<1>4. TargetsExist' /\ LatchesExclude'
  <2>1. \A x \in Procs : flush'[x].pc \in Busy => flush'[x].frame \in Frames
    BY Zenon, <1>2 DEF PoolInv, TargetsExist, Busy
  <2>2. \A x \in Procs : flush'[x].pc \in Busy \ {"claim"} => flush'[x].page \in Pages
    BY Zenon, <1>2 DEF PoolInv, TargetsExist, Busy
  <2>3. \A u \in Threads : thread'[u].pc # "evict" => flush'[u].pc = "none"
    BY Zenon, <1>1, <1>2 DEF PoolInv, TargetsExist, Procs
  <2> QED
    BY Zenon, <1>1, <2>1, <2>2, <2>3 DEF PoolInv, TargetsExist, LatchesExclude
<1>5. WritesAreLogged'
  <2> SUFFICES ASSUME NEW x \in Procs, flush'[x].pc = "write"
               PROVE  /\ x \in latch[flush'[x].frame].readers
                      /\ content'[flush'[x].frame].lsn <= synced
    BY Zenon DEF WritesAreLogged, wal
  <2>1. x # t /\ flush'[x] = flush[x] /\ flush[x].frame \in Frames
    BY Zenon, <1>2 DEF PoolInv, TargetsExist, Busy
  <2>2. x \in latch[flush[x].frame].readers /\ content[flush[x].frame].lsn <= synced
    BY Zenon, <2>1 DEF PoolInv, WritesAreLogged
  <2>3. latch[flush[x].frame] # Unlatched
    BY <2>2 DEF Unlatched
  <2> QED
    BY Zenon, <2>1, <2>2, <2>3
<1>6. ImagesAreLogged'
  BY Zenon DEF PoolInv, ImagesAreLogged, files, wal
<1> QED
  BY Zenon, <1>3, <1>4, <1>5, <1>6 DEF PoolInv

LEMMA EvictFrameKeeps ==
    ASSUME PoolInv, NEW t \in Threads, NEW p \in Pages, NEW f \in Frames, NEW b \in BOOLEAN,
           EvictFrame(t, p, f, b), thread[t].pc = "idle",
           UNCHANGED <<content, latch, table, ckptState, files, wal>>
    PROVE  PoolInv'
<1> DEFINE m == [meta[f] EXCEPT !.evicting = TRUE]
           c == Evicting(p, f, b)
           d == IF meta[f].dirty /\ meta[f].page # None
                THEN Asked(meta[f].page, f, content[f].lsn) ELSE FlushAt(flush[t], "ok")
<1>1. /\ meta \in [Frames -> Metas] /\ meta[f] \in Metas /\ content[f].lsn \in Nat
      /\ t \in Procs /\ flush[t] \in Flushes /\ meta[f].page \in PageOrNone
      /\ content \in [Frames -> Images] /\ table \in [Pages -> FrameOrNone]
  BY Zenon DEF PoolInv, PoolTypes, Procs, Images, Metas
<1>2. m \in Metas
  BY <1>1, Zenon DEF Metas
<1>3. c \in Cursors /\ c.pc = "evict" /\ c.page = p /\ c.frame = f
  BY EvictCursor
<1>4. d \in Flushes /\ d.pc \in {"claim", "ok"} /\ (d.pc = "claim" => d.frame \in Frames)
  <2>1. "ok" \in FlushSteps
    BY Zenon DEF FlushSteps
  <2>2. FlushAt(flush[t], "ok") \in Flushes /\ FlushAt(flush[t], "ok").pc = "ok"
    BY Zenon, <1>1, <2>1, FlushAtFields
  <2>3. ASSUME meta[f].page # None
        PROVE  /\ Asked(meta[f].page, f, content[f].lsn) \in Flushes
               /\ Asked(meta[f].page, f, content[f].lsn).pc = "claim"
               /\ Asked(meta[f].page, f, content[f].lsn).frame = f
    BY <1>1, <2>3, NewFlush DEF PageOrNone
  <2> QED
    BY Zenon, <2>2, <2>3
<1>5. /\ meta' = [meta EXCEPT ![f] = m] /\ thread' = [thread EXCEPT ![t] = c]
      /\ flush' = [flush EXCEPT ![t] = d]
  BY Zenon DEF EvictFrame, Evicting, StartFlush, Asked, FlushAt
<1> HIDE DEF m, c, d
<1>6. meta' \in [Frames -> Metas]
  BY Zenon, <1>1, <1>2, <1>5
<1> QED
  BY Zenon, <1>1, <1>3, <1>4, <1>5, <1>6, EvictStep

\* A thread that evicts works on a frame and a page that exist.
LEMMA EvictTarget ==
    ASSUME PoolInv, NEW t \in Threads, thread[t].pc # "idle"
    PROVE  /\ thread[t].frame \in Frames /\ thread[t].page \in Pages
           /\ thread[t] \in Cursors /\ flush[t] \in Flushes /\ t \in Procs
           /\ meta[thread[t].frame] \in Metas /\ latch[thread[t].frame] \in Latches
           /\ content[thread[t].frame] \in Images
BY Zenon DEF PoolInv, PoolTypes, TargetsExist, Procs

LEMMA NoFlushFields == NoFlush \in Flushes /\ NoFlush.pc = "none"
BY Zenon DEF NoFlush, Flushes, FlushSteps, PageOrNone, FrameOrNone

LEMMA ZeroedImage == Zeroed \in Images /\ Zeroed.lsn = 0
BY Zenon DEF Zeroed, Images, PageOrNone

LEMMA EvictFlushFailedKeeps ==
    ASSUME PoolInv, NEW t \in Threads, EvictFlushFailed(t)
    PROVE  PoolInv'
<1> DEFINE f == thread[t].frame
           m == [meta[f] EXCEPT !.evicting = FALSE]
<1>1. /\ f \in Frames /\ meta[f] \in Metas /\ meta \in [Frames -> Metas]
      /\ content \in [Frames -> Images] /\ table \in [Pages -> FrameOrNone]
  BY Zenon, EvictTarget DEF EvictFlushFailed, PoolInv, PoolTypes
<1>2. m \in Metas
  BY <1>1, Zenon DEF Metas
<1>3. meta' = [meta EXCEPT ![f] = m]
  BY Zenon DEF EvictFlushFailed
<1>4. /\ thread' = [thread EXCEPT ![t] = Idle] /\ flush' = [flush EXCEPT ![t] = NoFlush]
      /\ UNCHANGED <<content, latch, table, ckptState, files, wal>>
  BY Zenon DEF EvictFlushFailed
<1> HIDE DEF f, m
<1>5. meta' \in [Frames -> Metas]
  BY Zenon, <1>1, <1>2, <1>3
<1> QED
  BY Zenon, <1>1, <1>4, <1>5, IdleCursor, NoFlushFields, EvictStep

Loaded(p, b) == [Empty EXCEPT !.page = p, !.pins = 1, !.dirty = b, !.needsFpi = ~b]
LEMMA EmptyMeta == Empty \in Metas
BY DEF Empty, Metas, PageOrNone

LEMMA PoolInvInit == Init => PoolInv
<1> SUFFICES ASSUME Init PROVE PoolInv
  BY Zenon
<1>1. PoolTypes
  <2>1. Empty \in Metas /\ Zeroed \in Images /\ Idle \in Cursors /\ NoFlush \in Flushes
    BY Zenon, EmptyMeta, ZeroedImage, IdleCursor, NoFlushFields
  <2>2. Unlatched \in Latches
    BY Zenon DEF Unlatched, Latches
  <2>3. NoCkpt \in Ckpts
    BY Zenon DEF NoCkpt, Ckpts
  <2>4. disk \in [Pages -> Images]
    BY Zenon, <2>1 DEF Init, Images, PageOrNone
  <2>5. log \in Seq(LogRecords)
    BY DEF Init
  <2> QED
    BY Zenon, <2>1, <2>2, <2>3, <2>4, <2>5 DEF Init, PoolTypes, FrameOrNone
<1>2. TargetsExist
  BY Zenon, IdleCursor, NoFlushFields DEF Init, TargetsExist, Busy, Procs
<1>3. LatchesExclude
  BY Zenon, IdleCursor DEF Init, LatchesExclude, Unlatched
<1>4. WritesAreLogged
  BY Zenon, NoFlushFields DEF Init, WritesAreLogged
<1>5. ImagesAreLogged
  BY ZeroedImage DEF Init, ImagesAreLogged, Zeroed
<1> QED
  BY Zenon, <1>1, <1>2, <1>3, <1>4, <1>5 DEF PoolInv

LEMMA LoadedMeta ==
    ASSUME NEW p \in Pages, NEW b \in BOOLEAN
    PROVE  Loaded(p, b) \in Metas
<1>1. 1 \in Int /\ p \in PageOrNone
  BY DEF PageOrNone
<1>2. (~b) \in BOOLEAN
  BY Zenon
<1> QED
  BY <1>1, <1>2, EmptyMeta, Zenon DEF Loaded, Metas

LEMMA LoadFrameKeeps ==
    ASSUME PoolInv, NEW t \in Threads, LoadFrame(t)
    PROVE  PoolInv'
<1> DEFINE f == thread[t].frame
           p == thread[t].page
           b == thread[t].new
           m == Loaded(p, b)
           i == IF b THEN Zeroed ELSE disk[p]
           c == ThreadAt(thread[t], "pinned")
<1>1. /\ f \in Frames /\ p \in Pages /\ b \in BOOLEAN /\ thread[t] \in Cursors
      /\ meta \in [Frames -> Metas] /\ latch[f] = Unlatched
      /\ content \in [Frames -> Images] /\ table \in [Pages -> FrameOrNone]
  BY Zenon, EvictTarget DEF LoadFrame, Loadable, PoolInv, PoolTypes, Cursors
<1>2. m \in Metas
  BY Zenon, <1>1, LoadedMeta
<1>3. c \in Cursors /\ c.pc = "pinned" /\ c.page = p /\ c.frame = f
  <2>1. "pinned" \in ThreadSteps
    BY Zenon DEF ThreadSteps
  <2> QED
    BY Zenon, <1>1, <2>1, CursorFields
<1>4. i \in Images /\ i.lsn <= Len(log)
  <2>1. Len(log) \in Nat /\ synced \in Nat /\ synced <= Len(log)
    BY DEF PoolInv, PoolTypes, ImagesAreLogged
  <2>2. disk[p] \in Images /\ disk[p].lsn \in Nat /\ disk[p].lsn <= synced
    BY Zenon, <1>1 DEF PoolInv, PoolTypes, ImagesAreLogged, Images
  <2> QED
    BY <2>1, <2>2, ZeroedImage
<1>5. /\ meta' = [meta EXCEPT ![f] = m] /\ content' = [content EXCEPT ![f] = i]
      /\ table' = [Unmapped(t) EXCEPT ![p] = f]
      /\ thread' = [thread EXCEPT ![t] = c] /\ flush' = [flush EXCEPT ![t] = NoFlush]
      /\ UNCHANGED <<latch, ckptState, files, wal>>
  BY Zenon DEF LoadFrame, Goto, ThreadAt, Loaded
<1> HIDE DEF f, p, b, m, i, c
<1>6. meta' \in [Frames -> Metas]
  BY Zenon, <1>1, <1>2, <1>5
<1>7. Unmapped(t) \in [Pages -> FrameOrNone] /\ f \in FrameOrNone
  BY Zenon, <1>1 DEF Unmapped, FrameOrNone
<1>8. table' \in [Pages -> FrameOrNone]
  BY Zenon, <1>1, <1>5, <1>7
<1>9. /\ content' \in [Frames -> Images]
      /\ \A g \in Frames : \/ content'[g] = content[g]
                           \/ latch[g] = Unlatched /\ content'[g].lsn <= Len(log)
  BY Zenon, <1>1, <1>4, <1>5
<1> QED
  BY Zenon, <1>1, <1>3, <1>5, <1>6, <1>8, <1>9, NoFlushFields, EvictStep

LEMMA ReadFailsKeeps ==
    ASSUME PoolInv, NEW t \in Threads, ReadFails(t)
    PROVE  PoolInv'
<1> DEFINE f == thread[t].frame
<1>1. /\ f \in Frames /\ meta \in [Frames -> Metas] /\ latch[f] = Unlatched
      /\ content \in [Frames -> Images] /\ table \in [Pages -> FrameOrNone]
      /\ Len(log) \in Nat
  BY EvictTarget DEF ReadFails, Loadable, PoolInv, PoolTypes
<1>2. /\ meta' = [meta EXCEPT ![f] = Empty] /\ content' = [content EXCEPT ![f] = Zeroed]
      /\ table' = Unmapped(t)
      /\ thread' = [thread EXCEPT ![t] = Idle] /\ flush' = [flush EXCEPT ![t] = NoFlush]
      /\ UNCHANGED <<latch, ckptState, files, wal>>
  BY Zenon DEF ReadFails
<1> HIDE DEF f
<1>3. meta' \in [Frames -> Metas]
  BY Zenon, <1>1, <1>2, EmptyMeta
<1>4. table' \in [Pages -> FrameOrNone]
  BY Zenon, <1>1, <1>2 DEF Unmapped, FrameOrNone
<1>5. /\ content' \in [Frames -> Images]
      /\ \A g \in Frames : \/ content'[g] = content[g]
                           \/ latch[g] = Unlatched /\ content'[g].lsn <= Len(log)
  BY <1>1, <1>2, ZeroedImage
<1> QED
  BY Zenon, <1>2, <1>3, <1>4, <1>5, IdleCursor, NoFlushFields, EvictStep

LEMMA PinStepKeeps ==
    ASSUME PoolInv, NEW t \in Threads, PinStep(t)
    PROVE  PoolInv'
<1>1. ASSUME NEW p \in Pages, NEW f \in Frames, AllocFrame(t, p, f) PROVE PoolInv'
  <2>1. thread[t].pc = "idle" /\ EvictFrame(t, p, f, FALSE)
        /\ UNCHANGED <<content, latch, table, ckptState, files, wal>>
    BY Zenon, <1>1 DEF AllocFrame, Start
  <2> QED
    BY Zenon, <2>1, EvictFrameKeeps
<1>2. ASSUME NEW p \in Pages, NEW f \in Frames, NewPage(t, p, f) PROVE PoolInv'
  <2>1. thread[t].pc = "idle" /\ EvictFrame(t, p, f, TRUE)
        /\ UNCHANGED <<content, latch, table, ckptState, files, wal>>
    BY Zenon, <1>2 DEF NewPage, Start
  <2> QED
    BY Zenon, <2>1, EvictFrameKeeps
<1> QED
  BY Zenon, <1>1, <1>2, TryPinResidentKeeps, PoolFullKeeps, EvictFlushFailedKeeps, LoadFrameKeeps,
     ReadFailsKeeps DEF PinStep

----------------------------------------------------------------------------
(* The guards                                                              *)

LEMMA StampAppends ==
    ASSUME PoolInv, NEW f \in Frames, NEW p \in Pages, NEW n \in Nat,
           NEW k \in {"fpi", "update"}, Stamp(f, k, p, n)
    PROVE  /\ log' \in Seq(LogRecords) /\ Len(log') = Len(log) + 1
           /\ content' \in [Frames -> Images]
           /\ content'[f].lsn = Len(log')
           /\ \A g \in Frames : g # f => content'[g] = content[g]
<1> DEFINE r == [kind |-> k, page |-> p,
                 since |-> IF p # None /\ disk[p].of # None THEN n ELSE 0]
           i == [of |-> IF content[f].of = None THEN p ELSE content[f].of, lsn |-> Len(log')]
<1>1. log \in Seq(LogRecords) /\ content \in [Frames -> Images] /\ content[f].of \in PageOrNone
  BY Zenon DEF PoolInv, PoolTypes, Images
<1>2. r \in LogRecords
  BY Zenon DEF LogRecords, PageOrNone
<1>3. log' = Append(log, r) /\ content' = [content EXCEPT ![f] = i]
  BY Zenon DEF Stamp, AppendRecord
<1> HIDE DEF r
<1>4. log' \in Seq(LogRecords) /\ Len(log') = Len(log) + 1
  BY Zenon, <1>1, <1>2, <1>3, Logged
<1>5. i \in Images /\ i.lsn = Len(log')
  BY <1>1, <1>4 DEF Images, PageOrNone
<1> HIDE DEF i
<1> QED
  BY Zenon, <1>1, <1>3, <1>4, <1>5

\* A step of a thread that has a page: it moves the content lock of its frame, and
\* may append a record and stamp it on the page while it holds the lock alone.
GuardMove(t, c, l) ==
    /\ thread[t].pc \notin {"idle", "evict"}
    /\ thread' = [thread EXCEPT ![t] = c]
    /\ latch' = [latch EXCEPT ![thread[t].frame] = l]
    /\ c.pc # "evict"
    /\ c.pc # "idle" => c.frame = thread[t].frame /\ c.page \in Pages
    /\ c.pc \in {"latched", "changed"} => l.writer = t
    /\ l.writer # None => l.readers = {}
    /\ latch[thread[t].frame].writer \in {None, t, l.writer}
    /\ latch[thread[t].frame].readers \ {t} \subseteq l.readers
    /\ meta' \in [Frames -> Metas]
    /\ log' \in Seq(LogRecords) /\ Len(log) <= Len(log')
    /\ content' \in [Frames -> Images]
    /\ \A f \in Frames : f # thread[t].frame => content'[f] = content[f]
    /\ \/ content' = content
       \/ content'[thread[t].frame].lsn = Len(log') /\ l.readers = {}
    /\ UNCHANGED <<table, flush, ckptState, files, synced>>

LEMMA GuardMoves ==
    ASSUME PoolInv, NEW t \in Threads, NEW c \in Cursors, NEW l \in Latches, GuardMove(t, c, l)
    PROVE  PoolInv'
<1> DEFINE f == thread[t].frame
<1>1. f \in Frames /\ t \in Procs /\ flush[t].pc = "none"
  BY Zenon DEF GuardMove, PoolInv, TargetsExist, Procs
<1>2. /\ thread' \in [Threads -> Cursors] /\ thread'[t] = c
      /\ \A u \in Threads : u # t => thread'[u] = thread[u]
  <2>1. thread \in [Threads -> Cursors] /\ thread' = [thread EXCEPT ![t] = c]
    BY Zenon DEF GuardMove, PoolInv, PoolTypes
  <2> QED
    BY Zenon, <2>1, Updated
<1>3. /\ latch' \in [Frames -> Latches] /\ latch'[f] = l
      /\ \A g \in Frames : g # f => latch'[g] = latch[g]
  <2>1. latch \in [Frames -> Latches] /\ latch' = [latch EXCEPT ![f] = l]
    BY Zenon DEF GuardMove, PoolInv, PoolTypes
  <2> QED
    BY Zenon, <1>1, <2>1, Updated
<1>4. table' = table /\ flush' = flush /\ UNCHANGED ckptState /\ UNCHANGED files /\ synced' = synced
  BY Zenon DEF GuardMove
<1>5. PoolTypes'
  <2>1. /\ meta' \in [Frames -> Metas] /\ log' \in Seq(LogRecords)
        /\ content' \in [Frames -> Images]
    BY Zenon DEF GuardMove
  <2> QED
    BY Zenon, <1>2, <1>3, <1>4, <2>1 DEF PoolInv, PoolTypes, ckptState, files
<1>6. TargetsExist'
  <2>1. c.pc # "evict" /\ (c.pc # "idle" => c.frame = f /\ c.page \in Pages)
    BY Zenon DEF GuardMove
  <2>2. \A u \in Threads : thread'[u].pc # "idle" => thread'[u].frame \in Frames /\ thread'[u].page \in Pages
    BY Zenon, <1>1, <1>2, <2>1 DEF PoolInv, TargetsExist
  <2>3. \A u \in Threads : thread'[u].pc # "evict" => flush'[u].pc = "none"
    BY Zenon, <1>1, <1>2, <1>4 DEF PoolInv, TargetsExist
  <2> QED
    BY Zenon, <1>4, <2>2, <2>3 DEF PoolInv, TargetsExist
<1>7. LatchesExclude'
  <2>1. \A g \in Frames : latch'[g].writer # None => latch'[g].readers = {}
    BY Zenon, <1>3 DEF GuardMove, PoolInv, LatchesExclude
  <2>2. \A u \in Threads : thread'[u].pc \in {"latched", "changed"} =>
          latch'[thread'[u].frame].writer = u
    <3> SUFFICES ASSUME NEW u \in Threads, u # t, thread[u].pc \in {"latched", "changed"}
                 PROVE  latch'[thread[u].frame].writer = u
      BY <1>2, <1>3 DEF GuardMove
    <3>1. thread[u].frame \in Frames /\ latch[thread[u].frame].writer = u /\ u # None
      BY Zenon, PoolAssumption DEF PoolInv, TargetsExist, LatchesExclude
    <3>2. latch[f].writer \in {None, t, l.writer}
      BY Zenon DEF GuardMove
    <3> QED
      BY Zenon, <1>3, <3>1, <3>2
  <2> QED
    BY Zenon, <2>1, <2>2 DEF LatchesExclude
<1>8. WritesAreLogged'
  <2> SUFFICES ASSUME NEW x \in Procs, flush[x].pc = "write"
               PROVE  /\ x \in latch'[flush[x].frame].readers
                      /\ content'[flush[x].frame].lsn <= synced
    BY Zenon, <1>4 DEF WritesAreLogged
  <2>1. x # t /\ flush[x].frame \in Frames
    BY Zenon, <1>1 DEF PoolInv, TargetsExist, Busy
  <2>2. x \in latch[flush[x].frame].readers /\ content[flush[x].frame].lsn <= synced
    BY Zenon DEF PoolInv, WritesAreLogged
  <2>3. CASE flush[x].frame = f
    <3>1. x \in l.readers
      BY Zenon, <2>1, <2>2, <2>3 DEF GuardMove
    <3>2. content' = content
      BY Zenon, <3>1 DEF GuardMove
    <3> QED
      BY Zenon, <1>3, <2>2, <2>3, <3>1, <3>2
  <2>4. CASE flush[x].frame # f
    <3>1. content'[flush[x].frame] = content[flush[x].frame]
      BY Zenon, <2>1, <2>4 DEF GuardMove
    <3> QED
      BY Zenon, <1>3, <2>1, <2>2, <2>4, <3>1
  <2> QED
    BY Zenon, <2>3, <2>4
<1>9. ImagesAreLogged'
  <2>1. Len(log) \in Nat /\ Len(log') \in Nat /\ Len(log) <= Len(log')
    BY DEF GuardMove, PoolInv, PoolTypes
  <2>2. \A g \in Frames : content[g].lsn \in Nat /\ content[g].lsn <= Len(log)
    BY Zenon DEF PoolInv, PoolTypes, Images, ImagesAreLogged
  <2>3. \A g \in Frames : content'[g] = content[g] \/ content'[g].lsn = Len(log')
    BY Zenon DEF GuardMove
  <2>4. \A g \in Frames : content'[g].lsn <= Len(log')
    BY <2>1, <2>2, <2>3
  <2>5. synced \in Nat /\ synced <= Len(log) /\ \A p \in Pages : disk[p].lsn <= synced
    BY Zenon DEF PoolInv, PoolTypes, ImagesAreLogged
  <2> QED
    BY <1>4, <2>1, <2>4, <2>5 DEF ImagesAreLogged, files
<1> QED
  BY Zenon, <1>5, <1>6, <1>7, <1>8, <1>9 DEF PoolInv

LEMMA PinReadKeeps ==
    ASSUME PoolInv, NEW t \in Threads, PinRead(t)
    PROVE  PoolInv'
<1> DEFINE f == thread[t].frame
           c == ThreadAt(thread[t], "reading")
           l == ReadersSet(latch[f], latch[f].readers \cup {t})
<1>1. /\ thread[t].pc = "pinned" /\ latch[f].writer = None /\ "reading" \in ThreadSteps
      /\ f \in Frames /\ thread[t].page \in Pages /\ thread[t] \in Cursors
      /\ latch[f] \in Latches /\ latch[f].readers \cup {t} \in SUBSET Procs
  BY Zenon, EvictTarget DEF PinRead, Latches, ThreadSteps
<1>2. c \in Cursors /\ c.pc = "reading" /\ c.frame = f /\ c.page = thread[t].page
  BY Zenon, <1>1, CursorFields
<1>3. l \in Latches /\ l.writer = None /\ l.readers = latch[f].readers \cup {t}
  BY Zenon, <1>1, ReaderFields
<1>4. /\ thread' = [thread EXCEPT ![t] = c] /\ latch' = [latch EXCEPT ![f] = l]
      /\ UNCHANGED <<meta, log, content, table, flush, ckptState, files, synced>>
  BY Zenon DEF PinRead, Goto, ThreadAt, ReadersSet, wal
<1>5. /\ meta' \in [Frames -> Metas] /\ log' \in Seq(LogRecords) /\ Len(log) <= Len(log')
      /\ content' \in [Frames -> Images]
  BY <1>4 DEF PoolInv, PoolTypes
<1> HIDE DEF c, l
<1> QED
  BY Zenon, <1>1, <1>2, <1>3, <1>4, <1>5, GuardMoves DEF GuardMove

LEMMA DropReadKeeps ==
    ASSUME PoolInv, NEW t \in Threads, DropRead(t)
    PROVE  PoolInv'
<1> DEFINE f == thread[t].frame
           m == [meta[f] EXCEPT !.pins = @ - 1]
           l == ReadersSet(latch[f], latch[f].readers \ {t})
<1>1. /\ thread[t].pc = "reading"
      /\ f \in Frames /\ meta[f] \in Metas /\ meta[f].pins - 1 \in Int
      /\ latch[f] \in Latches /\ latch[f].readers \ {t} \in SUBSET Procs
  BY EvictTarget DEF DropRead, Latches, Metas
<1>2. m \in Metas
  BY Zenon, <1>1, MetaFields
<1>3. l \in Latches /\ l.writer = latch[f].writer /\ l.readers = latch[f].readers \ {t}
  BY Zenon, <1>1, ReaderFields
<1>4. /\ thread' = [thread EXCEPT ![t] = Idle] /\ latch' = [latch EXCEPT ![f] = l]
      /\ meta' = [meta EXCEPT ![f] = m]
      /\ UNCHANGED <<log, content, table, flush, ckptState, files, synced>>
  BY Zenon DEF DropRead, ReadersSet, wal
<1> HIDE DEF m, l
<1>5. /\ meta' \in [Frames -> Metas] /\ log' \in Seq(LogRecords) /\ Len(log) <= Len(log')
      /\ content' \in [Frames -> Images]
  BY <1>1, <1>2, <1>4 DEF PoolInv, PoolTypes
<1>6. l.writer # None => l.readers = {}
  BY Zenon, <1>1, <1>3 DEF PoolInv, LatchesExclude
<1> QED
  BY Zenon, <1>1, <1>3, <1>4, <1>5, <1>6, IdleCursor, GuardMoves DEF GuardMove

LEMMA PinMutKeeps ==
    ASSUME PoolInv, NEW t \in Threads, PinMut(t)
    PROVE  PoolInv'
<1> DEFINE f == thread[t].frame
           n == IF thread[t].new THEN 0 ELSE ckptLsn
           c == Gated(thread[t], n)
           m == [meta[f] EXCEPT !.dirty = TRUE]
           l == WriterSet(latch[f], t)
<1>1. /\ thread[t].pc = "pinned" /\ latch[f] = Unlatched /\ ckptLsn \in Nat /\ n \in Nat
      /\ f \in Frames /\ thread[t].page \in Pages /\ thread[t] \in Cursors
      /\ meta[f] \in Metas /\ latch[f] \in Latches
  BY Zenon, EvictTarget DEF PinMut, PoolInv, PoolTypes
<1>2. c \in Cursors /\ c.pc = "latched" /\ c.frame = f /\ c.page = thread[t].page
  <2>1. "latched" \in ThreadSteps
    BY Zenon DEF ThreadSteps
  <2> QED
    BY <1>1, <2>1, CursorFields
<1>3. m \in Metas
  BY <1>1, Zenon DEF Metas
<1>4. l \in Latches /\ l.writer = t /\ l.readers = {}
  <2>1. t \in Threads \cup {None}
    BY Zenon
  <2>2. latch[f].readers = {}
    BY <1>1 DEF Unlatched
  <2> QED
    BY Zenon, <1>1, <2>1, <2>2, WriterFields
<1>5. /\ thread' = [thread EXCEPT ![t] = c] /\ latch' = [latch EXCEPT ![f] = l]
      /\ meta' = [meta EXCEPT ![f] = m]
      /\ UNCHANGED <<table, flush, ckptState, files, synced>>
  BY Zenon DEF PinMut, Gated, WriterSet
<1>6. Stamp(f, "fpi", thread[t].page, ckptLsn) \/ UNCHANGED <<log, content>>
  BY Zenon DEF PinMut
<1>7. /\ log' \in Seq(LogRecords) /\ Len(log) <= Len(log') /\ content' \in [Frames -> Images]
      /\ \A g \in Frames : g # f => content'[g] = content[g]
      /\ content' = content \/ content'[f].lsn = Len(log')
  <2>1. log \in Seq(LogRecords) /\ Len(log) \in Nat /\ content \in [Frames -> Images]
    BY DEF PoolInv, PoolTypes
  <2>2. CASE Stamp(f, "fpi", thread[t].page, ckptLsn)
    BY <1>1, <2>1, <2>2, StampAppends
  <2>3. CASE UNCHANGED <<log, content>>
    BY <2>1, <2>3
  <2> QED
    BY Zenon, <1>6, <2>2, <2>3
<1>8. latch[f].writer = None /\ latch[f].readers = {}
  BY <1>1 DEF Unlatched
<1> HIDE DEF c, m, l
<1>9. meta' \in [Frames -> Metas]
  BY Zenon, <1>1, <1>3, <1>5 DEF PoolInv, PoolTypes
<1> QED
  BY Zenon, <1>1, <1>2, <1>4, <1>5, <1>7, <1>8, <1>9, GuardMoves DEF GuardMove

LEMMA ModifyKeeps ==
    ASSUME PoolInv, NEW t \in Threads, Modify(t)
    PROVE  PoolInv'
<1> DEFINE f == thread[t].frame
           c == ThreadAt(thread[t], "changed")
           l == latch[f]
<1>1. /\ thread[t].pc = "latched" /\ "changed" \in ThreadSteps
      /\ f \in Frames /\ thread[t].page \in Pages /\ thread[t] \in Cursors
      /\ latch[f] \in Latches /\ thread[t].gate \in Nat
  BY Zenon, EvictTarget DEF Modify, ThreadSteps, Cursors
<1>2. c \in Cursors /\ c.pc = "changed" /\ c.frame = f /\ c.page = thread[t].page
  BY Zenon, <1>1, CursorFields
<1>3. l.writer = t /\ l.readers = {}
  BY <1>1, PoolAssumption DEF PoolInv, LatchesExclude
<1>4. /\ thread' = [thread EXCEPT ![t] = c]
      /\ UNCHANGED <<latch, meta, table, flush, ckptState, files, synced>>
  BY Zenon DEF Modify, Goto, ThreadAt
<1>5. latch' = [latch EXCEPT ![f] = l] /\ meta' \in [Frames -> Metas]
  BY Zenon, <1>4 DEF PoolInv, PoolTypes
<1>6. Stamp(f, "update", thread[t].page, thread[t].gate)
  BY Zenon DEF Modify
<1>7. /\ log' \in Seq(LogRecords) /\ Len(log) <= Len(log') /\ content' \in [Frames -> Images]
      /\ \A g \in Frames : g # f => content'[g] = content[g]
      /\ content'[f].lsn = Len(log')
  <2>1. Len(log) \in Nat
    BY DEF PoolInv, PoolTypes
  <2> QED
    BY <1>1, <1>6, <2>1, StampAppends
<1> HIDE DEF c
<1> QED
  BY Zenon, <1>1, <1>2, <1>3, <1>4, <1>5, <1>7, GuardMoves DEF GuardMove

LEMMA DropMutKeeps ==
    ASSUME PoolInv, NEW t \in Threads, DropMut(t)
    PROVE  PoolInv'
<1> DEFINE f == thread[t].frame
           m == [[meta[f] EXCEPT !.dirty = TRUE] EXCEPT !.pins = @ - 1]
           l == WriterSet(latch[f], None)
<1>1. /\ thread[t].pc \in {"latched", "changed"}
      /\ f \in Frames /\ meta[f] \in Metas /\ latch[f] \in Latches
  BY Zenon, EvictTarget DEF DropMut
<1>2. m \in Metas
  <2>1. [meta[f] EXCEPT !.dirty = TRUE] \in Metas
    BY <1>1, Zenon DEF Metas
  <2> DEFINE d == [meta[f] EXCEPT !.dirty = TRUE]
  <2> HIDE DEF d
  <2>2. d \in Metas
    BY Zenon, <2>1 DEF d
  <2>3. d.pins - 1 \in Int
    BY <2>2 DEF Metas
  <2>4. [d EXCEPT !.pins = @ - 1] \in Metas
    BY Zenon, <2>2, <2>3, MetaFields
  <2> QED
    BY <2>4, Zenon DEF d
<1>3. l \in Latches /\ l.writer = None
  <2>1. None \in Threads \cup {None}
    BY Zenon
  <2> QED
    BY Zenon, <1>1, <2>1, WriterFields
<1>4. latch[f].writer = t /\ latch[f].readers = {}
  BY <1>1, PoolAssumption DEF PoolInv, LatchesExclude
<1>5. thread' = [thread EXCEPT ![t] = Idle] /\ latch' = [latch EXCEPT ![f] = l]
      /\ UNCHANGED <<log, content, table, flush, ckptState, files, synced>>
  BY Zenon DEF DropMut, WriterSet, wal
<1>6. meta' = [meta EXCEPT ![f] = m]
  BY <1>1, Zenon DEF DropMut, PoolInv, PoolTypes
<1> HIDE DEF m, l
<1>7. /\ meta' \in [Frames -> Metas] /\ log' \in Seq(LogRecords) /\ Len(log) <= Len(log')
      /\ content' \in [Frames -> Images]
  BY <1>1, <1>2, <1>5, <1>6 DEF PoolInv, PoolTypes
<1> QED
  BY Zenon, <1>1, <1>3, <1>4, <1>5, <1>7, IdleCursor, GuardMoves DEF GuardMove

----------------------------------------------------------------------------
(* flush_frame                                                             *)

\* A step of a flush: it takes or gives up its share of the content lock, may sync
\* the log, and writes only an image that is logged.
FlushMove(x, d, l) ==
    /\ flush[x].pc \in Busy
    /\ flush' = [flush EXCEPT ![x] = d]
    /\ latch' = [latch EXCEPT ![flush[x].frame] = l]
    /\ d.pc \in Busy => d.frame = flush[x].frame /\ d.page \in Pages
    /\ l.writer = latch[flush[x].frame].writer
    /\ l.writer # None => l.readers = {}
    /\ latch[flush[x].frame].readers \ {x} \subseteq l.readers
    /\ d.pc = "write" => x \in l.readers /\ content[flush[x].frame].lsn <= synced'
    /\ synced' \in Nat /\ synced <= synced' /\ synced' <= Len(log)
    /\ disk' \in [Pages -> Images]
    /\ \A p \in Pages : disk'[p] = disk[p] \/ disk'[p].lsn <= synced
    /\ meta' \in [Frames -> Metas] /\ flushGen' \in Nat
    /\ UNCHANGED <<content, table, thread, ckptState, log>>

LEMMA FlushMoves ==
    ASSUME PoolInv, NEW x \in Procs, NEW d \in Flushes, NEW l \in Latches, FlushMove(x, d, l)
    PROVE  PoolInv'
<1> DEFINE f == flush[x].frame
<1>1. /\ f \in Frames /\ flush[x].pc \in Busy
      /\ latch \in [Frames -> Latches] /\ flush \in [Procs -> Flushes]
  BY Zenon DEF FlushMove, PoolInv, PoolTypes, TargetsExist
<1>2. /\ flush' \in [Procs -> Flushes] /\ flush'[x] = d
      /\ \A y \in Procs : y # x => flush'[y] = flush[y]
  <2>1. flush' = [flush EXCEPT ![x] = d]
    BY Zenon DEF FlushMove
  <2> QED
    BY Zenon, <1>1, <2>1, Updated
<1>3. /\ latch' \in [Frames -> Latches] /\ latch'[f] = l
      /\ \A g \in Frames : g # f => latch'[g] = latch[g]
  <2>1. latch' = [latch EXCEPT ![f] = l]
    BY Zenon DEF FlushMove
  <2> QED
    BY Zenon, <1>1, <2>1, Updated
<1>4. content' = content /\ table' = table /\ thread' = thread /\ UNCHANGED ckptState /\ log' = log
  BY Zenon DEF FlushMove
<1>5. PoolTypes'
  <2>1. synced' \in Nat /\ disk' \in [Pages -> Images] /\ meta' \in [Frames -> Metas] /\ flushGen' \in Nat
    BY Zenon DEF FlushMove
  <2> QED
    BY Zenon, <1>2, <1>3, <1>4, <2>1 DEF PoolInv, PoolTypes, ckptState
<1>6. TargetsExist'
  <2>1. \A y \in Procs : flush'[y].pc \in Busy => flush'[y].frame \in Frames
    BY Zenon, <1>1, <1>2 DEF FlushMove, PoolInv, TargetsExist
  <2>2. \A y \in Procs : flush'[y].pc \in Busy \ {"claim"} => flush'[y].page \in Pages
    BY Zenon, <1>2 DEF FlushMove, PoolInv, TargetsExist
  <2>3. \A u \in Threads : thread[u].pc # "evict" => flush'[u].pc = "none"
    BY Zenon, <1>1, <1>2 DEF PoolInv, TargetsExist, Procs, Busy
  <2> QED
    BY Zenon, <1>4, <2>1, <2>2, <2>3 DEF PoolInv, TargetsExist
<1>7. LatchesExclude'
  <2>1. l.writer = latch[f].writer /\ (l.writer # None => l.readers = {})
    BY Zenon DEF FlushMove
  <2>2. \A g \in Frames : latch'[g].writer # None => latch'[g].readers = {}
    BY Zenon, <1>3, <2>1 DEF PoolInv, LatchesExclude
  <2>3. \A g \in Frames : latch'[g].writer = latch[g].writer
    BY Zenon, <1>3, <2>1
  <2>4. \A u \in Threads : thread[u].pc \in {"latched", "changed"} => thread[u].frame \in Frames
    BY Zenon DEF PoolInv, TargetsExist
  <2> QED
    BY Zenon, <1>4, <2>2, <2>3, <2>4 DEF PoolInv, LatchesExclude
<1>8. synced \in Nat /\ synced' \in Nat /\ Len(log) \in Nat /\ synced <= synced' /\ synced' <= Len(log)
  BY DEF FlushMove, PoolInv, PoolTypes
<1>9. WritesAreLogged'
  <2> SUFFICES ASSUME NEW y \in Procs, flush'[y].pc = "write"
               PROVE  /\ y \in latch'[flush'[y].frame].readers
                      /\ content[flush'[y].frame].lsn <= synced'
    BY Zenon, <1>4 DEF WritesAreLogged
  <2>1. CASE y = x
    BY Zenon, <1>2, <1>3, <2>1 DEF FlushMove, Busy
  <2>2. CASE y # x
    <3>1. flush'[y] = flush[y] /\ flush[y].frame \in Frames
      BY Zenon, <1>2, <2>2 DEF PoolInv, TargetsExist, Busy
    <3>2. y \in latch[flush[y].frame].readers /\ content[flush[y].frame].lsn <= synced
      BY Zenon, <3>1 DEF PoolInv, WritesAreLogged
    <3>3. content[flush[y].frame].lsn \in Nat
      BY Zenon, <3>1 DEF PoolInv, PoolTypes, Images
    <3>4. latch[f].readers \ {x} \subseteq l.readers
      BY Zenon DEF FlushMove
    <3>5. y \in latch'[flush[y].frame].readers
      BY Zenon, <1>3, <2>2, <3>1, <3>2, <3>4
    <3> QED
      BY <1>8, <3>1, <3>2, <3>3, <3>5
  <2> QED
    BY Zenon, <2>1, <2>2
<1>10. ImagesAreLogged'
  <2>1. \A p \in Pages : disk'[p].lsn <= synced'
    <3> SUFFICES ASSUME NEW p \in Pages PROVE disk'[p].lsn <= synced'
      BY Zenon
    <3>1. disk'[p].lsn \in Nat /\ disk'[p].lsn <= synced
      BY Zenon DEF FlushMove, PoolInv, ImagesAreLogged, Images
    <3> QED
      BY <1>8, <3>1
  <2> QED
    BY Zenon, <1>4, <1>8, <2>1 DEF PoolInv, ImagesAreLogged
<1> QED
  BY Zenon, <1>5, <1>6, <1>7, <1>9, <1>10 DEF PoolInv

LEMMA FlushTarget ==
    ASSUME PoolInv, NEW x \in Procs, flush[x].pc \in Busy
    PROVE  /\ flush[x].frame \in Frames /\ flush[x] \in Flushes
           /\ flush[x].pc # "claim" => flush[x].page \in Pages
           /\ meta \in [Frames -> Metas] /\ meta[flush[x].frame] \in Metas
           /\ latch \in [Frames -> Latches] /\ latch[flush[x].frame] \in Latches
           /\ latch[flush[x].frame].writer \in Threads \cup {None}
           /\ latch[flush[x].frame].readers \in SUBSET Procs
           /\ latch[flush[x].frame].writer # None => latch[flush[x].frame].readers = {}
           /\ content[flush[x].frame] \in Images /\ content[flush[x].frame].lsn \in Nat
           /\ content[flush[x].frame].lsn <= Len(log)
           /\ disk \in [Pages -> Images] /\ flushGen \in Nat
           /\ Len(log) \in Nat /\ synced \in Nat /\ synced <= Len(log)
<1>1. /\ flush[x].frame \in Frames /\ flush[x] \in Flushes
      /\ flush[x].pc # "claim" => flush[x].page \in Pages
  BY Zenon DEF PoolInv, PoolTypes, TargetsExist
<1>2. content[flush[x].frame] \in Images /\ latch[flush[x].frame] \in Latches
  BY Zenon, <1>1 DEF PoolInv, PoolTypes
<1>3. /\ meta \in [Frames -> Metas] /\ latch \in [Frames -> Latches] /\ disk \in [Pages -> Images]
      /\ flushGen \in Nat /\ synced \in Nat /\ log \in Seq(LogRecords)
  BY Zenon DEF PoolInv, PoolTypes
<1>4. meta[flush[x].frame] \in Metas
  BY Zenon, <1>1, <1>3
<1>5. /\ latch[flush[x].frame].writer \in Threads \cup {None}
      /\ latch[flush[x].frame].readers \in SUBSET Procs
      /\ content[flush[x].frame].lsn \in Nat
  BY Zenon, <1>2 DEF Latches, Images
<1>6. latch[flush[x].frame].writer # None => latch[flush[x].frame].readers = {}
  BY Zenon, <1>1 DEF PoolInv, LatchesExclude
<1>7. content[flush[x].frame].lsn <= Len(log) /\ synced <= Len(log)
  BY Zenon, <1>1 DEF PoolInv, ImagesAreLogged
<1>8. Len(log) \in Nat
  BY <1>3
<1> QED
  BY Zenon, <1>1, <1>2, <1>3, <1>4, <1>5, <1>6, <1>7, <1>8

\* A step that only moves the flush on, and perhaps the metadata and the files that
\* the log does not bound.
LEMMA FlushMovesOn ==
    ASSUME PoolInv, NEW x \in Procs, NEW d \in Flushes,
           flush[x].pc \in Busy, flush' = [flush EXCEPT ![x] = d],
           d.pc \in Busy => d.frame = flush[x].frame /\ d.page \in Pages,
           d.pc # "write",
           meta' \in [Frames -> Metas],
           UNCHANGED <<content, latch, table, thread, ckptState, disk, flushGen, wal>>
    PROVE  PoolInv'
<1> DEFINE l == latch[flush[x].frame]
<1>1. latch' = [latch EXCEPT ![flush[x].frame] = l]
  BY Zenon, FlushTarget
<1>2. synced' = synced /\ log' = log /\ disk' = disk /\ flushGen' = flushGen
  BY Zenon DEF wal
<1>3. /\ l \in Latches /\ (l.writer # None => l.readers = {}) /\ synced \in Nat
      /\ synced <= Len(log) /\ disk \in [Pages -> Images] /\ flushGen \in Nat
  BY Zenon, FlushTarget
<1> HIDE DEF l
<1>4. l.writer = latch[flush[x].frame].writer /\ latch[flush[x].frame].readers \ {x} \subseteq l.readers
  BY Zenon DEF l
<1>5. /\ synced' \in Nat /\ synced <= synced' /\ synced' <= Len(log)
      /\ disk' \in [Pages -> Images] /\ flushGen' \in Nat
      /\ \A p \in Pages : disk'[p] = disk[p] \/ disk'[p].lsn <= synced
      /\ UNCHANGED <<content, table, thread, ckptState, log>>
  BY <1>2, <1>3
<1> QED
  BY Zenon, <1>1, <1>3, <1>4, <1>5, FlushMoves DEF FlushMove

LEMMA FlushClaimKeeps ==
    ASSUME PoolInv, NEW x \in Procs, FlushClaim(x)
    PROVE  PoolInv'
<1> DEFINE f == flush[x].frame
           m == [[meta[f] EXCEPT !.flushing = TRUE] EXCEPT !.dirty = FALSE]
<1>1. /\ flush[x].pc = "claim" /\ flush[x].pc \in Busy /\ "ok" \in FlushSteps
  BY Zenon DEF FlushClaim, Busy, FlushSteps
<1>2. f \in Frames /\ flush[x] \in Flushes /\ meta \in [Frames -> Metas] /\ meta[f] \in Metas
  BY Zenon, <1>1, FlushTarget
<1>3. UNCHANGED <<content, latch, table, thread, ckptState, disk, flushGen, wal>>
  BY Zenon DEF FlushClaim, files
<1>4. CASE ~meta[f].dirty \/ meta[f].page = None
  <2> DEFINE d == FlushAt(flush[x], "ok")
  <2>1. d \in Flushes /\ d.pc = "ok"
    BY Zenon, <1>1, <1>2, FlushAtFields
  <2>2. flush' = [flush EXCEPT ![x] = d] /\ meta' = meta
    BY Zenon, <1>4 DEF FlushClaim, FlushTo, FlushAt
  <2> HIDE DEF d
  <2> QED
    BY Zenon, <1>1, <1>2, <1>3, <2>1, <2>2, FlushMovesOn DEF Busy
<1>5. CASE ~(~meta[f].dirty \/ meta[f].page = None)
  <2> DEFINE p == meta[f].page
             d == Claimed(flush[x], p)
  <2>1. p \in Pages
    BY Zenon, <1>2, <1>5 DEF Metas, PageOrNone
  <2>2. d \in Flushes /\ d.pc = "latch" /\ d.frame = f /\ d.page = p
    BY Zenon, <1>2, <2>1, ClaimedFields
  <2>3. m \in Metas
    BY <1>2, Zenon DEF Metas
  <2>4. flush' = [flush EXCEPT ![x] = d]
    BY <1>5, Zenon DEF FlushClaim, Claimed, PoolInv, PoolTypes
  <2>5. meta' = [meta EXCEPT ![f] = m]
    BY <1>2, <1>5, Zenon DEF FlushClaim
  <2> HIDE DEF p, d, m
  <2>6. meta' \in [Frames -> Metas]
    BY Zenon, <1>2, <2>3, <2>5
  <2> QED
    BY Zenon, <1>1, <1>3, <2>1, <2>2, <2>4, <2>6, FlushMovesOn
<1> QED
  BY Zenon, <1>4, <1>5

LEMMA FlushWalKeeps ==
    ASSUME PoolInv, NEW x \in Procs, FlushWal(x)
    PROVE  PoolInv'
<1> DEFINE f == flush[x].frame
           d == FlushAt(flush[x], "write")
           l == ReadersSet(latch[f], latch[f].readers \cup {x})
<1>1. /\ flush[x].pc = "latch" /\ flush[x].pc \in Busy /\ "write" \in FlushSteps
      /\ latch[f].writer = None
  BY Zenon DEF FlushWal, Busy, FlushSteps
<1>2. /\ f \in Frames /\ flush[x] \in Flushes /\ flush[x].page \in Pages
      /\ latch[f] \in Latches /\ latch[f].readers \cup {x} \in SUBSET Procs
      /\ content[f].lsn \in Nat /\ content[f].lsn <= Len(log)
      /\ Len(log) \in Nat /\ synced \in Nat /\ synced <= Len(log)
  BY Zenon, <1>1, FlushTarget
<1>3. d \in Flushes /\ d.pc = "write" /\ d.frame = f /\ d.page = flush[x].page
  BY Zenon, <1>1, <1>2, FlushAtFields
<1>4. l \in Latches /\ l.writer = None /\ l.readers = latch[f].readers \cup {x}
  BY Zenon, <1>1, <1>2, ReaderFields
<1>5. /\ flush' = [flush EXCEPT ![x] = d] /\ latch' = [latch EXCEPT ![f] = l]
  BY Zenon DEF FlushWal, FlushTo, FlushAt, ReadersSet
<1>6. /\ synced' \in Nat /\ synced <= synced' /\ synced' <= Len(log)
      /\ content[f].lsn <= synced'
  <2>1. synced' = IF synced < content[f].lsn THEN Len(log) ELSE synced
    BY Zenon DEF FlushWal
  <2> QED
    BY <1>2, <2>1
<1>7. /\ meta' \in [Frames -> Metas] /\ disk' = disk /\ disk' \in [Pages -> Images]
      /\ flushGen' \in Nat
      /\ UNCHANGED <<content, table, thread, ckptState, log>>
  BY Zenon DEF FlushWal, files, PoolInv, PoolTypes
<1>8. /\ l.writer = latch[f].writer /\ (l.writer # None => l.readers = {})
      /\ latch[f].readers \ {x} \subseteq l.readers /\ x \in l.readers
      /\ \A p \in Pages : disk'[p] = disk[p] \/ disk'[p].lsn <= synced
  BY Zenon, <1>1, <1>4, <1>7
<1> HIDE DEF d, l
<1> QED
  BY Zenon, <1>1, <1>2, <1>3, <1>4, <1>5, <1>6, <1>7, <1>8, FlushMoves DEF FlushMove

LEMMA FlushWriteKeeps ==
    ASSUME PoolInv, NEW x \in Procs, FlushWrite(x)
    PROVE  PoolInv'
<1> DEFINE f == flush[x].frame
           d == Written(flush[x], flushGen + 1)
           l == ReadersSet(latch[f], latch[f].readers \ {x})
           m == [meta[f] EXCEPT !.needsFpi = TRUE]
<1>1. flush[x].pc = "write" /\ flush[x].pc \in Busy /\ "write" \in FlushSteps
  BY Zenon DEF FlushWrite, Busy, FlushSteps
<1>2. /\ f \in Frames /\ flush[x] \in Flushes /\ flush[x].page \in Pages
      /\ latch[f] \in Latches /\ latch[f].readers \ {x} \in SUBSET Procs
      /\ (latch[f].writer # None => latch[f].readers = {})
      /\ meta \in [Frames -> Metas] /\ meta[f] \in Metas
      /\ content[f] \in Images /\ disk \in [Pages -> Images]
      /\ flushGen + 1 \in Nat /\ synced \in Nat /\ synced <= Len(log)
  <2>1. /\ f \in Frames /\ flush[x] \in Flushes /\ flush[x].page \in Pages
        /\ latch[f] \in Latches /\ latch[f].readers \in SUBSET Procs
        /\ (latch[f].writer # None => latch[f].readers = {})
        /\ meta \in [Frames -> Metas] /\ meta[f] \in Metas
        /\ content[f] \in Images /\ disk \in [Pages -> Images]
        /\ flushGen \in Nat /\ synced \in Nat /\ synced <= Len(log)
    BY Zenon, <1>1, FlushTarget
  <2>2. flushGen + 1 \in Nat /\ latch[f].readers \ {x} \in SUBSET Procs
    BY <2>1
  <2> QED
    BY Zenon, <2>1, <2>2
<1>3. d \in Flushes /\ d.pc = "cover" /\ d.frame = f /\ d.page = flush[x].page
  BY Zenon, <1>2, CountedFields
<1>4. l \in Latches /\ l.writer = latch[f].writer /\ l.readers = latch[f].readers \ {x}
  BY Zenon, <1>2, ReaderFields
<1>5. m \in Metas
  BY <1>2, Zenon DEF Metas
<1>6. content[f].lsn <= synced
  BY Zenon, <1>1 DEF PoolInv, WritesAreLogged
<1>7. /\ flush' = [flush EXCEPT ![x] = d] /\ latch' = [latch EXCEPT ![f] = l]
      /\ meta' = [meta EXCEPT ![f] = m]
  BY Zenon DEF FlushWrite, Written, ReadersSet
<1>8. /\ disk' = [disk EXCEPT ![flush[x].page] = content[f]] /\ flushGen' = flushGen + 1
      /\ UNCHANGED <<content, table, thread, ckptState, log>> /\ synced' = synced
  <2>1. /\ disk' = [disk EXCEPT ![flush[x].page] = content[f]] /\ flushGen' = flushGen + 1
        /\ UNCHANGED <<content, table, thread, ckptState, wal>>
    BY Zenon DEF FlushWrite
  <2> QED
    BY Zenon, <2>1 DEF wal
<1> HIDE DEF d, l, m
<1>9. /\ meta' \in [Frames -> Metas] /\ disk' \in [Pages -> Images] /\ flushGen' \in Nat
      /\ \A p \in Pages : disk'[p] = disk[p] \/ disk'[p].lsn <= synced
      /\ synced' \in Nat /\ synced <= synced' /\ synced' <= Len(log)
  BY <1>2, <1>5, <1>6, <1>7, <1>8
<1>10. /\ (l.writer # None => l.readers = {}) /\ latch[f].readers \ {x} \subseteq l.readers
  BY Zenon, <1>2, <1>4
<1> QED
  BY Zenon, <1>1, <1>2, <1>3, <1>4, <1>7, <1>8, <1>9, <1>10, FlushMoves DEF FlushMove

LEMMA FlushCoverKeeps ==
    ASSUME PoolInv, NEW x \in Procs, FlushCover(x)
    PROVE  PoolInv'
<1> DEFINE d == IF syncedGen >= flush[x].gen THEN FlushAt(flush[x], "finish")
                ELSE Covering(flush[x], flushGen)
<1>1. flush[x].pc = "cover" /\ flush[x].pc \in Busy /\ "finish" \in FlushSteps
  BY Zenon DEF FlushCover, Busy, FlushSteps
<1>2. flush[x] \in Flushes /\ flush[x].page \in Pages /\ flushGen \in Nat /\ meta \in [Frames -> Metas]
  BY Zenon, <1>1, FlushTarget
<1>3. d \in Flushes /\ d.pc \in {"finish", "sync"} /\ d.frame = flush[x].frame /\ d.page = flush[x].page
  BY Zenon, <1>1, <1>2, FlushAtFields, CountedFields
<1>4. flush' = [flush EXCEPT ![x] = d]
  BY Zenon DEF FlushCover, FlushAt, Covering
<1>5. meta' = meta /\ UNCHANGED <<content, latch, table, thread, ckptState, disk, flushGen, wal>>
  BY Zenon DEF FlushCover, pool, files
<1> HIDE DEF d
<1> QED
  BY Zenon, <1>1, <1>2, <1>3, <1>4, <1>5, FlushMovesOn

LEMMA FlushSyncKeeps ==
    ASSUME PoolInv, NEW x \in Procs, FlushSync(x)
    PROVE  PoolInv'
<1> DEFINE d == FlushAt(flush[x], "finish")
<1>1. flush[x].pc = "sync" /\ flush[x].pc \in Busy /\ "finish" \in FlushSteps
  BY Zenon DEF FlushSync, Busy, FlushSteps
<1>2. flush[x] \in Flushes /\ flush[x].page \in Pages /\ meta \in [Frames -> Metas]
  BY Zenon, <1>1, FlushTarget
<1>3. d \in Flushes /\ d.pc = "finish" /\ d.frame = flush[x].frame /\ d.page = flush[x].page
  BY Zenon, <1>1, <1>2, FlushAtFields
<1>4. flush' = [flush EXCEPT ![x] = d]
  BY Zenon DEF FlushSync, FlushTo, FlushAt
<1>5. meta' = meta /\ UNCHANGED <<content, latch, table, thread, ckptState, disk, flushGen, wal>>
  BY Zenon DEF FlushSync, pool
<1> HIDE DEF d
<1> QED
  BY Zenon, <1>1, <1>2, <1>3, <1>4, <1>5, FlushMovesOn

LEMMA FlushFinishKeeps ==
    ASSUME PoolInv, NEW x \in Procs, FlushFinish(x)
    PROVE  PoolInv'
<1> DEFINE f == flush[x].frame
           d == FlushAt(flush[x], "ok")
           m == [meta[f] EXCEPT !.flushing = FALSE]
<1>1. flush[x].pc = "finish" /\ flush[x].pc \in Busy /\ "ok" \in FlushSteps
  BY Zenon DEF FlushFinish, Busy, FlushSteps
<1>2. f \in Frames /\ flush[x] \in Flushes /\ meta \in [Frames -> Metas] /\ meta[f] \in Metas
  BY Zenon, <1>1, FlushTarget
<1>3. d \in Flushes /\ d.pc = "ok"
  BY Zenon, <1>1, <1>2, FlushAtFields
<1>4. m \in Metas
  BY <1>2, Zenon DEF Metas
<1>5. flush' = [flush EXCEPT ![x] = d] /\ meta' = [meta EXCEPT ![f] = m]
  BY Zenon DEF FlushFinish, FlushTo, FlushAt
<1>6. UNCHANGED <<content, latch, table, thread, ckptState, disk, flushGen, wal>>
  BY Zenon DEF FlushFinish, files
<1> HIDE DEF d, m
<1>7. meta' \in [Frames -> Metas]
  BY Zenon, <1>2, <1>4, <1>5
<1> QED
  BY Zenon, <1>1, <1>3, <1>5, <1>6, <1>7, FlushMovesOn DEF Busy

LEMMA FlushFailKeeps ==
    ASSUME PoolInv, NEW x \in Procs, FlushFail(x)
    PROVE  PoolInv'
<1> DEFINE f == flush[x].frame
           d == FlushAt(flush[x], "err")
           l == ReadersSet(latch[f], latch[f].readers \ {x})
           m == [[meta[f] EXCEPT !.dirty = TRUE] EXCEPT !.flushing = FALSE]
<1>1. flush[x].pc \in Busy /\ "err" \in FlushSteps /\ "err" \notin Busy
  BY Zenon DEF FlushFail, Busy, FlushSteps
<1>2. /\ f \in Frames /\ flush[x] \in Flushes
      /\ latch[f] \in Latches /\ latch[f].readers \ {x} \in SUBSET Procs
      /\ (latch[f].writer # None => latch[f].readers = {})
      /\ meta \in [Frames -> Metas] /\ meta[f] \in Metas
      /\ disk \in [Pages -> Images] /\ flushGen \in Nat /\ synced \in Nat /\ synced <= Len(log)
  BY Zenon, <1>1, FlushTarget
<1>3. d \in Flushes /\ d.pc = "err"
  BY Zenon, <1>1, <1>2, FlushAtFields
<1>4. l \in Latches /\ l.writer = latch[f].writer /\ l.readers = latch[f].readers \ {x}
  BY Zenon, <1>2, ReaderFields
<1>5. m \in Metas
  BY <1>2, Zenon DEF Metas
<1>6. flush' = [flush EXCEPT ![x] = d] /\ latch' = [latch EXCEPT ![f] = l]
  BY Zenon DEF FlushFail, FlushTo, FlushAt, ReadersSet
<1>7. meta' = [meta EXCEPT ![f] = m]
  BY <1>2, Zenon DEF FlushFail
<1>8. /\ UNCHANGED <<content, table, thread, ckptState, log>>
      /\ synced' = synced /\ disk' = disk /\ flushGen' = flushGen
  BY Zenon DEF FlushFail, wal, files
<1> HIDE DEF d, l, m
<1>9. /\ meta' \in [Frames -> Metas] /\ disk' \in [Pages -> Images] /\ flushGen' \in Nat
      /\ \A p \in Pages : disk'[p] = disk[p] \/ disk'[p].lsn <= synced
      /\ synced' \in Nat /\ synced <= synced' /\ synced' <= Len(log)
  BY <1>2, <1>5, <1>7, <1>8
<1>10. (l.writer # None => l.readers = {}) /\ latch[f].readers \ {x} \subseteq l.readers
  BY Zenon, <1>2, <1>4
<1>11. d.pc \notin Busy /\ d.pc # "write"
  BY Zenon, <1>1, <1>3
<1> QED
  BY Zenon, <1>1, <1>3, <1>4, <1>6, <1>8, <1>9, <1>10, <1>11, FlushMoves DEF FlushMove

LEMMA GuardStepKeeps ==
    ASSUME PoolInv, NEW t \in Threads, GuardStep(t)
    PROVE  PoolInv'
BY Zenon, PinReadKeeps, DropReadKeeps, PinMutKeeps, ModifyKeeps, DropMutKeeps DEF GuardStep

LEMMA FlushStepKeeps ==
    ASSUME PoolInv, NEW x \in Procs, FlushStep(x)
    PROVE  PoolInv'
BY Zenon, FlushClaimKeeps, FlushWalKeeps, FlushWriteKeeps, FlushCoverKeeps, FlushSyncKeeps,
   FlushFinishKeeps, FlushFailKeeps DEF FlushStep

----------------------------------------------------------------------------
(* trigger_checkpoint                                                      *)

Published(c) == [c EXCEPT !.pc = "flush", !.scan = Frames]
Scanned(c, f, s) == [c EXCEPT !.scan = @ \ {f}, !.todo = s]
Todo(c, s) == [c EXCEPT !.todo = s]
Begun(n) == [NoCkpt EXCEPT !.pc = "publish", !.begin = n]

LEMMA CkptFields ==
    ASSUME NEW c \in Ckpts, NEW s \in SUBSET Pages, NEW f \in Frames
    PROVE  /\ Published(c) \in Ckpts /\ Scanned(c, f, s) \in Ckpts /\ Todo(c, s) \in Ckpts
<1>1. c.scan \ {f} \in SUBSET Frames /\ Frames \in SUBSET Frames
  BY Zenon DEF Ckpts
<1> QED
  BY <1>1, Zenon DEF Ckpts, Published, Scanned, Todo

LEMMA NewCkpt ==
    ASSUME NEW n \in Nat
    PROVE  NoCkpt \in Ckpts /\ Begun(n) \in Ckpts
<1>1. NoCkpt \in Ckpts
  BY Zenon DEF NoCkpt, Ckpts
<1>2. Begun(n) \in Ckpts
  BY <1>1, Zenon DEF Begun, Ckpts
<1> QED
  BY Zenon, <1>1, <1>2

\* A step of the checkpoint: the log may grow and be synced, the pool stays.
LEMMA CkptMoves ==
    ASSUME PoolInv, NEW d \in Flushes,
           flush' = [flush EXCEPT ![Ckpt] = d],
           d = flush[Ckpt] \/ d.pc = "none" \/ (d.pc = "claim" /\ d.frame \in Frames),
           ckpt' \in Ckpts, ckptLsn' \in Nat,
           log' \in Seq(LogRecords), Len(log) <= Len(log'),
           synced' \in Nat, synced <= synced', synced' <= Len(log'),
           UNCHANGED <<pool, thread, files>>
    PROVE  PoolInv'
<1>1. /\ Ckpt \in Procs /\ Ckpt \notin Threads /\ flush \in [Procs -> Flushes]
      /\ Len(log) \in Nat /\ Len(log') \in Nat /\ synced \in Nat
  BY PoolAssumption DEF PoolInv, PoolTypes, Procs
<1>2. /\ flush' \in [Procs -> Flushes] /\ flush'[Ckpt] = d
      /\ \A x \in Procs : x # Ckpt => flush'[x] = flush[x]
  BY Zenon, <1>1, Updated
<1>3. PoolTypes'
  BY Zenon, <1>2 DEF PoolInv, PoolTypes, pool, files
<1>4. TargetsExist'
  <2>1. \A x \in Procs : flush'[x].pc \in Busy => flush'[x].frame \in Frames
    BY Zenon, <1>2 DEF PoolInv, TargetsExist, Busy
  <2>2. \A x \in Procs : flush'[x].pc \in Busy \ {"claim"} => flush'[x].page \in Pages
    BY Zenon, <1>2 DEF PoolInv, TargetsExist, Busy
  <2>3. \A u \in Threads : thread[u].pc # "evict" => flush'[u].pc = "none"
    BY Zenon, <1>1, <1>2 DEF PoolInv, TargetsExist, Procs
  <2> QED
    BY Zenon, <2>1, <2>2, <2>3 DEF PoolInv, TargetsExist
<1>5. LatchesExclude'
  BY Zenon DEF PoolInv, LatchesExclude, pool
<1>6. WritesAreLogged'
  <2> SUFFICES ASSUME NEW x \in Procs, flush'[x].pc = "write"
               PROVE  /\ x \in latch[flush'[x].frame].readers
                      /\ content[flush'[x].frame].lsn <= synced'
    BY Zenon DEF WritesAreLogged, pool
  <2>1. flush'[x] = flush[x] /\ flush[x].frame \in Frames
    BY Zenon, <1>2 DEF PoolInv, TargetsExist, Busy
  <2>2. x \in latch[flush[x].frame].readers /\ content[flush[x].frame].lsn <= synced
    BY Zenon, <2>1 DEF PoolInv, WritesAreLogged
  <2>3. content[flush[x].frame].lsn \in Nat
    BY Zenon, <2>1 DEF PoolInv, PoolTypes, Images
  <2> QED
    BY <1>1, <2>1, <2>2, <2>3
<1>7. ImagesAreLogged'
  <2>1. \A f \in Frames : content[f].lsn \in Nat /\ content[f].lsn <= Len(log)
    BY Zenon DEF PoolInv, PoolTypes, Images, ImagesAreLogged
  <2>2. \A p \in Pages : disk[p].lsn \in Nat /\ disk[p].lsn <= synced
    BY Zenon DEF PoolInv, PoolTypes, Images, ImagesAreLogged
  <2> QED
    BY <1>1, <2>1, <2>2 DEF ImagesAreLogged, pool, files
<1> QED
  BY Zenon, <1>3, <1>4, <1>5, <1>6, <1>7 DEF PoolInv

LEMMA CkptFacts ==
    ASSUME PoolInv
    PROVE  /\ ckpt \in Ckpts /\ ckpt.begin \in Nat /\ ckpt.todo \in SUBSET Pages /\ ckptLsn \in Nat
           /\ log \in Seq(LogRecords) /\ Len(log) \in Nat
           /\ synced \in Nat /\ synced <= Len(log)
           /\ flush[Ckpt] \in Flushes /\ flush = [flush EXCEPT ![Ckpt] = flush[Ckpt]]
BY DEF PoolInv, PoolTypes, Ckpts, ImagesAreLogged, Procs

LEMMA CkptBeginKeeps ==
    ASSUME PoolInv, CkptBegin
    PROVE  PoolInv'
<1> DEFINE r == [kind |-> "begin", page |-> None, since |-> 0]
<1>1. log' = Append(log, r) /\ ckpt' = Begun(Len(log'))
  BY Zenon DEF CkptBegin, AppendRecord, Begun
<1>2. r \in LogRecords
  BY Zenon DEF LogRecords, PageOrNone
<1>3. log' \in Seq(LogRecords) /\ Len(log') = Len(log) + 1
  BY Zenon, <1>1, <1>2, CkptFacts, Logged
<1>4. ckpt' \in Ckpts
  BY <1>1, <1>3, CkptFacts, NewCkpt
<1>5. flush' = flush /\ ckptLsn' = ckptLsn /\ synced' = synced /\ UNCHANGED <<pool, thread, files>>
  BY Zenon DEF CkptBegin
<1>6. /\ Len(log) <= Len(log') /\ synced' \in Nat /\ synced <= synced' /\ synced' <= Len(log')
  BY <1>3, <1>5, CkptFacts
<1> QED
  BY Zenon, <1>3, <1>4, <1>5, <1>6, CkptFacts, CkptMoves

\* The steps that leave the log alone.
LEMMA CkptMovesOn ==
    ASSUME PoolInv, NEW d \in Flushes,
           flush' = [flush EXCEPT ![Ckpt] = d],
           d = flush[Ckpt] \/ d.pc = "none" \/ (d.pc = "claim" /\ d.frame \in Frames),
           ckpt' \in Ckpts, ckptLsn' \in Nat,
           UNCHANGED <<pool, thread, files, wal>>
    PROVE  PoolInv'
<1>1. log' = log /\ synced' = synced
  BY Zenon DEF wal
<1>2. /\ log' \in Seq(LogRecords) /\ Len(log) <= Len(log')
      /\ synced' \in Nat /\ synced <= synced' /\ synced' <= Len(log')
  BY <1>1, CkptFacts
<1>3. UNCHANGED <<pool, thread, files>>
  BY Zenon
<1> QED
  BY Zenon, <1>2, <1>3, CkptMoves

LEMMA CkptPublishKeeps ==
    ASSUME PoolInv, CkptPublish
    PROVE  PoolInv'
<1>1. ckpt' = Published(ckpt)
  BY Zenon DEF CkptPublish, Published
<1>2. ckpt' \in Ckpts
  BY <1>1, CkptFacts, Zenon DEF Ckpts, Published
<1>3. flush' = flush /\ ckptLsn' = ckpt.begin /\ UNCHANGED <<pool, thread, files, wal>>
  BY Zenon DEF CkptPublish
<1> QED
  BY Zenon, <1>2, <1>3, CkptFacts, CkptMovesOn

LEMMA CkptScanKeeps ==
    ASSUME PoolInv, NEW f \in Frames, CkptScan(f)
    PROVE  PoolInv'
<1> DEFINE s == IF meta[f].dirty /\ meta[f].page # None
                THEN ckpt.todo \cup {meta[f].page} ELSE ckpt.todo
<1>1. ckpt' = Scanned(ckpt, f, s)
  BY CkptFacts, Zenon DEF CkptScan, Scanned, Ckpts
<1>2. s \in SUBSET Pages
  <2>1. meta[f].page \in PageOrNone
    BY Zenon DEF PoolInv, PoolTypes, Metas
  <2> QED
    BY Zenon, <2>1, CkptFacts DEF PageOrNone
<1> HIDE DEF s
<1>3. ckpt' \in Ckpts
  BY Zenon, <1>1, <1>2, CkptFacts, CkptFields
<1>4. flush' = flush /\ ckptLsn' = ckptLsn /\ UNCHANGED <<pool, thread, files, wal>>
  BY Zenon DEF CkptScan
<1> QED
  BY Zenon, <1>3, <1>4, CkptFacts, CkptMovesOn

LEMMA TodoField ==
    ASSUME NEW c \in Ckpts, NEW s \in SUBSET Pages
    PROVE  Todo(c, s) \in Ckpts
BY Zenon DEF Ckpts, Todo

LEMMA CkptFlushPageKeeps ==
    ASSUME PoolInv, NEW p \in Pages, CkptFlushPage(p)
    PROVE  PoolInv'
<1>1. ckptLsn' = ckptLsn /\ UNCHANGED <<pool, thread, files, wal>>
  BY Zenon DEF CkptFlushPage
<1>2. CASE table[p] = None
  <2>1. ckpt' = Todo(ckpt, ckpt.todo \ {p}) /\ flush' = flush
    BY Zenon, <1>2 DEF CkptFlushPage, Todo
  <2>2. ckpt.todo \ {p} \in SUBSET Pages
    BY Zenon, CkptFacts
  <2>3. ckpt' \in Ckpts
    BY Zenon, <2>1, <2>2, CkptFacts, TodoField
  <2> QED
    BY Zenon, <1>1, <2>1, <2>3, CkptFacts, CkptMovesOn
<1>3. CASE table[p] # None
  <2> DEFINE d == Asked(p, table[p], content[table[p]].lsn)
  <2>1. table[p] \in Frames /\ content[table[p]].lsn \in Nat
    BY Zenon, <1>3 DEF PoolInv, PoolTypes, FrameOrNone, Images
  <2>2. d \in Flushes /\ d.pc = "claim" /\ d.frame \in Frames
    BY Zenon, <2>1, NewFlush
  <2>3. flush' = [flush EXCEPT ![Ckpt] = d] /\ ckpt' = ckpt
    BY Zenon, <1>3 DEF CkptFlushPage, StartFlush, Asked
  <2> HIDE DEF d
  <2> QED
    BY Zenon, <1>1, <2>2, <2>3, CkptFacts, CkptMovesOn
<1> QED
  BY Zenon, <1>2, <1>3

LEMMA CkptFlushedKeeps ==
    ASSUME PoolInv, CkptFlushed
    PROVE  PoolInv'
<1> DEFINE s == ckpt.todo \ {flush[Ckpt].asked}
<1>1. ckpt' = IF flush[Ckpt].pc = "ok" THEN Todo(ckpt, s) ELSE NoCkpt
  BY Zenon DEF CkptFlushed, Todo
<1>2. s \in SUBSET Pages
  BY Zenon, CkptFacts
<1>3. Todo(ckpt, s) \in Ckpts /\ NoCkpt \in Ckpts
  <2>1. Todo(ckpt, s) \in Ckpts
    BY Zenon, <1>2, CkptFacts, TodoField
  <2>2. 0 \in Nat
    BY Zenon
  <2> QED
    BY Zenon, <2>1, <2>2, NewCkpt
<1> HIDE DEF s
<1>4. flush' = [flush EXCEPT ![Ckpt] = NoFlush] /\ ckptLsn' = ckptLsn
      /\ UNCHANGED <<pool, thread, files, wal>>
  BY Zenon DEF CkptFlushed
<1> QED
  BY Zenon, <1>1, <1>3, <1>4, CkptFacts, NoFlushFields, CkptMovesOn

LEMMA CkptEndKeeps ==
    ASSUME PoolInv, CkptEnd
    PROVE  PoolInv'
<1>1. /\ synced' = Len(log) /\ log' = log /\ ckpt' = NoCkpt
      /\ flush' = flush /\ ckptLsn' = ckptLsn /\ UNCHANGED <<pool, thread, files>>
  BY Zenon DEF CkptEnd
<1>2. NoCkpt \in Ckpts
  <2>1. 0 \in Nat
    OBVIOUS
  <2> QED
    BY Zenon, <2>1, NewCkpt
<1>3. /\ log' \in Seq(LogRecords) /\ Len(log) <= Len(log')
      /\ synced' \in Nat /\ synced <= synced' /\ synced' <= Len(log')
  BY <1>1, CkptFacts
<1> QED
  BY Zenon, <1>1, <1>2, <1>3, CkptFacts, CkptMoves

LEMMA CkptStepKeeps ==
    ASSUME PoolInv, CkptStep
    PROVE  PoolInv'
BY Zenon, CkptBeginKeeps, CkptPublishKeeps, CkptFlushedKeeps, CkptEndKeeps, CkptScanKeeps,
   CkptFlushPageKeeps DEF CkptStep

----------------------------------------------------------------------------
(* The theorems                                                            *)

LEMMA PoolInvNext == PoolInv /\ [Next]_vars => PoolInv'
<1> SUFFICES ASSUME PoolInv, [Next]_vars PROVE PoolInv'
  BY Zenon
<1>1. CASE Next
  BY Zenon, <1>1, PinStepKeeps, GuardStepKeeps, FlushStepKeeps, CkptStepKeeps DEF Next
<1>2. CASE UNCHANGED vars
  BY Zenon, <1>2 DEF vars, pool, ckptState, files, wal, PoolInv, PoolTypes, TargetsExist, LatchesExclude,
     WritesAreLogged, ImagesAreLogged
<1> QED
  BY Zenon, <1>1, <1>2

\* The pool keeps its strengthening: the content lock excludes, a flush that is about
\* to write holds its share of it, and its image is logged.
THEOREM PoolInvariant == Spec => []PoolInv
<1>1. Init => PoolInv
  BY Zenon, PoolInvInit
<1>2. PoolInv /\ [Next]_vars => PoolInv'
  BY Zenon, PoolInvNext
<1> QED
  BY <1>1, <1>2, PTL DEF Spec

\* WAL before data, for every pool: flush_frame never lets an image reach the data
\* file whose records an fsync of the log has not reached.
THEOREM LogBeforeData == Spec => []WalBeforeData
<1>1. PoolInv => WalBeforeData
  BY Zenon DEF PoolInv, ImagesAreLogged, WalBeforeData
<1> QED
  BY <1>1, PoolInvariant, PTL
=============================================================================
