----------------------------- MODULE BufferPool -----------------------------
(***************************************************************************)
(* The buffer pool of pg-storage (buffer_pool.rs): pins and page latches,  *)
(* loading and eviction under the allocation lock, flush_frame with its    *)
(* clear-before-write dirty flag, its in-flight mark and its shared fsync, *)
(* full page images, and the checkpoint that collects and flushes the      *)
(* dirty pages (checkpoint.rs).                                            *)
(*                                                                         *)
(* A page image is the page it belongs to and its pd_lsn: every change of  *)
(* a page appends one record and stamps its LSN.  disk is the data file as *)
(* a read sees it, durable what an fsync has reached.  Every lock of the   *)
(* code is one atomic step, or is held from one step to another.  The      *)
(* CLOCK hand may stop at any unpinned frame.  first_dirty_lsn, which the  *)
(* redo scan does not use, and cached_lsn are left out.                    *)
(***************************************************************************)
EXTENDS Integers, FiniteSets, Sequences

CONSTANTS Pages,
          Fresh,       \* the pages that are not allocated yet
          Frames,
          Threads,     \* threads that pin pages
          Ckpt,        \* the thread that takes checkpoints
          None,
          MaxLsn,      \* bound: records of the log
          MaxPins,     \* bound: calls of pin, pin_mut and new_page
          MaxFails     \* bound: I/O errors

ASSUME PoolAssumption ==
    /\ Fresh \subseteq Pages /\ None \notin Pages \cup Frames \cup Threads
    /\ Ckpt \notin Threads \cup {None} /\ IsFiniteSet(Threads)
    /\ MaxLsn \in Nat /\ MaxPins \in Nat /\ MaxFails \in Nat

VARIABLES meta,        \* FrameMeta of every frame
          content,     \* the page image in every frame
          latch,       \* who holds the content lock of a frame: writer, readers
          table,       \* page_table
          allocLock,   \* allocation_lock
          thread,      \* where each thread is in its pin, and on what
          flush,       \* the flush_frame call of each thread
          ckpt,        \* where the checkpoint is
          ckptLsn,     \* checkpoint_lsn: the begin record it published
          redo,        \* the redo point of the last complete checkpoint
          fresh,       \* pages alloc_page has not handed out
          disk, durable, flushGen, syncedGen,
          log, synced,
          fails, pins, \* I/O errors and pins so far
          overtaken    \* history: an unfinished flush was overtaken

pool == <<meta, content, latch, table, allocLock>>
files == <<disk, durable, flushGen, syncedGen>>
wal == <<log, synced>>
ckptState == <<ckpt, ckptLsn, redo>>
vars == <<pool, thread, flush, ckptState, fresh, files, wal, fails, overtaken, pins>>

Procs == Threads \cup {Ckpt}

Empty == [page |-> None, pins |-> 0, dirty |-> FALSE,
          needsFpi |-> FALSE, evicting |-> FALSE, flushing |-> FALSE]
Unlatched == [writer |-> None, readers |-> {}]
Zeroed == [of |-> None, lsn |-> 0]
Idle == [pc |-> "idle", page |-> None, frame |-> None, new |-> FALSE,
         gate |-> 0]
NoFlush == [pc |-> "none", asked |-> None, page |-> None, frame |-> None,
            want |-> 0, gen |-> 0, covers |-> 0]
NoCkpt == [pc |-> "idle", begin |-> 0, scan |-> {}, todo |-> {}]

Larger(a, b) == IF a >= b THEN a ELSE b

\* The LSN of the last record of page p among the first n, 0 if it has none.
LastRecord(p, n) ==
    LET of == {i \in 1..n : log[i].page = p}
    IN  IF of = {} THEN 0 ELSE CHOOSE i \in of : \A j \in of : j <= i
Latest(p) == LastRecord(p, Len(log))

\* History in a record: since is the checkpoint its FPI gate has seen, 0 if the
\* page had no image in the data file.
AppendRecord(kind, p, gate) ==
    log' = Append(log, [kind |-> kind, page |-> p,
                        since |-> IF p # None /\ disk[p].of # None THEN gate ELSE 0])
Room == Len(log) < MaxLsn

Init ==
    /\ meta = [f \in Frames |-> Empty]
    /\ content = [f \in Frames |-> Zeroed]
    /\ latch = [f \in Frames |-> Unlatched]
    /\ table = [p \in Pages |-> None]
    /\ allocLock = None
    /\ thread = [t \in Threads |-> Idle]
    /\ flush = [x \in Procs |-> NoFlush]
    /\ ckpt = NoCkpt /\ ckptLsn = 0 /\ redo = 0
    /\ fresh = Fresh
    /\ disk = [p \in Pages |-> IF p \in Fresh THEN Zeroed ELSE [of |-> p, lsn |-> 0]]
    /\ durable = disk
    /\ flushGen = 0 /\ syncedGen = 0
    /\ log = <<>> /\ synced = 0
    /\ fails = 0 /\ pins = 0
    /\ overtaken = FALSE

----------------------------------------------------------------------------
(* pin, pin_mut and new_page: finding or loading the frame                 *)

Goto(t, pc) == thread' = [thread EXCEPT ![t].pc = pc]
Start(t) == thread[t].pc = "idle" /\ pins < MaxPins /\ pins' = pins + 1

\* try_pin_resident
TryPinResident(t, p) ==
    /\ Start(t)
    /\ table[p] # None
    /\ meta[table[p]].page = p /\ ~meta[table[p]].evicting
    /\ meta' = [meta EXCEPT ![table[p]].pins = @ + 1]
    /\ thread' = [thread EXCEPT ![t] = [Idle EXCEPT !.pc = "pinned", !.page = p,
                                                    !.frame = table[p]]]
    /\ UNCHANGED <<content, latch, table, allocLock, flush, ckptState, fresh, files, wal, fails, overtaken>>

StartFlush(x, p, f) ==
    flush' = [flush EXCEPT ![x] = [NoFlush EXCEPT !.pc = "claim", !.asked = p, !.frame = f,
                                                  !.want = content[f].lsn]]

\* Mutant: a dirty victim is dropped without a flush.
EvictFrameDirty(t, p, f, new) ==
    /\ meta[f].pins = 0 /\ ~meta[f].evicting
    /\ meta' = [meta EXCEPT ![f].evicting = TRUE]
    /\ thread' = [thread EXCEPT ![t] = [Idle EXCEPT !.pc = "evict", !.page = p,
                                                    !.frame = f, !.new = new]]
    /\ flush' = [flush EXCEPT ![t].pc = "ok"]
    /\ overtaken' = (overtaken \/ (meta[f].flushing /\ ~meta[f].dirty))

\* The victim's meta lock is dropped once it is marked; a dirty one is flushed.
Evictable(f) == meta[f].pins = 0 /\ ~meta[f].evicting
EvictFrame(t, p, f, new) ==
    /\ Evictable(f)
    /\ meta' = [meta EXCEPT ![f].evicting = TRUE]
    /\ thread' = [thread EXCEPT ![t] = [Idle EXCEPT !.pc = "evict", !.page = p,
                                                    !.frame = f, !.new = new]]
    /\ IF meta[f].dirty /\ meta[f].page # None
       THEN StartFlush(t, meta[f].page, f)
       ELSE flush' = [flush EXCEPT ![t].pc = "ok"]
    /\ overtaken' = (overtaken \/ (meta[f].flushing /\ ~meta[f].dirty))

\* Mutant: alloc_frame does not look at the table again under the lock.
AllocFrameBlind(t, p, f) ==
    /\ Start(t) /\ p \notin fresh
    /\ allocLock = None /\ allocLock' = t
    /\ EvictFrame(t, p, f, FALSE)
    /\ UNCHANGED <<content, latch, table, ckptState, fresh, files, wal, fails>>

\* alloc_frame takes the allocation lock and holds it until the page is loaded.
\* It goes on to evict only once the page is not in the table.
AllocFrame(t, p, f) ==
    /\ Start(t) /\ p \notin fresh
    /\ allocLock = None /\ allocLock' = t
    /\ table[p] = None
    /\ EvictFrame(t, p, f, FALSE)
    /\ UNCHANGED <<content, latch, table, ckptState, fresh, files, wal, fails>>

\* new_page: alloc_page hands out a page and extends the file with zeros.
NewPage(t, p, f) ==
    /\ Start(t) /\ p \in fresh
    /\ fresh' = fresh \ {p}
    /\ allocLock = None /\ allocLock' = t
    /\ EvictFrame(t, p, f, TRUE)
    /\ UNCHANGED <<content, latch, table, ckptState, files, wal, fails>>

\* BufferPoolFull: no frame can be evicted; a page that was allocated is lost.  The
\* caller may hold another page: its guard stays as it is.
PoolFull(t, p) ==
    /\ thread[t].pc \in {"idle", "reading", "latched", "changed"}
    /\ pins < MaxPins /\ pins' = pins + 1
    /\ allocLock = None
    /\ table[p] = None /\ \A f \in Frames : ~Evictable(f)
    /\ fresh' = fresh \ {p}
    /\ UNCHANGED <<pool, thread, flush, ckptState, files, wal, fails, overtaken>>

EvictFlushFailed(t) ==
    /\ thread[t].pc = "evict" /\ flush[t].pc = "err"
    /\ flush' = [flush EXCEPT ![t] = NoFlush]
    /\ meta' = [meta EXCEPT ![thread[t].frame].evicting = FALSE]
    /\ allocLock' = None
    /\ thread' = [thread EXCEPT ![t] = Idle]
    /\ UNCHANGED <<content, latch, table, ckptState, fresh, files, wal, fails, overtaken, pins>>

\* The mapping of the old page goes and the metadata is reset, whatever it holds.
Unmapped(t) == [p \in Pages |-> IF p = meta[thread[t].frame].page THEN None ELSE table[p]]

Loadable(t) ==
    /\ thread[t].pc = "evict" /\ flush[t].pc = "ok"
    /\ latch[thread[t].frame] = Unlatched

\* The rest of evict_frame and alloc_frame: no other thread can reach the frame.
\* The page is read, or zeroed if it is new; new_page also clears needs_fpi and
\* sets dirty.
LoadFrame(t) ==
    /\ Loadable(t)
    /\ LET f == thread[t].frame  p == thread[t].page IN
         /\ content' = [content EXCEPT ![f] = IF thread[t].new THEN Zeroed ELSE disk[p]]
         /\ table' = [Unmapped(t) EXCEPT ![p] = f]
         /\ meta' = [meta EXCEPT ![f] = [Empty EXCEPT !.page = p, !.pins = 1,
                                                      !.dirty = thread[t].new,
                                                      !.needsFpi = ~thread[t].new]]
    /\ flush' = [flush EXCEPT ![t] = NoFlush]
    /\ allocLock' = None
    /\ Goto(t, "pinned")
    /\ UNCHANGED <<latch, ckptState, fresh, files, wal, fails, overtaken, pins>>

\* A failed read leaves the frame empty and unmapped.
ReadFails(t) ==
    /\ Loadable(t) /\ ~thread[t].new /\ fails < MaxFails
    /\ content' = [content EXCEPT ![thread[t].frame] = Zeroed]
    /\ table' = Unmapped(t)
    /\ meta' = [meta EXCEPT ![thread[t].frame] = Empty]
    /\ fails' = fails + 1
    /\ flush' = [flush EXCEPT ![t] = NoFlush]
    /\ allocLock' = None
    /\ thread' = [thread EXCEPT ![t] = Idle]
    /\ UNCHANGED <<latch, ckptState, fresh, files, wal, overtaken, pins>>

----------------------------------------------------------------------------
(* The guards                                                              *)

\* pin: the content lock is shared.
PinRead(t) ==
    /\ thread[t].pc = "pinned" /\ ~thread[t].new
    /\ latch[thread[t].frame].writer = None
    /\ latch' = [latch EXCEPT ![thread[t].frame].readers = @ \cup {t}]
    /\ Goto(t, "reading")
    /\ UNCHANGED <<meta, content, table, allocLock, flush, ckptState, fresh, files, wal, fails, overtaken, pins>>

\* PageGuard::drop
DropRead(t) ==
    /\ thread[t].pc = "reading"
    /\ latch' = [latch EXCEPT ![thread[t].frame].readers = @ \ {t}]
    /\ meta' = [meta EXCEPT ![thread[t].frame].pins = @ - 1]
    /\ thread' = [thread EXCEPT ![t] = Idle]
    /\ UNCHANGED <<content, table, allocLock, flush, ckptState, fresh, files, wal, fails, overtaken, pins>>

\* Mutant: the gate compares with the flag alone, which a load has set.
FpiDueUnpublished(f) == meta[f].needsFpi /\ redo # 0 /\ content[f].lsn < redo

FpiDue(f) == meta[f].needsFpi /\ ckptLsn # 0 /\ content[f].lsn < ckptLsn

\* A record of the page is appended and its LSN stamped on it.
Stamp(f, kind, p, gate) ==
    /\ Room /\ AppendRecord(kind, p, gate)
    /\ content' = [content EXCEPT ![f] = [of |-> IF @.of = None THEN p ELSE @.of,
                                          lsn |-> Len(log')]]

\* pin_mut_without_fpi and ensure_fpi: the content lock is exclusive, dirty is
\* set at once, an image is logged if the gate says so.  new_page has no gate.
PinMut(t) ==
    /\ thread[t].pc = "pinned"
    /\ LET f == thread[t].frame IN
         /\ latch[f] = Unlatched
         /\ latch' = [latch EXCEPT ![f].writer = t]
         /\ meta' = [meta EXCEPT ![f].dirty = TRUE]
         /\ IF ~thread[t].new /\ FpiDue(f)
            THEN Stamp(f, "fpi", thread[t].page, ckptLsn)
            ELSE UNCHANGED <<log, content>>
    /\ thread' = [thread EXCEPT ![t].pc = "latched",
                                ![t].gate = IF thread[t].new THEN 0 ELSE ckptLsn]
    /\ UNCHANGED <<table, allocLock, flush, ckptState, fresh, files, synced, fails, overtaken, pins>>

\* The access method appends a record and applies it to the latched page.
Modify(t) ==
    /\ thread[t].pc = "latched"
    /\ Stamp(thread[t].frame, "update", thread[t].page, thread[t].gate)
    /\ Goto(t, "changed")
    /\ UNCHANGED <<meta, latch, table, allocLock, flush, ckptState, fresh, files, synced, fails, overtaken, pins>>

\* PageGuardMut::drop: dirty again, whether or not the page was changed.
DropMut(t) ==
    /\ thread[t].pc \in {"latched", "changed"}
    /\ latch' = [latch EXCEPT ![thread[t].frame].writer = None]
    /\ meta' = [meta EXCEPT ![thread[t].frame].dirty = TRUE,
                            ![thread[t].frame].pins = @ - 1]
    /\ thread' = [thread EXCEPT ![t] = Idle]
    /\ UNCHANGED <<content, table, allocLock, flush, ckptState, fresh, files, wal, fails, overtaken, pins>>

----------------------------------------------------------------------------
(* flush_frame, called by an evictor or by the checkpoint                  *)

FlushTo(x, pc) == flush' = [flush EXCEPT ![x].pc = pc]

\* Mutant: a clean frame is judged before the flush in flight is waited out.
FlushClaimEager(x) ==
    /\ flush[x].pc = "claim"
    /\ LET f == flush[x].frame IN
         IF ~meta[f].dirty \/ meta[f].page = None
         THEN FlushTo(x, "ok") /\ UNCHANGED meta
         ELSE /\ ~meta[f].flushing
              /\ meta' = [meta EXCEPT ![f].flushing = TRUE, ![f].dirty = FALSE]
              /\ flush' = [flush EXCEPT ![x].pc = "latch", ![x].page = meta[f].page]
    /\ UNCHANGED <<content, latch, table, allocLock, thread, ckptState, fresh, files, wal, fails, overtaken, pins>>

\* It waits out a flush in flight before it judges the frame clean.
FlushClaim(x) ==
    /\ flush[x].pc = "claim"
    /\ LET f == flush[x].frame IN
         /\ ~meta[f].flushing
         /\ IF ~meta[f].dirty \/ meta[f].page = None
            THEN FlushTo(x, "ok") /\ UNCHANGED meta
            ELSE /\ meta' = [meta EXCEPT ![f].flushing = TRUE, ![f].dirty = FALSE]
                 /\ flush' = [flush EXCEPT ![x].pc = "latch", ![x].page = meta[f].page]
    /\ UNCHANGED <<content, latch, table, allocLock, thread, ckptState, fresh, files, wal, fails, overtaken, pins>>

\* Mutant: the page is written without a flush of the log.
FlushWalUnsynced(x) ==
    /\ flush[x].pc = "latch"
    /\ latch[flush[x].frame].writer = None
    /\ latch' = [latch EXCEPT ![flush[x].frame].readers = @ \cup {x}]
    /\ FlushTo(x, "write")
    /\ UNCHANGED <<meta, content, table, allocLock, thread, ckptState, fresh, files, wal, fails, overtaken, pins>>

\* The content lock is taken shared and the log fsynced up to the page's LSN.
FlushWal(x) ==
    /\ flush[x].pc = "latch"
    /\ LET f == flush[x].frame IN
         /\ latch[f].writer = None
         /\ latch' = [latch EXCEPT ![f].readers = @ \cup {x}]
         /\ synced' = IF synced < content[f].lsn THEN Len(log) ELSE synced
    /\ FlushTo(x, "write")
    /\ UNCHANGED <<meta, content, table, allocLock, thread, ckptState, fresh, files, log, fails, overtaken, pins>>

\* The write goes to the offset of the page claimed; needs_fpi is set before
\* the content lock is released.
FlushWrite(x) ==
    /\ flush[x].pc = "write"
    /\ LET f == flush[x].frame IN
         /\ disk' = [disk EXCEPT ![flush[x].page] = content[f]]
         /\ meta' = [meta EXCEPT ![f].needsFpi = TRUE]
         /\ latch' = [latch EXCEPT ![f].readers = @ \ {x}]
    /\ flushGen' = flushGen + 1
    /\ flush' = [flush EXCEPT ![x].pc = "cover", ![x].gen = flushGen + 1]
    /\ UNCHANGED <<content, table, allocLock, thread, ckptState, fresh, durable, syncedGen, wal, fails, overtaken, pins>>

\* Another thread's fsync may cover this write; if none does, the writes the
\* coming fsync covers are counted before it starts.
FlushCover(x) ==
    /\ flush[x].pc = "cover"
    /\ flush' = IF syncedGen >= flush[x].gen
                THEN [flush EXCEPT ![x].pc = "finish"]
                ELSE [flush EXCEPT ![x].pc = "sync", ![x].covers = flushGen]
    /\ UNCHANGED <<pool, thread, ckptState, fresh, files, wal, fails, overtaken, pins>>

FlushSync(x) ==
    /\ flush[x].pc = "sync"
    /\ durable' = disk
    /\ syncedGen' = Larger(syncedGen, flush[x].covers)
    /\ FlushTo(x, "finish")
    /\ UNCHANGED <<pool, thread, ckptState, fresh, disk, flushGen, wal, fails, overtaken, pins>>

\* flushing is cleared and the waiters are notified.
FlushFinish(x) ==
    /\ flush[x].pc = "finish"
    /\ meta' = [meta EXCEPT ![flush[x].frame].flushing = FALSE]
    /\ FlushTo(x, "ok")
    /\ UNCHANGED <<content, latch, table, allocLock, thread, ckptState, fresh, files, wal, fails, overtaken, pins>>

\* Mutant: a failed flush leaves the frame clean.
FlushFailClean(x) ==
    /\ flush[x].pc \in {"write", "sync"} /\ fails < MaxFails
    /\ meta' = [meta EXCEPT ![flush[x].frame].flushing = FALSE]
    /\ latch' = [latch EXCEPT ![flush[x].frame].readers = @ \ {x}]
    /\ fails' = fails + 1
    /\ FlushTo(x, "err")
    /\ UNCHANGED <<content, table, allocLock, thread, ckptState, fresh, files, wal, overtaken, pins>>

\* flush_to, the write or the fsync fails: the frame is dirty again.
FlushFail(x) ==
    /\ flush[x].pc \in {"write", "sync"} /\ fails < MaxFails
    /\ LET f == flush[x].frame IN
         /\ meta' = [meta EXCEPT ![f].dirty = TRUE, ![f].flushing = FALSE]
         /\ latch' = [latch EXCEPT ![f].readers = @ \ {x}]
    /\ fails' = fails + 1
    /\ FlushTo(x, "err")
    /\ UNCHANGED <<content, table, allocLock, thread, ckptState, fresh, files, wal, overtaken, pins>>

FlushStep(x) ==
    \/ FlushClaim(x) \/ FlushWal(x) \/ FlushWrite(x) \/ FlushCover(x)
    \/ FlushSync(x) \/ FlushFinish(x) \/ FlushFail(x)

----------------------------------------------------------------------------
(* trigger_checkpoint, as far as the pool sees it                          *)

CkptBegin ==
    /\ ckpt.pc = "idle" /\ Room
    /\ AppendRecord("begin", None, 0)
    /\ ckpt' = [NoCkpt EXCEPT !.pc = "publish", !.begin = Len(log')]
    /\ UNCHANGED <<pool, thread, flush, ckptLsn, redo, fresh, files, synced, fails, overtaken, pins>>

\* set_checkpoint_lsn
CkptPublish ==
    /\ ckpt.pc = "publish"
    /\ ckptLsn' = ckpt.begin
    /\ ckpt' = [ckpt EXCEPT !.pc = "flush", !.scan = Frames]
    /\ UNCHANGED <<pool, thread, flush, redo, fresh, files, wal, fails, overtaken, pins>>

\* dirty_page_ids looks at the frames one by one.
CkptScan(f) ==
    /\ ckpt.pc = "flush" /\ f \in ckpt.scan
    /\ LET m == meta[f]  found == m.dirty /\ m.page # None IN
         /\ ckpt' = [ckpt EXCEPT !.scan = @ \ {f},
                                 !.todo = IF found THEN @ \cup {m.page} ELSE @]
         /\ overtaken' = (overtaken \/ (m.flushing /\ ~found))
    /\ UNCHANGED <<pool, thread, flush, ckptLsn, redo, fresh, files, wal, fails, pins>>

\* flush(page): the frame is looked up, the shard lock released.  PageNotFound
\* is taken for a page that was flushed and evicted.
CkptFlushPage(p) ==
    /\ ckpt.pc = "flush" /\ ckpt.scan = {} /\ p \in ckpt.todo
    /\ flush[Ckpt].pc = "none"
    /\ IF table[p] = None
       THEN ckpt' = [ckpt EXCEPT !.todo = @ \ {p}] /\ UNCHANGED flush
       ELSE StartFlush(Ckpt, p, table[p]) /\ UNCHANGED ckpt
    /\ UNCHANGED <<pool, thread, ckptLsn, redo, fresh, files, wal, fails, overtaken, pins>>

\* The page is flushed, or a failed flush gives the checkpoint up.
CkptFlushed ==
    /\ ckpt.pc = "flush" /\ flush[Ckpt].pc \in {"ok", "err"}
    /\ ckpt' = IF flush[Ckpt].pc = "ok"
               THEN [ckpt EXCEPT !.todo = @ \ {flush[Ckpt].asked}] ELSE NoCkpt
    /\ flush' = [flush EXCEPT ![Ckpt] = NoFlush]
    /\ UNCHANGED <<pool, thread, ckptLsn, redo, fresh, files, wal, fails, overtaken, pins>>

\* CheckpointEnd is durable and the superblock moves the redo point.
CkptEnd ==
    /\ ckpt.pc = "flush" /\ ckpt.scan = {} /\ ckpt.todo = {} /\ flush[Ckpt].pc = "none"
    /\ redo' = ckpt.begin
    /\ synced' = Len(log)
    /\ ckpt' = NoCkpt
    /\ UNCHANGED <<pool, thread, flush, ckptLsn, fresh, files, log, fails, overtaken, pins>>

CkptStep ==
    \/ CkptBegin \/ CkptPublish \/ CkptFlushed \/ CkptEnd
    \/ \E f \in Frames : CkptScan(f)
    \/ \E p \in Pages : CkptFlushPage(p)

PinStep(t) ==
    \/ \E p \in Pages :
         \/ TryPinResident(t, p) \/ PoolFull(t, p)
         \/ \E f \in Frames : AllocFrame(t, p, f) \/ NewPage(t, p, f)
    \/ EvictFlushFailed(t) \/ LoadFrame(t) \/ ReadFails(t)

GuardStep(t) == PinRead(t) \/ DropRead(t) \/ PinMut(t) \/ Modify(t) \/ DropMut(t)

Next ==
    \/ \E t \in Threads : PinStep(t) \/ GuardStep(t)
    \/ \E x \in Procs : FlushStep(x)
    \/ CkptStep

Spec == Init /\ [][Next]_vars

----------------------------------------------------------------------------
(* What the pool promises                                                  *)

\* WAL before data: the data file never holds an image whose record could be
\* missing from the log after a crash (flush_frame syncs the log first).
WalBeforeData == \A p \in Pages : disk[p].lsn <= synced

\* Every frame that stands for a page holds the page's last change, unless a
\* thread is changing it: a pin never returns an old copy, and no page lives
\* in two frames (try_pin_resident, alloc_frame).
CacheIsCurrent ==
    \A f \in Frames :
      meta[f].page # None /\ latch[f].writer = None
        => content[f].lsn = Latest(meta[f].page)

\* A page that is not in the pool is durable as of its last change: evict_frame
\* removes the mapping of a page only when it is durable or clean.
EvictedIsDurable ==
    \A p \in Pages : table[p] = None => durable[p].lsn = Latest(p)

\* When flush(page) returns Ok, all that the page held when it was called is
\* durable, also when another thread did the write or the fsync.
FlushIsDurable ==
    flush[Ckpt].pc = "ok" => durable[flush[Ckpt].asked].lsn >= flush[Ckpt].want

\* A complete checkpoint leaves no change before its redo point that only the
\* pool holds: recovery starts the redo scan there.
CheckpointCovers ==
    \A p \in Pages : durable[p].lsn >= LastRecord(p, redo)

\* The first change of a page after the checkpoint its FPI gate has seen comes
\* after another record of the page in that cycle, its image, if the file has
\* an image of the page that the write back could tear (ensure_fpi).
FpiBeforeChange ==
    \A i \in DOMAIN log :
      log[i].kind = "update" /\ log[i].since # 0
        => \E j \in log[i].since..(i - 1) : log[j].page = log[i].page

\* A flush in flight is overtaken when its frame is evicted, or the checkpoint's
\* scan passes it: evict_frame and dirty_page_ids look at dirty, which the flush
\* has cleared, and not at flushing.  Short of that the pool keeps its promises.
NotOvertaken == ~overtaken

\* CacheIsCurrent, short of an overtaken flush.  (try_pin_resident, alloc_frame)
CacheIsCurrentApart == NotOvertaken => CacheIsCurrent

\* No change leaves memory undurable, short of an overtaken flush: neither an evicted
\* frame nor one whose flush returned holds what the file does not.
\* (evict_frame, flush, flush_frame)
WriteBackIsDurableApart == NotOvertaken => (EvictedIsDurable /\ FlushIsDurable)

\* CheckpointCovers, short of an overtaken flush.  (dirty_page_ids, flush_frame)
CheckpointCoversApart == NotOvertaken => CheckpointCovers

\* FpiBeforeChange, short of an overtaken flush.  (ensure_fpi, pin_mut)
FpiBeforeChangeApart == NotOvertaken => FpiBeforeChange

=============================================================================
