# A TLA+ development of the am database kernel

This directory models the concurrent and crash-sensitive parts of the kernel in
`src/crates`: what its threads may do to each other, what a crash leaves, and
what recovery makes of it. TLC checks the models on small instances; TLAPS
proves the central results for every instance. `PROJECT.json` maps every
definition to the lines it models and lists runs, mutants, hazards and theorems.

## 1. The system

| crate | part | state | operations that change it |
|---|---|---|---|
| pg-storage | WAL writer, segments, reader | LSN clock, synced LSN, pending count, segment files | append, reserve_and_append, flush_to, the fsync worker, rotation, open, close |
| pg-storage | buffer pool | frames, pins, dirty and in-flight marks, page table | pin, pin_mut, flush, eviction, full-page images |
| pg-storage | checkpoint, superblock, freelist | the redo position, next XID and OID, page counts | trigger_checkpoint, superblock write, alloc and free |
| pg-storage | analysis, redo, recovery | active transaction table, dirty page table | one pass at open |
| pg-txn | transaction manager | XID clock, active set, row-wait registry | begin, snapshot, commit, abort, wait_for |
| pg-txn | CLOG | two bits per XID, a page buffer, a file | set_state, flush_dirty, eviction |
| pg-txn | visibility oracle | none | is_visible |
| pg-txn | table lock manager | granted modes, FIFO queues | acquire, try_acquire, release_all |
| pg-txn | deadlock detector | victim flags | one tick: prune, snapshot, search, confirm, mark, notify |
| pg-am-heap | heap | row stamps, share holders, HOT chains, page chain | insert, update, delete, lock_tuple, scan, dead-tuple scan |
| pg-am-btree | B+Tree | pages, sibling links, split flags | insert, delete, lookups, three-phase split, redo, undo |
| pg-catalog | catalog | system tables | bootstrap, DDL rows |
| pg-engine | sessions, DDL, SQL | registry, index undo log | begin, commit, abort, create, drop, statements |

How they interact: a session takes table locks, writes rows (each change is a
WAL record), waits for row locks through the transaction manager, and ends with
the hard order *append, fsync, set CLOG state, leave the active set*, then
releases its table locks. One worker thread fsyncs the log for everybody. Pages
live in the buffer pool, which writes one back only after the log covers it. The
checkpoint excludes commits by a barrier while it takes its cut. The detector
thread reads the row-wait registry and the lock table, each under its own lock.
After a crash the log, the data file, the CLOG file, the superblock and the meta
files are all there is.

## 2. Modules

| module | models | uses |
|---|---|---|
| `LockManager` | `lock_manager.rs` | |
| `FindCycles` | `find_cycles`, as operators on the state of the search | |
| `CycleSearch` | `find_cycles` run turn by turn on an arbitrary graph | FindCycles |
| `DeadlockDetector` | `deadlock.rs`, and `wait_for`, `end_txn` of `manager.rs` | LockManager, FindCycles |
| `TxnManager` | `manager.rs`, `snapshot.rs`, `visibility.rs`; the promise a crash keeps | |
| `CommitRecovery` | `checkpoint.rs`, `analysis.rs`, recovery in `engine.rs`, CLOG redo and undo | TxnManager |
| `WalWriter` | `writer.rs`, `segment.rs`, the scan of `reader.rs` | |
| `BufferPool` | `buffer_pool.rs`, `sync.rs`, the checkpoint's page flushes | |
| `BTreePage`, `BTree` | `page.rs`, `bulkload.rs`; `index.rs` latch by latch | |
| `SplitRecovery` | B+Tree split records, `redo.rs`, `undo.rs` | BTreePage |
| `HeapPage`, `Heap` | `slotted_page.rs`, `tuple.rs`; `heap_am.rs` | |
| `Recovery` | superblock, allocator, freelist, checkpoint files, heap redo, catalog bootstrap | HeapPage |
| `Engine` | `pg-engine/src/engine.rs` and the catalog's tables | HeapPage |
| `MC...` | constants, cases and symmetry for TLC | what they name |
| `...Proofs`, `BufferPoolCacheInv`, `BufferPoolCacheSteps` | theorems, section 4 | what they prove about |

**LockManager.** `granted`, `queue` and `present` are the `entries` map; `pc`
and `req` say which session is inside `acquire` and with which arguments. What a
thread does while it holds the mutex is one step; a thread on the condition
variable is "parked", and `notify_all` makes all parked threads run again.
`AcquireGranted`, `AcquireWaits` and `AcquireVictim` are the three ways through
the loop body; `ReleaseAll` contains the purge of the queues, `regrant_heads`,
the pruning of entries and the broadcast. `regrant_heads` is a loop; it is
modelled by the number of heads it grants (`RegrantCount`), which keeps the
module free of recursion and open to proof. The detector is an environment that
marks, broadcasts and clears.

**DeadlockDetector** puts the real detector there. `row` follows a session
through `wait_for` and `end_txn`; `dpc` follows the detector through a tick. The
row edges and the table edges are read in separate steps, twice, as the code
does, while the sessions go on. `ImplementsLockManager` is the specification of
LockManager itself: the composition uses the lock manager only as its
environment may. Row waits are requests on an arbitrary active transaction: which
row is locked is the heap's business and is abstracted.

**TxnManager.** `phase[x]` is the step of the hard order that `x` has completed,
`fate[x]` what it asked for; a refused WAL step leaves the XID active and
poisons the log (`WalFails`). Each snapshot carries the history field `asOf`,
the transactions complete at its instant; no action reads it. `IsVisible` is the
oracle's decision. `Restart` says what a crash may do: keep every outcome a
session could have read, commit only what asked for it, reuse no XID that has an
outcome.

**CommitRecovery** gives `Restart` its means. The log is a sequence of records,
`flushed` its durable length; the CLOG file is the last fsynced state, and a
crash may also find evicted frames on disk, for any subset of XIDs. The
checkpoint is one action per step of `trigger_checkpoint`, a crash or a failure
may come between any two, and `Crash` contains the whole of recovery (analysis
baseline, loser list, CLOG redo, undo, clock seed). The refinement to TxnManager
is the identity on its variables. The constant `FlushIsExact` chooses between
what the trait `CommitWal` asks of `flush_to` and what the writer does; see
finding 1.

**WalWriter** is below that: LSNs are units, a record occupies `size` of them,
`file` is the page cache and `disk` what is on the medium. Worker and callers
share one condition variable, so `Notify` chooses whom a `notify_one` wakes. The
fsync runs without the lock. A kill of the process leaves any prefix of a
record being written; a power loss leaves any subset of the units not synced.
Reopening is part of `Crash` and is the scan of `discover_resume_lsn`. `safe`
collects, as history, the records that `synced_lsn` has passed.

**BufferPool.** A page image is its page and its `pd_lsn`; `disk` is the data
file as a read sees it, `durable` what an fsync has reached. `thread` follows a
pin through residency, the allocation lock, eviction, load and latch; `flush`
follows `flush_frame` through claim, latch, write, the shared fsync and its
generation; `ckpt` follows the checkpoint. The CLOCK hand may stop at any
unpinned frame.

**BTree.** Every wait for a page latch is a step; what a thread does with latched
pages until it needs the next latch belongs to that step. Threads insert, delete,
look up and scan; a write descent holds its path; a split is Prepare, Copy and
Commit and may cascade to a new root. **SplitRecovery** has the same split with
its records, the writes of each page, checkpoints, crashes and the redo and undo
that finish or abort it, themselves crashing.

**Heap.** One transaction is one actor. The row-lock gate, the share registry,
the wait and the restart after it, updates in place, along HOT chains and to
another page, chain extension, scans and the dead-tuple scan are steps; latches
held while another is waited for are in `latch`. The search for a page with room
is one step. A waiter may be made a victim at any time, which is more often than
the detector does. **Recovery** takes a page change as one step and has instead
the log, the two superblock copies, `freelist.meta`, the snapshot files, torn
writes, the checkpoint's steps, redo, and the bootstrap of the catalog.

**Engine.** A heap call, an index call and a lock grant are each one step; what
is modelled is the order in which a statement, an abort, a DDL operation and the
reopening make them, and who comes between. Recovery of pages is exact here
(Recovery and SplitRecovery have the rest), and the records of the transactions
in flight are in retained segments.

**Properties named "...Apart".** Some windows in the code break a promise (section
5). Where one does, a history variable (`overtaken`, `misplaced`, `strayed`)
records that the window was met. The property says nothing from there on, a
CONSTRAINT stops the search there; section 5 says which windows they are. The
variable is set by the step of the window alone, so that everything else is
checked.

## 3. Runs

| run | instance | distinct states | what it shows |
|---|---|---|---|
| DeadlockSafety | 3 transactions, 1 table: an exclusive locker, a reader that may upgrade, a writer | 1.06 M | the lock table is sound, first come first served, two-phase; no wakeup or mark is lost; no unfounded victim |
| DeadlockLive | 2 transactions, 1 table, shared and exclusive | | deadlocks broken, wakeups delivered, flags pruned; implements LockManager |
| CycleSearch | every graph on 4 nodes without self-loops | | only cycles reported, every cycle touched, bounded number of turns |
| CommitRecovery | 2 XIDs, 5 log records, 2 crashes, exact flush | 562,584 | visible commits durable, no XID reuse, outcomes final; implements TxnManager |
| WalWriter | 2 callers, records of 1 and 2 units, segments of 2, 4 units, 2 crashes, power loss | 102,404 | synced is durable, no record behind a hole, `flush_to` returns |
| BufferPool | 3 pages of which 1 is new, 2 frames, 2 threads and a checkpoint, 3 LSNs, 3 pins, 1 failed I/O | 1.23 M | log before data, current memory, durable write back, checkpoint covers, image before change |
| BTree | 2 threads, 2 operations, leaves of 2, nodes of 3, 6 trees | 576,887 | order, exact reads, true answers, a whole chain |
| SplitRecovery | 3 trees, 1 or 2 operations, 1 checkpoint, 2 crashes, 1 or 2 page writes | 929,596 | recovery completes, entries survive, right page first |
| Heap | 3 cases: locks, versions, extension; 3 transactions, 3 or 4 statements | 430,378 | row exclusion, no lost update, exact scans, whole page chain, no latch deadlock |
| Recovery | 6 cases: bootstrap, rows, moves, growth, reuse, space; 1 or 2 crashes | 949,874 | pages, freelist, superblock and OIDs come back |
| Engine | 5 cases: build, write, drop, full catalog, two crashes; 2 sessions | 0.54 M | indexes agree with tables, index calls succeed, tables keep their pages and survive |
| CommitLost | 2 XIDs, 4 log records, the writer's flush | | finding 1 (violation) |

Bounds. Three transactions are the least with a holder, a waiter and somebody
behind the waiter, and with a cycle longer than two; two are enough for an
upgrade deadlock and a mixed row and table deadlock, which the liveness run
needs. Four nodes give two disjoint cycles and cycles that share nodes. Five
records are a whole checkpoint with a transaction around it; two crashes let
recovery start from what a recovery left. Records of two units in segments of two
are the least that span a boundary. Three pages in two frames force an eviction,
two threads let one meet the other's flush. Leaves of two and nodes of three let
one insert split a leaf, and a load with a full parent cascade to a new root. The
cases of Heap, Recovery, SplitRecovery and Engine each choose the statements and
the limits that bring about one group of interleavings; a run explores all of its
cases. For the modules of section 4 the theorems do not depend on the bounds.
Deadlock is not checked: sessions may simply stop calling, XIDs, LSNs and
operations are bounded, and transactions end.

Fairness. DeadlockLive: weak fairness of the detector's tick, which is a thread
with a timer, and of a session that is inside a call and can run; nothing is
assumed of what sessions call next or that they end. WalWriter: weak fairness
of the worker, whose wait has a timeout, and of a woken caller. No fairness is
put on appends, crashes, commits or fsync success. All other runs are safety.

Every property of a passing run has a mutant of a mapped definition (a dropped
guard, a missing broadcast, a swapped or forgotten step) that violates it.

Configurations that are not runs, to be used by hand:
`LockManagerSafety.cfg` (MCLockManager: the lock manager by itself, any
environment), `TxnManager.cfg` (TxnManager: `SnapshotIsInstant` on 3 XIDs, which
section 4 proves), and the ones of section 5.

## 4. Proofs

Eight modules hold theorems. Assumptions on constants, all named in the modules
that declare them: `NoReq`, `NoXid`, `NoSnapshot`, `None` and `Zero` are outside
the sets they complement; request modes are modes; bounds and sizes are naturals,
and a record fits in a segment; XIDs are a finite set of positive numbers; the
threads of the pool are finitely many. Tables, pages, frames and callers may be
any sets, and all bounds any naturals.

| module | about | theorems |
|---|---|---|
| `DeadlockDetectorProofs` | LockManager, DeadlockDetector | `LockTable`, `Discipline`, `MutualExclusion`, `MarksAreNotMissed`, `DetectorImplementsLockManager`, `DetectorLockTable`, `WakeupsComplete`, `MarksSound`, `DeadlocksAreSeen` |
| `CycleSearchProofs` | FindCycles, CycleSearch | `FindsEveryCycle`, `FindCyclesInFinds` |
| `CommitRecoveryProofs` | TxnManager, CommitRecovery | `SnapshotIsolation`, `Finality`, `RecoveryImplementsTxnManager`, `CommitsAreDurable`, `XidsAreNotReused`, `RecoveryIsFinal` |
| `WalWriterProofs` | WalWriter | `FlushIsDurable`, `NoHoles` |
| `BufferPoolProofs` | BufferPool | `LogBeforeData` |
| `BufferPoolCacheInv`, `BufferPoolCacheSteps`, `BufferPoolCacheProofs` | BufferPool | `PinsAreCounted`, `MemoryIsCurrent`, `WriteBackReachesDisk`, `RedoPointCovers`, `ImageBeforeChange` |

So every safety property of the runs DeadlockSafety, CycleSearch, CommitRecovery,
WalWriter and BufferPool, and both refinements, hold for every instance.

**Lock manager.** `IInv` is the conjunction of the checked invariants and
`QueuesHaveNoDuplicates`. None is inductive alone: exclusion after a release
needs that `regrant_heads` stops at a conflict; that the head of every queue
must wait needs that queued requests exceed what their sessions hold; and
removing a session from a queue removes one place only because nobody is
queued twice. The first part proves what each pure function does to one entry
(grant, enqueue, retain, regrant), the second lifts that to the actions.

**Deadlock detector.** `Phases` relates where a session is in `wait_for` or
`end_txn` to where it is in the lock manager and in the active set; with it every
step of the composition is a step of LockManager or a stutter, so that the lock
manager's theorems carry over. `WakeInv` adds the row-wait registry: a sleeper's
blocker is active or has its broadcast still to send, a marked sleeper's broadcast
is still to come, and edges are waits in progress. `MarksSound` needs `SnapInv`.
An edge of the second snapshot may be gone when a victim is chosen; what stays is
a *closed* set of edges, one in which everybody waited for is waiting too. Whoever
is in such a set can leave it only by consuming a mark, because the one it waits
for does not end. A cycle is a closed set, and `find_cycles` reports only cycles
(`CycleSearchProofs`, used through INSTANCE), so the cycle of a victim is there
when it is marked. `DeadlocksAreSeen` is the converse for one tick: if some
transactions wait in a circle, or in any way such that each waits for another of
them, then the step that takes the first snapshot of the table edges goes on to the
second look with a candidate cycle through them.

**The search.** `DfsInv` says that the gray nodes are the path, that what is
reported are cycles, that a child already looked at is explored, next on the path
or reported, and that a set of nodes each of which waits for another of them is
not left behind (black) without a reported member. `Spent` counts nodes pushed,
nodes popped and edges looked at; every turn adds to it, which bounds the loop. `FindCyclesIn` applies the turn a given number of times;
`RunKeeps` carries the invariant along.

**Transactions and recovery.** `TxnInv` adds to the types that the active set is
the set of live phases, that the clock separates used from unused XIDs, that the
CLOG is terminal exactly from the third step on, and, for each snapshot, that
below `xmax` and outside `xip` every transaction is over with the outcome it had
at the snapshot's instant. `CRInv` adds what is on disk: each outcome has its
record, a checkpoint record says who was active and from where to redo, what
the CLOG file lacks is in the log behind the redo point or in the list of active
transactions (`FileLags`), at each step of the checkpoint under way. The theorems
about CommitRecovery are stated under `FlushIsExact`, the documented contract of
`flush_to`; without it the first is false (finding 1).

**WAL writer.** `WalInv`: below the clock the log is whole records one after
another, only the current segment is ahead of the disk, what the worker captured
covers what it will subtract from `pending`, and a safe record lies in the part
that is on the disk. What the reader's scan computes (`StopAt`) is characterised
first, by the principle that a set of numbers has a least element.

**Buffer pool.** `PoolInv`: latches exclude, and the image a flush is about to
write is covered by the synced log. The cache needs ten more conjuncts
(`CacheInv`): the table and the frames agree (`FramesMapped`), a flush in flight
has its frame to itself (`FlushesApart`), the newest record of a page is its
`Latest` (`NewestIsRecord`), the files lag memory in order (`FilesLag`), memory is
current unless latched (`MemoryCurrent`), a page with no mark is durable
(`CleanIsDurable`), the generations of the shared fsync are those of the writes
they cover (`Generations`), a flush serves at least what it was asked for
(`AskedIsServed`), a checkpoint's list covers what is not durable up to its redo
point (`CheckpointUnderWay`), and images precede changes (`GateIsPassed`). They
hold until a flush is overtaken (`Coheres`). `PinsInv`, by counting, shows that
nobody holds the frame that an evictor has chosen.

Only model-checked, and why:

- liveness (`DeadlocksBroken`, `MarksTakeEffect`, `FlushToReturnsEventually`):
  fairness and ENABLED are outside the prover;
- BTree and SplitRecovery: BTreePage declares RECURSIVE operators (the bulk load
  and the walks of `validate`), in whose presence the prover has no SMT backend;
- Heap, Recovery and Engine: their state is large and their properties quantify
  over histories; the invariants needed are not found yet.

Induction over data is done where it was needed by the least-number principle
(`Least`), as the induction rules of the library take operators as parameters,
which the provers cannot instantiate.

## 5. Findings

Recorded as a run:

1. **A commit can be acknowledged before it is durable** (CommitLost).
   `flush_to` returns when `synced_lsn >= lsn` (`wal/writer.rs:398`). `lsn` is
   where a record starts, `synced_lsn` where the fsynced part ends, so the record
   that starts exactly there passes without an fsync. The comment at line 389
   promises all records "with LSN `<= lsn`". The trace: a group fsync ends, a
   commit record is appended, `flush_to` returns at once, the CLOG says committed.
   The run CommitRecovery assumes the documented contract, to show what the
   layers above achieve with it.

Shown by a configuration that is not a run:

2. **The resumed log may refuse its first append** (`WalResume.cfg`, WalWriter). A
   record torn across a segment boundary leaves the newer segment; the resume LSN
   lies in the older one and `ensure_for_write` (`wal/segment.rs:105`) rejects it.
3. **A later open may fail** (`WalReopen.cfg`, WalWriter). A shorter record over a
   torn one leaves stale bytes behind it that the next scan takes for corruption.
   For both, `wal/writer.rs:200` says that torn records are discarded and
   the next append may overwrite them.
4. **Latches of the B+Tree can deadlock** (`BTreeLatches.cfg`, MCBTree). The left
   neighbour is latched while the leaf is held (`index.rs:1525`), against the order
   that the module comment gives (lines 16 to 19).
5. **A crash while a new root is made may stop recovery**
   (`SplitRecoveryRoot.cfg`, MCSplitRecovery). `create_new_root` publishes the root
   before the Commit record of the split (`index.rs:2488`).
6. **An index may miss a row** (`EngineIndexRace.cfg`, MCEngine). `create_index`
   registers the index after its transaction has released the table lock
   (`pg-engine/src/engine.rs:1239`); a writer that comes between does not know it.
7. **A share lock is forgotten** (`HeapShare.cfg`, MCHeap). When an update needs
   another page, its gate retires the registry entry of the row, and the latch is
   let go before anything is stamped (`heap_am.rs:856`): the updater's own share
   lock, if only the registry knew of it, no longer holds others off.

Windows that the history variables record, and behaviour met while modelling:

- Buffer pool (`overtaken`): `evict_frame` takes a frame that is clean because its
  flush is in flight (`buffer_pool.rs:685`), and `dirty_page_ids` does not list it,
  which `analysis.rs:169` relies on.
- B+Tree (`misplaced`): an insert at slot 0 compares with the nearest nonempty left
  leaf only as far as the walk goes (`index.rs:1297`), and two such inserts side by
  side may invert the order of equal keys (line 1597). An exact re-insert across a
  leaf boundary is not recognised (line 891). A full leaf of deleted entries answers
  "cannot split page" (line 1697). A pool that is full in the middle of a cascade
  makes the retry answer DuplicateKey (line 1128).
- SplitRecovery (`strayed`): the Commit record is appended before the pages are
  changed (`index.rs:2047`); a checkpoint or a page write between the two leaves an
  undo that takes the split for finished (`undo.rs:121`).
- Recovery (`strayed`): a page created and not yet written logs no image
  (`buffer_pool.rs:295`), so that a torn first write cannot be repaired; and when
  `freelist.meta` cannot be used, pages freed before the redo point stay lost
  (`checkpoint.rs:548`).
- Engine (`strayed`): finding 6, and a second recovery that meets the same losers
  again on rows that changed since.

## 6. Not modelled

Byte layouts and checksums (record codec, slotted pages, tuples, TOAST pointers,
order-preserving keys), SQL parsing, configuration and file wrappers, which are
sequential data code. One-time conversions: the superblock of format version 1 and
the CLOG snapshot file. In the WAL, `reserve_lsn` and `append_at` (used by tests
only) and the scan hint with its resynchronisation. The order in which the CLOCK
hands choose frames: any choice is allowed. In the B+Tree, the public `split_commit`
without latches, which only tests call. Torn pages in SplitRecovery, and a log that
refuses a commit in Engine (TxnManager and CommitRecovery have it). In TxnManager,
row versions are enumerated by the visibility property rather than stored.
