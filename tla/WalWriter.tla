------------------------------ MODULE WalWriter ------------------------------
(***************************************************************************)
(* The WAL writer of pg-storage (wal/writer.rs) over its segment files     *)
(* (wal/segment.rs), and the reader that finds the end of the log when it  *)
(* is opened again (wal/reader.rs).                                        *)
(*                                                                         *)
(* LSNs count units: the header of a record is one unit, a record is its   *)
(* header and its payload.  file is what a read sees (the page cache),     *)
(* disk what a power loss leaves; a unit holds the record it belongs to.   *)
(* Records of different incarnations of the process differ in gen.         *)
(*                                                                         *)
(* The writer's mutex makes append, the two halves of flush_to around its  *)
(* condition variable, and the two critical sections of the group commit   *)
(* worker atomic; the worker's fsync runs between them, without the lock.  *)
(***************************************************************************)
EXTENDS Integers, FiniteSets

CONSTANTS Callers,      \* threads that append and flush
          Sizes,        \* sizes of records
          SegmentSize,
          BatchSize,    \* wal_group_commit_batch_size
          MaxLsn,       \* bound: the last unit of the log
          MaxCrashes,   \* bound on restarts
          PowerLoss,    \* a crash may lose what was not fsynced
          Zero          \* a unit that was never written

ASSUME SizesAssumption ==
    /\ SegmentSize \in Nat \ {0} /\ BatchSize \in Nat \ {0}
    /\ MaxLsn \in Nat \ {0} /\ MaxCrashes \in Nat
    /\ Sizes \subseteq 1..SegmentSize
    /\ PowerLoss \in BOOLEAN /\ "worker" \notin Callers

VARIABLES clock,      \* LsnClock
          segment,    \* current_segment_id
          synced,     \* synced_lsn
          pending, requested, shutdown,
          failed,     \* last_error is set
          worker,     \* where the worker is, and what its fsync covers
          caller,     \* where each thread is in flush_to, and its target
          file, disk,
          gen, opened,
          safe        \* history: records flush_to or open reported durable

state == <<clock, segment, synced, pending, requested, shutdown, failed>>
threads == <<worker, caller>>
bytes == <<file, disk>>
vars == <<state, threads, bytes, gen, opened, safe>>

First == 1
Invalid == 0
Units == First..MaxLsn
SegmentOf(p) == p \div SegmentSize

Records == [lsn : Units, size : Sizes, gen : 0..MaxCrashes]
ASSUME ZeroAssumption == Zero \notin Records
EndOf(r) == r.lsn + r.size

Span(r) == {p \in Units : r.lsn <= p /\ p < EndOf(r)}
IntactIn(b, r) == \A p \in Span(r) : b[p] = r
Written == {r \in {file[p] : p \in Units} \ {Zero} : IntactIn(file, r)}

\* The first n units of r are written over b.
Put(b, r, n) == [p \in Units |-> IF p \in Span(r) /\ p < r.lsn + n THEN r ELSE b[p]]

\* Segments lo to hi of b reach the disk d.
Synced(d, b, lo, hi) ==
    [p \in Units |-> IF SegmentOf(p) \in lo..hi THEN b[p] ELSE d[p]]

----------------------------------------------------------------------------
(* The reader                                                              *)

\* A record that next_record accepts at p: its header is there, its CRC holds.
Readable(b, p) == p \in Units /\ b[p] # Zero /\ b[p].lsn = p /\ IntactIn(b, b[p])

\* Where next_record stops when it starts at p.
StopAt(b) ==
    LET stop[p \in First..(MaxLsn + 1)] ==
          IF Readable(b, p) THEN stop[EndOf(b[p])] ELSE p
    IN  stop[First]

\* next_record answers Ok(None) at p: zeros as far as the probe looks, or a
\* torn tail, whose header names this position and which only zeros follow.
CleanEnd(b, p) ==
    \/ p \notin Units
    \/ b[p] = Zero /\ (p + 1 \in Units => b[p + 1] = Zero)
    \/ /\ b[p] # Zero
       /\ b[p].lsn = p
       /\ \A q \in Units : q >= EndOf(b[p]) => b[q] = Zero

\* The bytes at p are the inside of a record that has lost its head.  Read as
\* a header they give a length: one that runs off the log is taken for the
\* end, any other fails the CRC.
Orphan(b, p) == p \in Units /\ b[p] # Zero /\ b[p].lsn # p

----------------------------------------------------------------------------
(* The condition variable                                                  *)

Sleepers == {c \in Callers : caller[c].pc = "sleep"}
Wake(cs, S) == [c \in Callers |-> IF c \in S THEN [cs[c] EXCEPT !.pc = "check"] ELSE cs[c]]

\* Mutant: the callers are not notified.
MutNotifyAll == UNCHANGED caller

\* notify_all, as the callers of flush_to see it.
NotifyAll == caller' = Wake(caller, Sleepers)

\* n calls of notify_one wake any n of the threads that wait, callers of
\* flush_to and the worker, or all of them when they are fewer; cs are the
\* callers as the notifying thread leaves them.
Notify(cs, n) ==
    LET waiting == Sleepers \cup (IF worker.pc = "wait" THEN {"worker"} ELSE {})
    IN  \E W \in SUBSET waiting :
          /\ Cardinality(W) = n \/ (W = waiting /\ Cardinality(W) < n)
          /\ caller' = Wake(cs, W)
          /\ worker' = IF "worker" \in W THEN [worker EXCEPT !.pc = "loop"] ELSE worker

----------------------------------------------------------------------------
(* Appending                                                               *)

Init == /\ clock = First /\ segment = 0 /\ synced = Invalid
        /\ pending = 0 /\ requested = FALSE /\ shutdown = FALSE /\ failed = FALSE
        /\ worker = [pc |-> "loop", lsn |-> Invalid, seg |-> 0, pending |-> 0]
        /\ caller = [c \in Callers |-> [pc |-> "idle", target |-> Invalid]]
        /\ file = [p \in Units |-> Zero] /\ disk = file
        /\ gen = 0 /\ opened = TRUE
        /\ safe = {}

\* Mutant: append goes on after an error.
MutUsable == opened

\* check_error, for a writer that is in use.
Usable == opened /\ ~ failed /\ ~ shutdown

Fits(size) == clock + size <= MaxLsn + 1
NewRecord(size) == [lsn |-> clock, size |-> size, gen |-> gen]

\* ensure_for_write refuses an LSN before the current segment.
InSegments == segment <= SegmentOf(clock)

\* append and reserve_and_append: the record is written, rotating and fsyncing
\* every segment that is left; the worker is woken at the batch size or after
\* the timeout.
Append(c, size) ==
    LET r == NewRecord(size)
        last == SegmentOf(EndOf(r) - 1)
    IN  /\ caller[c].pc = "idle" /\ Usable /\ Fits(size) /\ InSegments
        /\ clock' = EndOf(r)
        /\ file' = Put(file, r, size)
        /\ segment' = last
        /\ disk' = Synced(disk, file', segment, last - 1)
        /\ pending' = pending + 1
        /\ \/ Notify(caller, 1)
           \/ pending' < BatchSize /\ UNCHANGED threads
        /\ UNCHANGED <<synced, requested, shutdown, failed, gen, opened, safe>>

\* The segment that is current after n units of a record at the clock, the
\* rotation before the next unit being done or not.
SegmentAfter(n) ==
    {IF n = 0 THEN segment ELSE SegmentOf(clock + n - 1), SegmentOf(clock + n)}

\* An append whose write fails after n units poisons the writer.
AppendFails(c, size, n) ==
    /\ caller[c].pc = "idle" /\ Usable /\ Fits(size) /\ n < size
    /\ InSegments \/ n = 0
    /\ clock' = clock + size
    /\ file' = Put(file, NewRecord(size), n)
    /\ segment' \in IF InSegments THEN SegmentAfter(n) ELSE {segment}
    /\ disk' = Synced(disk, file', segment, segment' - 1)
    /\ failed' = TRUE /\ shutdown' = TRUE
    /\ NotifyAll
    /\ worker' = [worker EXCEPT !.pc = IF @ = "wait" THEN "loop" ELSE @]
    /\ UNCHANGED <<synced, pending, requested, gen, opened, safe>>

----------------------------------------------------------------------------
(* Flushing                                                                *)

\* The LSNs callers flush to: of a record, or the end of the log (flush).
Targets == {r.lsn : r \in Written} \cup (IF pending > 0 THEN {clock} ELSE {})

\* flush_to asks the worker for an fsync, twice, and waits.  A call that finds
\* its target synced returns and changes nothing.
FlushToWaits(c, t) ==
    /\ caller[c].pc = "idle" /\ Usable
    /\ synced < t /\ t <= clock
    /\ requested' = TRUE
    /\ Notify([caller EXCEPT ![c] = [pc |-> "sleep", target |-> t]], 2)
    /\ UNCHANGED <<clock, segment, synced, pending, shutdown, failed>>
    /\ UNCHANGED <<bytes, gen, opened, safe>>

\* A woken caller finds its target reached, or the writer poisoned or shut down.
WakeReturns(c) ==
    /\ caller[c].pc = "check"
    /\ synced >= caller[c].target \/ failed \/ shutdown
    /\ caller' = [caller EXCEPT ![c].pc = "idle"]
    /\ UNCHANGED <<state, worker, bytes, gen, opened, safe>>

\* A woken caller asks again and sleeps.
WakeWaits(c) ==
    /\ caller[c].pc = "check"
    /\ synced < caller[c].target
    /\ ~ failed /\ ~ shutdown
    /\ requested' = TRUE
    /\ Notify([caller EXCEPT ![c].pc = "sleep"], 1)
    /\ UNCHANGED <<clock, segment, synced, pending, shutdown, failed>>
    /\ UNCHANGED <<bytes, gen, opened, safe>>

----------------------------------------------------------------------------
(* The group commit worker                                                 *)

Due == shutdown \/ requested \/ pending >= BatchSize

WorkerExits ==
    /\ worker.pc = "loop" /\ shutdown /\ pending = 0
    /\ worker' = [worker EXCEPT !.pc = "exit"]
    /\ UNCHANGED <<state, caller, bytes, gen, opened, safe>>

\* Nothing is due: the worker waits.  A pending record may also be left to the
\* timeout.
WorkerWaits ==
    /\ worker.pc = "loop" /\ ~ shutdown
    /\ pending = 0 \/ ~ Due
    /\ worker' = [worker EXCEPT !.pc = "wait"]
    /\ UNCHANGED <<state, caller, bytes, gen, opened, safe>>

\* wait_for times out.
WorkerTimesOut ==
    /\ worker.pc = "wait"
    /\ worker' = [worker EXCEPT !.pc = "loop"]
    /\ UNCHANGED <<state, caller, bytes, gen, opened, safe>>

\* The worker captures what its fsync covers and releases the lock.
WorkerCaptures ==
    /\ worker.pc = "loop" /\ pending > 0
    /\ worker' = [pc |-> "fsync", lsn |-> clock, seg |-> segment, pending |-> pending]
    /\ UNCHANGED <<state, caller, bytes, gen, opened, safe>>

\* The fsync of the captured file, without the lock.
WorkerFsyncs ==
    /\ worker.pc = "fsync"
    /\ disk' = Synced(disk, file, worker.seg, worker.seg)
    /\ worker' = [worker EXCEPT !.pc = "finish"]
    /\ UNCHANGED <<state, caller, file, gen, opened, safe>>

\* The dup of the file or its fsync fails.
WorkerFails ==
    /\ worker.pc = "fsync"
    /\ failed' = TRUE /\ shutdown' = TRUE
    /\ NotifyAll
    /\ worker' = [worker EXCEPT !.pc = "exit"]
    /\ UNCHANGED <<clock, segment, synced, pending, requested>>
    /\ UNCHANGED <<bytes, gen, opened, safe>>

\* Mutants: the clock is read after the fsync; the end of the segment is taken
\* although the log has not left it.
MutDurable == clock
MutDurableEnd == (worker.seg + 1) * SegmentSize

Durable == IF segment = worker.seg THEN worker.lsn ELSE (worker.seg + 1) * SegmentSize
LargerOf(a, b) == IF a > b THEN a ELSE b

\* Mutant: what was appended during the fsync is forgotten.
MutWorkerFinishes ==
    /\ worker.pc = "finish"
    /\ synced' = LargerOf(synced, Durable)
    /\ pending' = 0
    /\ requested' = FALSE
    /\ NotifyAll
    /\ worker' = [pc |-> "loop", lsn |-> Invalid, seg |-> 0, pending |-> 0]
    /\ safe' = safe \cup {r \in Written : r.gen = gen /\ EndOf(r) <= synced'}
    /\ UNCHANGED <<clock, segment, shutdown, failed, bytes, gen, opened>>

\* The worker publishes how far the log is durable.
WorkerFinishes ==
    /\ worker.pc = "finish"
    /\ synced' = LargerOf(synced, Durable)
    /\ pending' = pending - worker.pending
    /\ requested' = FALSE
    /\ NotifyAll
    /\ worker' = [pc |-> "loop", lsn |-> Invalid, seg |-> 0, pending |-> 0]
    /\ safe' = safe \cup {r \in Written : r.gen = gen /\ EndOf(r) <= synced'}
    /\ UNCHANGED <<clock, segment, shutdown, failed, bytes, gen, opened>>

Worker == \/ WorkerExits \/ WorkerWaits \/ WorkerTimesOut \/ WorkerCaptures
          \/ WorkerFsyncs \/ WorkerFails \/ WorkerFinishes

----------------------------------------------------------------------------
(* Closing, crashing and opening                                           *)

\* Drop: no call is in progress; the worker drains and exits.
Close ==
    /\ opened /\ ~ shutdown
    /\ \A c \in Callers : caller[c].pc = "idle"
    /\ shutdown' = TRUE
    /\ Notify(caller, 1)
    /\ UNCHANGED <<clock, segment, synced, pending, requested, failed>>
    /\ UNCHANGED <<bytes, gen, opened, safe>>

\* The files a crash leaves, f over what is certainly on the disk, d.
Survivors(f, d) ==
    LET lost == IF PowerLoss THEN {p \in Units : f[p] # d[p]} ELSE {}
    IN  {[p \in Units |-> IF p \in L THEN d[p] ELSE f[p]] : L \in SUBSET lost}

\* open over the files b whose latest segment is seg: the segment is fsynced,
\* the log scanned, and the writer starts where the scan stops.
Open(b, d, seg) ==
    /\ file' = b
    /\ disk' = Synced(d, b, seg, seg)
    /\ segment' = seg
    /\ opened' \in {ok \in BOOLEAN : /\ CleanEnd(b, StopAt(b)) => ok
                                     /\ ok => CleanEnd(b, StopAt(b)) \/ Orphan(b, StopAt(b))}
    /\ clock' = StopAt(b)
    /\ synced' = IF clock' > First THEN clock' ELSE Invalid
    /\ pending' = 0 /\ requested' = FALSE /\ shutdown' = FALSE /\ failed' = FALSE
    /\ worker' = [pc |-> "loop", lsn |-> Invalid, seg |-> 0, pending |-> 0]
    /\ caller' = [c \in Callers |-> [pc |-> "idle", target |-> Invalid]]
    /\ safe' = safe \cup {r \in Records : Readable(b, r.lsn) /\ b[r.lsn] = r /\ EndOf(r) <= clock'}

\* The process stops with n units of a record written (n = 0: with no append
\* in progress, or before its first byte), and the log is opened again.
Crash(size, n) ==
    /\ opened /\ gen < MaxCrashes
    /\ n > 0 => Usable /\ InSegments /\ Fits(size) /\ n < size
    /\ \E seg \in IF n = 0 THEN {segment} ELSE SegmentAfter(n) :
         LET f == Put(file, NewRecord(size), n)
             d == Synced(disk, f, segment, seg - 1)
         IN  \E b \in Survivors(f, d) : Open(b, IF b = f THEN d ELSE b, seg)
    /\ gen' = gen + 1

----------------------------------------------------------------------------
(* The specification                                                       *)

Caller(c) == \/ \E size \in Sizes : Append(c, size)
             \/ \E size \in Sizes, n \in 0..SegmentSize : AppendFails(c, size, n)
             \/ \E t \in Targets : FlushToWaits(c, t)
             \/ WakeReturns(c) \/ WakeWaits(c)

Next == \/ \E c \in Callers : Caller(c)
        \/ Worker \/ Close
        \/ \E size \in Sizes, n \in 0..SegmentSize : Crash(size, n)

\* The worker's wait has a timeout, and threads that can run do.
Spec == /\ Init /\ [][Next]_vars
        /\ WF_vars(Worker)
        /\ \A c \in Callers : WF_vars(WakeReturns(c) \/ WakeWaits(c))

----------------------------------------------------------------------------
(* Properties                                                              *)

\* The types; synced_lsn, the targets and what the worker captured stay at or
\* below the clock.
TypeOK ==
    /\ clock \in First..(MaxLsn + 1)
    /\ segment \in 0..SegmentOf(MaxLsn + 1)
    /\ synced \in Invalid..clock
    /\ pending \in 0..MaxLsn
    /\ {requested, shutdown, failed, opened} \subseteq BOOLEAN
    /\ worker \in [pc : {"loop", "wait", "fsync", "finish", "exit"}, lsn : Invalid..clock,
                   seg : 0..segment, pending : 0..pending]
    /\ caller \in [Callers -> [pc : {"idle", "check", "sleep"}, target : Invalid..clock]]
    /\ {file, disk} \subseteq [Units -> Records \cup {Zero}]
    /\ gen \in 0..MaxCrashes
    /\ safe \subseteq Records

\* A record that synced_lsn has once passed is on the disk, and a scan of the
\* disk reaches it, whatever the worker, the appends and the rotations do
\* meanwhile and through every crash (worker: the fsync runs without the lock).
SyncedIsDurable ==
    \A r \in safe : IntactIn(disk, r) /\ EndOf(r) <= StopAt(disk)

\* A record whose append succeeded is never behind a hole: the reader reaches
\* every one of them, also after a failed append has poisoned the writer
\* (append: "a hole in the WAL that would silently truncate the log").
NoRecordBehindHole ==
    \A r \in Written : r.gen = gen => EndOf(r) <= StopAt(file)

\* With nothing pending everything this process appended is durable, so flush
\* may return at once (flush: "If no records are pending").
NothingPendingIsDurable ==
    pending = 0 => {r \in Written : r.gen = gen} \subseteq safe

\* What flush and flush_to promise: a record that synced_lsn has passed, and every
\* record once nothing is pending, is on the disk and within reach of a scan.
FlushedIsDurable == SyncedIsDurable /\ NothingPendingIsDurable

\* A caller that sleeps in flush_to is woken and returns, although the worker
\* and the callers share one condition variable and are woken one at a time.
FlushToReturnsEventually ==
    \A c \in Callers : caller[c].pc = "sleep" ~> caller[c].pc = "idle"

\* discover_resume_lsn: the LSN of a torn record is returned, "allowing the
\* next append to overwrite it".
ResumeIsWritable == opened /\ ~ failed => InSegments

\* discover_resume_lsn: torn or partial records are discarded, so the log can
\* be opened after any crash of the process.
LogOpens == opened
=============================================================================
