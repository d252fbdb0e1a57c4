--------------------------- MODULE CommitRecovery ---------------------------
(***************************************************************************)
(* The transaction manager over the WAL, the disk CLOG and the superblock: *)
(* the checkpoint (checkpoint.rs), the crash, and the recovery of the      *)
(* commit log and the XID clock (analysis.rs, engine.rs of pg-storage,     *)
(* redo.rs of pg-txn, undo.rs of pg-am-heap).                              *)
(*                                                                         *)
(* The log is the sequence of its records; position i stands for the LSN   *)
(* of record i.  flushed counts the records that are fsynced.  flush_to    *)
(* has two versions: what the trait CommitWal asks of it, "fsync the WAL   *)
(* up to and including lsn", and what the writer does (FlushIsExact        *)
(* FALSE): synced_lsn is the end of the last durable record, which is      *)
(* where the next one starts, and flush_to compares the two with >=.       *)
(*                                                                         *)
(* clogDisk is what ClogFlush::flush_dirty last fsynced.  A frame evicted  *)
(* from the CLOG buffer is written without fsync, so a crash may find any  *)
(* of the later states on disk as well.                                    *)
(*                                                                         *)
(* Sessions take no snapshot here: snapshots die with the process, and     *)
(* nothing on disk depends on them.                                        *)
(***************************************************************************)
EXTENDS TxnManager, Sequences, FiniteSets

CONSTANTS MaxLog,       \* bound on the length of the log
          MaxCrashes,   \* bound on the number of crashes
          FlushIsExact  \* flush_to covers the record at its LSN

VARIABLES log,       \* the records appended and not lost, in LSN order
          flushed,   \* how many of them are durable
          clogDisk,  \* the fsynced commit log
          sb,        \* the superblock: redo position and next XID
          ckpt,      \* the checkpoint in progress
          crashes

crVars == <<clock, active, clog, phase, fate, snap, poisoned,
            log, flushed, clogDisk, sb, ckpt, crashes>>

memory == <<clock, active, clog, phase, fate, snap, poisoned>>
disk == <<log, flushed, clogDisk, sb, ckpt, crashes>>

Idle == [pc |-> "idle", begin |-> 0, att |-> {}, next |-> 0]

\* Record constructors.  A heap or index record of x is a data record;
\* CheckpointBegin has no XID; CheckpointEnd names its redo position and, by
\* way of the snapshot file fsynced before it, the sampled active set.
Data(x) == [kind |-> "data", xid |-> x]
Ended(x, state) == [kind |-> state, xid |-> x]
BeginRecord == [kind |-> "begin", xid |-> InvalidXid]
EndRecord(c) == [kind |-> "end", xid |-> InvalidXid, redo |-> c.begin, att |-> c.att]

Room == Len(log) < MaxLog

----------------------------------------------------------------------------
(* Recovery, as a function of what is on disk                              *)

RedoStart(s) == IF s.redo = 0 THEN 1 ELSE s.redo

\* The XIDs with a terminal record, and with any record, from position p on.
EndedFrom(lg, p, state) ==
    {lg[i].xid : i \in {j \in p..Len(lg) : lg[j].kind = state}}
TerminatedFrom(lg, p) == EndedFrom(lg, p, "Committed") \cup EndedFrom(lg, p, "Aborted")
XidsFrom(lg, p) == {lg[i].xid : i \in p..Len(lg)} \ {InvalidXid}

\* TxnCommitHandler and TxnAbortHandler over the CLOG as opened.
ReplayedClog(base, lg, s) ==
    [x \in XidSet |->
       IF x \in EndedFrom(lg, RedoStart(s), "Committed") THEN "Committed"
       ELSE IF x \in EndedFrom(lg, RedoStart(s), "Aborted") THEN "Aborted"
       ELSE base[x]]

\* find_latest_checkpoint_end, and its use in StorageEngine::run_analysis: a
\* CheckpointEnd newer than the superblock contributes no baseline.
EndPositions(lg, s) == {i \in RedoStart(s)..Len(lg) : lg[i].kind = "end"}
LatestEnd(lg, s) == CHOOSE i \in EndPositions(lg, s) :
                       \A j \in EndPositions(lg, s) : j <= i
Baseline(lg, s) ==
    IF EndPositions(lg, s) # {} /\ lg[LatestEnd(lg, s)].redo = s.redo
    THEN lg[LatestEnd(lg, s)].att ELSE {}

\* run_analysis: data records insert, terminal records remove.  No transaction
\* logs data after its terminal record.
AnalysisAtt(lg, s) ==
    (Baseline(lg, s) \cup XidsFrom(lg, RedoStart(s))) \ TerminatedFrom(lg, RedoStart(s))

\* The filter by the rebuilt CLOG, then HeapUndoHandler's stamps.
RecoveredClog(base, lg, s) ==
    [x \in XidSet |->
       IF x \in AnalysisAtt(lg, s) /\ ReplayedClog(base, lg, s)[x] = "InProgress"
       THEN "Aborted" ELSE ReplayedClog(base, lg, s)[x]]

MaxIn(S) == CHOOSE x \in S : \A y \in S : y <= x

\* Mutant: only the superblock's value seeds the clock.
MutRecoveredClock(lg, s) == s.next

\* The seed of the XID clock: the superblock's value, or past every replayed XID.
RecoveredClock(lg, s) == MaxIn({s.next} \cup {x + 1 : x \in XidsFrom(lg, RedoStart(s))})

----------------------------------------------------------------------------
(* Sessions: the steps of TxnManager with what they do to the log          *)

CRInit == /\ Init
          /\ log = <<>>
          /\ flushed = 0
          /\ clogDisk = clog
          /\ sb = [redo |-> 0, next |-> 1]
          /\ ckpt = Idle
          /\ crashes = 0

MemoryStep ==
    /\ \/ BeginTxn
       \/ \E x \in XidSet : WalFails(x) \/ SetState(x) \/ RemoveActive(x)
    /\ UNCHANGED disk

\* The first heap or index change of a transaction.
WriteData(x) ==
    /\ phase[x] = "running"
    /\ ~ poisoned /\ Room
    /\ Data(x) \notin {log[i] : i \in DOMAIN log}
    /\ log' = Append(log, Data(x))
    /\ UNCHANGED <<memory, flushed, clogDisk, sb, ckpt, crashes>>

\* The read guard is held from here to RemoveActive: no checkpoint runs.
CommitAppend(x, state) ==
    /\ ckpt.pc = "idle"
    /\ Room
    /\ AppendEnd(x, state)
    /\ log' = Append(log, Ended(x, state))
    /\ UNCHANGED <<flushed, clogDisk, sb, ckpt, crashes>>

PositionOf(rec) == CHOOSE i \in DOMAIN log : log[i] = rec

\* synced_lsn >= lsn of record i; nothing is synced in a log without records.
AlreadySynced(i) ==
    \/ flushed >= i
    \/ ~ FlushIsExact /\ flushed > 0 /\ flushed >= i - 1

\* flush_to(lsn of record i) returns Ok, here after an fsync of no more than it
\* asks for.
FlushUpTo(i) == flushed' = IF AlreadySynced(i) THEN flushed ELSE i

CommitFlush(x) ==
    /\ FlushTo(x)
    /\ ~ poisoned
    /\ FlushUpTo(PositionOf(Ended(x, fate[x])))
    /\ UNCHANGED <<log, clogDisk, sb, ckpt, crashes>>

\* A group fsync on behalf of another flush_to, or of the batch threshold.
GroupFsync ==
    /\ ~ poisoned
    /\ flushed < Len(log)
    /\ flushed' = Len(log)
    /\ UNCHANGED <<memory, log, clogDisk, sb, ckpt, crashes>>

----------------------------------------------------------------------------
(* CheckpointCoordinator::trigger_checkpoint                               *)

\* Mutant: the checkpoint does not take the commit barrier.
MutCkptBegin ==
    /\ ckpt.pc = "idle"
    /\ ~ poisoned /\ Room
    /\ log' = Append(log, BeginRecord)
    /\ ckpt' = [Idle EXCEPT !.pc = "begun", !.begin = Len(log) + 1]
    /\ UNCHANGED <<memory, flushed, clogDisk, sb, crashes>>

\* The barrier's write guard, then CheckpointBegin.
CkptBegin ==
    /\ ckpt.pc = "idle"
    /\ \A x \in XidSet : phase[x] \notin Ending
    /\ ~ poisoned /\ Room
    /\ log' = Append(log, BeginRecord)
    /\ ckpt' = [Idle EXCEPT !.pc = "begun", !.begin = Len(log) + 1]
    /\ UNCHANGED <<memory, flushed, clogDisk, sb, crashes>>

\* Phase 2a: the active XIDs, fsynced to the ATT snapshot file.
CkptSample ==
    /\ ckpt.pc = "begun"
    /\ ckpt' = [ckpt EXCEPT !.pc = "sampled", !.att = active]
    /\ UNCHANGED <<memory, log, flushed, clogDisk, sb, crashes>>

\* Mutant: the CLOG flush hook is not installed.
MutCkptClog ==
    /\ ckpt.pc = "sampled"
    /\ ckpt' = [ckpt EXCEPT !.pc = "synced"]
    /\ UNCHANGED <<memory, log, flushed, clogDisk, sb, crashes>>

\* Step 4b: the dirty frames of the CLOG are written back and fsynced.
CkptClog ==
    /\ ckpt.pc = "sampled"
    /\ clogDisk' = clog
    /\ ckpt' = [ckpt EXCEPT !.pc = "synced"]
    /\ UNCHANGED <<memory, log, flushed, sb, crashes>>

\* Step 5: next_txn_id is read.
CkptRead ==
    /\ ckpt.pc = "synced"
    /\ ckpt' = [ckpt EXCEPT !.pc = "read", !.next = clock]
    /\ UNCHANGED <<memory, log, flushed, clogDisk, sb, crashes>>

\* Step 6: CheckpointEnd.
CkptEnd ==
    /\ ckpt.pc = "read"
    /\ ~ poisoned /\ Room
    /\ log' = Append(log, EndRecord(ckpt))
    /\ ckpt' = [ckpt EXCEPT !.pc = "ended"]
    /\ UNCHANGED <<memory, flushed, clogDisk, sb, crashes>>

\* Step 7: flush_to(end_lsn).
CkptFlush ==
    /\ ckpt.pc = "ended"
    /\ ~ poisoned
    /\ FlushUpTo(PositionOf(EndRecord(ckpt)))
    /\ ckpt' = [ckpt EXCEPT !.pc = "flushed"]
    /\ UNCHANGED <<memory, log, clogDisk, sb, crashes>>

\* Step 9: the superblock; the guard is dropped on return.
CkptSuperblock ==
    /\ ckpt.pc = "flushed"
    /\ sb' = [redo |-> ckpt.begin, next |-> ckpt.next]
    /\ ckpt' = Idle
    /\ UNCHANGED <<memory, log, flushed, clogDisk, crashes>>

\* Any step may return an error: the checkpoint is abandoned.
CkptFail ==
    /\ ckpt.pc # "idle"
    /\ ckpt' = Idle
    /\ UNCHANGED <<memory, log, flushed, clogDisk, sb, crashes>>

Checkpoint == \/ CkptBegin \/ CkptSample \/ CkptClog \/ CkptRead
              \/ CkptEnd \/ CkptFlush \/ CkptSuperblock \/ CkptFail

----------------------------------------------------------------------------
(* Crash and recovery                                                      *)

\* The log keeps its fsynced part and some of the rest; the CLOG file keeps
\* what was fsynced and, for the XIDs in kept, evicted frames as well.
Survivor(n) == SubSeq(log, 1, n)
ClogFile(kept) == [x \in XidSet |-> IF x \in kept THEN clog[x] ELSE clogDisk[x]]

Crash(n, kept) ==
    /\ crashes < MaxCrashes
    /\ crashes' = crashes + 1
    /\ log' = Survivor(n)
    /\ flushed' = n
    /\ clogDisk' = ClogFile(kept)
    /\ clock' = RecoveredClock(Survivor(n), sb)
    /\ clog' = RecoveredClog(ClogFile(kept), Survivor(n), sb)
    /\ Reopened
    /\ ckpt' = Idle
    /\ UNCHANGED sb

CRNext == \/ MemoryStep
          \/ \E x \in XidSet : \/ WriteData(x) \/ CommitFlush(x)
                               \/ \E state \in Terminal : CommitAppend(x, state)
          \/ GroupFsync
          \/ Checkpoint
          \/ \E n \in flushed..Len(log), kept \in SUBSET XidSet : Crash(n, kept)

CRSpec == CRInit /\ [][CRNext]_crVars

----------------------------------------------------------------------------
(* What the log, the checkpoint and recovery achieve                       *)

\* The implementation of TxnManager (the refinement mapping is the identity):
\* recovery keeps every terminal state a session could have read, commits
\* nothing that did not ask for it, and never hands out such an XID again.
ImplementsTxnManager == Spec

\* Nothing visible is lost (commit_txn's hard order, the commit barrier, the
\* place of the CLOG flush in the checkpoint): at every instant, a crash that
\* leaves no more than what was fsynced recovers every committed transaction.
VisibleIsDurable ==
    \A x \in XidSet : clog[x] = "Committed" =>
       RecoveredClog(clogDisk, Survivor(flushed), sb)[x] = "Committed"

\* No XID is used twice (the seed of the XID clock at the end of recovery):
\* the next XID is above every XID that the surviving log mentions, so that
\* rows of a lost transaction are never taken for rows of a new one.
ClockAheadOfLog ==
    \A i \in DOMAIN log : log[i].xid < clock
=============================================================================
