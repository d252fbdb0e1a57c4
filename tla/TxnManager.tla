----------------------------- MODULE TxnManager -----------------------------
(***************************************************************************)
(* The transaction manager of pg-txn (manager.rs), its snapshots           *)
(* (snapshot.rs) and the visibility oracle that reads them                 *)
(* (visibility.rs).                                                        *)
(*                                                                         *)
(* A transaction is one XID.  commit_txn and abort_txn share one hard      *)
(* order of four steps, append / flush_to / set_state / remove, taken      *)
(* under the read side of the commit barrier; phase[x] is the step x has   *)
(* completed, fate[x] the terminal state it asked for.  The active-set     *)
(* mutex makes begin_txn and snapshot single steps, everything else        *)
(* interleaves.                                                            *)
(*                                                                         *)
(* The WAL is here only what the trait CommitWal promises.  Restart says   *)
(* what a crash may and may not do to the manager's state; CommitRecovery  *)
(* shows that the log, the checkpoint and recovery achieve exactly that.   *)
(***************************************************************************)
EXTENDS Integers

CONSTANTS MaxXid,      \* bound on the XID clock
          MaxCid,      \* bound on the command counter of a snapshot
          NoSnapshot

ASSUME BoundsAssumption == MaxXid \in Nat \ {0} /\ MaxCid \in Nat

VARIABLES clock,     \* TxnIdClock: the next XID handed out
          active,    \* TxnManager.active
          clog,      \* ClogAccessor, as get_state answers
          phase,     \* how far the session of an XID has come
          fate,      \* the terminal state its commit or abort asks for
          snap,      \* the snapshot its session holds
          poisoned   \* the WAL writer refuses all further work

vars == <<clock, active, clog, phase, fate, snap, poisoned>>

XidSet == 1..MaxXid
InvalidXid == 0
Terminal == {"Committed", "Aborted"}
TxnStates == {"InProgress"} \cup Terminal

\* Phases in which commit_txn or abort_txn runs and holds the barrier's read guard.
Ending == {"appended", "durable", "decided"}
\* Phases in which the XID is in the active set.  "failed": the WAL refused a
\* step of the hard order and the XID was left active on purpose.
Live == {"running", "failed"} \cup Ending
\* "unused": not handed out; "done": out of the active set; "lost": was live
\* when the process died and left no terminal state behind.
PhaseSet == {"unused", "done", "lost"} \cup Live

----------------------------------------------------------------------------
(* Snapshots and visibility                                                *)

\* The field asOf is history: the transactions whose commit_txn had run to its
\* last step when the snapshot was taken.  No definition of the code reads it.
SnapshotRecords == [xmin : 1..(MaxXid + 1), xmax : 1..(MaxXid + 1),
                    xip : SUBSET XidSet, curcid : 0..MaxCid, asOf : SUBSET XidSet]

ASSUME NoSnapshotAssumption == NoSnapshot \notin SnapshotRecords

MinActive == CHOOSE x \in active : \A y \in active : x <= y

\* Mutant: xmax is the XID after the next one.
MutTakeSnapshot ==
    [xmin |-> IF active = {} THEN clock ELSE MinActive,
     xmax |-> clock + 1, xip |-> active, curcid |-> 0,
     asOf |-> {x \in XidSet : phase[x] = "done" /\ clog[x] = "Committed"}]

\* TxnManager::snapshot: clock and active set are read under one lock.
TakeSnapshot == [xmin |-> IF active = {} THEN clock ELSE MinActive,
                 xmax |-> clock, xip |-> active, curcid |-> 0,
                 asOf |-> {x \in XidSet : phase[x] = "done" /\ clog[x] = "Committed"}]

\* Mutant: the in-progress list of the snapshot is not consulted.
MutIsPast(y, s) == y < s.xmax /\ clog[y] = "Committed"

\* The judgement both steps of is_visible make of another transaction.
IsPast(y, s) == y < s.xmax /\ y \notin s.xip /\ clog[y] = "Committed"

XminVisible(tmin, cid, self, s) ==
    IF tmin = self THEN cid < s.curcid ELSE IsPast(tmin, s)

XmaxVisible(tmax, cid, self, s) ==
    \/ tmax = InvalidXid
    \/ IF tmax = self THEN cid >= s.curcid ELSE ~ IsPast(tmax, s)

\* is_visible: the tuple header (tmin, tmax, cid) under self's snapshot s.
IsVisible(tmin, tmax, cid, self, s) ==
    XminVisible(tmin, cid, self, s) /\ XmaxVisible(tmax, cid, self, s)

----------------------------------------------------------------------------
(* The actions                                                             *)

Init == /\ clock = 1
        /\ active = {}
        /\ clog = [x \in XidSet |-> "InProgress"]
        /\ phase = [x \in XidSet |-> "unused"]
        /\ fate = [x \in XidSet |-> "Aborted"]
        /\ snap = [x \in XidSet |-> NoSnapshot]
        /\ poisoned = FALSE

\* begin_txn: the clock alloc and the insert are one critical section.
BeginTxn ==
    /\ clock <= MaxXid
    /\ clock' = clock + 1
    /\ active' = active \cup {clock}
    /\ phase' = [phase EXCEPT ![clock] = "running"]
    /\ UNCHANGED <<clog, fate, snap, poisoned>>

\* Engine::begin_txn takes the snapshot after begin_txn returned; a read
\* committed session takes a fresh one for every statement.
Snapshot(x) ==
    /\ phase[x] = "running"
    /\ snap' = [snap EXCEPT ![x] = TakeSnapshot]
    /\ UNCHANGED <<clock, active, clog, phase, fate, poisoned>>

\* Snapshot::advance_curcid, called before each statement.
AdvanceCurcid(x) ==
    /\ phase[x] = "running"
    /\ snap[x] # NoSnapshot
    /\ snap[x].curcid < MaxCid
    /\ snap' = [snap EXCEPT ![x].curcid = @ + 1]
    /\ UNCHANGED <<clock, active, clog, phase, fate, poisoned>>

\* Mutant: a handle that was committed is aborted once more when dropped.
MutAppendEnd(x, state) ==
    /\ phase[x] \in {"running", "decided"}
    /\ ~ poisoned
    /\ phase' = [phase EXCEPT ![x] = "appended"]
    /\ fate' = [fate EXCEPT ![x] = state]
    /\ UNCHANGED <<clock, active, clog, snap, poisoned>>

\* Step 1 of commit_txn and abort_txn: append the terminal record.
AppendEnd(x, state) ==
    /\ phase[x] = "running"
    /\ ~ poisoned
    /\ phase' = [phase EXCEPT ![x] = "appended"]
    /\ fate' = [fate EXCEPT ![x] = state]
    /\ UNCHANGED <<clock, active, clog, snap, poisoned>>

\* Step 2 returns Ok.
FlushTo(x) ==
    /\ phase[x] = "appended"
    /\ phase' = [phase EXCEPT ![x] = "durable"]
    /\ UNCHANGED <<clock, active, clog, fate, snap, poisoned>>

\* Step 1 or step 2 returns Err: the CLOG bit stays, the XID stays active.
WalFails(x) ==
    /\ \/ phase[x] = "running" /\ poisoned
       \/ phase[x] = "appended"
    /\ phase' = [phase EXCEPT ![x] = "failed"]
    /\ poisoned' = TRUE
    /\ UNCHANGED <<clock, active, clog, fate, snap>>

\* Step 3, in end_txn.
SetState(x) ==
    /\ phase[x] = "durable"
    /\ clog' = [clog EXCEPT ![x] = fate[x]]
    /\ phase' = [phase EXCEPT ![x] = "decided"]
    /\ UNCHANGED <<clock, active, fate, snap, poisoned>>

\* Step 4, in end_txn; the handle and its snapshot are gone afterwards.
RemoveActive(x) ==
    /\ phase[x] = "decided"
    /\ active' = active \ {x}
    /\ phase' = [phase EXCEPT ![x] = "done"]
    /\ snap' = [snap EXCEPT ![x] = NoSnapshot]
    /\ UNCHANGED <<clock, clog, fate, poisoned>>

\* What a crash and the recovery after it may leave of the commit log c and
\* the XID clock k.  A terminal state any session could have read is kept; a
\* transaction becomes committed only if it had appended its commit record;
\* no XID with a terminal state is handed out again.
SurvivesIn(c, k) ==
    /\ \A x \in XidSet : clog[x] \in Terminal => c[x] = clog[x]
    /\ \A x \in XidSet : c[x] = "Committed" =>
          \/ clog[x] = "Committed"
          \/ phase[x] \in Live /\ fate[x] = "Committed"
    /\ \A x \in XidSet : c[x] \in Terminal => x < k

\* Everything in memory that a restart derives from them.
Reopened ==
    /\ active' = {}
    /\ phase' = [x \in XidSet |-> IF x >= clock' THEN "unused"
                                  ELSE IF clog'[x] \in Terminal THEN "done" ELSE "lost"]
    /\ fate' = [x \in XidSet |-> IF x >= clock' THEN "Aborted" ELSE fate[x]]
    /\ snap' = [x \in XidSet |-> NoSnapshot]
    /\ poisoned' = FALSE

\* The process dies and opens again.
Restart ==
    /\ clog' \in [XidSet -> TxnStates]
    /\ clock' \in 1..(MaxXid + 1)
    /\ SurvivesIn(clog', clock')
    /\ Reopened

SessionStep(x) ==
    \/ Snapshot(x) \/ AdvanceCurcid(x)
    \/ \E state \in Terminal : AppendEnd(x, state)
    \/ FlushTo(x) \/ WalFails(x) \/ SetState(x) \/ RemoveActive(x)

Next == \/ BeginTxn
        \/ \E x \in XidSet : SessionStep(x)
        \/ Restart

Spec == Init /\ [][Next]_vars

----------------------------------------------------------------------------
(* What the manager promises                                               *)

\* The types of the manager's state, of the CLOG and of the snapshots.
TypeOK == /\ clock \in 1..(MaxXid + 1)
          /\ active \in SUBSET XidSet
          /\ clog \in [XidSet -> TxnStates]
          /\ phase \in [XidSet -> PhaseSet]
          /\ fate \in [XidSet -> Terminal]
          /\ snap \in [XidSet -> SnapshotRecords \cup {NoSnapshot}]
          /\ poisoned \in BOOLEAN

\* The database as of the snapshot: what commands of this transaction before
\* the current one, and transactions complete at its instant, did.
Did(y, cid, self, s) == IF y = self THEN cid < s.curcid ELSE y \in s.asOf

\* Snapshot isolation (begin_txn, snapshot, end_txn, is_visible): at every
\* moment of its life a snapshot shows a row version exactly if its inserter
\* had completed its commit at the instant the snapshot was taken and its
\* deleter had not, whatever has begun, committed or aborted since.
SnapshotIsInstant ==
    \A x \in XidSet : snap[x] # NoSnapshot =>
       \A tmin \in XidSet, tmax \in XidSet \cup {InvalidXid}, cid \in 0..MaxCid :
          IsVisible(tmin, tmax, cid, x, snap[x])
             <=> /\ Did(tmin, cid, x, snap[x])
                 /\ ~ (tmax # InvalidXid /\ Did(tmax, cid, x, snap[x]))

\* A terminal state is final (end_txn, recovery): once any reader could have
\* seen an XID committed or aborted, no later step, no crash and no recovery
\* makes it anything else.
TerminalIsFinal ==
    [][\A x \in XidSet : clog[x] \in Terminal => clog'[x] = clog[x]]_vars
=============================================================================
