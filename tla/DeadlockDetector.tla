---------------------------- MODULE DeadlockDetector ----------------------------
(***************************************************************************)
(* Deadlock detection, crates/pg-txn/src/deadlock.rs, over its two sources *)
(* of wait-for edges: the table lock manager (module LockManager, whose    *)
(* actions are reused here) and the row-wait registry of TxnManager        *)
(* (crates/pg-txn/src/manager.rs: register_row_wait, wait_for, end_txn).   *)
(*                                                                         *)
(* A session thread is in the lock manager (pc), in the row-wait protocol  *)
(* or in the tail of commit/abort (row), or in neither.  The detector      *)
(* thread snapshots the two sources one after the other, twice, while the  *)
(* sessions go on; marks are delivered by the wait loops.                  *)
(***************************************************************************)
EXTENDS LockManager, FiniteSets

CONSTANTS
    RequestModes,   \* the lock modes each session asks for
    NoXid           \* no entry in the row-wait registry

ASSUME RequestModesAssumption == RequestModes \in [Xids -> SUBSET Modes]
ASSUME NoXidAssumption == NoXid \notin Xids
\* XIDs are numbers: find_cycles visits them in order, and the youngest is the largest.
ASSUME XidsAssumption == Xids \subseteq Nat \ {0} /\ IsFiniteSet(Xids)

FC == INSTANCE FindCycles WITH Nodes <- Xids

VARIABLES
    active,     \* TxnManager.active
    registry,   \* TxnManager.row_wait_registry: waiter -> the XID it waits for
    row,        \* where each session is in wait_for or in end_txn
    dpc,        \* where the detector is in its tick
    todo,       \* tick: marked XIDs still to be looked at for pruning
    seen,       \* tick: the wait-for edges of the snapshot being taken
    cycles,     \* tick: the candidate cycles still to be resolved
    retried     \* history: sessions that consumed a mark since the first snapshot

rowVars == <<active, registry, row>>
tickVars == <<dpc, todo, seen, cycles>>
ddVars == <<vars, rowVars, tickVars, retried>>

\* row[x]: "out" - neither; "running" - in wait_for, about to take the registry
\* mutex; "parked" - asleep on row_wait_cv; "cleared", "removed", "notified" -
\* in end_txn, after the named step.

\* The types of the lock manager, the row-wait registry and the tick.
DDTypeOK ==
    /\ TypeOK
    /\ active \subseteq Xids
    /\ registry \in [Xids -> Xids \cup {NoXid}]
    /\ row \in [Xids -> {"out", "running", "parked", "cleared", "removed", "notified"}]
    /\ dpc \in {"idle", "prune", "tables", "freshRows", "freshTables", "resolve",
                "mark", "notifyRows", "notifyTables"}
    /\ todo \subseteq Xids
    /\ seen \subseteq Xids \X Xids
    /\ cycles \in Seq(Seq(Xids))
    /\ retried \subseteq Xids
    /\ detector = "notify" <=> dpc \in {"notifyRows", "notifyTables"}

DDInit ==
    /\ Init
    /\ active = Xids
    /\ registry = [x \in Xids |-> NoXid]
    /\ row = [x \in Xids |-> "out"]
    /\ dpc = "idle"
    /\ todo = {}
    /\ seen = {}
    /\ cycles = <<>>
    /\ retried = {}

-----------------------------------------------------------------------------
(* The wait-for graph: hard edges only.                                    *)

RowEdges == {<<x, registry[x]>> : x \in {y \in Xids : registry[y] # NoXid}}

TableEdges ==
    {e \in Xids \X Xids :
        \E t \in Tables : \E i \in 1..Len(queue[t]) :
            /\ queue[t][i].xid = e[1]
            /\ e[1] # e[2]
            /\ ConflictsWith(granted[t][e[2]], queue[t][i].mode)}

-----------------------------------------------------------------------------
(* Sessions: table locks, row waits, the tail of commit and abort.         *)

Busy(x) == pc[x] # "idle" \/ row[x] # "out"

\* The detector has begun to copy the edges.
InSnapshots == dpc \notin {"idle", "prune"}

\* acquire, as in LockManager; release_all only after end_txn.
TableLockStep(x) ==
    /\ \/ row[x] = "out" /\ \E t \in Tables, m \in RequestModes[x] : CallAcquire(x, t, m)
       \/ AcquireGranted(x) \/ AcquireWaits(x)
       \/ row[x] = "notified" /\ ReleaseAll(x)
    /\ UNCHANGED <<rowVars, tickVars, retried>>

TableVictim(x) ==
    /\ AcquireVictim(x)
    /\ retried' = IF InSnapshots THEN retried \cup {x} ELSE retried
    /\ UNCHANGED <<rowVars, tickVars>>

\* The row-lock gate found the row stamped by the active transaction b: the
\* edge is registered under the page latch, before wait_for is called.
RegisterRowWait(x, b) ==
    /\ ~Busy(x)
    /\ b \in active \ {x}
    /\ registry' = [registry EXCEPT ![x] = b]
    /\ row' = [row EXCEPT ![x] = "running"]
    /\ UNCHANGED <<vars, active, tickVars, retried>>

\* Mutant: the victim leaves its edge in the registry.
MutWaitForVictim(x) ==
    /\ row[x] = "running"
    /\ x \in victims
    /\ victims' = victims \ {x}
    /\ row' = [row EXCEPT ![x] = "out"]
    /\ retried' = IF InSnapshots THEN retried \cup {x} ELSE retried
    /\ UNCHANGED <<granted, queue, present, pc, req, detector, active, registry, tickVars>>

\* One turn of wait_for's loop, under the registry mutex: the victim flag is
\* looked at first.
WaitForVictim(x) ==
    /\ row[x] = "running"
    /\ x \in victims
    /\ victims' = victims \ {x}
    /\ registry' = [registry EXCEPT ![x] = NoXid]
    /\ row' = [row EXCEPT ![x] = "out"]
    /\ retried' = IF InSnapshots THEN retried \cup {x} ELSE retried
    /\ UNCHANGED <<granted, queue, present, pc, req, detector, active, tickVars>>

\* Mutant: any wakeup is taken for the end of the wait.
MutWaitForReturns(x) ==
    /\ row[x] = "running"
    /\ x \notin victims
    /\ registry' = [registry EXCEPT ![x] = NoXid]
    /\ row' = [row EXCEPT ![x] = "out"]
    /\ UNCHANGED <<vars, active, tickVars, retried>>

WaitForReturns(x) ==
    /\ row[x] = "running"
    /\ x \notin victims
    /\ registry[x] \notin active
    /\ registry' = [registry EXCEPT ![x] = NoXid]
    /\ row' = [row EXCEPT ![x] = "out"]
    /\ UNCHANGED <<vars, active, tickVars, retried>>

\* Mutant: the victim flag is not looked at before sleeping.
MutWaitForSleeps(x) ==
    /\ row[x] = "running"
    /\ registry[x] \in active
    /\ row' = [row EXCEPT ![x] = "parked"]
    /\ UNCHANGED <<vars, active, registry, tickVars, retried>>

WaitForSleeps(x) ==
    /\ row[x] = "running"
    /\ x \notin victims
    /\ registry[x] \in active
    /\ row' = [row EXCEPT ![x] = "parked"]
    /\ UNCHANGED <<vars, active, registry, tickVars, retried>>

WaitForTurn(x) == WaitForVictim(x) \/ WaitForReturns(x) \/ WaitForSleeps(x)

\* row_wait_cv.notify_all().
WakeRowWaiters == [x \in Xids |-> IF row[x] = "parked" THEN "running" ELSE row[x]]

\* end_txn, step by step: its mutexes are taken one after the other.
EndTxnClear(x) ==
    /\ ~Busy(x)
    /\ victims' = victims \ {x}
    /\ row' = [row EXCEPT ![x] = "cleared"]
    /\ UNCHANGED <<granted, queue, present, pc, req, detector, active, registry,
                   tickVars, retried>>

EndTxnRemove(x) ==
    /\ row[x] = "cleared"
    /\ active' = active \ {x}
    /\ row' = [row EXCEPT ![x] = "removed"]
    /\ UNCHANGED <<vars, registry, tickVars, retried>>

\* Mutant: end_txn without its broadcast.
MutEndTxnNotify(x) ==
    /\ row[x] = "removed"
    /\ row' = [row EXCEPT ![x] = "notified"]
    /\ UNCHANGED <<vars, active, registry, tickVars, retried>>

EndTxnNotify(x) ==
    /\ row[x] = "removed"
    /\ row' = [WakeRowWaiters EXCEPT ![x] = "notified"]
    /\ UNCHANGED <<vars, active, registry, tickVars, retried>>

EndTxnStep(x) == EndTxnRemove(x) \/ EndTxnNotify(x)

-----------------------------------------------------------------------------
(* The detector thread: one tick.  Each source is locked, copied and       *)
(* released in turn.                                                       *)

\* Mutant: no flag is ever pruned.
MutTickStart ==
    /\ dpc = "idle"
    /\ dpc' = "prune"
    /\ todo' = {}
    /\ UNCHANGED <<vars, rowVars, seen, cycles, retried>>

TickStart ==
    /\ dpc = "idle"
    /\ dpc' = "prune"
    /\ todo' = victims
    /\ UNCHANGED <<vars, rowVars, seen, cycles, retried>>

\* Mutant: flags of live transactions are pruned too.
MutTickPrune ==
    /\ dpc = "prune" /\ todo # {}
    /\ LET x == FC!MinOf(todo)
       IN  /\ victims' = victims \ {x}
           /\ todo' = todo \ {x}
    /\ UNCHANGED <<granted, queue, present, pc, req, detector, rowVars, dpc, seen,
                   cycles, retried>>

\* Hygiene: drop the flag of a transaction that has ended.
TickPrune ==
    /\ dpc = "prune" /\ todo # {}
    /\ LET x == FC!MinOf(todo)
       IN  /\ victims' = IF x \in active THEN victims ELSE victims \ {x}
           /\ todo' = todo \ {x}
    /\ UNCHANGED <<granted, queue, present, pc, req, detector, rowVars, dpc, seen,
                   cycles, retried>>

\* Mutant: the row-wait registry is left out of the graph.
MutSnapshotRows ==
    /\ dpc = "prune" /\ todo = {}
    /\ seen' = {}
    /\ dpc' = "tables"
    /\ UNCHANGED <<vars, rowVars, todo, cycles, retried>>

\* wait_for_edges, first half.
SnapshotRows ==
    /\ dpc = "prune" /\ todo = {}
    /\ seen' = RowEdges
    /\ dpc' = "tables"
    /\ UNCHANGED <<vars, rowVars, todo, cycles, retried>>

Members(c) == {c[i] : i \in 1..Len(c)}

\* wait_for_edges, second half, and find_cycles; no cycle ends the tick.
SnapshotTables ==
    /\ dpc = "tables"
    /\ seen' = {}
    /\ LET found == FC!FindCyclesIn(seen \cup TableEdges)
       IN  /\ cycles' = found
           /\ dpc' = IF found = <<>> THEN "idle" ELSE "freshRows"
           /\ retried' = IF found = <<>> THEN {} ELSE retried
    /\ UNCHANGED <<vars, rowVars, todo>>

\* The re-verification snapshot, shared by all candidate cycles.
FreshRows ==
    /\ dpc = "freshRows"
    /\ seen' = RowEdges
    /\ dpc' = "freshTables"
    /\ UNCHANGED <<vars, rowVars, todo, cycles, retried>>

FreshTables ==
    /\ dpc = "freshTables"
    /\ seen' = seen \cup TableEdges
    /\ dpc' = "resolve"
    /\ UNCHANGED <<vars, rowVars, todo, cycles, retried>>

\* The youngest transaction of the cycle.
VictimOf(c) == FC!MaxOf(Members(c))

\* mark_victims, one cycle: the three reasons to skip it.
ResolveCycle ==
    /\ dpc = "resolve" /\ cycles # <<>>
    /\ LET c == Head(cycles)
           skip == \/ VictimOf(c) \in victims
                   \/ VictimOf(c) \notin active
                   \/ ~(FC!EdgesOf(c) \subseteq seen)
       IN  /\ dpc' = IF skip THEN "resolve" ELSE "mark"
           /\ cycles' = IF skip THEN Tail(cycles) ELSE cycles
    /\ UNCHANGED <<vars, rowVars, todo, seen, retried>>

MarkVictim ==
    /\ dpc = "mark"
    /\ Mark(VictimOf(Head(cycles)))
    /\ dpc' = "notifyRows"
    /\ UNCHANGED <<rowVars, todo, seen, cycles, retried>>

\* Mutant: only the row waiters are woken.
MutNotifyRowWaiters ==
    /\ dpc = "notifyRows"
    /\ row' = WakeRowWaiters
    /\ dpc' = "resolve"
    /\ cycles' = Tail(cycles)
    /\ UNCHANGED <<vars, active, registry, todo, seen, retried>>

NotifyRowWaiters ==
    /\ dpc = "notifyRows"
    /\ row' = WakeRowWaiters
    /\ dpc' = "notifyTables"
    /\ UNCHANGED <<vars, active, registry, todo, seen, cycles, retried>>

NotifyTableWaiters ==
    /\ dpc = "notifyTables"
    /\ NotifyWaiters
    /\ dpc' = "resolve"
    /\ cycles' = Tail(cycles)
    /\ UNCHANGED <<rowVars, todo, seen, retried>>

TickEnd ==
    /\ dpc = "resolve" /\ cycles = <<>>
    /\ dpc' = "idle"
    /\ seen' = {} /\ retried' = {}
    /\ UNCHANGED <<vars, rowVars, todo, cycles>>

Tick ==
    \/ TickStart \/ TickPrune \/ SnapshotRows \/ SnapshotTables
    \/ FreshRows \/ FreshTables \/ ResolveCycle \/ MarkVictim
    \/ NotifyRowWaiters \/ NotifyTableWaiters \/ TickEnd

DDSession(x) ==
    \/ TableLockStep(x) \/ TableVictim(x)
    \/ \E b \in Xids : RegisterRowWait(x, b)
    \/ WaitForTurn(x)
    \/ EndTxnClear(x) \/ EndTxnStep(x)

DDNext == Tick \/ \E x \in Xids : DDSession(x)

DDSpec == DDInit /\ [][DDNext]_ddVars

\* The steps of a session that is inside acquire, wait_for or end_txn, or
\* between end_txn and release_all.
InCall(x) == pc[x] = "running" \/ row[x] # "out"

\* The detector thread keeps ticking, and a session inside a call takes the
\* mutex it needs and goes on.  Nothing is assumed of what sessions call
\* next, nor that they ever end.
DDFairness ==
    /\ WF_ddVars(Tick)
    /\ \A x \in Xids : WF_ddVars(InCall(x) /\ DDSession(x))

DDFairSpec == DDSpec /\ DDFairness

-----------------------------------------------------------------------------
(* Properties.                                                             *)

\* Detector and row waits only use the lock manager the way its own model
\* lets its environment use it: marks are broadcast before the next mark, and
\* flags are dropped only for transactions outside acquire.
ImplementsLockManager == Spec

\* The wait-for graph has no stale row edge: an edge belongs to a session that
\* is inside wait_for, which waits for exactly the transaction registered.
RowEdgesAreWaits ==
    \A x \in Xids : registry[x] # NoXid <=> row[x] \in {"running", "parked"}

\* No lost wakeup: a session asleep in wait_for waits for a transaction that
\* is still active, or is about to be woken by that transaction's end_txn.
RowSleepersWillWake ==
    \A x \in Xids :
        row[x] = "parked" =>
            registry[x] \in active \/ row[registry[x]] = "removed"

\* No lost mark: when a victim sleeps, in either wait loop, the broadcast that
\* will wake it is still to come.
MarkedSleepersWillWake ==
    \A x \in victims :
        /\ row[x] = "parked" => dpc = "notifyRows"
        /\ pc[x] = "parked" => dpc \in {"notifyRows", "notifyTables"}

\* No wakeup is lost: edges of the row-wait registry are waits in progress, and whoever
\* sleeps, on a row or on a table, victim or not, has its broadcast still to come
\* (wait_for, end_txn, acquire, mark_victims).
NoWakeupLost == RowEdgesAreWaits /\ RowSleepersWillWake /\ MarkedSleepersWillWake

\* Torn snapshots do not invent deadlocks, and deadlocks do not dissolve by
\* themselves: when a victim is about to be marked, all edges of its cycle
\* exist at that instant, unless a member consumed an older mark after the
\* detector began to look.
MarksAreSound ==
    dpc = "mark" =>
        LET c == Head(cycles)
        IN  \/ FC!EdgesOf(c) \subseteq RowEdges \cup TableEdges
            \/ Members(c) \cap retried # {}

\* The flag of a transaction that has ended is dropped: the set of victims
\* stays bounded by the live transactions.
StaleFlagsPruned ==
    \A x \in Xids : (x \in victims /\ x \notin active) ~> x \notin victims

\* Marks and grants take effect: a session that is marked, or granted its lock by
\* another's release, returns from acquire, and no flag outlives its transaction.
MarksTakeEffect == WakeupsDelivered /\ StaleFlagsPruned

IsDeadlocked(S) ==
    \A x \in S : \E y \in S : <<x, y>> \in RowEdges \cup TableEdges

\* Every deadlock made of genuine conflicts is broken: transactions that wait
\* for each other do not do so for ever.
DeadlocksBroken ==
    \A S \in (SUBSET Xids) \ {{}} : IsDeadlocked(S) ~> ~IsDeadlocked(S)

=============================================================================
