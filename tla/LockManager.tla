------------------------------ MODULE LockManager ------------------------------
(***************************************************************************)
(* The table-level lock manager, crates/pg-txn/src/lock_manager.rs: four   *)
(* lock modes, one granted map and one FIFO wait queue per table, a single *)
(* mutex over all of them and a single condition variable for all waiters. *)
(*                                                                         *)
(* One transaction is one session thread.  Everything a thread does while  *)
(* it holds the `entries` mutex is one step; a thread that sleeps on the   *)
(* condition variable is "parked", and notify_all makes every parked       *)
(* thread run its loop again.  The deadlock detector appears here only as  *)
(* the environment that marks and clears victims and broadcasts; module    *)
(* DeadlockDetector models what it really does.                            *)
(***************************************************************************)
EXTENDS Integers, Sequences

CONSTANTS
    Xids,     \* transactions, each with its own session thread
    Tables,   \* table OIDs
    NoReq     \* "no acquire call in progress"

ASSUME NoReqAssumption == NoReq \notin Tables \X (1..4)

\* LockMode, ordered by strength; 0 stands for a missing key of `granted`.
Unlocked == 0
AccessShare == 1
RowExclusive == 2
Exclusive == 3
AccessExclusive == 4
Modes == AccessShare..AccessExclusive

VARIABLES
    granted,   \* LockEntry.granted: table -> xid -> held mode or Unlocked
    queue,     \* LockEntry.wait_queue: table -> sequence of waiters
    present,   \* the tables that are keys of the `entries` map
    victims,   \* DeadlockVictims.set
    pc,        \* what each session thread is doing
    req,       \* the arguments <<table, mode>> of its acquire call
    detector   \* "idle", or "notify" between a mark and its broadcast

vars == <<granted, queue, present, victims, pc, req, detector>>

Waiter == [xid : Xids, mode : Modes]

\* "idle": not in the lock manager; "running": inside acquire, about to take
\* the mutex (just called, or just woken); "parked": asleep on the condvar;
\* "ended": release_all has run, and XIDs are never reused.
Status == {"idle", "running", "parked", "ended"}

\* The types; a session has arguments exactly while it is inside acquire.
TypeOK ==
    /\ granted \in [Tables -> [Xids -> Modes \cup {Unlocked}]]
    /\ queue \in [Tables -> Seq(Waiter)]
    /\ present \subseteq Tables
    /\ victims \subseteq Xids
    /\ pc \in [Xids -> Status]
    /\ req \in [Xids -> (Tables \X Modes) \cup {NoReq}]
    /\ \A x \in Xids : pc[x] \in {"running", "parked"} <=> req[x] # NoReq
    /\ detector \in {"idle", "notify"}

-----------------------------------------------------------------------------
(* LockMode and LockEntry: pure functions of one table's granted map g and *)
(* wait queue q.                                                           *)

ConflictsWith(a, b) ==
    /\ a \in Modes /\ b \in Modes
    /\ \/ a = AccessExclusive \/ b = AccessExclusive
       \/ a = RowExclusive /\ b = Exclusive
       \/ a = Exclusive /\ b = RowExclusive
       \/ a = Exclusive /\ b = Exclusive

Compatible(g, x, m) == \A y \in Xids \ {x} : ~ConflictsWith(g[y], m)

\* Mutant: can_grant without its queue check.
MutNobodyAhead(q, x) == TRUE

NobodyAhead(q, x) == q # <<>> => q[1].xid = x

CanGrant(g, q, x, m) ==
    \/ g[x] >= m
    \/ NobodyAhead(q, x) /\ Compatible(g, x, m)

Stronger(a, b) == IF b > a THEN b ELSE a

\* Mutant: grant overwrites the held mode instead of keeping the stronger one.
MutGrantMode(g, x, m) == [g EXCEPT ![x] = m]

GrantMode(g, x, m) == [g EXCEPT ![x] = Stronger(@, m)]

PopIfHead(q, x) == IF q # <<>> /\ q[1].xid = x THEN Tail(q) ELSE q

IsQueued(q, x) == \E i \in 1..Len(q) : q[i].xid = x

PositionOf(q, x) == CHOOSE i \in 1..Len(q) : q[i].xid = x

EnqueueIfAbsent(q, x, m) ==
    IF IsQueued(q, x) THEN q ELSE Append(q, [xid |-> x, mode |-> m])

\* Mutant: the request of a transaction that gives up stays queued.
MutRetain(q, x) == q

\* wait_queue.retain(|w| w.xid != x): a queue holds an XID at most once.
Retain(q, x) ==
    LET p == PositionOf(q, x)
    IN  IF IsQueued(q, x) THEN SubSeq(q, 1, p - 1) \o SubSeq(q, p + 1, Len(q)) ELSE q

\* The granted map once the loop of regrant_heads has granted n heads of q.
AfterHeads(g, q, n) ==
    [x \in Xids |->
        IF \E i \in 1..n : q[i].xid = x
        THEN Stronger(g[x], q[PositionOf(q, x)].mode)
        ELSE g[x]]

\* Mutant: every head is tested against the grants before the loop.
MutHeadGrantable(g, q, i) ==
    g[q[i].xid] >= q[i].mode \/ Compatible(g, q[i].xid, q[i].mode)

\* Waiter i can be granted once the i - 1 waiters before it have been.
HeadGrantable(g, q, i) ==
    LET h == AfterHeads(g, q, i - 1)
    IN  h[q[i].xid] >= q[i].mode \/ Compatible(h, q[i].xid, q[i].mode)

\* The loop grants heads in order and stops at the first that must wait.
StopsAfter(g, q, n) ==
    /\ \A i \in 1..n : HeadGrantable(g, q, i)
    /\ n < Len(q) => ~HeadGrantable(g, q, n + 1)

\* Mutant: only one head is ever granted.
MutRegrantCount(g, q) == IF q # <<>> /\ HeadGrantable(g, q, 1) THEN 1 ELSE 0

RegrantCount(g, q) == CHOOSE n \in 0..Len(q) : StopsAfter(g, q, n)

RegrantHeads(g, q) ==
    LET n == RegrantCount(g, q)
    IN  [granted |-> AfterHeads(g, q, n), queue |-> SubSeq(q, n + 1, Len(q))]

IsEmptyEntry(g, q) == q = <<>> /\ \A x \in Xids : g[x] = Unlocked

-----------------------------------------------------------------------------
Init ==
    /\ granted = [t \in Tables |-> [x \in Xids |-> Unlocked]]
    /\ queue = [t \in Tables |-> <<>>]
    /\ present = {}
    /\ victims = {}
    /\ pc = [x \in Xids |-> "idle"]
    /\ req = [x \in Xids |-> NoReq]
    /\ detector = "idle"

\* Mutant: a release that wakes nobody.
MutNotifyAll(x, s) == pc' = [pc EXCEPT ![x] = s]

\* condvar.notify_all(), with thread x itself going to status s.
NotifyAll(x, s) ==
    pc' = [y \in Xids |-> IF y = x THEN s
                          ELSE IF pc[y] = "parked" THEN "running" ELSE pc[y]]

\* Session x calls acquire(x, t, m).
CallAcquire(x, t, m) ==
    /\ pc[x] = "idle"
    /\ pc' = [pc EXCEPT ![x] = "running"]
    /\ req' = [req EXCEPT ![x] = <<t, m>>]
    /\ UNCHANGED <<granted, queue, present, victims, detector>>

\* Mutant: the call returns with its request still recorded.
MutAcquireGranted(x) ==
    /\ pc[x] = "running"
    /\ x \notin victims
    /\ LET t == req[x][1]
           m == req[x][2]
       IN  /\ CanGrant(granted[t], queue[t], x, m)
           /\ granted' = [granted EXCEPT ![t] = GrantMode(@, x, m)]
           /\ queue' = [queue EXCEPT ![t] = PopIfHead(@, x)]
           /\ present' = present \cup {t}
    /\ pc' = [pc EXCEPT ![x] = "idle"]
    /\ UNCHANGED <<victims, req, detector>>

\* One turn of acquire's loop: the lock is granted and the call returns Ok.
AcquireGranted(x) ==
    /\ pc[x] = "running"
    /\ x \notin victims
    /\ LET t == req[x][1]
           m == req[x][2]
       IN  /\ CanGrant(granted[t], queue[t], x, m)
           /\ granted' = [granted EXCEPT ![t] = GrantMode(@, x, m)]
           /\ queue' = [queue EXCEPT ![t] = PopIfHead(@, x)]
           /\ present' = present \cup {t}
    /\ pc' = [pc EXCEPT ![x] = "idle"]
    /\ req' = [req EXCEPT ![x] = NoReq]
    /\ UNCHANGED <<victims, detector>>

\* One turn of acquire's loop: queue (unless queued already) and sleep.
AcquireWaits(x) ==
    /\ pc[x] = "running"
    /\ x \notin victims
    /\ LET t == req[x][1]
           m == req[x][2]
       IN  /\ ~CanGrant(granted[t], queue[t], x, m)
           /\ queue' = [queue EXCEPT ![t] = EnqueueIfAbsent(@, x, m)]
           /\ present' = present \cup {t}
    /\ pc' = [pc EXCEPT ![x] = "parked"]
    /\ UNCHANGED <<granted, victims, req, detector>>

\* One turn of acquire's loop: x finds and consumes its victim flag, drops its
\* queue entry, re-grants heads, prunes the entry, wakes everyone and fails.
AcquireVictim(x) ==
    /\ pc[x] = "running"
    /\ x \in victims
    /\ victims' = victims \ {x}
    /\ LET t == req[x][1]
           e == RegrantHeads(granted[t], Retain(queue[t], x))
       IN  IF t \in present
           THEN /\ granted' = [granted EXCEPT ![t] = e.granted]
                /\ queue' = [queue EXCEPT ![t] = e.queue]
                /\ present' = IF IsEmptyEntry(e.granted, e.queue)
                              THEN present \ {t} ELSE present
           ELSE UNCHANGED <<granted, queue, present>>
    /\ NotifyAll(x, "idle")
    /\ req' = [req EXCEPT ![x] = NoReq]
    /\ UNCHANGED detector

\* try_acquire: never queues, never looks at the victim flag.
TryAcquire(x, t, m) ==
    /\ pc[x] = "idle"
    /\ CanGrant(granted[t], queue[t], x, m)
    /\ granted' = [granted EXCEPT ![t] = GrantMode(@, x, m)]
    /\ queue' = [queue EXCEPT ![t] = PopIfHead(@, x)]
    /\ present' = present \cup {t}
    /\ UNCHANGED <<victims, pc, req, detector>>

\* Mutant: release_all leaves empty entries behind.
MutReleaseAll(x) ==
    /\ pc[x] = "idle"
    /\ LET e == [t \in Tables |->
                   RegrantHeads([granted[t] EXCEPT ![x] = Unlocked],
                                Retain(queue[t], x))]
       IN  /\ granted' = [t \in Tables |-> IF t \in present THEN e[t].granted
                                           ELSE granted[t]]
           /\ queue' = [t \in Tables |-> IF t \in present THEN e[t].queue
                                         ELSE queue[t]]
    /\ NotifyAll(x, "ended")
    /\ UNCHANGED <<present, victims, req, detector>>

\* release_all at commit or abort, over every table that has an entry.
ReleaseAll(x) ==
    /\ pc[x] = "idle"
    /\ LET e == [t \in Tables |->
                   RegrantHeads([granted[t] EXCEPT ![x] = Unlocked],
                                Retain(queue[t], x))]
       IN  /\ granted' = [t \in Tables |-> IF t \in present THEN e[t].granted
                                           ELSE granted[t]]
           /\ queue' = [t \in Tables |-> IF t \in present THEN e[t].queue
                                         ELSE queue[t]]
           /\ present' = {t \in present : ~IsEmptyEntry(e[t].granted, e[t].queue)}
    /\ NotifyAll(x, "ended")
    /\ UNCHANGED <<victims, req, detector>>

-----------------------------------------------------------------------------
(* The environment: DeadlockVictims::mark and ::clear, and the broadcast   *)
(* that follows every mark.                                                *)

\* Mutant: a mark without the broadcast that must follow it.
MutMark(x) ==
    /\ detector = "idle"
    /\ victims' = victims \cup {x}
    /\ UNCHANGED <<granted, queue, present, pc, req, detector>>

Mark(x) ==
    /\ detector = "idle"
    /\ victims' = victims \cup {x}
    /\ detector' = "notify"
    /\ UNCHANGED <<granted, queue, present, pc, req>>

NotifyWaiters ==
    /\ detector = "notify"
    /\ detector' = "idle"
    /\ pc' = [y \in Xids |-> IF pc[y] = "parked" THEN "running" ELSE pc[y]]
    /\ UNCHANGED <<granted, queue, present, victims, req>>

\* end_txn drops the flag of its own transaction before release_all; the
\* detector drops flags of transactions that have ended.
Clear(x) ==
    /\ x \in victims
    /\ pc[x] \in {"idle", "ended"}
    /\ victims' = victims \ {x}
    /\ UNCHANGED <<granted, queue, present, pc, req, detector>>

Session(x) ==
    \/ \E t \in Tables, m \in Modes : CallAcquire(x, t, m) \/ TryAcquire(x, t, m)
    \/ AcquireGranted(x) \/ AcquireWaits(x) \/ AcquireVictim(x)
    \/ ReleaseAll(x)

Next ==
    \/ \E x \in Xids : Session(x) \/ Mark(x) \/ Clear(x)
    \/ NotifyWaiters

Spec == Init /\ [][Next]_vars

-----------------------------------------------------------------------------
(* Properties.                                                             *)

ConflictFree(g) == \A x, y \in Xids : x # y => ~ConflictsWith(g[x], g[y])

NoDuplicates(q) == \A i, j \in 1..Len(q) : q[i].xid = q[j].xid => i = j

\* Two transactions never hold conflicting modes on one table, whatever mix
\* of immediate grants, upgrades and re-grants led there (can_grant, grant).
NoConflictingGrants == \A t \in Tables : ConflictFree(granted[t])

\* enqueue_if_absent keeps at most one request per transaction in a queue.
QueuesHaveNoDuplicates == \A t \in Tables : NoDuplicates(queue[t])

\* The queue entries are the requests of threads still inside acquire, for
\* locks they do not hold yet: no entry outlives its call or its grant, and no
\* thread sleeps without an entry (it would never be granted).
QueueMatchesSleepers ==
    /\ \A t \in Tables : \A i \in 1..Len(queue[t]) :
          LET w == queue[t][i]
          IN  req[w.xid] = <<t, w.mode>> /\ granted[t][w.xid] < w.mode
    /\ \A x \in Xids : pc[x] = "parked" => IsQueued(queue[req[x][1]], x)

\* A queue never waits for nothing: its head conflicts with a lock held by
\* somebody else, so a lock that could be granted has been (regrant_heads).
HeadsMustWait ==
    \A t \in Tables :
        queue[t] # <<>> =>
            ~CanGrant(granted[t], queue[t], queue[t][1].xid, queue[t][1].mode)

\* A sleeping victim has not missed its mark: the broadcast is still owed.
SleepingVictimWillWake ==
    \A x \in victims : pc[x] = "parked" => detector = "notify"

\* The entries map holds no key whose entry is empty (the leak acquire's
\* victim path and release_all prune against), and no state without a key.
EntriesPruned ==
    \A t \in Tables : t \in present <=> ~IsEmptyEntry(granted[t], queue[t])

\* The lock table at any instant: no conflicting locks, queues that are those of the
\* sleeping sessions and really have to wait, and no entry left over (the entries map
\* between any two sections under its mutex).
LockTableSound ==
    NoConflictingGrants /\ QueueMatchesSleepers /\ HeadsMustWait /\ EntriesPruned

NoBargingStep ==
    \A t \in Tables, x \in Xids :
        granted'[t][x] > granted[t][x] =>
            \A i \in 1..Len(queue[t]) :
                (\A j \in 1..i : queue[t][j].xid # x)
                    => ~IsQueued(queue'[t], queue[t][i].xid)

\* No barging: when x's lock grows, everybody who was queued ahead of x has
\* left the queue (granted in the same step, or gone with its own request).
NoBarging == [][NoBargingStep]_vars

LocksHeldStep ==
    \A t \in Tables, x \in Xids :
        granted'[t][x] < granted[t][x] => pc'[x] = "ended"

\* Two-phase locking: a held mode never weakens while its transaction lives,
\* not even when the transaction loses a wait as deadlock victim.
LocksHeldToEnd == [][LocksHeldStep]_vars

\* What a step of acquire, release_all or a victim's exit may never do to the locks:
\* pass a session that was queued ahead, or weaken a lock before its owner ends.
LockDiscipline == [][NoBargingStep /\ LocksHeldStep]_vars

\* Every wakeup is delivered: a waiter that was marked as victim, or whose
\* lock was granted by somebody else's release, returns from acquire.
WakeupsDelivered ==
    \A x \in Xids :
        /\ req[x] # NoReq
        /\ x \in victims \/ granted[req[x][1]][x] >= req[x][2]
        ~> req[x] = NoReq

=============================================================================
