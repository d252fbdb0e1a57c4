-------------------------------- MODULE Heap --------------------------------
(***************************************************************************)
(* The heap access method (crates/pg-am-heap/src/heap_am.rs) under         *)
(* concurrent transactions: the row-lock gate with its share-lock          *)
(* registry, deletes and updates that restart after a wait, updates that   *)
(* need a second page, chain extension, scans, and the dead-tuple scan.    *)
(*                                                                         *)
(* One transaction is one actor, of one relation.  What the code does      *)
(* under a page latch is one step; a latch that is held while another one  *)
(* is waited for is in latch.  Transactions end in one step (TxnManager    *)
(* has the two inside it), and a wait for a transaction ends once that     *)
(* transaction has (DeadlockDetector has the wait edges and the victims).  *)
(* A row is identified by the transaction and command that inserted it.    *)
(***************************************************************************)
EXTENDS HeapPage, FiniteSets, TLC

CONSTANTS MaxPage, MaxXid,
          Cases     \* what to start from and what may happen: see Init

Pages == 1..MaxPage
Xids == 2..MaxXid
Tids == Pages \X (1..PageCap)
Loader == 1         \* the transaction of the rows there at the start
First == 1          \* the relation's first page

VARIABLES
    pages,
    chain,          \* the cached page list of the relation
    nextPage,
    share,          \* share_locks: tid -> registered holders
    clog, active, nextXid,
    th,             \* what every transaction is doing
    latch,          \* page -> the transaction that holds its latch, or 0
    extender,       \* the transaction that holds extend_lock, or 0
    left,           \* the case's statements, and what is left of its bounds
    held,           \* history: the row locks granted, [xid, tid, mode]
    live,           \* history: the rows that exist, as committed
    strayed         \* history: a share lock was forgotten, see Forgets

shared == <<pages, chain, nextPage, share, latch, extender>>
txns == <<clog, active, nextXid>>
history == <<held, live, strayed>>
vars == <<shared, txns, th, left, history>>

TupleAt(tid) == pages[tid[1]].tuples[tid[2]]
Goto(x, fields) == th' = [th EXCEPT ![x] = fields @@ @]
Spend(what) == left[what] > 0 /\ left' = [left EXCEPT ![what] = @ - 1]

\* The row versions that count once every transaction in progress is set aside.
Current ==
    {tid \in Tids :
       /\ HasTuple(pages[tid[1]], tid[2])
       /\ clog[TupleAt(tid).xmin] = "committed"
       /\ VisibilityXmax(TupleAt(tid)) = 0 \/ clog[VisibilityXmax(TupleAt(tid))] # "committed"}

-----------------------------------------------------------------------------
(* Transactions                                                            *)

Begin(x) ==
    /\ x = nextXid /\ x \in left.xids
    /\ nextXid' = x + 1
    /\ active' = active \cup {x}
    /\ th' = [th EXCEPT ![x] =
         [pc |-> "idle", snap |-> [xid |-> x, xmax |-> x + 1, xip |-> active \cup {x}, cid |-> 0],
          expected |-> Current, added |-> {}, removed |-> {}]]
    /\ UNCHANGED <<shared, clog, left, history>>

End(x, state) ==
    /\ clog' = [clog EXCEPT ![x] = state]
    /\ active' = active \ {x}
    /\ th' = [th EXCEPT ![x] = [pc |-> "done"]]
    /\ held' = {h \in held : h.xid # x}
    /\ UNCHANGED <<shared, nextXid, strayed>>
Commit(x) ==
    /\ th[x].pc = "idle"
    /\ End(x, "committed")
    /\ live' = (live \cup th[x].added) \ th[x].removed
    /\ UNCHANGED left
Abort(x) ==
    /\ \/ th[x].pc = "idle" /\ Spend("aborts")
       \/ th[x].pc = "failed" /\ UNCHANGED left
    /\ End(x, "aborted")
    /\ UNCHANGED live

\* A statement advances the command counter and picks its row by a scan.
Seen(snap) == UNION {ScanPage(pages[chain[i]], chain[i], snap, clog) : i \in DOMAIN chain}
Statement(x, op) ==
    LET snap == [th[x].snap EXCEPT !.cid = @ + 1]
        targets == IF op.kind \in {"insert", "scan"} THEN {NoTid}
                   ELSE {tid \in Seen(snap) : TupleAt(tid).row \in left.touch}
        start == CASE op.kind = "insert" -> "room"
                   [] op.kind = "scan" -> "scan"
                   [] OTHER -> "gate"
    IN  /\ th[x].pc = "idle"
        /\ Spend("stmts")
        /\ \E tid \in targets :
             Goto(x, [pc |-> start, op |-> op, tid |-> tid, snap |-> snap, rest |-> chain,
                      result |-> {}])
        /\ UNCHANGED <<shared, txns, history>>

-----------------------------------------------------------------------------
(* The row-lock gate                                                       *)

InProgress(x) == clog[x] = "inprogress" /\ x \in active

\* Mutant: only the holder that the stamp names is looked at.
LiveShareHoldersStamped(tid, xmax) == {h \in {xmax} : InProgress(h)}
\* live_share_holders: the registered holders and the stamp's, without the ended.
LiveShareHolders(tid, xmax) == {h \in share[tid] \cup {xmax} : InProgress(h)}

\* The verdicts, with the tid's entry in the registry after them.
Proceed(x, req) ==      \* with note_stamp_overwrite
    [out |-> "proceed", holders |-> IF req = "share" THEN {x} ELSE {}]
NoStamp(holders) == [out |-> "nostamp", holders |-> holders]
Wait(blocker, holders) == [out |-> "wait", blocker |-> blocker, holders |-> holders]
Refuse(holders) == [out |-> "error", holders |-> holders]
Lowest(S) == CHOOSE h \in S : \A g \in S : h <= g

\* A share stamp, mine or another's.
ShareStampGate(x, tid, xmax, req) ==
    LET alive == LiveShareHolders(tid, xmax)
        others == alive \ {x}
    IN  IF req = "share"
        THEN IF alive = {} THEN Proceed(x, req) ELSE NoStamp(alive \cup {x})
        ELSE IF others # {} THEN Wait(Lowest(others), alive)
        ELSE Proceed(x, req)
\* row_lock_gate; req is "share", "excl" (FOR UPDATE) or "write".
RowLockGate(x, tid, req) ==
    LET t == TupleAt(tid)
        same == share[tid]
    IN  IF t.xmax = 0 THEN Proceed(x, req)
        ELSE IF t.lock = "share" /\ t.xmax = x /\ req = "share" THEN NoStamp(same \cup {x})
        ELSE IF t.lock = "share" THEN ShareStampGate(x, tid, t.xmax, req)
        ELSE IF t.xmax = x
        THEN IF t.lock = "none"
             THEN IF req = "write" THEN [out |-> "proceed", holders |-> same] ELSE Refuse(same)
             ELSE IF req = "share" THEN NoStamp(same) ELSE [out |-> "proceed", holders |-> same]
        ELSE IF InProgress(t.xmax) THEN Wait(t.xmax, same)
        ELSE IF clog[t.xmax] = "committed" /\ t.lock = "none" THEN Refuse(same)
        ELSE Proceed(x, req)

RequestOf(op) == IF op.kind \in {"share", "excl"} THEN op.kind ELSE "write"
Gate(x) == RowLockGate(x, th[x].tid, RequestOf(th[x].op))

Grant(x, mode) == held' = held \cup {[xid |-> x, tid |-> th[x].tid, mode |-> mode]}
NoLatch(x) == latch' = [p \in Pages |-> IF latch[p] = x THEN 0 ELSE latch[p]]
Noted(x, g) == share' = [share EXCEPT ![th[x].tid] = g.holders]

\* The verdicts that end the attempt, at any of its gates; all latches are let go.
WaitOrFail(x, g) ==
    /\ g.out \in {"wait", "error"}
    /\ Noted(x, g)
    /\ NoLatch(x)
    /\ Goto(x, IF g.out = "wait" THEN [pc |-> "wait", blocker |-> g.blocker] ELSE [pc |-> "failed"])
    /\ UNCHANGED <<pages, chain, nextPage, extender, txns, left, history>>

AtGate(x) == th[x].pc = "gate" /\ latch[th[x].tid[1]] = 0
GateStops(x) == AtGate(x) /\ WaitOrFail(x, Gate(x))

\* wait_row_lock: the transaction waited for has ended, or a deadlock is broken.
Wake(x) ==
    /\ th[x].pc = "wait" /\ th[x].blocker \notin active
    /\ Goto(x, [pc |-> "gate"])
    /\ UNCHANGED <<shared, txns, left, history>>
Victim(x) ==
    /\ th[x].pc = "wait" /\ th[x].blocker \in active
    /\ \E y \in active : th[y].pc = "wait" /\ th[y].blocker = x
    /\ Goto(x, [pc |-> "failed"])
    /\ UNCHANGED <<shared, txns, left, history>>

-----------------------------------------------------------------------------
(* Locks, deletes, updates on one page                                     *)

GateOpen(x) == AtGate(x) /\ Gate(x).out \notin {"wait", "error"}
Finish(x, fields) == Goto(x, [pc |-> "idle"] @@ fields)

\* lock_tuple and lock_tuple_shared.
LockTuple(x) ==
    LET tid == th[x].tid
        kind == th[x].op.kind
    IN  /\ GateOpen(x) /\ kind \in {"share", "excl"}
        /\ Noted(x, Gate(x))
        /\ pages' = IF Gate(x).out = "nostamp" THEN pages
                    ELSE [pages EXCEPT ![tid[1]] =
                            OnSlot(@, tid[2], StampLockOnly(TupleAt(tid), x, th[x].snap.cid, kind))]
        /\ Grant(x, kind)
        /\ Finish(x, <<>>)
        /\ UNCHANGED <<chain, nextPage, latch, extender, txns, left, live, strayed>>

Deleted(x, updated) == StampDeleted(TupleAt(th[x].tid), x, th[x].snap.cid, updated)
NewVersion(x, row) == StampXmin(NewTuple(row, th[x].snap.cid), x)
TidOn(p) == <<p, SlotCount(pages[p]) + 1>>
Superseded(x, new) == [expected |-> (th[x].expected \ {th[x].tid}) \cup new]

Delete(x) ==
    LET tid == th[x].tid IN
    /\ GateOpen(x) /\ th[x].op.kind = "delete"
    /\ Noted(x, Gate(x))
    /\ pages' = [pages EXCEPT ![tid[1]] = OnSlot(@, tid[2], Deleted(x, FALSE))]
    /\ Grant(x, "excl")
    /\ Finish(x, Superseded(x, {}) @@ [removed |-> th[x].removed \cup {TupleAt(tid).row}])
    /\ UNCHANGED <<chain, nextPage, latch, extender, txns, left, live, strayed>>

\* update, the new version on the old one's page; op.hot is hot_eligible.
UpdateInPlace(x) ==
    LET tid == th[x].tid
        p == tid[1]
        new == NewVersion(x, TupleAt(tid).row)
    IN  /\ GateOpen(x) /\ th[x].op.kind = "update" /\ HasRoom(pages[p])
        /\ Noted(x, Gate(x))
        /\ pages' = [pages EXCEPT ![p] =
             IF th[x].op.hot
             THEN AddTuple(OnSlot(@, tid[2], StampHotUpdate(TupleAt(tid), TidOn(p), x,
                                                            th[x].snap.cid)),
                           StampHotOnly(new))
             ELSE AddTuple(OnSlot(@, tid[2], Deleted(x, TRUE)), new)]
        /\ Grant(x, "excl")
        /\ Finish(x, Superseded(x, {TidOn(p)}))
        /\ UNCHANGED <<chain, nextPage, latch, extender, txns, left, live, strayed>>

\* update with the old page full: the gate has run, and has retired the registry
\* entry, but nothing is stamped when the latch is let go.  A share lock that only
\* the registry knew of, the stamp being that of an ended holder, is forgotten.
Forgets(x) ==
    /\ [xid |-> x, tid |-> th[x].tid, mode |-> "share"] \in held
    /\ TupleAt(th[x].tid).lock = "share" /\ TupleAt(th[x].tid).xmax # x
\* Mutant: the old page's latch is kept across the chain extension.
UpdateElsewhereLatched(x) ==
    /\ GateOpen(x) /\ th[x].op.kind = "update" /\ ~HasRoom(pages[th[x].tid[1]])
    /\ Noted(x, Gate(x))
    /\ latch' = [latch EXCEPT ![th[x].tid[1]] = x]
    /\ Goto(x, [pc |-> "room"])
    /\ strayed' = (strayed \/ Forgets(x))
    /\ UNCHANGED <<pages, chain, nextPage, extender, txns, left, held, live>>
UpdateElsewhere(x) ==
    /\ GateOpen(x) /\ th[x].op.kind = "update" /\ ~HasRoom(pages[th[x].tid[1]])
    /\ Noted(x, Gate(x))
    /\ Goto(x, [pc |-> "room"])
    /\ strayed' = (strayed \/ Forgets(x))
    /\ UNCHANGED <<pages, chain, nextPage, latch, extender, txns, left, held, live>>

-----------------------------------------------------------------------------
(* Inserts and updates that need another page                              *)

\* What follows once the guard of page p is in hand: an insert adds its tuple; an
\* update latches both pages, the lower one first, letting p go if need be.
InOrder(x, p) == th[x].tid[1] > p
Added(x, p, pgs) ==
    LET row == <<x, th[x].snap.cid>> IN
    /\ pages' = [pgs EXCEPT ![p] = AddTuple(@, NewVersion(x, row))]
    /\ Finish(x, [expected |-> th[x].expected \cup {<<p, SlotCount(pgs[p]) + 1>>},
                  added |-> th[x].added \cup {row}])
    /\ NoLatch(x)
Guarded(x, p, pgs) ==
    IF th[x].op.kind = "insert" THEN Added(x, p, pgs)
    ELSE /\ pages' = pgs
         /\ Goto(x, [pc |-> IF InOrder(x, p) THEN "pin_old" ELSE "relatch", new |-> p])
         /\ latch' = [latch EXCEPT ![p] = IF InOrder(x, p) THEN x ELSE 0]

\* acquire_page_with_room: the newest page with room, if any.
WithRoom(x) == {i \in DOMAIN chain : chain[i] # th[x].tid[1] /\ HasRoom(pages[chain[i]])}
Newest(x) == chain[CHOOSE i \in WithRoom(x) : \A j \in WithRoom(x) : j <= i]
FindRoom(x) ==
    /\ th[x].pc = "room"
    /\ IF WithRoom(x) = {}
       THEN Goto(x, [pc |-> "extend"]) /\ UNCHANGED <<pages, latch>>
       ELSE latch[Newest(x)] = 0 /\ Guarded(x, Newest(x), pages)
    /\ UNCHANGED <<chain, nextPage, share, extender, txns, left, history>>

\* extend_chain: under extend_lock the tail is looked at again; a new page is
\* initialised, linked from the tail and tracked.
Tail1 == chain[Len(chain)]
\* Mutant: the chain is extended without extend_lock.
ExtendUnlocked(x) ==
    /\ th[x].pc = "extend"
    /\ nextPage \in Pages
    /\ Tail1 = th[x].tid[1] \/ (latch[Tail1] = 0 /\ ~HasRoom(pages[Tail1]))
    /\ pages' = [pages EXCEPT ![nextPage] = InitPage]
    /\ latch' = [latch EXCEPT ![nextPage] = x]
    /\ Goto(x, [pc |-> "link", new |-> nextPage, tail |-> Tail1])
    /\ nextPage' = nextPage + 1
    /\ UNCHANGED <<chain, share, extender, txns, left, history>>
Extend(x) ==
    /\ th[x].pc = "extend" /\ extender = 0
    /\ IF Tail1 # th[x].tid[1] /\ HasRoom(pages[Tail1])
       THEN /\ latch[Tail1] = 0
            /\ Guarded(x, Tail1, pages)
            /\ UNCHANGED <<nextPage, extender>>
       ELSE /\ Tail1 = th[x].tid[1] \/ latch[Tail1] = 0
            /\ nextPage \in Pages
            /\ pages' = [pages EXCEPT ![nextPage] = InitPage]
            /\ latch' = [latch EXCEPT ![nextPage] = x]
            /\ Goto(x, [pc |-> "link", new |-> nextPage, tail |-> Tail1])
            /\ nextPage' = nextPage + 1
            /\ extender' = x
    /\ UNCHANGED <<chain, share, txns, left, history>>
Link(x) ==
    /\ th[x].pc = "link" /\ latch[th[x].tail] = 0
    /\ Guarded(x, th[x].new, [pages EXCEPT ![th[x].tail].next = th[x].new])
    /\ chain' = Append(chain, th[x].new)
    /\ extender' = 0
    /\ UNCHANGED <<nextPage, share, txns, left, history>>

\* The old page is latched first, then the new one, whose room may be gone.
Relatch(x) ==
    /\ th[x].pc = "relatch" /\ latch[th[x].tid[1]] = 0
    /\ latch' = [latch EXCEPT ![th[x].tid[1]] = x]
    /\ Goto(x, [pc |-> "pin_new"])
    /\ UNCHANGED <<pages, chain, nextPage, share, extender, txns, left, history>>
RoomGone(x) ==
    /\ th[x].pc = "pin_new" /\ latch[th[x].new] = 0 /\ ~HasRoom(pages[th[x].new])
    /\ NoLatch(x)
    /\ Goto(x, [pc |-> "gate"])
    /\ UNCHANGED <<pages, chain, nextPage, share, extender, txns, left, history>>

\* Both pages latched: the gate runs again and the versions are written.
BothLatched(x) ==
    \/ th[x].pc = "pin_old" /\ latch[th[x].tid[1]] = 0
    \/ th[x].pc = "pin_new" /\ latch[th[x].new] = 0 /\ HasRoom(pages[th[x].new])
RegateStops(x) == BothLatched(x) /\ WaitOrFail(x, Gate(x))
\* Mutant: the tuple is not looked at again once both pages are latched.
UpdateAcrossBlind(x) ==
    LET tid == th[x].tid
        p == th[x].new
    IN  /\ BothLatched(x)
        /\ pages' = [pages EXCEPT ![tid[1]] = OnSlot(@, tid[2], Deleted(x, TRUE)),
                                  ![p] = AddTuple(@, NewVersion(x, TupleAt(tid).row))]
        /\ NoLatch(x)
        /\ Grant(x, "excl")
        /\ Finish(x, Superseded(x, {TidOn(p)}))
        /\ UNCHANGED <<chain, nextPage, share, extender, txns, left, live, strayed>>
UpdateAcross(x) ==
    LET tid == th[x].tid
        p == th[x].new
    IN  /\ BothLatched(x)
        /\ Gate(x).out = "proceed"
        /\ Noted(x, Gate(x))
        /\ pages' = [pages EXCEPT ![tid[1]] = OnSlot(@, tid[2], Deleted(x, TRUE)),
                                  ![p] = AddTuple(@, NewVersion(x, TupleAt(tid).row))]
        /\ NoLatch(x)
        /\ Grant(x, "excl")
        /\ Finish(x, Superseded(x, {TidOn(p)}))
        /\ UNCHANGED <<chain, nextPage, extender, txns, left, live, strayed>>

-----------------------------------------------------------------------------
(* Scans                                                                   *)

\* scan: the page list is read at the start, the pages one after the other.
Scan(x) ==
    LET p == th[x].rest[1] IN
    /\ th[x].pc = "scan" /\ th[x].rest # <<>>
    /\ latch[p] = 0
    /\ Goto(x, [rest |-> Tail(th[x].rest),
                result |-> th[x].result \cup ScanPage(pages[p], p, th[x].snap, clog)])
    /\ UNCHANGED <<shared, txns, left, history>>
Scanned(x) ==
    /\ th[x].pc = "scan" /\ th[x].rest = <<>>
    /\ Goto(x, [pc |-> "idle"])
    /\ UNCHANGED <<shared, txns, left, history>>

\* seed_from_chain: the page list a reader without the cache finds on the pages.
SeedFromChain ==
    LET walk[n \in 0..MaxPage] ==
          IF n = 0 THEN <<First>>
          ELSE LET s == walk[n - 1]
                   next == pages[s[Len(s)]].next
               IN  IF next = 0 THEN s ELSE Append(s, next)
    IN  walk[MaxPage]

\* scan_dead_tuples for the oldest transaction some snapshot may not see.
OldestXmin == Lowest({nextXid} \cup UNION {th[x].snap.xip : x \in active})
\* Mutant: a row lock counts as a deletion.
DeadTuplesLocked ==
    {tid \in Tids :
       /\ HasTuple(pages[tid[1]], tid[2])
       /\ LET t == TupleAt(tid) IN
          \/ clog[t.xmin] = "aborted"
          \/ t.xmax # 0 /\ t.xmax < OldestXmin /\ clog[t.xmax] = "committed"}
DeadTuples ==
    {tid \in Tids :
       /\ HasTuple(pages[tid[1]], tid[2])
       /\ LET t == TupleAt(tid) IN
          \/ clog[t.xmin] = "aborted"
          \/ /\ t.lock = "none" /\ t.xmax # 0 /\ t.xmax < OldestXmin
             /\ clog[t.xmax] = "committed"}

-----------------------------------------------------------------------------
(* The specification                                                       *)

\* A case: c.rows rows of the loader on the first page, the statements c.menu on
\* the rows c.touch, and how often what may happen.
Start(c) ==
    /\ pages = [p \in Pages |->
          IF p # First THEN FreshPage
          ELSE [InitPage EXCEPT !.tuples =
                  [i \in 1..c.rows |-> StampXmin(NewTuple(<<Loader, i>>, 0), Loader)]]]
    /\ live = {<<Loader, i>> : i \in 1..c.rows}
    /\ left = c
Init ==
    /\ \E c \in Cases : Start(c)
    /\ chain = <<First>>
    /\ nextPage = First + 1
    /\ share = [tid \in Tids |-> {}]
    /\ clog = [x \in 1..MaxXid |-> IF x = Loader THEN "committed" ELSE "inprogress"]
    /\ active = {}
    /\ nextXid = Loader + 1
    /\ th = [x \in Xids |-> [pc |-> "none"]]
    /\ latch = [p \in Pages |-> 0]
    /\ extender = 0
    /\ held = {}
    /\ strayed = FALSE

Next ==
    \E x \in Xids :
      \/ Begin(x) \/ Commit(x) \/ Abort(x)
      \/ \E op \in left.menu : Statement(x, op)
      \/ GateStops(x) \/ Wake(x) \/ Victim(x)
      \/ LockTuple(x) \/ Delete(x) \/ UpdateInPlace(x) \/ UpdateElsewhere(x)
      \/ FindRoom(x) \/ Extend(x) \/ Link(x) \/ Relatch(x) \/ RoomGone(x)
      \/ RegateStops(x) \/ UpdateAcross(x)
      \/ Scan(x) \/ Scanned(x)

Spec == Init /\ [][Next]_vars

-----------------------------------------------------------------------------
(* Properties                                                              *)

\* A row version that a transaction in progress has locked FOR UPDATE, deleted or
\* updated is locked by no other; one locked FOR SHARE only by sharers: "FOR UPDATE
\* excludes share lockers and vice versa".  (row_lock_gate, share_stamp_gate)
RowLocksExclude ==
    \A a, b \in held :
      (a.xid \in active /\ b.xid \in active /\ a.xid # b.xid /\ a.tid = b.tid)
        => a.mode = "share" /\ b.mode = "share"
\* The same until an update that moves to another page forgets a share lock.
RowLocksExcludeApart == strayed \/ RowLocksExclude

\* No update is lost and none is undone: every committed row has one version that
\* counts, a deleted row has none.  Two writers that both replaced a version would
\* leave two.  (row_lock_gate, the second gate of update)
OneVersionCounts ==
    \A tid \in Current : /\ TupleAt(tid).row \in live
                         /\ \A other \in Current : TupleAt(other).row = TupleAt(tid).row
                                                     => other = tid
RowsCounted ==
    /\ OneVersionCounts
    /\ \A row \in live : \E tid \in Current : TupleAt(tid).row = row

\* A scan returns the rows committed when its transaction began, with the
\* transaction's own earlier changes, whatever others do between its pages.
\* (scan, follow_hot_chain, is_visible)
ScanExact ==
    \A x \in active : (th[x].pc = "scan" /\ th[x].rest = <<>>) => th[x].result = th[x].expected

\* The cached page list is what the links on the pages lead to, and has every page
\* with tuples: none drops out when two transactions extend the relation at once.
\* (extend_chain, seed_from_chain)
ChainWhole ==
    /\ SeedFromChain = chain
    /\ \A p \in Pages : SlotCount(pages[p]) > 0 => \E i \in DOMAIN chain : chain[i] = p

\* Transactions that hold a page latch never wait in a circle for each other's.
\* (update's latch order, extend_chain)
WaitsForLatch(x) ==
    CASE th[x].pc = "pin_old" -> th[x].tid[1]
      [] th[x].pc = "pin_new" -> th[x].new
      [] th[x].pc = "link" -> th[x].tail
      [] OTHER -> 0
NoLatchDeadlock ==
    ~\E S \in SUBSET active \ {{}} :
        \A x \in S : WaitsForLatch(x) # 0 /\ latch[WaitsForLatch(x)] \in S

\* What the dead-tuple scan reports no running or future transaction can see.
\* (scan_dead_tuples)
DeadIsUnseen ==
    \A tid \in DeadTuples :
      /\ tid \notin Current
      /\ \A x \in active : ~IsVisible(TupleAt(tid), [th[x].snap EXCEPT !.cid = @ + 1], clog)

\* A scan and the dead-tuple scan agree on what is seen: the first returns exactly what
\* its snapshot shows, the second nothing that any snapshot shows.
\* (HeapScan::next, scan_dead_tuples)
ScansExact == ScanExact /\ DeadIsUnseen

NotStrayed == ~strayed
=============================================================================
