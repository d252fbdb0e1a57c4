-------------------------------- MODULE BTree --------------------------------
(***************************************************************************)
(* The concurrent Blink-tree of crates/pg-am-btree/src/index.rs: readers   *)
(* that crab down under read latches, optimistic leaf writes, pessimistic  *)
(* write descents that hold the path latched, the three steps of a split   *)
(* and physical deletes.                                                   *)
(*                                                                         *)
(* Every wait for a page latch is a step of its own; what a thread does    *)
(* with pages it has latched, until it needs the next latch, belongs to    *)
(* the step that got the latch.  A thread's record holds its operation,    *)
(* the page it is at (`cur'), the page it examines next (`look'), the      *)
(* pages it has latched (`read', `write'), the latched path of a write     *)
(* descent and the splits it has still to commit.                          *)
(*                                                                         *)
(* The meta page is one variable: it is read and written in one step each, *)
(* with no other latch awaited meanwhile.  WAL records and the buffer pool *)
(* are the subject of SplitRecovery and BufferPool.  A tree starts as the  *)
(* bulk loader and the deletes of earlier sessions leave it.               *)
(***************************************************************************)
EXTENDS BTreePage, TLC

CONSTANTS
    Threads,
    Pages,          \* page ids, 1..n
    Entries,        \* the <<key, tid>> pairs the operations are about
    Loads,          \* <<the entries a tree was bulk loaded with, those since deleted>>
    Operations,     \* the kinds of operation the threads may start
    MaxOps,         \* operations the threads start between them
    MaxRestarts     \* MAX_INSERT_RESTARTS

ASSUME TreeAssumption ==
    /\ Pages = 1..Cardinality(Pages)
    /\ \A e \in Entries : e[1] \in Nat \ {0} /\ e[2] \in Nat \ {0}
    /\ \A load \in Loads :
            /\ load[2] \subseteq load[1]
            /\ Len(Build(load[1])) <= Cardinality(Pages)
    /\ Operations \subseteq {"insert", "delete", "lookup", "lookupAll", "rangeScan"}

VARIABLES
    page,       \* the content of every page
    free,       \* the pages never allocated
    root,       \* the last record of the meta page
    th,         \* the threads
    ops,        \* the operations still to be started
    misplaced   \* a slot-0 insert met an entry it does not sort below

vars == <<page, free, root, th, ops, misplaced>>

Idle == [pc |-> "idle", op |-> "none", e |-> <<0, 0>>, cur |-> NoPage, look |-> NoPage,
         found |-> NoPage, verified |-> NoPage, moved |-> FALSE, read |-> {}, write |-> {},
         path |-> <<>>, splits |-> <<>>, again |-> FALSE, restarts |-> 0, out |-> <<>>,
         must |-> {}, may |-> {}, res |-> "none"]

\* The entries the leaves hold.
Contents == UNION {ToSet(page[p].slots) : p \in {q \in Pages \ free : page[q].level = 0}}

LeafChain == Chain(page, root)
ChainEntries == EntriesOf(page, LeafChain)

\* The part of a set of entries an operation is about.
About(op, e, S) ==
    {x \in S : CASE op \in {"insert", "delete"} -> x = e
                 [] op \in {"lookup", "lookupAll"} -> KeyOf(x) = KeyOf(e)
                 [] op = "rangeScan" -> KeyOf(x) >= KeyOf(e)}

Init ==
    \E load \in Loads :
        LET built == Build(load[1])
            Drain(pg) == IF pg.level > 0 THEN pg
                         ELSE [pg EXCEPT !.slots = SelectSeq(@, LAMBDA x : x \notin load[2])]
        IN  /\ page = [p \in Pages |-> IF p \in DOMAIN built THEN Drain(built[p])
                                       ELSE InitPage(0, FALSE)]
            /\ free = Pages \ DOMAIN built
            /\ root = Len(built)
            /\ th = [t \in Threads |-> Idle]
            /\ ops = MaxOps
            /\ misplaced = FALSE

-----------------------------------------------------------------------------
(* Latches and thread steps.                                               *)

\* The latches are not reentrant: a thread waits for a latch of its own too.
CanRead(p) == \A u \in Threads : p \notin th[u].write
CanWrite(p) == \A u \in Threads : p \notin th[u].write \cup th[u].read

Become(t, r) == th' = [th EXCEPT ![t] = r @@ @]

\* A step of t that also puts entries into the leaves or takes them out;
\* every running operation keeps account of what it may and must see.
BecomeWith(t, r, added, removed) ==
    th' = [u \in Threads |->
             LET v == IF u = t THEN r @@ th[u] ELSE th[u]
             IN  IF v.pc = "idle" THEN v
                 ELSE [v EXCEPT !.may = IF u = t THEN @ ELSE @ \cup About(v.op, v.e, added),
                                !.must = @ \ removed]]

\* What a thread is left with when its operation returns.
Returned(t, res) ==
    [Idle EXCEPT !.pc = "done", !.op = th[t].op, !.e = th[t].e, !.out = th[t].out,
                 !.must = th[t].must, !.may = th[t].may, !.res = res]

Finish(t, res) == Become(t, Returned(t, res))

Begin(t, op, e) ==
    /\ th[t].pc = "idle"
    /\ ops > 0
    /\ op \in Operations
    /\ ops' = ops - 1
    /\ Become(t, [pc |-> "root", op |-> op, cur |-> root,
                  e |-> IF op \in {"insert", "delete"} THEN e ELSE <<KeyOf(e), 0>>,
                  must |-> About(op, e, Contents), may |-> About(op, e, Contents)])
    /\ UNCHANGED <<page, free, root, misplaced>>

Return(t) ==
    /\ th[t].pc = "done"
    /\ th' = [th EXCEPT ![t] = Idle]
    /\ UNCHANGED <<page, free, root, ops, misplaced>>

\* restart_or_fail, and the optimistic attempt the restarted insert begins
\* with: from the root the meta page now names.
RestartOrFail(t) ==
    IF th[t].restarts + 1 > MaxRestarts THEN Finish(t, "unsupported")
    ELSE Become(t, [Idle EXCEPT !.pc = "root", !.op = th[t].op, !.e = th[t].e, !.cur = root,
                                !.restarts = th[t].restarts + 1,
                                !.must = th[t].must, !.may = th[t].may])

-----------------------------------------------------------------------------
(* walk_to_position_guard: one level of the read descent.                  *)

\* The page's first entry sorts above the probe.
Above(t, pg) ==
    ~IsEmpty(pg) /\ IF pg.level = 0 THEN Less(th[t].e, FirstEntry(pg))
                    ELSE KeyOf(FirstEntry(pg)) > KeyOf(th[t].e)

\* The page, a right sibling of where the probe is, owns the probe or more.
OwnsProbe(t, pg) ==
    IF pg.level = 0 THEN AtMost(FirstEntry(pg), th[t].e)
    ELSE KeyOf(FirstEntry(pg)) \in 1..KeyOf(th[t].e)

LeftOf(t, pg) == pg.prev # NoPage /\ (Above(t, pg) \/ (pg.level = 0 /\ IsEmpty(pg)))

\* The top of the loop at page c, whose read latch t has.
Arrive(t, c) ==
    LET pg == page[c]
        placing == pg.level = 0 /\ th[t].op = "insert"
    IN  IF LeftOf(t, pg) /\ placing /\ th[t].verified # c
        THEN [pc |-> "nearest", cur |-> c, look |-> NoPage, found |-> NoPage, read |-> {}]
        ELSE IF LeftOf(t, pg) /\ ~placing
        THEN [pc |-> "left", cur |-> pg.prev, look |-> NoPage, read |-> {}]
        ELSE [pc |-> "look", cur |-> c, look |-> pg.next, moved |-> FALSE, read |-> {c}]

PinRoot(t) ==
    /\ th[t].pc = "root"
    /\ CanRead(th[t].cur)
    /\ Become(t, Arrive(t, th[t].cur))
    /\ UNCHANGED <<page, free, root, ops, misplaced>>

\* The page a left move or a placement verdict chose is latched; its right
\* side is examined before its left side.
PinLeft(t) ==
    /\ th[t].pc = "left"
    /\ CanRead(th[t].cur)
    /\ Become(t, [pc |-> "look", look |-> page[th[t].cur].next, moved |-> TRUE,
                  read |-> {th[t].cur}])
    /\ UNCHANGED <<page, free, root, ops, misplaced>>

\* lookup, lookup_all and range_scan on one leaf: the entries from `slot' on
\* up to the first that does not belong to the answer, and whether it came.
Wanted(t, entry) ==
    IF th[t].op = "rangeScan" THEN TRUE ELSE KeyOf(entry) = KeyOf(th[t].e)

Collect(t, c, slot) ==
    LET rest == SubSeq(page[c].slots, slot + 1, Len(page[c].slots))
        other == {i \in DOMAIN rest : ~Wanted(t, rest[i])}
        run == SubSeq(rest, 1, IF other = {} THEN Len(rest) ELSE Min(other) - 1)
        ends == other # {} \/ (th[t].op = "lookup" /\ rest # <<>>) \/ page[c].next = NoPage
        out == th[t].out \o (IF th[t].op = "lookup" /\ run # <<>> THEN <<run[1]>> ELSE run)
    IN  IF ends THEN [Returned(t, "ok") EXCEPT !.out = out]
        ELSE [pc |-> "scan", cur |-> c, look |-> page[c].next, read |-> {c}, out |-> out]

\* The walk of one level is over: down to the child, or the leaf is reached.
Settle(t) ==
    LET c == th[t].cur
    IN  IF th[t].moved THEN Arrive(t, c)
        ELSE IF page[c].level > 0
        THEN [pc |-> "down", look |-> FindChild(page[c], KeyOf(th[t].e))]
        ELSE IF th[t].op \in {"insert", "delete"}
        THEN [pc |-> "latch", look |-> NoPage, verified |-> NoPage, read |-> {}]
        ELSE Collect(t, c, LowerBound(page[c], th[t].e))

\* Mutant: the walk never moves right.
LookRightBlind(t) ==
    /\ th[t].pc = "look"
    /\ Become(t, Settle(t))
    /\ UNCHANGED <<page, free, root, ops, misplaced>>

\* The right side: empty siblings are skipped, the next one may own the probe.
LookRight(t) ==
    /\ th[t].pc = "look"
    /\ LET n == th[t].look
       IN  IF n = NoPage THEN Become(t, Settle(t))
           ELSE /\ CanRead(n)
                /\ Become(t, IF IsEmpty(page[n]) THEN [look |-> page[n].next]
                             ELSE IF OwnsProbe(t, page[n]) THEN Arrive(t, n)
                             ELSE Settle(t))
    /\ UNCHANGED <<page, free, root, ops, misplaced>>

\* descend_to_leaf_guard_from: the child is latched before the parent is left.
PinChild(t) ==
    /\ th[t].pc = "down"
    /\ CanRead(th[t].look)
    /\ Become(t, Arrive(t, th[t].look))
    /\ UNCHANGED <<page, free, root, ops, misplaced>>

\* The scan goes on at the right sibling, latched before the leaf is left.
ScanRight(t) ==
    /\ th[t].pc = "scan"
    /\ CanRead(th[t].look)
    /\ Become(t, Collect(t, th[t].look, 0))
    /\ UNCHANGED <<page, free, root, ops, misplaced>>

-----------------------------------------------------------------------------
(* nearest_nonempty_left: from the (possibly stale) prev link of `cur'     *)
(* coupled rightwards back to `cur', remembering the last non-empty page.  *)
(* Three callers: the read walk ("nearest"), the slot-0 placement          *)
(* ("neighbour") and the write descent ("wnearest").                       *)

Neighbour(t, f) ==
    [found |-> f, look |-> NoPage, read |-> {}] @@
    CASE th[t].pc = "nearest" ->
           IF f = NoPage THEN [pc |-> "left", verified |-> th[t].cur] ELSE [pc |-> "compare"]
      [] th[t].pc = "neighbour" -> [pc |-> IF f = NoPage THEN "holdRight" ELSE "holdLeft"]
      [] th[t].pc = "wnearest" ->
           IF f = NoPage THEN [pc |-> "wlatch", verified |-> th[t].cur] ELSE [pc |-> "wcompare"]

ReadPrevLink(t) ==
    /\ th[t].pc \in {"nearest", "neighbour", "wnearest"}
    /\ th[t].look = NoPage
    /\ CanRead(th[t].cur)
    /\ LET start == page[th[t].cur].prev
       IN  Become(t, IF start = NoPage THEN Neighbour(t, NoPage)
                     ELSE [look |-> start, found |-> NoPage])
    /\ UNCHANGED <<page, free, root, ops, misplaced>>

WalkToCur(t) ==
    /\ th[t].pc \in {"nearest", "neighbour", "wnearest"}
    /\ th[t].look # NoPage
    /\ CanRead(th[t].look)
    /\ LET p == th[t].look
           f == IF IsEmpty(page[p]) THEN th[t].found ELSE p
           n == page[p].next
       IN  Become(t, IF n = th[t].cur THEN Neighbour(t, f)
                     ELSE IF n = NoPage THEN Returned(t, "torn")
                     ELSE [look |-> n, found |-> f, read |-> {p}])
    /\ UNCHANGED <<page, free, root, ops, misplaced>>

\* The neighbour is pinned again and its last entry compared with the probe.
CompareNeighbour(t) ==
    /\ th[t].pc \in {"compare", "wcompare"}
    /\ CanRead(th[t].found)
    /\ LET pg == page[th[t].found]
           goLeft == Less(th[t].e, LastEntry(pg))
       IN  Become(t, IF IsEmpty(pg) THEN Returned(t, "drained")
                     ELSE [pc |-> IF th[t].pc = "compare" THEN "left" ELSE "wlatch",
                           cur |-> IF goLeft THEN th[t].found ELSE th[t].cur,
                           verified |-> IF goLeft THEN th[t].verified ELSE th[t].cur,
                           found |-> NoPage])
    /\ UNCHANGED <<page, free, root, ops, misplaced>>

-----------------------------------------------------------------------------
(* delete: pin_leaf_for_write, then the removal.                           *)

LatchForWrite(t) ==
    /\ th[t].pc = "latch" /\ th[t].op = "delete"
    /\ CanWrite(th[t].cur)
    /\ LET pg == page[th[t].cur]
       IN  Become(t, IF LeftOf(t, pg) THEN [cur |-> pg.prev]
                     ELSE [pc |-> "hop", look |-> pg.next, write |-> {th[t].cur}])
    /\ UNCHANGED <<page, free, root, ops, misplaced>>

Delete(t) ==
    LET c == th[t].cur
        slot == LowerBound(page[c], th[t].e)
    IN  IF Contains(page[c].slots, th[t].e)
        THEN /\ page' = [page EXCEPT ![c] = RemoveEntryAt(@, slot)]
             /\ BecomeWith(t, Returned(t, "ok"), {}, {th[t].e})
        ELSE Finish(t, "notFound") /\ UNCHANGED page

\* Mutant: the leaf is not re-validated against its right sibling.
HopForWriteBlind(t) ==
    /\ th[t].pc = "hop" /\ th[t].op = "delete"
    /\ Delete(t)
    /\ UNCHANGED <<free, root, ops, misplaced>>

\* The right edge; the hop gives the latch up before it takes the next one.
HopForWrite(t) ==
    /\ th[t].pc = "hop" /\ th[t].op = "delete"
    /\ LET n == th[t].look
       IN  IF n = NoPage THEN Delete(t)
           ELSE /\ CanRead(n)
                /\ IF IsEmpty(page[n])
                   THEN Become(t, [look |-> page[n].next]) /\ UNCHANGED page
                   ELSE IF AtMost(FirstEntry(page[n]), th[t].e)
                   THEN Become(t, [pc |-> "latch", cur |-> n, write |-> {}]) /\ UNCHANGED page
                   ELSE Delete(t)
    /\ UNCHANGED <<free, root, ops, misplaced>>

-----------------------------------------------------------------------------
(* insert, the optimistic attempt: pin_leaf_for_insert, then the entry is  *)
(* put in if it fits, or everything is released for the write descent.     *)

Place(t, c, slot) ==
    IF Fits(page[c])
    THEN /\ page' = [page EXCEPT ![c] = InsertEntryAt(@, slot, th[t].e)]
         /\ BecomeWith(t, Returned(t, "ok"), {th[t].e}, {})
    ELSE /\ Become(t, [pc |-> "wroot", cur |-> root, look |-> NoPage, found |-> NoPage,
                       verified |-> NoPage, write |-> {}])
         /\ UNCHANGED page

LatchForInsert(t) ==
    /\ th[t].pc = "latch" /\ th[t].op = "insert"
    /\ CanWrite(th[t].cur)
    /\ Become(t, [pc |-> "hop", look |-> page[th[t].cur].next, write |-> {th[t].cur}])
    /\ UNCHANGED <<page, free, root, ops, misplaced>>

\* Landed: the slot, DuplicateKey, and the slot-0 landing, which releases
\* the leaf to look for its neighbour.
Land(t) ==
    LET c == th[t].cur
        pos == LowerBound(page[c], th[t].e)
    IN  IF IsDuplicate(page[c], th[t].e) THEN Finish(t, "duplicate") /\ UNCHANGED page
        ELSE IF pos > 0 THEN Place(t, c, pos)
        ELSE /\ Become(t, [pc |-> "neighbour", look |-> NoPage, found |-> NoPage, write |-> {}])
             /\ UNCHANGED page

\* Mutant: the leaf is not re-validated against its right sibling.
HopForInsertBlind(t) ==
    /\ th[t].pc = "hop" /\ th[t].op = "insert"
    /\ Land(t)
    /\ UNCHANGED <<free, root, ops, misplaced>>

HopForInsert(t) ==
    /\ th[t].pc = "hop" /\ th[t].op = "insert"
    /\ LET n == th[t].look
       IN  IF n = NoPage THEN Land(t)
           ELSE /\ CanRead(n)
                /\ IF IsEmpty(page[n])
                   THEN Become(t, [look |-> page[n].next]) /\ UNCHANGED page
                   ELSE IF AtMost(FirstEntry(page[n]), th[t].e)
                   THEN Become(t, [pc |-> "latch", cur |-> n, write |-> {}]) /\ UNCHANGED page
                   ELSE Land(t)
    /\ UNCHANGED <<free, root, ops, misplaced>>

\* The loop top again at page c, the only one still latched.
Relook(t, c) ==
    [pc |-> "hop", cur |-> c, look |-> page[c].next, found |-> NoPage, write |-> {c}]

HoldLeft(t) ==
    /\ th[t].pc = "holdLeft"
    /\ CanWrite(th[t].found)
    /\ Become(t, IF IsEmpty(page[th[t].found]) THEN [pc |-> "latch", found |-> NoPage]
                 ELSE [pc |-> "relatch", write |-> {th[t].found}])
    /\ UNCHANGED <<page, free, root, ops, misplaced>>

Relatch(t) ==
    /\ th[t].pc = "relatch"
    /\ CanWrite(th[t].cur)
    /\ Become(t, [pc |-> "sweep", look |-> page[th[t].found].next,
                  write |-> {th[t].found, th[t].cur}])
    /\ UNCHANGED <<page, free, root, ops, misplaced>>

\* History: an entry that goes to slot 0 of the leaf does not sort above all
\* entries left of it and below all entries of the leaf.
Judge(t) ==
    LET upTo == Min({i \in DOMAIN LeafChain : LeafChain[i] = th[t].cur})
        before == UNION {ToSet(page[LeafChain[i]].slots) : i \in 1..(upTo - 1)}
    IN  misplaced' = (misplaced \/ (Fits(page[th[t].cur]) /\
                         (\/ \E x \in before : AtMost(th[t].e, x)
                          \/ \E x \in ToSet(page[th[t].cur].slots) : AtMost(x, th[t].e))))

\* Still the left edge, and the neighbour's last entry sorts below the probe.
Verdict(t) ==
    LET c == th[t].cur
        l == th[t].found
    IN  IF ~IsEmpty(page[c]) /\ ~Above(t, page[c])
        THEN Become(t, Relook(t, c)) /\ UNCHANGED <<page, misplaced>>
        ELSE IF Less(th[t].e, LastEntry(page[l]))
        THEN Become(t, Relook(t, l)) /\ UNCHANGED <<page, misplaced>>
        ELSE Place(t, c, 0) /\ Judge(t)

\* Between the neighbour and the leaf there are only empty pages.
Sweep(t) ==
    /\ th[t].pc = "sweep"
    /\ LET w == th[t].look
       IN  IF w = th[t].cur THEN Verdict(t)
           ELSE IF w = NoPage THEN Finish(t, "torn") /\ UNCHANGED <<page, misplaced>>
           ELSE /\ CanRead(w)
                /\ Become(t, IF IsEmpty(page[w]) THEN [look |-> page[w].next]
                             ELSE Relook(t, th[t].cur))
                /\ UNCHANGED <<page, misplaced>>
    /\ UNCHANGED <<free, root, ops>>

\* No page left of the leaf has entries: the nearest one right of it is held.
HoldRight(t) ==
    /\ th[t].pc = "holdRight"
    /\ CanWrite(th[t].cur)
    /\ Become(t, [pc |-> "findRight", look |-> page[th[t].cur].next, write |-> {th[t].cur}])
    /\ UNCHANGED <<page, free, root, ops, misplaced>>

PlaceFirst(t) == Place(t, th[t].cur, 0) /\ Judge(t)

FindRight(t) ==
    /\ th[t].pc = "findRight"
    /\ LET n == th[t].look
       IN  IF n = NoPage THEN PlaceFirst(t)
           ELSE /\ CanWrite(n)
                /\ IF IsEmpty(page[n])
                   THEN Become(t, [look |-> page[n].next]) /\ UNCHANGED <<page, misplaced>>
                   ELSE IF AtMost(FirstEntry(page[n]), th[t].e)
                   THEN Become(t, Relook(t, n)) /\ UNCHANGED <<page, misplaced>>
                   ELSE PlaceFirst(t)
    /\ UNCHANGED <<free, root, ops>>

-----------------------------------------------------------------------------
(* insert_pessimistic: descend_write_path with the whole path latched.     *)

\* The top of the loop at page c, whose write latch t has.
WArrive(t, c, path) ==
    LET pg == page[c]
    IN  IF pg.incomplete \/ (pg.level > 0 /\ pg.prev # NoPage /\ Above(t, pg))
        THEN RestartOrFail(t)
        ELSE IF pg.level = 0 /\ LeftOf(t, pg) /\ th[t].verified # c
        THEN Become(t, [pc |-> "wnearest", cur |-> c, look |-> NoPage, found |-> NoPage,
                        path |-> path, write |-> ToSet(path)])
        ELSE Become(t, [pc |-> "wlook", cur |-> c, look |-> pg.next,
                        path |-> path, write |-> ToSet(path) \cup {c}])

WLatchRoot(t) ==
    /\ th[t].pc = "wroot"
    /\ CanWrite(th[t].cur)
    /\ IF page[th[t].cur].root THEN WArrive(t, th[t].cur, <<>>) ELSE RestartOrFail(t)
    /\ UNCHANGED <<page, free, root, ops, misplaced>>

WLatch(t) ==
    /\ th[t].pc = "wlatch"
    /\ CanWrite(th[t].cur)
    /\ WArrive(t, th[t].cur, th[t].path)
    /\ UNCHANGED <<page, free, root, ops, misplaced>>

WLatchChild(t) ==
    /\ th[t].pc = "wdown"
    /\ CanWrite(th[t].look)
    /\ WArrive(t, th[t].look, Append(th[t].path, th[t].cur))
    /\ UNCHANGED <<page, free, root, ops, misplaced>>

\* split_prepare_on_guards and split_copy_on_guards on latched pages: page l
\* splits into itself and the new page r at the slot `start'.
SplitPages(l, r, start) ==
    [page EXCEPT ![l] = KeepLeft(ApplyPrepareLeft(@, r), start),
                 ![r] = MoveRight(page[l], InitRightPage(page[l], l), start)]

\* The leaf splits; a pending entry goes into the half it belongs to.
SplitLeaf(t, edge) ==
    LET l == th[t].cur
        start == ChooseSplitSlot(page[l], IF edge THEN <<>> ELSE th[t].e)
        rightFirst == page[l].slots[start + 1]
    IN  \E r \in free :
            LET split == SplitPages(l, r, start)
                home == IF Less(th[t].e, rightFirst) THEN l ELSE r
                put == [split EXCEPT ![home] = InsertEntryAt(@, LowerBound(@, th[t].e), th[t].e)]
                then == [pc |-> "commit", cur |-> NoPage, look |-> NoPage, verified |-> NoPage,
                         again |-> edge, write |-> ToSet(th[t].path),
                         splits |-> <<[left |-> l, right |-> r, sep |-> KeyOf(rightFirst),
                                       into |-> NoPage]>>]
            IN  /\ free' = free \ {r}
                /\ page' = IF edge THEN split ELSE put
                /\ IF edge THEN Become(t, then) ELSE BecomeWith(t, then, {th[t].e}, {})

\* The leaf is reached with its path latched.
WLand(t) ==
    LET pg == page[th[t].cur]
        edge == LowerBound(pg, th[t].e) = 0 /\ pg.prev # NoPage
    IN  IF IsDuplicate(pg, th[t].e) THEN Finish(t, "duplicate") /\ UNCHANGED <<page, free>>
        ELSE IF Fits(pg)
        THEN /\ IF edge THEN RestartOrFail(t) /\ UNCHANGED page
                ELSE Place(t, th[t].cur, LowerBound(pg, th[t].e))
             /\ UNCHANGED free
        ELSE IF free = {} THEN RestartOrFail(t) /\ UNCHANGED <<page, free>>
        ELSE IF Len(pg.slots) < 2
        THEN /\ \E r \in free : free' = free \ {r}
             /\ Finish(t, "unsplittable")
             /\ UNCHANGED page
        ELSE SplitLeaf(t, edge)

\* The right side: a hop only to a sibling the latched parent points at.
WLook(t) ==
    /\ th[t].pc = "wlook"
    /\ LET n == th[t].look
           pg == page[th[t].cur]
           settled == IF pg.level = 0 THEN WLand(t)
                      ELSE /\ Become(t, [pc |-> "wdown", look |-> FindChild(pg, KeyOf(th[t].e))])
                           /\ UNCHANGED <<page, free>>
           linked == th[t].path # <<>> /\ PointsAt(page[Last(th[t].path)], n)
       IN  IF n = NoPage THEN settled
           ELSE /\ CanRead(n)
                /\ IF ~IsEmpty(page[n]) /\ ~OwnsProbe(t, page[n]) THEN settled
                   ELSE /\ IF IsEmpty(page[n]) THEN Become(t, [look |-> page[n].next])
                           ELSE IF linked
                           THEN Become(t, [pc |-> "wlatch", cur |-> n, look |-> NoPage,
                                           write |-> ToSet(th[t].path)])
                           ELSE RestartOrFail(t)
                        /\ UNCHANGED <<page, free>>
    /\ UNCHANGED <<root, ops, misplaced>>

-----------------------------------------------------------------------------
(* split_commit_guarded: the downlink goes into the parent, which may have *)
(* to split first, or into a new root; then the left page's flags go.      *)

Pending(t) == Last(th[t].splits)
Downlink(s) == <<s.sep, s.right>>

\* The page the downlink goes into is known.
Into(t, p) ==
    Become(t, [pc |-> "touch", splits |-> [th[t].splits EXCEPT ![Len(th[t].splits)].into = p]])

\* create_new_root: its only entry is the -infinity downlink to the old root.
NewRoot(old) == InsertEntryAt(InitPage(page[old].level + 1, TRUE), 0, <<Infinity, old>>)

\* The root splits: a new root and its meta record.
CommitRoot(t) ==
    /\ th[t].pc = "commit"
    /\ th[t].path = <<>>
    /\ LET s == Pending(t)
       IN  IF root # s.left THEN Finish(t, "unsupported") /\ UNCHANGED <<page, free, root>>
           ELSE IF free = {} THEN RestartOrFail(t) /\ UNCHANGED <<page, free, root>>
           ELSE \E r \in free :
                    /\ page' = [page EXCEPT ![r] = NewRoot(s.left)]
                    /\ free' = free \ {r}
                    /\ root' = r
                    /\ Into(t, r)
    /\ UNCHANGED <<ops, misplaced>>

\* The parent is the last page of the latched path.
CommitParent(t) ==
    /\ th[t].pc = "commit"
    /\ th[t].path # <<>>
    /\ LET s == Pending(t)
           parent == Last(th[t].path)
           pg == page[parent]
           start == ChooseSplitSlot(pg, Downlink(s))
           above == pg.slots[start + 1]
       IN  IF ~PointsAt(pg, s.left) THEN Finish(t, "unsupported") /\ UNCHANGED <<page, free>>
           ELSE IF Fits(pg) THEN Into(t, parent) /\ UNCHANGED <<page, free>>
           ELSE IF free = {} THEN RestartOrFail(t) /\ UNCHANGED <<page, free>>
           ELSE \E r \in free :
                    LET into == IF Less(Downlink(s), above) THEN parent ELSE r
                        upper == [left |-> parent, right |-> r, sep |-> KeyOf(above),
                                  into |-> NoPage]
                    IN  /\ page' = SplitPages(parent, r, start)
                        /\ free' = free \ {r}
                        /\ Become(t, [path |-> Front(th[t].path),
                                      write |-> ToSet(Front(th[t].path)),
                                      splits |-> Append([th[t].splits EXCEPT
                                                    ![Len(th[t].splits)].into = into], upper)])
    /\ UNCHANGED <<root, ops, misplaced>>

\* After the parent's own split: the half that takes the downlink is latched.
LatchHalf(t) ==
    /\ th[t].pc = "half"
    /\ CanWrite(Pending(t).into)
    /\ Become(t, [pc |-> "touch", write |-> th[t].write \cup {Pending(t).into}])
    /\ UNCHANGED <<page, free, root, ops, misplaced>>

\* The left page is latched once so that its full-page image precedes the
\* commit record.
TouchLeft(t) ==
    /\ th[t].pc = "touch"
    /\ CanWrite(Pending(t).left)
    /\ Become(t, [pc |-> "link"])
    /\ UNCHANGED <<page, free, root, ops, misplaced>>

\* The commit record and the downlink; the latch of the page that takes it
\* is released (a new root is latched only here).
Link(t) ==
    /\ th[t].pc = "link"
    /\ LET s == Pending(t)
           path == SelectSeq(th[t].path, LAMBDA p : p # s.into)
       IN  /\ s.into \in th[t].write \/ CanWrite(s.into)
           /\ page' = [page EXCEPT ![s.into] =
                          InsertEntryAt(@, LowerBound(@, Downlink(s)), Downlink(s))]
           /\ Become(t, [pc |-> "clear", path |-> path, write |-> ToSet(path)])
    /\ UNCHANGED <<free, root, ops, misplaced>>

\* The left page's flags; a split below goes on, or the insert is over.
ClearLeft(t) ==
    /\ th[t].pc = "clear"
    /\ CanWrite(Pending(t).left)
    /\ page' = [page EXCEPT ![Pending(t).left] = ApplyCommitLeft(@)]
    /\ LET below == Front(th[t].splits)
       IN  IF below # <<>> THEN Become(t, [pc |-> "half", splits |-> below])
           ELSE IF th[t].again THEN RestartOrFail(t)
           ELSE Finish(t, "ok")
    /\ UNCHANGED <<free, root, ops, misplaced>>

-----------------------------------------------------------------------------
ReadStep(t) == PinRoot(t) \/ PinLeft(t) \/ LookRight(t) \/ PinChild(t) \/ ScanRight(t)
NeighbourStep(t) == ReadPrevLink(t) \/ WalkToCur(t) \/ CompareNeighbour(t)
DeleteStep(t) == LatchForWrite(t) \/ HopForWrite(t)
InsertStep(t) == \/ LatchForInsert(t) \/ HopForInsert(t) \/ HoldLeft(t) \/ Relatch(t)
                 \/ Sweep(t) \/ HoldRight(t) \/ FindRight(t)
DescentStep(t) == WLatchRoot(t) \/ WLatch(t) \/ WLatchChild(t) \/ WLook(t)
CommitStep(t) == \/ CommitRoot(t) \/ CommitParent(t) \/ LatchHalf(t) \/ TouchLeft(t)
                 \/ Link(t) \/ ClearLeft(t)

Step(t) == \/ ReadStep(t) \/ NeighbourStep(t) \/ DeleteStep(t)
           \/ InsertStep(t) \/ DescentStep(t) \/ CommitStep(t)

Next == \E t \in Threads :
            \/ \E op \in Operations, e \in Entries : Begin(t, op, e)
            \/ Return(t)
            \/ Step(t)

Spec == Init /\ [][Next]_vars

-----------------------------------------------------------------------------
(* Properties.  The first four exclude what follows a slot-0 insert that   *)
(* broke the order of the chain, which ChainSorted says can happen.        *)

InOrder == StrictlySorted(ChainEntries) /\ ToSet(ChainEntries) = Contents

\* However inserts, deletes and the steps of splits interleave, walking the
\* leaf chain by its next links meets every entry once, in (key, tid) order
\* (pin_leaf_for_insert's placement, the Blink order of split Prepare/Copy).
EntriesInOrder == ~misplaced => InOrder

\* lookup, lookup_all and range_scan answer with every entry that was there
\* from the call to the return, with nothing that was never there, in order:
\* a split moving entries right under a reader never hides one
\* (walk_to_position_guard's right check).
ReadsExact ==
    ~misplaced => \A t \in Threads :
        (th[t].pc = "done" /\ th[t].op \in {"lookup", "lookupAll", "rangeScan"}) =>
            /\ IF th[t].op = "lookup" THEN th[t].must # {} => th[t].out # <<>>
               ELSE th[t].must \subseteq ToSet(th[t].out)
            /\ ToSet(th[t].out) \subseteq th[t].may
            /\ StrictlySorted(th[t].out)

\* delete answers EntryNotFound only if the entry was missing at some moment
\* of the call, insert DuplicateKey only if somebody else's equal entry was
\* there (pin_leaf_for_write and pin_leaf_for_insert re-validate the leaf).
VerdictsTrue ==
    ~misplaced => \A t \in Threads :
        th[t].pc = "done" =>
            /\ th[t].res = "notFound" => th[t].e \notin th[t].must
            /\ th[t].res = "duplicate" => th[t].e \in th[t].may

\* When nobody works on the tree it passes its own validate: no split is left
\* incomplete, every leaf of the chain has its downlink, separators order
\* the subtrees (split_commit_guarded finished what Prepare began).
QuiescentValid ==
    ((\A t \in Threads : th[t].pc \in {"idle", "done"}) /\ ~misplaced) => Validate(page, root)

\* The walk right from a stale prev link always comes back to its page:
\* "the right walk reaches `page`" (nearest_nonempty_left).
WalkReachesPage == \A t \in Threads : th[t].res # "torn"

\* The sibling chain is whole: whenever no operation runs the tree validates, and while
\* they run no walk along the chain misses its page.  (validate, nearest_nonempty_left)
ChainIsWhole == QuiescentValid /\ WalkReachesPage

\* "The placement protocol keeps the chain globally sorted" (validate).  The
\* code does not: nearest_nonempty_left gives up at an empty left sibling.
ChainSorted == InOrder

\* "Deadlock freedom rests on a single global acquisition order" (module
\* doc of index.rs): some thread that is in an operation can go on.
NoLatchDeadlock ==
    (\E t \in Threads : th[t].pc \notin {"idle", "done"}) =>
        ENABLED (\E t \in Threads : Step(t))

NotMisplaced == ~misplaced
=============================================================================
