------------------------------ MODULE BTreePage ------------------------------
(***************************************************************************)
(* The pages of the B+Tree access method (crates/pg-am-btree: page.rs, the *)
(* free helpers of index.rs and bulkload.rs) as pure operators.            *)
(*                                                                         *)
(* A page is a record: its level (0 for a leaf), the ROOT and              *)
(* SPLIT_INCOMPLETE flags, the sibling links, the sorted slots, and `used',*)
(* the number of entries whose bytes were carved out of the page since it  *)
(* was last initialised.  A delete shrinks the slot array and leaves the   *)
(* bytes behind, so `used' and not the number of slots decides whether an  *)
(* entry still fits.                                                       *)
(*                                                                         *)
(* An entry is a pair <<key, trailer>> of numbers, the trailer being the   *)
(* heap tid in a leaf and the child page in an internal page.  Key 0 is    *)
(* the empty key, the -infinity marker of an internal page's first slot.   *)
(* Page 0 is PageId::INVALID.                                              *)
(***************************************************************************)
EXTENDS Integers, Sequences, FiniteSets, SequencesExt

CONSTANTS
    LeafCap,    \* entries that fit a leaf
    NodeCap     \* downlinks that fit an internal page

\* The split point of a page needs two entries, and both halves room for one.
ASSUME CapAssumption == LeafCap \in Nat \ {0, 1} /\ NodeCap \in Nat \ {0, 1}

NoPage == 0
Infinity == 0

KeyOf(entry) == entry[1]
ChildOf(entry) == entry[2]

\* entry_cmp: the full (key, trailer) order of a page.
Less(a, b) == a[1] < b[1] \/ (a[1] = b[1] /\ a[2] < b[2])
AtMost(a, b) == a = b \/ Less(a, b)

Cap(level) == IF level = 0 THEN LeafCap ELSE NodeCap

\* BtreePage::init.
InitPage(level, root) ==
    [level |-> level, root |-> root, incomplete |-> FALSE,
     prev |-> NoPage, next |-> NoPage, slots |-> <<>>, used |-> 0]

IsEmpty(pg) == pg.slots = <<>>
FirstEntry(pg) == pg.slots[1]
LastEntry(pg) == pg.slots[Len(pg.slots)]
Fits(pg) == pg.used < Cap(pg.level)
NeverHadEntries(pg) == pg.used = 0

\* leaf_lower_bound, internal_lower_bound, entry_lower_bound: the number of
\* slots that sort below the entry, which is the slot it belongs at.
LowerBound(pg, entry) == Cardinality({i \in DOMAIN pg.slots : Less(pg.slots[i], entry)})

\* leaf_insert_slot: DuplicateKey, or the slot.
IsDuplicate(pg, entry) == Contains(pg.slots, entry)

\* insert_entry_at and remove_entry_at, slots counted from 0.
InsertEntryAt(pg, slot, entry) ==
    [pg EXCEPT !.slots = InsertAt(@, slot + 1, entry), !.used = @ + 1]
RemoveEntryAt(pg, slot) == [pg EXCEPT !.slots = RemoveAt(@, slot + 1)]

\* find_child: the last downlink whose key does not exceed the probe's, the
\* first one when every key does.
FindChild(pg, key) ==
    LET under == {i \in DOMAIN pg.slots : KeyOf(pg.slots[i]) <= key}
    IN  ChildOf(pg.slots[IF under = {} THEN 1 ELSE Max(under)])

\* internal_page_points_at.
PointsAt(pg, child) == \E i \in DOMAIN pg.slots : ChildOf(pg.slots[i]) = child

\* choose_split_slot: the median without a pending entry, otherwise the valid
\* split point nearest the median, the upper one of two equally near.
ValidSplit(pg, pending, s) ==
    LET landsLeft == s >= LowerBound(pg, pending)
    IN  /\ s + (IF landsLeft THEN 1 ELSE 0) <= Cap(pg.level)
        /\ Len(pg.slots) - s + (IF landsLeft THEN 0 ELSE 1) <= Cap(pg.level)

ChooseSplitSlot(pg, pending) ==
    LET count == Len(pg.slots)
        mid == count \div 2
        valid == {s \in 1..(count - 1) : ValidSplit(pg, pending, s)}
        Distance(s) == IF s >= mid THEN 2 * (s - mid) ELSE 2 * (mid - s) + 1
    IN  IF pending = <<>> THEN mid
        ELSE CHOOSE s \in valid : \A r \in valid : Distance(s) <= Distance(r)

\* Mutant: the new right page does not take over the old next link.
InitRightPageUnlinked(left, leftId) == [InitPage(left.level, FALSE) EXCEPT !.prev = leftId]

\* init_right_page and apply_prepare_left: step one of a split.
InitRightPage(left, leftId) ==
    [InitPage(left.level, FALSE) EXCEPT !.prev = leftId, !.next = left.next]
ApplyPrepareLeft(left, rightId) == [left EXCEPT !.incomplete = TRUE, !.next = rightId]

\* apply_split_copy: step two.  The left page is rebuilt with what it keeps.
KeepLeft(left, start) ==
    [left EXCEPT !.slots = SubSeq(@, 1, start), !.used = start]
MoveRight(left, right, start) ==
    LET moved == SubSeq(left.slots, start + 1, Len(left.slots))
    IN  [right EXCEPT !.slots = @ \o moved, !.used = @ + Len(moved)]

\* Mutant: only the ROOT flag is cleared.
ApplyCommitLeftRootOnly(left) == [left EXCEPT !.root = FALSE]

\* apply_commit_left: step three.
ApplyCommitLeft(left) == [left EXCEPT !.incomplete = FALSE, !.root = FALSE]

-----------------------------------------------------------------------------
(* A tree is a function from page ids to pages and the id of its root.     *)

StrictlySorted(seq) == \A i \in 1..(Len(seq) - 1) : Less(seq[i], seq[i + 1])

\* The leaves as the next links join them, and the entries of some leaves.
RECURSIVE ChainFrom(_, _, _)
ChainFrom(tree, p, hops) ==
    IF p = NoPage \/ hops = 0 THEN <<>>
    ELSE <<p>> \o ChainFrom(tree, tree[p].next, hops - 1)

RECURSIVE Leftmost(_, _)
Leftmost(tree, p) ==
    IF tree[p].level = 0 THEN p ELSE Leftmost(tree, ChildOf(FirstEntry(tree[p])))

Chain(tree, root) == ChainFrom(tree, Leftmost(tree, root), Cardinality(DOMAIN tree) + 1)
EntriesOf(tree, leaves) == FlattenSeq([i \in DOMAIN leaves |-> tree[leaves[i]].slots])

\* The leaves and the entries below a page, in the order of its downlinks.
RECURSIVE LeavesBelow(_, _)
LeavesBelow(tree, p) ==
    IF tree[p].level = 0 THEN <<p>>
    ELSE FlattenSeq([i \in DOMAIN tree[p].slots |->
                        LeavesBelow(tree, ChildOf(tree[p].slots[i]))])
Below(tree, p) == EntriesOf(tree, LeavesBelow(tree, p))

\* validate_page.  Neighbouring children may overlap only under equal keys.
RECURSIVE ValidPage(_, _, _)
ValidPage(tree, p, level) ==
    LET pg == tree[p]
        Under(i) == Below(tree, ChildOf(pg.slots[i]))
        filled == SelectSeq([i \in DOMAIN pg.slots |-> i], LAMBDA i : Under(i) # <<>>)
    IN  /\ pg.level = level /\ ~pg.incomplete
        /\ StrictlySorted(pg.slots)
        /\ level > 0 =>
             /\ ~IsEmpty(pg)
             /\ \A i \in DOMAIN pg.slots : ValidPage(tree, ChildOf(pg.slots[i]), level - 1)
             /\ \A n \in 1..(Len(filled) - 1) :
                    \/ Less(Last(Under(filled[n])), Head(Under(filled[n + 1])))
                    \/ KeyOf(pg.slots[filled[n]]) = KeyOf(pg.slots[filled[n + 1]])

\* validate: the tree's own check of its structure.
Validate(tree, root) ==
    \/ IsEmpty(tree[root]) /\ tree[root].level = 0
    \/ /\ ~IsEmpty(tree[root])
       /\ ValidPage(tree, root, tree[root].level)
       /\ StrictlySorted(EntriesOf(tree, Chain(tree, root)))
       /\ ToSet(Chain(tree, root)) = ToSet(LeavesBelow(tree, root))

-----------------------------------------------------------------------------
(* bulkload.rs: pages are packed full, level by level, the first page of   *)
(* an internal level starting with the -infinity downlink.                 *)

\* pack_level's runs: items cut every `cap', one empty run for no items.
Runs(items, cap) ==
    IF items = <<>> THEN <<items>>
    ELSE [r \in 1..((Len(items) + cap - 1) \div cap) |->
             SubSeq(items, (r - 1) * cap + 1, Min({r * cap, Len(items)}))]

\* pack_level's pages, with ids from `base' + 1 on.
PackLevel(items, level, base) ==
    LET runs == Runs(items, Cap(level))
    IN  [r \in DOMAIN runs |->
            [InitPage(level, FALSE) EXCEPT
                !.prev = IF r = 1 THEN NoPage ELSE base + r - 1,
                !.next = IF r = Len(runs) THEN NoPage ELSE base + r + 1,
                !.slots = IF level > 0 /\ r = 1
                          THEN <<<<Infinity, ChildOf(runs[r][1])>>>> \o Tail(runs[r])
                          ELSE runs[r],
                !.used = Len(runs[r])]]

\* build's loop: the levels above `built', whose pages have the low keys `low'.
RECURSIVE BuildUp(_, _, _, _)
BuildUp(all, low, level, base) ==
    LET n == Len(low)
    IN  IF n = 1 THEN [all EXCEPT ![Len(all)].root = TRUE]
        ELSE LET links == [i \in 1..n |-> <<low[i], base + i>>]
                 above == PackLevel(links, level + 1, base + n)
                 runs == Runs(links, NodeCap)
             IN  BuildUp(all \o above, [r \in DOMAIN runs |-> KeyOf(runs[r][1])],
                         level + 1, base + n)

\* build: the pages of an index over a set of entries, the root last.
Build(entries) ==
    LET sorted == SetToSortSeq(entries, Less)
        leaves == PackLevel(sorted, 0, 0)
    IN  BuildUp(leaves, [r \in DOMAIN leaves |->
                            IF sorted = <<>> THEN Infinity ELSE KeyOf(leaves[r].slots[1])],
                0, 0)
=============================================================================
