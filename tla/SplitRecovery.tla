---------------------------- MODULE SplitRecovery ----------------------------
(***************************************************************************)
(* Crash recovery of the B+Tree access method (crates/pg-am-btree): the    *)
(* records a session appends while pages are split, what of them and of    *)
(* the pages is durable at a crash, the redo handlers (redo.rs), the undo  *)
(* handler that finishes the splits whose Commit is missing (undo.rs and   *)
(* the end of index.rs), and a crash of the recovery itself.               *)
(*                                                                         *)
(* One session splits at a time, as the latch on the root makes it, while  *)
(* others insert into and delete from the leaves it has not latched.  A    *)
(* page is in memory and in the data file with the LSN it is stamped with; *)
(* an LSN is a position in the log.  Any page nobody has latched may be    *)
(* written back at any time, after the log up to its LSN.  A crash keeps   *)
(* the data file and a prefix of the log, at least its synced part.        *)
(*                                                                         *)
(* Concurrent descents and latches are the subject of BTree, the buffer    *)
(* pool's own protocol of BufferPool.  Keys are unique here.  A torn page  *)
(* write is left out: the access method documents the windows in which it  *)
(* suppresses a full page image.                                           *)
(***************************************************************************)
EXTENDS BTreePage, TLC

CONSTANTS
    MaxPage,        \* page ids are 1..MaxPage; MaxPage + 1 is the meta page
    Entries,        \* the entries the sessions insert and delete
    Cases           \* the trees to start from, each with its bounds: the entries it was
                    \* bulk loaded with, the numbers of inserts and deletes, checkpoints,
                    \* crashes and write backs

ASSUME RecoveryAssumption ==
    /\ MaxPage \in Nat
    /\ \A c \in Cases : /\ c.bounds \in [{"ops", "ckpts", "crashes", "writes"} -> Nat]
                         /\ Len(Build(c.load)) < MaxPage

VARIABLES
    mem, disk,      \* the pages in the buffer pool and in the data file
    log, synced,
    next,           \* next_page_id
    op,             \* the split in progress
    ckpt,           \* the checkpoint in progress, the redo point and the FPI gate
    rec,            \* recovery: its phase, where it is, the splits to finish
    left,           \* what is left of the bounds
    start,          \* history: the entries the tree was loaded with
    strayed         \* history: a window described with Strays was met

session == <<mem, disk, log, synced, next, op>>
vars == <<session, ckpt, rec, left, start, strayed>>

Pages == 1..MaxPage
Meta == MaxPage + 1

\* A page no record has initialised yet (pd_upper = 0).
Blank == [InitPage(0, FALSE) EXCEPT !.level = -1]
IsBlank(pg) == pg.level = -1
Zeroed == [pg |-> Blank, lsn |-> 0]

NoOp == [pc |-> "none", entry |-> <<>>, path |-> <<>>, splits |-> <<>>, upper |-> <<>>,
         commit |-> 0]
NoCkpt == [begin |-> 0, want |-> <<>>]
Running == [phase |-> "run", pos |-> 0, splits |-> {}, undo |-> <<>>]

\* root_from_meta: the last record of the meta page.
RootIn(m) == LastEntry(m[Meta].pg)[1]
Root == RootIn(mem)
TreeOf(m) == [p \in Pages |-> m[p].pg]

Init ==
    \E c \in Cases :
      LET built == Build(c.load)
          n == Len(built)
          metaRecord == <<n, built[n].level>>
      IN  /\ start = c.load
          /\ mem = [p \in 1..Meta |->
                      IF p <= n THEN [pg |-> built[p], lsn |-> 0]
                      ELSE IF p = Meta
                      THEN [pg |-> InsertEntryAt(InitPage(0, FALSE), 0, metaRecord), lsn |-> 0]
                      ELSE Zeroed]
          /\ disk = mem
          /\ log = <<>> /\ synced = 0
          /\ next = n + 1
          /\ op = NoOp
          /\ ckpt = [now |-> NoCkpt, redo |-> 0, gate |-> 0, next |-> n + 1]
          /\ rec = Running
          /\ left = c.bounds
          /\ strayed = FALSE

-----------------------------------------------------------------------------
(* Appending records and applying them                                     *)

\* A session works on a draft: the pages and the log it will leave behind.
Draft == [m |-> mem, l |-> log]
Lsn(d) == Len(d.l)
Log(d, r) == [d EXCEPT !.l = Append(@, r)]
\* The page becomes pg, stamped with the last record.
Put(d, p, pg) == [d EXCEPT !.m[p] = [pg |-> pg, lsn |-> Lsn(d)]]
Page(d, p) == d.m[p].pg

\* ensure_fpi: the first change of a page in a checkpoint cycle is preceded by
\* its image, which stamps the page; a page the file does not have needs none.
FpiDue(d, p) == ckpt.gate # 0 /\ d.m[p].lsn < ckpt.gate /\ ~IsBlank(disk[p].pg)
FpiRecord(d, p) == [t |-> "fpi", page |-> p, image |-> Page(d, p)]
EnsureFpi(d, p) == IF FpiDue(d, p) THEN Put(Log(d, FpiRecord(d, p)), p, Page(d, p)) ELSE d
\* log_page_init: the image of a page just initialised.
LogPageInit(d, p, pg) == Put(Log(d, [t |-> "fpi", page |-> p, image |-> pg]), p, pg)

AllocPage(d, p) == [Log(d, [t |-> "alloc", page |-> p]) EXCEPT !.m[p] = Zeroed]

\* The records, with what redo needs of each.
InsertRecord(p, slot, pg, entry) ==
    [t |-> "insert", page |-> p, slot |-> slot, level |-> pg.level, root |-> pg.root,
     entry |-> entry]
DeleteRecord(p, slot, entry) == [t |-> "delete", page |-> p, slot |-> slot, entry |-> entry]
PrepareRecord(l, r, pg) ==
    [t |-> "prepare", left |-> l, right |-> r, level |-> pg.level, next |-> pg.next,
     high |-> KeyOf(LastEntry(pg))]
CopyRecord(l, r, at, pre) ==
    [t |-> "copy", left |-> l, right |-> r, start |-> at, pre |-> pre]
CommitRecord(s, slot) ==
    [t |-> "commit", left |-> s.left, right |-> s.right, parent |-> s.parent,
     sep |-> KeyOf(s.first), slot |-> slot]

\* insert_into_page and write_meta_record.
InsertIntoPage(d, p, slot, entry) ==
    Put(Log(d, InsertRecord(p, slot, Page(d, p), entry)),
        p, InsertEntryAt(Page(d, p), slot, entry))

\* split_prepare_on_guards, the right page being reserved already.
SplitPrepare(d, l, r) ==
    LET pg == Page(d, l)
        d1 == Put(Log(d, PrepareRecord(l, r, pg)), r, InitRightPage(pg, l))
    IN  Put(d1, l, ApplyPrepareLeft(pg, r))

\* split_copy_on_guards, up to the flush of the right page.
SplitCopy(d, l, r, at) ==
    LET lp == Page(d, l)
        d1 == Put(Log(d, CopyRecord(l, r, at, d.m[l].lsn)), r, MoveRight(lp, Page(d, r), at))
    IN  Put(d1, l, KeepLeft(lp, at))

\* The draft replaces memory and log.
Install(d) == mem' = d.m /\ log' = d.l

-----------------------------------------------------------------------------
(* Inserts and deletes                                                     *)

RECURSIVE PathTo(_, _)
PathTo(p, key) ==
    IF mem[p].pg.level = 0 THEN <<p>>
    ELSE <<p>> \o PathTo(FindChild(mem[p].pg, key), key)

\* The hop right of the descent: the sibling starts at or below the entry.
RECURSIVE HopRight(_, _)
HopRight(p, entry) ==
    LET nx == mem[p].pg.next
    IN  IF nx = NoPage THEN p
        ELSE IF IsEmpty(mem[nx].pg) \/ Less(entry, FirstEntry(mem[nx].pg)) THEN p
        ELSE HopRight(nx, entry)

Leaf(entry) == HopRight(Last(PathTo(Root, KeyOf(entry))), entry)

\* The pages the splitting session has latched.
Latched ==
    ToSet(op.path) \cup
    (IF op.pc \in {"copied", "flushUp"} THEN {Head(op.splits).left, Head(op.splits).right}
     ELSE {}) \cup
    (IF op.pc \in {"touch", "append"} /\ Head(op.splits).parent # Head(op.splits).newRoot
     THEN {Head(op.splits).parent} ELSE {})

InRun == rec.phase = "run"
Spend(what) == left[what] > 0 /\ left' = [left EXCEPT ![what] = @ - 1]

\* The optimistic insert: the leaf has room.  The image of a SPLIT_INCOMPLETE
\* page is suppressed.
TouchLeaf(p) == IF mem[p].pg.incomplete THEN Draft ELSE EnsureFpi(Draft, p)

Insert(e) ==
    /\ InRun /\ Spend("ops")
    /\ LET p == Leaf(e) IN
         /\ p \notin Latched /\ Fits(mem[p].pg) /\ ~IsDuplicate(mem[p].pg, e)
         /\ Install(InsertIntoPage(TouchLeaf(p), p, LowerBound(mem[p].pg, e), e))
    /\ UNCHANGED <<disk, synced, next, op, ckpt, rec, start, strayed>>

Delete(e) ==
    /\ InRun /\ Spend("ops")
    /\ LET p == Leaf(e)
           slot == LowerBound(mem[p].pg, e)
           d == Log(TouchLeaf(p), DeleteRecord(p, slot, e))
       IN  /\ p \notin Latched /\ IsDuplicate(mem[p].pg, e)
           /\ Install(Put(d, p, RemoveEntryAt(mem[p].pg, slot)))
    /\ UNCHANGED <<disk, synced, next, op, ckpt, rec, start, strayed>>

-----------------------------------------------------------------------------
(* insert_pessimistic: Prepare and Copy, the pending entry, the Commit     *)

\* Prepare and Copy of a latched page, without the flush of its right twin.
CutPage(d, l, r, pending) ==
    SplitCopy(SplitPrepare(AllocPage(d, r), l, r), l, r, ChooseSplitSlot(Page(d, l), pending))
Cut(d, l, r, pending) ==
    [left |-> l, right |-> r, level |-> Page(d, l).level, parent |-> NoPage, newRoot |-> NoPage,
     first |-> Page(d, l).slots[ChooseSplitSlot(Page(d, l), pending) + 1]]
Downlink(s) == <<KeyOf(s.first), s.right>>

\* The write descent latches the path and logs the images due, root first.  An
\* entry left of every entry of the leaf, where there is a leaf to the left, is
\* not carried into the split: BTree has that case.
SplitLeaf(e) ==
    /\ InRun /\ op = NoOp /\ Spend("ops") /\ next <= MaxPage
    /\ LET path == PathTo(Root, KeyOf(e))
           l == Leaf(e)
           lp == mem[l].pg
           d == FoldLeft(EnsureFpi, Draft, path)
       IN  /\ l = Last(path) /\ ~Fits(lp) /\ Len(lp.slots) > 1 /\ ~IsDuplicate(lp, e)
           /\ ~lp.incomplete /\ (LowerBound(lp, e) > 0 \/ lp.prev = NoPage)
           /\ Install(CutPage(d, l, next, e))
           /\ op' = [NoOp EXCEPT !.pc = "copied", !.entry = e, !.path = Front(path),
                                 !.splits = <<Cut(d, l, next, e)>>]
    /\ next' = next + 1
    /\ UNCHANGED <<disk, synced, ckpt, rec, start, strayed>>

WriteBack(p) ==
    /\ disk' = [disk EXCEPT ![p] = mem[p]]
    /\ synced' = Max({synced, mem[p].lsn})

\* Mutant: the right page is not flushed.
PlacePendingUnflushed ==
    /\ InRun /\ op.pc = "copied"
    /\ LET s == Head(op.splits)
           goesLeft == Less(op.entry, FirstEntry(mem[s.right].pg))
           p == IF goesLeft THEN s.left ELSE s.right
       IN  Install(InsertIntoPage(Draft, p, LowerBound(mem[p].pg, op.entry), op.entry))
    /\ op' = [op EXCEPT !.pc = "commit"]
    /\ UNCHANGED <<disk, synced, next, ckpt, rec, left, start, strayed>>

\* The right page is flushed, the pending entry goes to the half it sorts into
\* and the leaf is released.
PlacePending ==
    /\ InRun /\ op.pc = "copied"
    /\ LET s == Head(op.splits)
           goesLeft == Less(op.entry, FirstEntry(mem[s.right].pg))
           p == IF goesLeft THEN s.left ELSE s.right
           d == IF goesLeft THEN Draft ELSE EnsureFpi(Draft, p)
       IN  /\ WriteBack(s.right)
           /\ Install(InsertIntoPage(d, p, LowerBound(mem[p].pg, op.entry), op.entry))
    /\ op' = [op EXCEPT !.pc = "commit"]
    /\ UNCHANGED <<next, ckpt, rec, left, start, strayed>>

\* create_new_root: the root is initialised, seeded and published.
CreateNewRoot ==
    /\ InRun /\ op.pc = "commit" /\ op.path = <<>> /\ next <= MaxPage
    /\ LET s == Head(op.splits)
           d == LogPageInit(AllocPage(Draft, next), next, InitPage(s.level + 1, TRUE))
           d1 == EnsureFpi(InsertIntoPage(d, next, 0, <<Infinity, s.left>>), Meta)
       IN  /\ Root = s.left
           /\ Install(InsertIntoPage(d1, Meta, Len(mem[Meta].pg.slots), <<next, s.level + 1>>))
           /\ op' = [op EXCEPT !.pc = "touch", !.splits[1].parent = next,
                               !.splits[1].newRoot = next]
    /\ next' = next + 1
    /\ UNCHANGED <<disk, synced, ckpt, rec, left, start, strayed>>

\* The parent has room, or is split before the downlink is inserted.
CommitToParent ==
    /\ InRun /\ op.pc = "commit" /\ op.path # <<>>
    /\ Fits(mem[Last(op.path)].pg)
    /\ op' = [op EXCEPT !.pc = "touch", !.splits[1].parent = Last(op.path),
                        !.path = Front(op.path)]
    /\ UNCHANGED <<mem, disk, log, synced, next, ckpt, rec, left, start, strayed>>

SplitParent ==
    /\ InRun /\ op.pc = "commit" /\ op.path # <<>> /\ next <= MaxPage
    /\ LET p == Last(op.path)
           downlink == Downlink(Head(op.splits))
       IN  /\ ~Fits(mem[p].pg)
           /\ Install(CutPage(Draft, p, next, downlink))
           /\ op' = [op EXCEPT !.pc = "flushUp", !.path = Front(@),
                               !.splits = <<Cut(Draft, p, next, downlink)>> \o @]
    /\ next' = next + 1
    /\ UNCHANGED <<disk, synced, ckpt, rec, left, start, strayed>>

FlushUp ==
    /\ InRun /\ op.pc = "flushUp"
    /\ WriteBack(Head(op.splits).right)
    /\ op' = [op EXCEPT !.pc = "commit"]
    /\ UNCHANGED <<mem, log, next, ckpt, rec, left, start, strayed>>

\* The half of a split parent that a downlink sorts into.
Half(s, upper) == IF Less(Downlink(s), upper.first) THEN upper.left ELSE upper.right

LatchHalf ==
    /\ InRun /\ op.pc = "half"
    /\ LET target == Half(Head(op.splits), op.upper)
       IN  /\ Install(EnsureFpi(Draft, target))
           /\ op' = [op EXCEPT !.pc = "touch", !.splits[1].parent = target, !.upper = <<>>]
    /\ UNCHANGED <<disk, synced, next, ckpt, rec, left, start, strayed>>

\* The images of the pages the Commit changes come before its record.
PreTouch ==
    /\ InRun /\ op.pc = "touch"
    /\ LET s == Head(op.splits)
           d == IF s.newRoot # NoPage THEN EnsureFpi(Draft, s.newRoot) ELSE Draft
       IN  Install(EnsureFpi(d, s.left))
    /\ op' = [op EXCEPT !.pc = "append"]
    /\ UNCHANGED <<disk, synced, next, ckpt, rec, left, start, strayed>>

\* The record is appended and the downlink inserted.  A new root is not latched:
\* it gets the downlink in a step of its own.
AppendCommit ==
    /\ InRun /\ op.pc = "append"
    /\ LET s == Head(op.splits)
           pg == mem[s.parent].pg
           slot == IF s.newRoot # NoPage THEN 1 ELSE LowerBound(pg, Downlink(s))
           d == Log(Draft, CommitRecord(s, slot))
       IN  /\ Install(IF s.newRoot # NoPage THEN d
                      ELSE Put(d, s.parent, InsertEntryAt(pg, slot, Downlink(s))))
           /\ op' = [op EXCEPT !.pc = IF s.newRoot # NoPage THEN "link" ELSE "clear",
                               !.commit = Lsn(d)]
    /\ UNCHANGED <<disk, synced, next, ckpt, rec, left, start, strayed>>

\* stamp_pd_lsn: never back.
Stamped(m, p, pg, lsn) == [m EXCEPT ![p] = [pg |-> pg, lsn |-> Max({lsn, m[p].lsn})]]

LinkRoot ==
    /\ InRun /\ op.pc = "link"
    /\ LET s == Head(op.splits)
       IN  mem' = Stamped(mem, s.parent, InsertEntryAt(mem[s.parent].pg, 1, Downlink(s)),
                          op.commit)
    /\ op' = [op EXCEPT !.pc = "clear"]
    /\ UNCHANGED <<disk, log, synced, next, ckpt, rec, left, start, strayed>>

\* The left page is latched again for its flags.  The split below, if this one
\* was for its downlink, goes on.
ClearLeft ==
    /\ InRun /\ op.pc = "clear"
    /\ LET s == Head(op.splits)
           rest == Tail(op.splits)
       IN  /\ mem' = Stamped(mem, s.left, ApplyCommitLeft(mem[s.left].pg), op.commit)
           /\ op' = IF rest = <<>> THEN NoOp
                    ELSE [op EXCEPT !.pc = "half", !.splits = rest, !.upper = s, !.commit = 0]
    /\ UNCHANGED <<disk, log, synced, next, ckpt, rec, left, start, strayed>>

SplitStep ==
    \/ PlacePending \/ CreateNewRoot \/ CommitToParent \/ SplitParent \/ FlushUp
    \/ LatchHalf \/ PreTouch \/ AppendCommit \/ LinkRoot \/ ClearLeft

-----------------------------------------------------------------------------
(* Write backs, checkpoints and crashes                                    *)

\* Two windows of the Commit.  While its record is in the log and the left page,
\* or the new root, has yet to get it, the page is not latched: it may be written
\* back with the LSN of a later change, and a checkpoint may begin.
\* And between the meta record of a new root and the Commit the tree has a root
\* whose old root is still flagged ROOT.
CommitPending == op.pc \in {"link", "clear"}
PendingPages == {Head(op.splits).left, Head(op.splits).parent}
StrayWrite(p) == CommitPending /\ p \in PendingPages /\ mem[p].lsn > op.commit
RootUncommitted(l) ==
    \E i \in DOMAIN l :
        /\ l[i].t = "insert" /\ l[i].page = Meta
        /\ \A j \in (i + 1)..Len(l) : ~(l[j].t = "commit" /\ l[j].parent = l[i].entry[1])

\* An eviction, or any other flush of a page.
WritePage(p) ==
    /\ rec.phase # "failed" /\ Spend("writes")
    /\ p \notin Latched /\ mem[p] # disk[p]
    /\ WriteBack(p)
    /\ strayed' = (strayed \/ StrayWrite(p))
    /\ UNCHANGED <<mem, log, next, op, ckpt, rec, start>>

CkptBegin ==
    /\ InRun /\ ckpt.now = NoCkpt /\ Spend("ckpts")
    /\ log' = Append(log, [t |-> "begin"])
    /\ ckpt' = [ckpt EXCEPT !.gate = Len(log'),
                            !.now = [begin |-> Len(log'), want |-> [p \in 1..Meta |-> mem[p].lsn]]]
    /\ strayed' = (strayed \/ CommitPending)
    /\ UNCHANGED <<mem, disk, synced, next, op, rec, start>>

\* Every page dirty at the begin is flushed, as it is by now; a latched page is
\* waited for.  CheckpointEnd is durable, the superblock has the redo point.
CkptEnd ==
    /\ InRun /\ ckpt.now # NoCkpt
    /\ LET due == {p \in 1..Meta : disk[p].lsn < ckpt.now.want[p]}
       IN  /\ due \cap Latched = {}
           /\ disk' = [p \in 1..Meta |-> IF p \in due THEN mem[p] ELSE disk[p]]
           /\ strayed' = (strayed \/ \E p \in due : StrayWrite(p))
    /\ synced' = Len(log)
    /\ ckpt' = [ckpt EXCEPT !.now = NoCkpt, !.redo = ckpt.now.begin, !.next = next]
    /\ UNCHANGED <<mem, log, next, op, rec, left, start>>

\* The superblock's redo point and allocator state; no image is logged before
\* recovery is complete.
Crash ==
    /\ rec.phase # "failed" /\ Spend("crashes")
    /\ \E n \in synced..Len(log) :
         /\ log' = SubSeq(log, 1, n) /\ synced' = n
         /\ strayed' = (strayed \/ RootUncommitted(log'))
    /\ mem' = disk
    /\ next' = ckpt.next
    /\ op' = NoOp
    /\ ckpt' = [ckpt EXCEPT !.now = NoCkpt, !.gate = 0]
    /\ rec' = [Running EXCEPT !.phase = "redo", !.pos = Max({1, ckpt.redo})]
    /\ UNCHANGED <<disk, start>>

-----------------------------------------------------------------------------
(* Redo: one handler per record type.  A page at or past the record's LSN  *)
(* is left alone.                                                          *)

Behind(m, p, lsn) == m[p].lsn < lsn
Fresh(pg, level, root) == IF IsBlank(pg) THEN InitPage(level, root) ELSE pg
Room(p, pg) == p = Meta \/ Fits(pg)

InsertOk(m, r, lsn) ==
    LET pg == Fresh(m[r.page].pg, r.level, r.root)
    IN  Behind(m, r.page, lsn) => r.slot <= Len(pg.slots) /\ Room(r.page, pg)
RedoInsert(m, r, lsn) ==
    IF ~Behind(m, r.page, lsn) THEN m
    ELSE Stamped(m, r.page,
                 InsertEntryAt(Fresh(m[r.page].pg, r.level, r.root), r.slot, r.entry), lsn)

DeleteOk(m, r, lsn) == Behind(m, r.page, lsn) => r.slot < Len(m[r.page].pg.slots)
RedoDelete(m, r, lsn) ==
    IF ~Behind(m, r.page, lsn) THEN m
    ELSE Stamped(m, r.page, RemoveEntryAt(m[r.page].pg, r.slot), lsn)

\* The last key of the left page must be the one recorded.
PrepareOk(m, r, lsn) ==
    LET pg == m[r.left].pg
    IN  Behind(m, r.left, lsn) => (IsEmpty(pg) \/ KeyOf(LastEntry(pg)) = r.high)
RedoPrepare(m, r, lsn) ==
    LET m1 == IF Behind(m, r.right, lsn)
              THEN Stamped(m, r.right,
                           InitRightPage([level |-> r.level, next |-> r.next], r.left), lsn)
              ELSE m
    IN  IF Behind(m1, r.left, lsn)
        THEN Stamped(m1, r.left,
                     ApplyPrepareLeft(Fresh(m1[r.left].pg, r.level, FALSE), r.right), lsn)
        ELSE m1

\* The left page is the image the copy was made from, or past the copy; with the
\* right page past the copy an older left page is only cut.
CopyOk(m, r, lsn) ==
    \/ m[r.left].lsn = r.pre
    \/ m[r.right].lsn >= lsn
CopyApplied(m, r, lsn) == m[r.left].lsn # r.pre /\ m[r.left].lsn >= lsn
RedoCopy(m, r, lsn) ==
    LET lp == m[r.left].pg
        m1 == IF Behind(m, r.right, lsn)
              THEN Stamped(m, r.right, MoveRight(lp, m[r.right].pg, r.start), lsn)
              ELSE m
    IN  IF CopyApplied(m, r, lsn) THEN m ELSE Stamped(m1, r.left, KeepLeft(lp, r.start), lsn)

CommitOk(m, r, lsn) ==
    /\ Behind(m, r.parent, lsn) => ~IsBlank(m[r.parent].pg) /\ Fits(m[r.parent].pg)
    /\ Behind(m, r.left, lsn) => ~IsBlank(m[r.left].pg)
RedoCommit(m, r, lsn) ==
    LET m1 == IF Behind(m, r.parent, lsn)
              THEN Stamped(m, r.parent,
                           InsertEntryAt(m[r.parent].pg, r.slot, <<r.sep, r.right>>), lsn)
              ELSE m
    IN  IF Behind(m1, r.left, lsn)
        THEN Stamped(m1, r.left, ApplyCommitLeft(m1[r.left].pg), lsn)
        ELSE m1

\* apply_split_clr.  The plan follows from what the right page holds.
ClrIsUnlink(c) == c.parent = NoPage /\ c.newRoot = NoPage
ClrOk(m, c, lsn) ==
    LET lp == m[c.left].pg
        rp == m[c.right].pg
    IN  \/ ClrIsUnlink(c)
        \/ Behind(m, c.left, lsn) /\ ~IsEmpty(rp)
           /\ (IsEmpty(lp) \/ LowerBound(lp, FirstEntry(rp)) > 0)
        \/ Behind(m, c.left, lsn) /\ NeverHadEntries(rp) /\ c.start <= Len(lp.slots)
        \/ ~Behind(m, c.left, lsn) /\ ~NeverHadEntries(rp)

ClrLeft(lp, rp, c) ==
    LET cut == IF IsEmpty(rp) THEN c.start ELSE LowerBound(lp, FirstEntry(rp))
        kept == IF IsEmpty(lp) THEN lp ELSE KeepLeft(lp, cut)
    IN  IF ClrIsUnlink(c) THEN [lp EXCEPT !.next = rp.next, !.incomplete = FALSE]
        ELSE ApplyCommitLeft([kept EXCEPT !.next = c.right])
\* Mutant: the entries are moved whether the copy was made or not.
ClrRightAgain(lp, rp, c) ==
    IF ~ClrIsUnlink(c) THEN MoveRight(lp, rp, c.start) ELSE rp

ClrRight(lp, rp, c) ==
    IF ~ClrIsUnlink(c) /\ IsEmpty(rp) THEN MoveRight(lp, rp, c.start) ELSE rp

ApplyClrPair(m, c, lsn) ==
    LET lp == m[c.left].pg
        rp == m[c.right].pg
    IN  IF ~Behind(m, c.left, lsn) THEN m
        ELSE Stamped(Stamped(m, c.right, ClrRight(lp, rp, c), lsn),
                     c.left, ClrLeft(lp, rp, c), lsn)

\* The downlink, in the parent or in a new root, and the meta record.
NewRootPage(c) ==
    InsertEntryAt(InsertEntryAt(InitPage(c.level + 1, TRUE), 0, <<Infinity, c.left>>),
                  1, <<c.sep, c.right>>)
ApplyClrUp(m, c, lsn) ==
    LET Unless(p, pg, m0) == IF p # NoPage /\ Behind(m0, p, lsn) THEN Stamped(m0, p, pg, lsn)
                             ELSE m0
        m1 == Unless(c.newRoot, NewRootPage(c), m)
        m2 == IF c.parent = NoPage THEN m1
              ELSE Unless(c.parent, InsertEntryAt(m1[c.parent].pg, c.slot, <<c.sep, c.right>>), m1)
        metaPage == m2[Meta].pg
    IN  IF c.newRoot = NoPage THEN m2
        ELSE Unless(Meta, InsertEntryAt(metaPage, Len(metaPage.slots),
                                        <<c.newRoot, c.level + 1>>), m2)

RedoOk(m, r, lsn) ==
    CASE r.t = "insert" -> InsertOk(m, r, lsn)
      [] r.t = "delete" -> DeleteOk(m, r, lsn)
      [] r.t = "prepare" -> PrepareOk(m, r, lsn)
      [] r.t = "copy" -> CopyOk(m, r, lsn)
      [] r.t = "commit" -> CommitOk(m, r, lsn)
      [] r.t = "clr" -> ClrOk(m, r, lsn)
      [] OTHER -> TRUE

\* An image is restored whatever the page's LSN is.
Redone(m, r, lsn) ==
    CASE r.t = "insert" -> RedoInsert(m, r, lsn)
      [] r.t = "delete" -> RedoDelete(m, r, lsn)
      [] r.t = "prepare" -> RedoPrepare(m, r, lsn)
      [] r.t = "copy" -> RedoCopy(m, r, lsn)
      [] r.t = "commit" -> RedoCommit(m, r, lsn)
      [] r.t = "clr" -> ApplyClrUp(ApplyClrPair(m, r, lsn), r, lsn)
      [] r.t = "fpi" -> [m EXCEPT ![r.page] = [pg |-> r.image, lsn |-> lsn]]
      [] OTHER -> m

\* IncompleteSplitTracker: mark_prepare, mark_copy, clear.
Unknown == -1
Tracked(splits, r) ==
    LET others == {s \in splits : s.left # r.left}
        found == splits \ others
    IN  CASE r.t = "prepare" ->
               others \cup {[left |-> r.left, right |-> r.right, level |-> r.level,
                             start |-> Unknown]}
          [] r.t = "copy" -> others \cup {[s EXCEPT !.start = r.start] : s \in found}
          [] r.t \in {"commit", "clr"} -> others
          [] OTHER -> splits

Fail == /\ rec' = [rec EXCEPT !.phase = "failed"]
        /\ UNCHANGED <<mem, disk, log, synced, next>>

\* Copy and CLR flush their right page before the left one can be written.
RedoStep ==
    /\ rec.phase = "redo" /\ rec.pos <= Len(log)
    /\ LET lsn == rec.pos
           r == log[lsn]
       IN  IF ~RedoOk(mem, r, lsn) THEN Fail
           ELSE /\ mem' = Redone(mem, r, lsn)
                /\ disk' = IF \/ r.t = "copy" /\ mem[r.left].lsn = r.pre
                              \/ r.t = "clr"
                           THEN [disk EXCEPT ![r.right] = mem'[r.right]] ELSE disk
                /\ next' = IF r.t = "alloc" THEN Max({next, r.page + 1}) ELSE next
                /\ rec' = [rec EXCEPT !.pos = @ + 1, !.splits = Tracked(@, r)]
                /\ UNCHANGED <<log, synced>>
    /\ UNCHANGED <<op, ckpt, left, start, strayed>>

\* Mutant: only the splits whose Prepare redo saw are finished.
ScannedNone(m, known) == {}

\* replay_wal flushes every page; the undo handler adds the flagged pages redo
\* saw no Prepare of.
Scanned(m, known) ==
    {[left |-> p, right |-> m[p].pg.next, level |-> m[p].pg.level, start |-> Unknown] :
        p \in {q \in 1..(next - 1) : /\ ~IsBlank(m[q].pg) /\ m[q].pg.incomplete
                                     /\ q \notin {s.left : s \in known}}}
RedoDone ==
    /\ rec.phase = "redo" /\ rec.pos > Len(log)
    /\ disk' = mem
    /\ rec' = [rec EXCEPT !.phase = "undo", !.splits = @ \cup Scanned(mem, @)]
    /\ UNCHANGED <<mem, log, synced, next, op, ckpt, left, start, strayed>>

-----------------------------------------------------------------------------
(* Undo: BTreeUndoHandler::undo and finish_incomplete_split.               *)

InUndo == rec.phase = "undo"

\* A split being finished: pc is "plan", "apply", "link" or "write".
Frame(s) == [pc |-> "plan", left |-> s.left, right |-> s.right, level |-> s.level,
             start |-> s.start, target |-> NoPage, first |-> <<>>, lsn |-> 0, writes |-> <<>>]
Top == Head(rec.undo)
Undoing(pc) == InUndo /\ rec.undo # <<>> /\ Top.pc = pc

\* Mutant: lower levels first.
NextSplitLeafFirst ==
    CHOOSE s \in rec.splits : \A o \in rec.splits :
        s.level < o.level \/ (s.level = o.level /\ s.left <= o.left)

\* Higher levels first, then lower page ids.
NextSplit ==
    CHOOSE s \in rec.splits : \A o \in rec.splits :
        s.level > o.level \/ (s.level = o.level /\ s.left <= o.left)

UndoSplit ==
    /\ InUndo /\ rec.undo = <<>> /\ rec.splits # {}
    /\ LET s == NextSplit
           at == IF s.start # Unknown THEN s.start ELSE ChooseSplitSlot(mem[s.left].pg, <<>>)
       IN  rec' = [rec EXCEPT !.splits = @ \ {s}, !.undo = <<Frame([s EXCEPT !.start = at])>>]
    /\ UNCHANGED <<mem, disk, log, synced, next, op, ckpt, left, start, strayed>>

\* SplitFinishPlan: NoMove, Move, Unlink.
MustUnlink(f) == IsEmpty(mem[f.right].pg) /\ ~NeverHadEntries(mem[f.right].pg)
PlanOk(f) == NeverHadEntries(mem[f.right].pg) => f.start < Len(mem[f.left].pg.slots)
Separator(f) ==
    KeyOf(IF IsEmpty(mem[f.right].pg) THEN mem[f.left].pg.slots[f.start + 1]
          ELSE FirstEntry(mem[f.right].pg))

\* find_parent_page: the first page of the level above with a downlink.
Parents(f) ==
    {p \in 1..(next - 1) : mem[p].pg.level = f.level + 1 /\ PointsAt(mem[p].pg, f.left)}

\* emit_and_apply_clr: images of the pages as they are, then the CLR.
Clr(f, parent, newRoot) ==
    [t |-> "clr", left |-> f.left, right |-> f.right, level |-> f.level, start |-> f.start,
     parent |-> parent, newRoot |-> newRoot,
     sep |-> IF MustUnlink(f) THEN Infinity ELSE Separator(f),
     slot |-> IF parent = NoPage THEN 1
              ELSE LowerBound(mem[parent].pg, <<Separator(f), f.right>>)]
Touched(c) ==
    SelectSeq(<<c.left, c.right, c.parent, c.newRoot,
                IF c.newRoot = NoPage THEN NoPage ELSE Meta>>, LAMBDA p : p # NoPage)
LogImage(d, p) == Log(d, FpiRecord(d, p))
EmitClr(d, f, parent, newRoot) ==
    LET c == Clr(f, parent, newRoot)
        d1 == Log(FoldLeft(LogImage, d, Touched(c)), c)
    IN  /\ Install(d1)
        /\ rec' = [rec EXCEPT !.undo[1].pc = "apply", !.undo[1].lsn = Lsn(d1),
                              !.undo[1].writes = <<c.newRoot, c.parent,
                                                   IF newRoot = NoPage THEN NoPage ELSE Meta,
                                                   c.left>>]

UndoUnlink ==
    /\ Undoing("plan") /\ MustUnlink(Top)
    /\ EmitClr(Draft, Top, NoPage, NoPage)
    /\ UNCHANGED <<disk, synced, next, op, ckpt, left, start, strayed>>

\* A root split: the new root is allocated and the meta page must name the old one.
UndoRoot ==
    /\ Undoing("plan") /\ ~MustUnlink(Top) /\ mem[Top.left].pg.root
    /\ next <= MaxPage
    /\ IF PlanOk(Top) /\ Root = Top.left
       THEN /\ EmitClr(AllocPage(Draft, next), Top, NoPage, next)
            /\ next' = next + 1
            /\ UNCHANGED <<disk, synced>>
       ELSE Fail
    /\ UNCHANGED <<op, ckpt, left, start, strayed>>

UndoParent ==
    /\ Undoing("plan") /\ ~MustUnlink(Top) /\ ~mem[Top.left].pg.root
    /\ LET p == IF Top.target # NoPage THEN Top.target ELSE Min(Parents(Top))
       IN  IF ~PlanOk(Top) \/ (Top.target = NoPage /\ Parents(Top) = {}) THEN Fail
           ELSE /\ Fits(mem[p].pg)
                /\ EmitClr(Draft, Top, p, NoPage)
                /\ UNCHANGED <<disk, synced, next>>
    /\ UNCHANGED <<op, ckpt, left, start, strayed>>

\* split_page_in_undo: a full parent is split first, with a CLR of its own.
UndoCascade ==
    /\ Undoing("plan") /\ ~MustUnlink(Top) /\ ~mem[Top.left].pg.root
    /\ PlanOk(Top) /\ Parents(Top) # {} /\ Top.target = NoPage /\ next <= MaxPage
    /\ LET p == Min(Parents(Top))
           pg == mem[p].pg
           at == ChooseSplitSlot(pg, <<Separator(Top), Top.right>>)
           f == [left |-> p, right |-> next, level |-> pg.level, start |-> at]
       IN  /\ ~Fits(pg)
           /\ IF pg.incomplete THEN Fail
              ELSE /\ Install(LogPageInit(AllocPage(Draft, next), next, InitRightPage(pg, p)))
                   /\ next' = next + 1
                   /\ rec' = [rec EXCEPT !.undo =
                                <<[Frame(f) EXCEPT !.first = pg.slots[at + 1]]>> \o @]
                   /\ UNCHANGED <<disk, synced>>
    /\ UNCHANGED <<op, ckpt, left, start, strayed>>

\* The log is flushed, the pair changed and its right page written; then the
\* pages above.
UndoApply ==
    /\ Undoing("apply")
    /\ IF ~ClrOk(mem, log[Top.lsn], Top.lsn) THEN Fail
       ELSE /\ mem' = ApplyClrPair(mem, log[Top.lsn], Top.lsn)
            /\ disk' = [disk EXCEPT ![Top.right] = mem'[Top.right]]
            /\ synced' = Len(log)
            /\ rec' = [rec EXCEPT !.undo[1].pc = "link"]
            /\ UNCHANGED <<log, next>>
    /\ UNCHANGED <<op, ckpt, left, start, strayed>>

UndoLink ==
    /\ Undoing("link")
    /\ mem' = ApplyClrUp(mem, log[Top.lsn], Top.lsn)
    /\ rec' = [rec EXCEPT !.undo[1].pc = "write"]
    /\ UNCHANGED <<disk, log, synced, next, op, ckpt, left, start, strayed>>

\* New root, parent, meta page, left page: written in this order.
UndoWrite ==
    /\ Undoing("write") /\ Top.writes # <<>>
    /\ LET p == Head(Top.writes)
       IN  disk' = IF p = NoPage THEN disk ELSE [disk EXCEPT ![p] = mem[p]]
    /\ rec' = [rec EXCEPT !.undo[1].writes = Tail(@)]
    /\ UNCHANGED <<mem, log, synced, next, op, ckpt, left, start, strayed>>

\* A cascade level is complete: the split it was for takes its half.
UndoNext ==
    /\ Undoing("write") /\ Top.writes = <<>>
    /\ LET below == Tail(rec.undo)
           downlink == <<Separator(Head(below)), Head(below).right>>
           half == IF Less(downlink, Top.first) THEN Top.left ELSE Top.right
       IN  rec' = [rec EXCEPT !.undo = IF below = <<>> THEN <<>>
                                       ELSE [below EXCEPT ![1].target = half]]
    /\ UNCHANGED <<mem, disk, log, synced, next, op, ckpt, left, start, strayed>>

\* The rest is flushed and images are logged again.
UndoDone ==
    /\ InUndo /\ rec.undo = <<>> /\ rec.splits = {}
    /\ disk' = mem
    /\ synced' = Len(log)
    /\ ckpt' = [ckpt EXCEPT !.gate = ckpt.redo]
    /\ rec' = Running
    /\ UNCHANGED <<mem, log, next, op, left, start, strayed>>

Recovery ==
    \/ RedoStep \/ RedoDone \/ UndoSplit \/ UndoUnlink \/ UndoRoot \/ UndoParent
    \/ UndoCascade \/ UndoApply \/ UndoLink \/ UndoWrite \/ UndoNext \/ UndoDone

Next ==
    \/ \E e \in Entries : Insert(e) \/ Delete(e) \/ SplitLeaf(e)
    \/ SplitStep
    \/ \E p \in 1..Meta : WritePage(p)
    \/ CkptBegin \/ CkptEnd \/ Crash
    \/ Recovery

Spec == Init /\ [][Next]_vars

-----------------------------------------------------------------------------
(* Properties                                                              *)

\* What the records of the log make of the entries the tree was loaded with.
Applied(entries, r) ==
    CASE r.t = "insert" /\ r.page # Meta /\ r.level = 0 -> entries \cup {r.entry}
      [] r.t = "delete" -> entries \ {r.entry}
      [] OTHER -> entries
Logged == FoldLeft(Applied, start, log)

TreeEntries == ToSet(EntriesOf(TreeOf(mem), Chain(TreeOf(mem), Root)))

\* Recovery always completes: whatever was durable at the crash, no handler of
\* redo or undo meets a page it has to refuse.
RecoveryCompletes == rec.phase # "failed"

\* The same, and the two properties below, apart from the windows of the Commit
\* that `strayed' records.
RecoveryCompletesApart == strayed \/ RecoveryCompletes

\* Every entry whose record survived is in the leaf chain, once, and no other:
\* inserts before, between and after the steps of a split that was cut off, and
\* the deletes of what the split moved.
NothingLostApart ==
    rec.phase = "run" =>
        strayed \/ (/\ TreeEntries = Logged
                    /\ StrictlySorted(EntriesOf(TreeOf(mem), Chain(TreeOf(mem), Root))))

\* With no split in progress, online or after a recovery, the tree passes its
\* own validation: every leaf is reached by a downlink and no page is flagged.
TreeWholeApart ==
    rec.phase = "run" /\ op = NoOp => strayed \/ Validate(TreeOf(mem), Root)

\* Both: between operations the tree holds what was logged and passes its validation.
\* (finish_incomplete_split, abort_incomplete_split, redo of the split records)
TreeSurvivesApart == NothingLostApart /\ TreeWholeApart

\* The right page's post-copy image is always durable before the left page's.
RightPageFirst ==
    \A i \in DOMAIN log :
        /\ log[i].t = "copy" /\ disk[log[i].left].lsn >= i
        => disk[log[i].right].lsn >= i

=============================================================================
