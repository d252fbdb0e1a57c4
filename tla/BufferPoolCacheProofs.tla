------------------------- MODULE BufferPoolCacheProofs -------------------------
(***************************************************************************)
(* The pins of a frame are the threads that hold it, so the frame of an    *)
(* eviction is in nobody's hands; and with that, the promises of the cache *)
(* as theorems about the whole specification.                              *)
(***************************************************************************)
EXTENDS BufferPoolCacheSteps, FiniteSetTheorems

----------------------------------------------------------------------------
(* Pins                                                                    *)

\* The pin count of a frame is the number of the threads that hold it; the frame
\* that an evictor has marked is held by none, and there is one evictor at a time.
Pinners(f) == {t \in Threads : thread[t].pc \in Holding /\ thread[t].frame = f}
PinsInv ==
    /\ \A f \in Frames : meta[f].pins = Cardinality(Pinners(f))
    /\ \A t \in Threads : thread[t].pc = "evict" => allocLock = t
    /\ \A t \in Threads, f \in Frames : thread[t].pc = "evict" /\ thread[t].frame = f =>
         meta[f].evicting /\ Pinners(f) = {}

LEMMA PinsInvApart == ASSUME PoolInv, PinsInv PROVE HoldersApart
<1>1. \A t \in Threads : thread[t].pc = "evict" => Pinners(thread[t].frame) = {}
  BY Zenon DEF PinsInv, PoolInv, TargetsExist
<1> QED
  BY Zenon, <1>1 DEF HoldersApart, Pinners

LEMMA PinnersFinite ==
    ASSUME NEW f
    PROVE  /\ IsFiniteSet(Pinners(f)) /\ Cardinality(Pinners(f)) \in Nat
           /\ Cardinality(Pinners(f)) = 0 <=> Pinners(f) = {}
<1>1. Pinners(f) \in SUBSET Threads /\ IsFiniteSet(Threads)
  BY Zenon, PoolAssumption DEF Pinners
<1>2. IsFiniteSet(Pinners(f))
  BY Zenon, <1>1, FS_Subset
<1> QED
  BY Zenon, <1>2, FS_CardinalityType, FS_EmptySet

\* A thread that begins to hold a frame, or lets it go, is counted.
LEMMA PinnersJoin ==
    ASSUME NEW t \in Threads, Moves(t), thread[t].pc \notin Holding, thread'[t].pc \in Holding,
           NEW f
    PROVE  /\ f = thread'[t].frame => Pinners(f)' = Pinners(f) \cup {t} /\ t \notin Pinners(f)
           /\ f # thread'[t].frame => Pinners(f)' = Pinners(f)
BY Zenon DEF Pinners, Moves

LEMMA PinnersLeave ==
    ASSUME NEW t \in Threads, Moves(t), thread[t].pc \in Holding, thread'[t].pc \notin Holding,
           NEW f
    PROVE  /\ f = thread[t].frame => Pinners(f)' = Pinners(f) \ {t} /\ t \in Pinners(f)
           /\ f # thread[t].frame => Pinners(f)' = Pinners(f)
BY Zenon DEF Pinners, Moves

LEMMA PinnersStay ==
    ASSUME \A u \in Threads : /\ thread'[u].pc \in Holding <=> thread[u].pc \in Holding
                              /\ thread[u].pc \in Holding => thread'[u].frame = thread[u].frame,
           NEW f
    PROVE  Pinners(f)' = Pinners(f)
BY Zenon DEF Pinners

\* A step that moves no thread in or out of a frame, and leaves pins and marks.
PinsKept ==
    /\ allocLock' = allocLock
    /\ \A f \in Frames : meta'[f].pins = meta[f].pins /\ (meta'[f].evicting <=> meta[f].evicting)
    /\ \A u \in Threads : /\ thread'[u].pc \in Holding <=> thread[u].pc \in Holding
                          /\ thread[u].pc \in Holding => thread'[u].frame = thread[u].frame
                          /\ thread'[u].pc = "evict" => thread'[u] = thread[u]

LEMMA PinsKeptKeeps ==
    ASSUME PoolInv, PinsInv, PinsKept
    PROVE  PinsInv'
<1>1. \A f : Pinners(f)' = Pinners(f)
  BY Zenon, PinnersStay DEF PinsKept
<1>2. \A f \in Frames : meta'[f].pins = Cardinality(Pinners(f)')
  BY Zenon, <1>1 DEF PinsInv, PinsKept
<1>3. \A u \in Threads : thread'[u].pc = "evict" => thread[u].pc = "evict" /\ thread'[u].frame = thread[u].frame
  BY Zenon DEF PinsKept
<1>4. \A u \in Threads : thread'[u].pc = "evict" => allocLock' = u
  BY Zenon, <1>3 DEF PinsInv, PinsKept
<1>5. \A u \in Threads, f \in Frames : thread'[u].pc = "evict" /\ thread'[u].frame = f =>
        meta'[f].evicting /\ Pinners(f)' = {}
  BY Zenon, <1>1, <1>3 DEF PinsInv, PinsKept
<1> QED
  BY Zenon, <1>2, <1>4, <1>5 DEF PinsInv

\* A thread pins a frame that no evictor has marked.
LEMMA Pins ==
    ASSUME PoolInv, PinsInv, NEW t \in Threads, NEW f \in Frames, Moves(t),
           thread[t].pc \notin Holding, thread'[t].pc \in Holding, thread'[t].frame = f,
           thread'[t].pc # "evict",
           \A u \in Threads : u # t /\ thread[u].pc = "evict" => thread[u].frame # f /\ allocLock' = u,
           meta'[f].pins = Cardinality(Pinners(f)) + 1,
           \A g \in Frames : g # f => meta'[g] = meta[g]
    PROVE  PinsInv'
<1>1. /\ Pinners(f)' = Pinners(f) \cup {t} /\ t \notin Pinners(f)
      /\ \A g : g # f => Pinners(g)' = Pinners(g)
  BY Zenon, PinnersJoin
<1>2. Cardinality(Pinners(f) \cup {t}) = Cardinality(Pinners(f)) + 1
  BY Zenon, <1>1, PinnersFinite, FS_AddElement
<1>3. \A g \in Frames : meta'[g].pins = Cardinality(Pinners(g)')
  BY Zenon, <1>1, <1>2 DEF PinsInv
<1>4. \A u \in Threads : thread'[u].pc = "evict" => u # t /\ thread'[u] = thread[u]
  BY Zenon DEF Moves
<1>5. \A u \in Threads : thread'[u].pc = "evict" => allocLock' = u
  BY Zenon, <1>4
<1>6. ASSUME NEW u \in Threads, NEW g \in Frames, thread'[u].pc = "evict", thread'[u].frame = g
      PROVE  meta'[g].evicting /\ Pinners(g)' = {}
  <2>1. thread[u].pc = "evict" /\ thread[u].frame = g /\ u # t
    BY Zenon, <1>4, <1>6
  <2>2. g # f
    BY Zenon, <2>1
  <2>3. meta[g].evicting /\ Pinners(g) = {}
    BY Zenon, <2>1 DEF PinsInv
  <2>4. meta'[g] = meta[g] /\ Pinners(g)' = Pinners(g)
    BY Zenon, <1>1, <2>2
  <2> QED
    BY <2>3, <2>4
<1> QED
  BY Zenon, <1>3, <1>5, <1>6 DEF PinsInv

\* A thread lets its frame go.
LEMMA Unpins ==
    ASSUME PoolInv, PinsInv, NEW t \in Threads, NEW f \in Frames, Moves(t), allocLock' = allocLock,
           thread[t].pc \in Holding, thread'[t].pc = "idle", thread[t].frame = f,
           meta'[f].pins = meta[f].pins - 1,
           \A g \in Frames : /\ g # f => meta'[g].pins = meta[g].pins
                             /\ meta'[g].evicting <=> meta[g].evicting
    PROVE  PinsInv'
<1>1. "idle" \notin Holding
  BY DEF Holding
<1>4. /\ Pinners(f)' = Pinners(f) \ {t} /\ t \in Pinners(f)
      /\ \A g : g # f => Pinners(g)' = Pinners(g)
  BY Zenon, <1>1, PinnersLeave
<1>5. Cardinality(Pinners(f) \ {t}) = Cardinality(Pinners(f)) - 1
  BY Zenon, <1>4, PinnersFinite, FS_RemoveElement
<1>6. \A g \in Frames : meta'[g].pins = Cardinality(Pinners(g)')
  BY Zenon, <1>4, <1>5 DEF PinsInv
<1>7. \A u \in Threads : thread'[u].pc = "evict" => u # t /\ thread'[u] = thread[u]
  BY Zenon DEF Moves
<1>8. \A u \in Threads : thread'[u].pc = "evict" => allocLock' = u
  BY Zenon, <1>7 DEF PinsInv
<1>9. \A u \in Threads, g \in Frames : thread'[u].pc = "evict" /\ thread'[u].frame = g =>
        meta'[g].evicting /\ Pinners(g)' = {}
  <2>1. \A g : Pinners(g) = {} => Pinners(g)' = {}
    BY Zenon, <1>4
  <2> QED
    BY Zenon, <1>7, <2>1 DEF PinsInv
<1> QED
  BY Zenon, <1>6, <1>8, <1>9 DEF PinsInv

\* An evictor marks a frame that is held by none.
LEMMA Evicts ==
    ASSUME PoolInv, PinsInv, NEW t \in Threads, NEW f \in Frames, Moves(t),
           allocLock = None, allocLock' = t,
           thread[t].pc = "idle", thread'[t].pc = "evict", thread'[t].frame = f,
           meta[f].pins = 0, meta'[f].pins = meta[f].pins, meta'[f].evicting,
           \A g \in Frames : g # f => meta'[g] = meta[g]
    PROVE  PinsInv'
<1>1. "idle" \notin Holding /\ "evict" \notin Holding
  BY DEF Holding
<1>2. \A g : Pinners(g)' = Pinners(g)
  BY Zenon, <1>1, PinnersStay DEF Moves
<1>3. \A g \in Frames : meta'[g].pins = Cardinality(Pinners(g)')
  BY Zenon, <1>2 DEF PinsInv
<1>4. Pinners(f) = {}
  BY Zenon, PinnersFinite DEF PinsInv
<1>5. \A u \in Threads : thread'[u].pc = "evict" => u = t
  BY Zenon, PoolAssumption DEF Moves, PinsInv
<1>6. \A u \in Threads, g \in Frames : thread'[u].pc = "evict" /\ thread'[u].frame = g =>
        meta'[g].evicting /\ Pinners(g)' = {}
  BY <1>2, <1>4, <1>5
<1> QED
  BY Zenon, <1>3, <1>5, <1>6 DEF PinsInv

\* An evictor gives up, the frame is unmarked or reset.
LEMMA GivesUp ==
    ASSUME PoolInv, PinsInv, NEW t \in Threads, NEW f \in Frames, Moves(t),
           thread[t].pc = "evict", thread[t].frame = f, thread'[t].pc = "idle",
           meta'[f].pins = meta[f].pins \/ meta'[f].pins = 0,
           \A g \in Frames : g # f => meta'[g] = meta[g]
    PROVE  PinsInv'
<1>1. "idle" \notin Holding /\ "evict" \notin Holding
  BY DEF Holding
<1>2. \A g : Pinners(g)' = Pinners(g)
  BY Zenon, <1>1, PinnersStay DEF Moves
<1>3. Pinners(f) = {} /\ Cardinality(Pinners(f)) = 0
  BY Zenon, PinnersFinite DEF PinsInv
<1>4. \A g \in Frames : meta'[g].pins = Cardinality(Pinners(g)')
  BY Zenon, <1>2, <1>3 DEF PinsInv
<1>5. \A u \in Threads : thread'[u].pc # "evict"
  BY Zenon DEF Moves, PinsInv
<1> QED
  BY Zenon, <1>4, <1>5 DEF PinsInv

LEMMA TryPinResidentCounts ==
    ASSUME PoolInv, PinsInv, NEW t \in Threads, NEW p \in Pages, TryPinResident(t, p)
    PROVE  PinsInv'
<1> DEFINE m == WithPins(meta[table[p]], meta[table[p]].pins + 1)
           c == Pinned(p, table[p])
<1>1. /\ table[p] \in Frames /\ meta[table[p]] \in Metas /\ meta[table[p]].pins + 1 \in Int
      /\ ~meta[table[p]].evicting /\ thread[t].pc = "idle"
  <2>1. table[p] \in Frames /\ ~meta[table[p]].evicting /\ thread[t].pc = "idle"
    BY Zenon DEF TryPinResident, Start, PoolInv, PoolTypes, FrameOrNone
  <2>2. meta[table[p]] \in Metas /\ meta[table[p]].pins \in Int
    BY Zenon, <2>1 DEF PoolInv, PoolTypes, Metas
  <2>3. meta[table[p]].pins + 1 \in Int
    BY <2>2
  <2> QED
    BY Zenon, <2>1, <2>2, <2>3
<1>2. m.pins = meta[table[p]].pins + 1
  BY Zenon, <1>1, WithPinsFields
<1>3. c.pc = "pinned" /\ c.frame = table[p]
  BY Zenon DEF Pinned, Idle
<1>4. meta' = [meta EXCEPT ![table[p]] = m] /\ thread' = [thread EXCEPT ![t] = c] /\ allocLock' = allocLock
  BY Zenon DEF TryPinResident, Pinned, WithPins
<1> HIDE DEF m, c
<1>5. PICK f \in Frames : f = table[p]
  BY Zenon, <1>1
<1>6. /\ meta'[f] = m /\ \A g \in Frames : g # f => meta'[g] = meta[g]
      /\ thread'[t] = c /\ Moves(t)
  BY Zenon, <1>4, <1>5 DEF PoolInv, PoolTypes, Moves
<1>7. thread[t].pc \notin Holding /\ thread'[t].pc \in Holding /\ thread'[t].pc # "evict" /\ thread'[t].frame = f
  BY <1>1, <1>3, <1>5, <1>6 DEF Holding
<1>8. \A u \in Threads : u # t /\ thread[u].pc = "evict" => thread[u].frame # f /\ allocLock' = u
  BY Zenon, <1>1, <1>4, <1>5 DEF PinsInv
<1>9. meta'[f].pins = Cardinality(Pinners(f)) + 1
  BY Zenon, <1>2, <1>5, <1>6 DEF PinsInv
<1> QED
  BY Zenon, <1>6, <1>7, <1>8, <1>9, Pins

LEMMA EvictFrameCounts ==
    ASSUME PoolInv, PinsInv, NEW t \in Threads, NEW p, NEW f \in Frames, NEW b,
           EvictFrame(t, p, f, b), thread[t].pc = "idle", allocLock = None, allocLock' = t
    PROVE  PinsInv'
<1> DEFINE m == WithEvicting(meta[f], TRUE)
           c == Evicting(p, f, b)
<1>1. meta[f] \in Metas /\ meta[f].pins = 0
  BY Zenon DEF PoolInv, PoolTypes, EvictFrame, Evictable
<1>2. m.pins = meta[f].pins /\ m.evicting = TRUE
  BY Zenon, <1>1, WithEvictingFields
<1>3. c.pc = "evict" /\ c.frame = f
  BY Zenon DEF Evicting, Idle
<1>4. meta' = [meta EXCEPT ![f] = m] /\ thread' = [thread EXCEPT ![t] = c]
  BY Zenon DEF EvictFrame, Evicting, WithEvicting
<1> HIDE DEF m, c
<1>5. /\ meta'[f] = m /\ \A g \in Frames : g # f => meta'[g] = meta[g]
      /\ thread'[t] = c /\ Moves(t)
  BY Zenon, <1>4 DEF PoolInv, PoolTypes, Moves
<1>6. meta'[f].pins = meta[f].pins /\ meta'[f].evicting
  BY <1>2, <1>5
<1> QED
  BY Zenon, <1>1, <1>3, <1>5, <1>6, Evicts

LEMMA EvictFlushFailedCounts ==
    ASSUME PoolInv, PinsInv, NEW t \in Threads, EvictFlushFailed(t)
    PROVE  PinsInv'
<1> DEFINE m == WithEvicting(meta[thread[t].frame], FALSE)
<1>1. thread[t].pc = "evict" /\ thread[t].pc # "idle" /\ thread'= [thread EXCEPT ![t] = Idle]
      /\ meta' = [meta EXCEPT ![thread[t].frame] = m]
  BY Zenon DEF EvictFlushFailed, WithEvicting
<1>2. thread[t].frame \in Frames /\ meta[thread[t].frame] \in Metas
  BY Zenon, <1>1, EvictTarget
<1>3. m.pins = meta[thread[t].frame].pins
  BY Zenon, <1>2, WithEvictingFields
<1> HIDE DEF m
<1>4. PICK f \in Frames : f = thread[t].frame
  BY Zenon, <1>2
<1>5. /\ meta'[f] = m /\ \A g \in Frames : g # f => meta'[g] = meta[g]
      /\ thread'[t] = Idle /\ Moves(t)
  BY Zenon, <1>1, <1>4 DEF PoolInv, PoolTypes, Moves
<1>6. thread'[t].pc = "idle" /\ meta'[f].pins = meta[f].pins
  BY Zenon, <1>3, <1>4, <1>5, IdleCursor
<1> QED
  BY Zenon, <1>1, <1>4, <1>5, <1>6, GivesUp

LEMMA LoadFrameCounts ==
    ASSUME PoolInv, PinsInv, NEW t \in Threads, LoadFrame(t)
    PROVE  PinsInv'
<1> DEFINE m == LoadedFrame(thread[t].page, thread[t].new)
           c == ThreadAt(thread[t], "pinned")
<1>1. /\ thread[t].pc = "evict" /\ thread[t].pc # "idle" /\ thread' = [thread EXCEPT ![t] = c]
      /\ meta' = [meta EXCEPT ![thread[t].frame] = m]
  BY Zenon DEF LoadFrame, Loadable, Goto, ThreadAt, LoadedFrame
<1>2. thread[t].frame \in Frames /\ thread[t] \in Cursors
  BY Zenon, <1>1, EvictTarget
<1>3. m.pins = 1
  BY Zenon DEF LoadedFrame, Empty
<1>4. c.pc = "pinned" /\ c.frame = thread[t].frame
  BY Zenon, <1>2 DEF Cursors, ThreadAt
<1> HIDE DEF m, c
<1>5. PICK f \in Frames : f = thread[t].frame
  BY Zenon, <1>2
<1>6. /\ meta'[f] = m /\ \A g \in Frames : g # f => meta'[g] = meta[g]
      /\ thread'[t] = c /\ Moves(t)
  BY Zenon, <1>1, <1>5 DEF PoolInv, PoolTypes, Moves
<1>7. thread[t].pc \notin Holding /\ thread'[t].pc \in Holding /\ thread'[t].pc # "evict" /\ thread'[t].frame = f
  BY <1>1, <1>4, <1>5, <1>6 DEF Holding
<1>8. \A u \in Threads : u # t /\ thread[u].pc = "evict" => thread[u].frame # f /\ allocLock' = u
  BY Zenon, <1>1 DEF PinsInv
<1>9. meta'[f].pins = Cardinality(Pinners(f)) + 1
  <2>1. Pinners(f) = {}
    BY Zenon, <1>1, <1>5 DEF PinsInv
  <2>2. Cardinality(Pinners(f)) = 0
    BY Zenon, <2>1, PinnersFinite
  <2> QED
    BY <1>3, <1>6, <2>2
<1> QED
  BY Zenon, <1>6, <1>7, <1>8, <1>9, Pins

LEMMA ReadFailsCounts ==
    ASSUME PoolInv, PinsInv, NEW t \in Threads, ReadFails(t)
    PROVE  PinsInv'
<1>1. thread[t].pc = "evict" /\ thread[t].pc # "idle" /\ thread'= [thread EXCEPT ![t] = Idle]
      /\ meta' = [meta EXCEPT ![thread[t].frame] = Empty]
  BY Zenon DEF ReadFails, Loadable
<1>2. PICK f \in Frames : f = thread[t].frame
  BY Zenon, <1>1, EvictTarget
<1>3. /\ meta'[f] = Empty /\ \A g \in Frames : g # f => meta'[g] = meta[g]
      /\ thread'[t] = Idle /\ Moves(t)
  BY Zenon, <1>1, <1>2 DEF PoolInv, PoolTypes, Moves
<1>4. thread'[t].pc = "idle" /\ meta'[f].pins = 0
  <2>1. Empty.pins = 0
    BY Zenon DEF Empty
  <2> QED
    BY Zenon, <1>3, <2>1, IdleCursor
<1> QED
  BY Zenon, <1>1, <1>2, <1>3, <1>4, GivesUp

LEMMA PinStepCounts ==
    ASSUME PoolInv, PinsInv, NEW t \in Threads, PinStep(t)
    PROVE  PinsInv'
<1>1. ASSUME NEW p \in Pages, NEW f \in Frames, AllocFrame(t, p, f) \/ NewPage(t, p, f)
      PROVE  PinsInv'
  <2>1. \E b : EvictFrame(t, p, f, b) /\ thread[t].pc = "idle" /\ allocLock = None /\ allocLock' = t
    BY Zenon, <1>1 DEF AllocFrame, NewPage, Start
  <2> QED
    BY Zenon, <2>1, EvictFrameCounts
<1>2. ASSUME NEW p \in Pages, PoolFull(t, p)
      PROVE  PinsInv'
  <2>1. PinsKept
    BY Zenon, <1>2 DEF PoolFull, pool, PinsKept
  <2> QED
    BY Zenon, <2>1, PinsKeptKeeps
<1> QED
  BY Zenon, <1>1, <1>2, TryPinResidentCounts, EvictFlushFailedCounts, LoadFrameCounts, ReadFailsCounts
     DEF PinStep

\* A thread that moves on while it holds its frame.
LEMMA HolderMoves ==
    ASSUME PoolInv, PinsInv, NEW t \in Threads, Moves(t), allocLock' = allocLock,
           thread[t].pc \in Holding, thread'[t].pc \in Holding, thread'[t].frame = thread[t].frame,
           \A f \in Frames : meta'[f].pins = meta[f].pins /\ (meta'[f].evicting <=> meta[f].evicting)
    PROVE  PinsInv'
<1>1. "evict" \notin Holding
  BY DEF Holding
<1>2. PinsKept
  BY Zenon, <1>1 DEF PinsKept, Moves
<1> QED
  BY Zenon, <1>2, PinsKeptKeeps

LEMMA PinReadCounts ==
    ASSUME PoolInv, PinsInv, NEW t \in Threads, PinRead(t)
    PROVE  PinsInv'
<1> DEFINE c == ThreadAt(thread[t], "reading")
<1>1. thread[t].pc = "pinned" /\ thread' = [thread EXCEPT ![t] = c] /\ meta' = meta /\ allocLock' = allocLock
  BY Zenon DEF PinRead, Goto, ThreadAt
<1>2. c.pc = "reading" /\ c.frame = thread[t].frame
  BY Zenon DEF PoolInv, PoolTypes, Cursors, ThreadAt
<1> HIDE DEF c
<1>3. thread'[t] = c /\ Moves(t)
  BY Zenon, <1>1 DEF PoolInv, PoolTypes, Moves
<1>4. thread[t].pc \in Holding /\ thread'[t].pc \in Holding /\ thread'[t].frame = thread[t].frame
  BY <1>1, <1>2, <1>3 DEF Holding
<1> QED
  BY Zenon, <1>1, <1>3, <1>4, HolderMoves

LEMMA ModifyCounts ==
    ASSUME PoolInv, PinsInv, NEW t \in Threads, Modify(t)
    PROVE  PinsInv'
<1> DEFINE c == ThreadAt(thread[t], "changed")
<1>1. thread[t].pc = "latched" /\ thread' = [thread EXCEPT ![t] = c] /\ meta' = meta /\ allocLock' = allocLock
  BY Zenon DEF Modify, Goto, ThreadAt
<1>2. c.pc = "changed" /\ c.frame = thread[t].frame
  BY Zenon DEF PoolInv, PoolTypes, Cursors, ThreadAt
<1> HIDE DEF c
<1>3. thread'[t] = c /\ Moves(t)
  BY Zenon, <1>1 DEF PoolInv, PoolTypes, Moves
<1>4. thread[t].pc \in Holding /\ thread'[t].pc \in Holding /\ thread'[t].frame = thread[t].frame
  BY <1>1, <1>2, <1>3 DEF Holding
<1> QED
  BY Zenon, <1>1, <1>3, <1>4, HolderMoves

LEMMA PinMutCounts ==
    ASSUME PoolInv, PinsInv, NEW t \in Threads, PinMut(t)
    PROVE  PinsInv'
<1> DEFINE f == thread[t].frame
           m == WithDirty(meta[f], TRUE)
           c == Gated(thread[t], IF thread[t].new THEN 0 ELSE ckptLsn)
<1>1. thread[t].pc = "pinned" /\ thread[t].pc # "idle" /\ allocLock' = allocLock
      /\ meta' = [meta EXCEPT ![f] = m]
  BY Zenon DEF PinMut, WithDirty
<1>2. thread' = [thread EXCEPT ![t] = c]
  BY Zenon DEF PinMut, Gated
<1>3. f \in Frames /\ meta[f] \in Metas /\ thread[t] \in Cursors
  BY Zenon, <1>1, EvictTarget
<1>4. m.pins = meta[f].pins /\ m.evicting = meta[f].evicting
  BY Zenon, <1>3, WithDirtyFields
<1>5. c.pc = "latched" /\ c.frame = thread[t].frame
  BY Zenon, <1>3 DEF Cursors, Gated
<1> HIDE DEF c, m
<1>6. thread'[t] = c /\ Moves(t) /\ meta'[f] = m /\ \A g \in Frames : g # f => meta'[g] = meta[g]
  BY Zenon, <1>1, <1>2, <1>3 DEF PoolInv, PoolTypes, Moves
<1>7. thread[t].pc \in Holding /\ thread'[t].pc \in Holding /\ thread'[t].frame = thread[t].frame
  BY <1>1, <1>5, <1>6 DEF Holding
<1> HIDE DEF f
<1>8. \A g \in Frames : meta'[g].pins = meta[g].pins /\ (meta'[g].evicting <=> meta[g].evicting)
  BY <1>3, <1>4, <1>6
<1> QED
  BY Zenon, <1>1, <1>6, <1>7, <1>8, HolderMoves

LEMMA DropReadCounts ==
    ASSUME PoolInv, PinsInv, NEW t \in Threads, DropRead(t)
    PROVE  PinsInv'
<1> DEFINE m == WithPins(meta[thread[t].frame], meta[thread[t].frame].pins - 1)
<1>1. /\ thread[t].pc = "reading" /\ thread[t].pc # "idle" /\ allocLock' = allocLock
      /\ thread' = [thread EXCEPT ![t] = Idle] /\ meta' = [meta EXCEPT ![thread[t].frame] = m]
  BY Zenon DEF DropRead, WithPins
<1>2. thread[t].frame \in Frames /\ meta[thread[t].frame] \in Metas
  BY Zenon, <1>1, EvictTarget
<1>3. meta[thread[t].frame].pins - 1 \in Int
  BY <1>2 DEF Metas
<1>4. m.pins = meta[thread[t].frame].pins - 1 /\ m.evicting = meta[thread[t].frame].evicting
  BY Zenon, <1>2, <1>3, WithPinsFields
<1> HIDE DEF m
<1>5. PICK f \in Frames : f = thread[t].frame
  BY Zenon, <1>2
<1>6. /\ meta'[f] = m /\ \A g \in Frames : g # f => meta'[g] = meta[g]
      /\ thread'[t] = Idle /\ Moves(t)
  BY Zenon, <1>1, <1>5 DEF PoolInv, PoolTypes, Moves
<1>7. thread[t].pc \in Holding /\ thread'[t].pc = "idle" /\ thread[t].frame = f
  BY <1>1, <1>5, <1>6, IdleCursor DEF Holding
<1>8. /\ meta'[f].pins = meta[f].pins - 1
      /\ \A g \in Frames : /\ g # f => meta'[g].pins = meta[g].pins
                           /\ meta'[g].evicting <=> meta[g].evicting
  BY <1>4, <1>5, <1>6
<1> QED
  BY Zenon, <1>1, <1>6, <1>7, <1>8, Unpins

LEMMA DropMutCounts ==
    ASSUME PoolInv, PinsInv, NEW t \in Threads, DropMut(t)
    PROVE  PinsInv'
<1> DEFINE m == WithPins(WithDirty(meta[thread[t].frame], TRUE), meta[thread[t].frame].pins - 1)
<1>1. /\ thread[t].pc \in {"latched", "changed"} /\ allocLock' = allocLock
      /\ thread' = [thread EXCEPT ![t] = Idle]
  BY Zenon DEF DropMut
<1>2. thread[t].pc \in Holding /\ thread[t].pc # "idle"
  BY <1>1 DEF Holding
<1>3. thread[t].frame \in Frames /\ meta[thread[t].frame] \in Metas
  BY Zenon, <1>2, EvictTarget
<1>4. meta' = [meta EXCEPT ![thread[t].frame] = m]
  BY <1>3, Zenon DEF DropMut, WithPins, WithDirty, PoolInv, PoolTypes, Metas
<1>5. meta[thread[t].frame].pins - 1 \in Int
  BY <1>3 DEF Metas
<1>6. m.pins = meta[thread[t].frame].pins - 1 /\ m.evicting = meta[thread[t].frame].evicting
  <2>1. /\ WithDirty(meta[thread[t].frame], TRUE) \in Metas
        /\ WithDirty(meta[thread[t].frame], TRUE).evicting = meta[thread[t].frame].evicting
    BY Zenon, <1>3, WithDirtyFields
  <2> QED
    BY Zenon, <1>5, <2>1, WithPinsFields
<1> HIDE DEF m
<1>7. PICK f \in Frames : f = thread[t].frame
  BY Zenon, <1>3
<1>8. /\ meta'[f] = m /\ \A g \in Frames : g # f => meta'[g] = meta[g]
      /\ thread'[t] = Idle /\ Moves(t)
  BY Zenon, <1>1, <1>4, <1>7 DEF PoolInv, PoolTypes, Moves
<1>9. thread'[t].pc = "idle"
  BY Zenon, <1>8, IdleCursor
<1>10. /\ meta'[f].pins = meta[f].pins - 1
       /\ \A g \in Frames : /\ g # f => meta'[g].pins = meta[g].pins
                            /\ meta'[g].evicting <=> meta[g].evicting
  BY <1>6, <1>7, <1>8
<1> QED
  BY Zenon, <1>1, <1>2, <1>7, <1>8, <1>9, <1>10, Unpins

LEMMA GuardStepCounts ==
    ASSUME PoolInv, PinsInv, NEW t \in Threads, GuardStep(t)
    PROVE  PinsInv'
BY Zenon, PinReadCounts, DropReadCounts, PinMutCounts, ModifyCounts, DropMutCounts DEF GuardStep

\* flush_frame and the checkpoint leave the pins and the marks of the evictors alone.
LEMMA FlushStepCounts ==
    ASSUME PoolInv, PinsInv, NEW x \in Procs, FlushStep(x)
    PROVE  PinsInv'
<1> DEFINE f == flush[x].frame
<1>1. flush[x].pc \in Busy /\ thread' = thread /\ allocLock' = allocLock
  <2>1. flush[x].pc \in Busy
    BY Zenon DEF FlushStep, FlushClaim, FlushWal, FlushWrite, FlushCover, FlushSync, FlushFinish, FlushFail, Busy
  <2> QED
    BY Zenon, <2>1 DEF FlushStep, FlushClaim, FlushWal, FlushWrite, FlushCover, FlushSync, FlushFinish, FlushFail, pool
<1>2. f \in Frames /\ meta \in [Frames -> Metas] /\ meta[f] \in Metas
  BY Zenon, <1>1, FlushTarget
<1>3. \E m : /\ meta' = meta \/ meta' = [meta EXCEPT ![f] = m]
             /\ m.pins = meta[f].pins /\ m.evicting = meta[f].evicting
  <2>1. CASE FlushWal(x) \/ FlushCover(x) \/ FlushSync(x)
    BY Zenon, <2>1 DEF FlushWal, FlushCover, FlushSync, pool
  <2>2. CASE FlushClaim(x)
    <3> DEFINE m == [[meta[f] EXCEPT !.flushing = TRUE] EXCEPT !.dirty = FALSE]
    <3>1. meta' = meta \/ meta' = [meta EXCEPT ![f] = m]
      BY <1>2, <2>2, Zenon DEF FlushClaim
    <3>2. m.pins = meta[f].pins /\ m.evicting = meta[f].evicting
      BY <1>2, Zenon DEF Metas
    <3> QED
      BY Zenon, <3>1, <3>2
  <2>3. CASE FlushWrite(x)
    <3>1. meta' = [meta EXCEPT ![f] = WithFpi(meta[f], TRUE)]
      BY Zenon, <2>3 DEF FlushWrite, WithFpi
    <3> QED
      BY Zenon, <1>2, <3>1, WithFpiFields
  <2>4. CASE FlushFinish(x)
    <3>1. meta' = [meta EXCEPT ![f] = WithFlushing(meta[f], FALSE)]
      BY Zenon, <2>4 DEF FlushFinish, WithFlushing
    <3> QED
      BY Zenon, <1>2, <3>1, WithFlushingFields
  <2>5. CASE FlushFail(x)
    <3> DEFINE m == [[meta[f] EXCEPT !.dirty = TRUE] EXCEPT !.flushing = FALSE]
    <3>1. meta' = [meta EXCEPT ![f] = m]
      BY <1>2, <2>5, Zenon DEF FlushFail
    <3>2. m.pins = meta[f].pins /\ m.evicting = meta[f].evicting
      BY <1>2, Zenon DEF Metas
    <3> QED
      BY Zenon, <3>1, <3>2
  <2> QED
    BY Zenon, <2>1, <2>2, <2>3, <2>4, <2>5 DEF FlushStep
<1> HIDE DEF f
<1>4. \A g \in Frames : meta'[g].pins = meta[g].pins /\ (meta'[g].evicting <=> meta[g].evicting)
  BY <1>2, <1>3
<1>5. PinsKept
  BY Zenon, <1>1, <1>4 DEF PinsKept
<1> QED
  BY Zenon, <1>5, PinsKeptKeeps

LEMMA PinsInvNext == ASSUME PoolInv, PinsInv, [Next]_vars PROVE PinsInv'
<1>1. CASE CkptStep
  <2>1. UNCHANGED <<meta, allocLock, thread>>
    BY Zenon, <1>1 DEF CkptStep, CkptBegin, CkptPublish, CkptFlushed, CkptEnd, CkptScan, CkptFlushPage, pool
  <2>2. PinsKept
    BY Zenon, <2>1 DEF PinsKept
  <2> QED
    BY Zenon, <2>2, PinsKeptKeeps
<1>2. CASE UNCHANGED vars
  <2>1. PinsKept
    BY Zenon, <1>2 DEF PinsKept, vars, pool
  <2> QED
    BY Zenon, <2>1, PinsKeptKeeps
<1> QED
  BY Zenon, <1>1, <1>2, PinStepCounts, GuardStepCounts, FlushStepCounts DEF Next

LEMMA PinsInvInit == ASSUME Init PROVE PinsInv
<1>1. /\ \A t \in Threads : thread[t].pc = "idle"
      /\ \A f \in Frames : meta[f].pins = 0
  BY Zenon DEF Init, Idle, Empty
<1>2. \A f : Pinners(f) = {}
  BY <1>1 DEF Pinners, Holding
<1>3. \A f : Cardinality(Pinners(f)) = 0
  BY Zenon, <1>2, PinnersFinite
<1>4. \A t \in Threads : thread[t].pc # "evict"
  BY <1>1
<1> QED
  BY Zenon, <1>1, <1>3, <1>4 DEF PinsInv

----------------------------------------------------------------------------
(* The promises of the cache                                               *)

\* A flush that was overtaken stays so.
LEMMA OvertakenStays == ASSUME [Next]_vars, overtaken PROVE overtaken'
<1>1. ASSUME NEW t \in Threads, PinStep(t) PROVE overtaken'
  BY Zenon, <1>1 DEF PinStep, TryPinResident, PoolFull, AllocFrame, NewPage, EvictFrame,
     EvictFlushFailed, LoadFrame, ReadFails
<1>2. ASSUME NEW t \in Threads, GuardStep(t) PROVE overtaken'
  BY Zenon, <1>2 DEF GuardStep, PinRead, DropRead, PinMut, Modify, DropMut
<1>3. ASSUME NEW x \in Procs, FlushStep(x) PROVE overtaken'
  BY Zenon, <1>3 DEF FlushStep, FlushClaim, FlushWal, FlushWrite, FlushCover, FlushSync, FlushFinish, FlushFail
<1>4. CASE CkptStep
  BY Zenon, <1>4 DEF CkptStep, CkptBegin, CkptPublish, CkptFlushed, CkptEnd, CkptScan, CkptFlushPage
<1>5. CASE UNCHANGED vars
  BY Zenon, <1>5 DEF vars
<1> QED
  BY Zenon, <1>1, <1>2, <1>3, <1>4, <1>5 DEF Next

LEMMA CacheInvStutters == ASSUME CacheInv, UNCHANGED vars PROVE CacheInv'
<1>1. /\ UNCHANGED <<meta, content, latch, table, allocLock, thread, flush, ckpt, ckptLsn, redo, fresh>>
      /\ UNCHANGED <<disk, durable, flushGen, syncedGen, log, synced>>
  BY Zenon DEF vars, pool, ckptState, files, wal
<1>2. FramesMapped' /\ FlushesApart'
  <2>1. FramesMapped'
    BY Zenon, <1>1 DEF CacheInv, FramesMapped
  <2>2. /\ \A x \in Procs : InFlight(x)' <=> InFlight(x)
        /\ \A f \in Frames : Quiet(f)' <=> Quiet(f)
    BY Zenon, <1>1 DEF InFlight, Quiet
  <2>3. FlushesApart'
    BY <1>1, <2>2 DEF CacheInv, FlushesApart, InFlight, Quiet
  <2> QED
    BY Zenon, <2>1, <2>3
<1>3. NewestIsRecord' /\ FilesLag' /\ MemoryCurrent'
  BY Zenon, <1>1 DEF CacheInv, NewestIsRecord, FilesLag, MemoryCurrent, Untouched
<1>4. CleanIsDurable' /\ Generations'
  BY Zenon, <1>1 DEF CacheInv, CleanIsDurable, Generations, InFlight, Quiet
<1>5. AskedIsServed' /\ CheckpointUnderWay'
  BY Zenon, <1>1 DEF CacheInv, AskedIsServed, Reached, CheckpointUnderWay
<1>6. GateIsPassed'
  BY Zenon, <1>1 DEF CacheInv, GateIsPassed, FpiBeforeChange
<1> QED
  BY Zenon, <1>2, <1>3, <1>4, <1>5, <1>6 DEF CacheInv

\* The inductive invariant of the cache.
Coheres == NotOvertaken => CacheInv

LEMMA CoheresNext ==
    ASSUME PoolInv, PoolInv', PinsInv, Coheres, [Next]_vars
    PROVE  Coheres'
<1> SUFFICES ASSUME ~overtaken' PROVE CacheInv'
  BY Zenon DEF Coheres, NotOvertaken
<1>1. CacheInv
  BY Zenon, OvertakenStays DEF Coheres, NotOvertaken
<1>2. HoldersApart
  BY Zenon, PinsInvApart
<1> QED
  BY Zenon, <1>1, <1>2, CacheInvNext, CacheInvStutters

\* Pins are counted: the pin count of a frame is the number of threads that hold it,
\* and the frame an evictor has chosen is held by none, whatever guards are taken and
\* dropped meanwhile (try_pin_resident, evict_frame, the guards' drop).
THEOREM PinsAreCounted == Spec => []PinsInv
<1>1. Init => PinsInv
  BY Zenon, PinsInvInit
<1>2. PoolInv /\ PinsInv /\ [Next]_vars => PinsInv'
  BY Zenon, PinsInvNext
<1> QED
  BY <1>1, <1>2, PoolInvariant, PTL DEF Spec

\* The cache coheres, for every pool, until a flush is overtaken.
THEOREM CacheCoheres == Spec => []Coheres
<1>1. Init => Coheres
  BY Zenon, CacheInvInit DEF Coheres
<1>2. PoolInv /\ PoolInv' /\ PinsInv /\ Coheres /\ [Next]_vars => Coheres'
  BY Zenon, CoheresNext
<1> QED
  BY <1>1, <1>2, PoolInvariant, PinsAreCounted, PTL DEF Spec

\* A pin never returns an old copy of a page: every frame that stands for a page holds
\* its last change, unless a thread is changing it (try_pin_resident, alloc_frame).
THEOREM MemoryIsCurrent == Spec => []CacheIsCurrentApart
<1>1. PoolInv /\ Coheres => CacheIsCurrentApart
  <2> SUFFICES ASSUME PoolInv, CacheInv, NEW f \in Frames, meta[f].page # None
               PROVE  content[f].lsn = Latest(meta[f].page)
    BY Zenon DEF Coheres, CacheIsCurrentApart, CacheIsCurrent
  <2>1. meta[f].page \in Pages
    BY Zenon DEF PoolInv, PoolTypes, Metas, PageOrNone
  <2> QED
    BY Zenon, <2>1, LatestIsNewest DEF CacheInv, MemoryCurrent
<1> QED
  BY <1>1, PoolInvariant, CacheCoheres, PTL

\* Nothing leaves memory before it is durable: a page that is not in the pool is durable
\* as of its last change, and a flush that returned has made durable what the page held
\* when it was called (evict_frame, flush, flush_frame and its shared fsync).
THEOREM WriteBackReachesDisk == Spec => []WriteBackIsDurableApart
<1>1. Coheres => WriteBackIsDurableApart
  <2> SUFFICES ASSUME CacheInv PROVE EvictedIsDurable /\ FlushIsDurable
    BY Zenon DEF Coheres, WriteBackIsDurableApart
  <2>1. EvictedIsDurable
    BY Zenon, LatestIsNewest DEF EvictedIsDurable, CacheInv, MemoryCurrent
  <2>2. FlushIsDurable
    BY DEF FlushIsDurable, CacheInv, AskedIsServed, Reached
  <2> QED
    BY Zenon, <2>1, <2>2
<1> QED
  BY <1>1, CacheCoheres, PTL

\* The redo point of a complete checkpoint loses nothing: every page is durable as of
\* its last record at or before it (dirty_page_ids, flush, trigger_checkpoint).
THEOREM RedoPointCovers == Spec => []CheckpointCoversApart
<1>1. Coheres => CheckpointCoversApart
  <2> SUFFICES ASSUME CacheInv, NEW p \in Pages PROVE durable[p].lsn >= LastRecord(p, redo)
    BY Zenon DEF Coheres, CheckpointCoversApart, CheckpointCovers
  <2> QED
    BY Zenon, LatestIsNewest DEF CacheInv, CheckpointUnderWay
<1> QED
  BY <1>1, CacheCoheres, PTL

\* A page image is logged before the first change of a checkpoint cycle, for every page
\* that the data file holds (ensure_fpi and needs_fpi).
THEOREM ImageBeforeChange == Spec => []FpiBeforeChangeApart
<1>1. Coheres => FpiBeforeChangeApart
  BY Zenon DEF Coheres, FpiBeforeChangeApart, CacheInv, GateIsPassed
<1> QED
  BY <1>1, CacheCoheres, PTL
=============================================================================
