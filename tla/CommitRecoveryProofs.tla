------------------------ MODULE CommitRecoveryProofs ------------------------
(***************************************************************************)
(* Proofs about TxnManager and CommitRecovery.                             *)
(*                                                                         *)
(* Of the transaction manager: snapshot isolation and the finality of      *)
(* terminal states, for any number of transactions.                        *)
(*                                                                         *)
(* Of the log, the checkpoint and recovery, for any number of records and  *)
(* crashes, if flush_to covers the record it is given: CommitRecovery      *)
(* implements TxnManager, every visible commit is durable, and no XID is   *)
(* used twice.                                                             *)
(***************************************************************************)
EXTENDS CommitRecovery, TLAPS, WellFoundedInduction

----------------------------------------------------------------------------
(* The transaction manager                                                 *)

\* The inductive invariant.  The active set is the set of live phases, the
\* clock separates used from unused XIDs, the CLOG is terminal exactly from
\* step 3 of the hard order on.
Bookkeeping ==
    \A y \in XidSet : /\ y \in active <=> phase[y] \in Live
                      /\ phase[y] = "unused" <=> y >= clock
                      /\ clog[y] \in Terminal <=> phase[y] \in {"decided", "done"}

\* Below xmax and outside xip every transaction is over, and its state is the
\* one it had when the snapshot was taken.
Judges(s) ==
    /\ s.xmax <= clock
    /\ \A y \in XidSet :
          /\ y \in s.asOf => clog[y] = "Committed" /\ y < s.xmax /\ y \notin s.xip
          /\ y < s.xmax /\ y \notin s.xip /\ y \notin s.asOf =>
                phase[y] \in {"done", "lost"} /\ clog[y] # "Committed"

SnapshotsJudge == \A x \in XidSet : snap[x] # NoSnapshot => Judges(snap[x])

TxnInv == TypeOK /\ Bookkeeping /\ SnapshotsJudge

LEMMA XidFacts ==
    /\ XidSet \subseteq Nat
    /\ \A x \in XidSet : x <= MaxXid /\ x >= 1
    /\ InvalidXid \notin XidSet
BY BoundsAssumption DEF XidSet, InvalidXid

\* The active set has a least member.
LEMMA LeastActive ==
    ASSUME TypeOK, active # {}
    PROVE  MinActive \in active
<1>1. active \subseteq Nat
  BY Zenon, XidFacts DEF TypeOK
<1>2. PICK n \in active : \A k \in active : ~(<<k, n>> \in OpToRel(<, Nat))
  BY Zenon, <1>1, NatLessThanWellFounded, WFMin
<1>3. \A k \in active : ~(k < n)
  BY Zenon, <1>1, <1>2 DEF OpToRel
<1>4. \A k \in active : n <= k
  BY <1>1, <1>3
<1>5. QED
  BY Zenon, <1>4 DEF MinActive

\* A fresh snapshot is well formed and judges correctly.
LEMMA FreshSnapshot ==
    ASSUME TypeOK, Bookkeeping
    PROVE  TakeSnapshot \in SnapshotRecords /\ Judges(TakeSnapshot)
<1> DEFINE done == {x \in XidSet : phase[x] = "done" /\ clog[x] = "Committed"}
           low == IF active = {} THEN clock ELSE MinActive
<1>1. clock \in 1..(MaxXid + 1) /\ active \in SUBSET XidSet /\ done \in SUBSET XidSet
  BY Zenon DEF TypeOK
<1>2. low \in 1..(MaxXid + 1)
  <2>1. CASE active = {}
    BY Zenon, <1>1, <2>1
  <2>2. CASE active # {}
    <3>1. MinActive \in active
      BY Zenon, <2>2, LeastActive
    <3>2. MinActive \in XidSet
      BY Zenon, <3>1, <1>1
    <3>3. MinActive \in 1..(MaxXid + 1)
      BY <3>2, BoundsAssumption DEF XidSet
    <3>4. QED
      BY Zenon, <2>2, <3>3
  <2>3. QED
    BY Zenon, <2>1, <2>2
<1>3. 0 \in 0..MaxCid
  BY BoundsAssumption
<1>4. TakeSnapshot \in SnapshotRecords
  BY Zenon, <1>1, <1>2, <1>3 DEF TakeSnapshot, SnapshotRecords
<1>5. /\ TakeSnapshot.xmax = clock /\ TakeSnapshot.xip = active
      /\ TakeSnapshot.asOf = done
  BY Zenon DEF TakeSnapshot
<1>6. ASSUME NEW y \in XidSet
      PROVE  /\ y \in done => clog[y] = "Committed" /\ y < clock /\ y \notin active
             /\ y < clock /\ y \notin active /\ y \notin done =>
                   phase[y] \in {"done", "lost"} /\ clog[y] # "Committed"
  <2>1. y \in Nat /\ clock \in Nat
    BY <1>1, XidFacts, BoundsAssumption
  <2>2. phase[y] \in PhaseSet
    BY Zenon DEF TypeOK
  <2>3. /\ y \in active <=> phase[y] \in Live
        /\ phase[y] = "unused" <=> y >= clock
        /\ clog[y] \in Terminal <=> phase[y] \in {"decided", "done"}
    BY Zenon DEF Bookkeeping
  <2>4. QED
    BY <2>1, <2>2, <2>3 DEF PhaseSet, Live, Ending, Terminal
<1>7. clock <= clock
  BY <1>1
<1>8. QED
  BY Zenon, <1>4, <1>5, <1>6, <1>7 DEF Judges

LEMMA InvInit == Init => TxnInv
<1> SUFFICES ASSUME Init PROVE TxnInv
  BY Zenon
<1>1. TypeOK
  <2>1. clock \in 1..(MaxXid + 1)
    BY BoundsAssumption DEF Init
  <2>2. QED
    BY Zenon, <2>1 DEF Init, TypeOK, TxnStates, PhaseSet, Terminal
<1>2. Bookkeeping
  BY Zenon, XidFacts DEF Init, Bookkeeping, Live, Ending, Terminal
<1>3. SnapshotsJudge
  BY Zenon DEF Init, SnapshotsJudge
<1>4. QED
  BY Zenon, <1>1, <1>2, <1>3 DEF TxnInv

\* Steps that leave the snapshots alone and only add to what is over.
LEMMA SnapshotsKept ==
    ASSUME TxnInv, TypeOK',
           clock <= clock',
           \A y \in XidSet : snap'[y] = snap[y] \/ snap'[y] = NoSnapshot,
           \A y \in XidSet : phase[y] \in {"done", "lost"} => phase'[y] = phase[y],
           \A y \in XidSet : phase[y] # "durable" => clog'[y] = clog[y]
    PROVE  SnapshotsJudge'
<1> SUFFICES ASSUME NEW x \in XidSet, snap'[x] # NoSnapshot
             PROVE  Judges(snap[x])'
  BY Zenon DEF SnapshotsJudge
<1>1. snap'[x] = snap[x] /\ snap[x] # NoSnapshot
  BY Zenon
<1>2. snap[x] \in SnapshotRecords
  BY Zenon, <1>1 DEF TxnInv, TypeOK
<1>3. snap[x].xmax \in Nat /\ clock \in Nat /\ clock' \in Nat
  BY <1>2, BoundsAssumption DEF SnapshotRecords, TxnInv, TypeOK
<1>4. Judges(snap[x])
  BY Zenon, <1>1 DEF TxnInv, SnapshotsJudge
<1>5. \A y \in XidSet : clog[y] = "Committed" => clog'[y] = "Committed"
  BY Zenon DEF TxnInv, Bookkeeping, Terminal
<1>6. \A y \in XidSet : phase[y] \in {"done", "lost"} => clog'[y] = clog[y]
  BY Zenon
<1> DEFINE s == snap[x]
<1>7. Judges(s) /\ s.xmax \in Nat
  BY Zenon, <1>3, <1>4
<1> HIDE DEF s
<1>8. /\ s.xmax <= clock'
      /\ \A y \in XidSet :
          /\ y \in s.asOf => clog'[y] = "Committed" /\ y < s.xmax /\ y \notin s.xip
          /\ y < s.xmax /\ y \notin s.xip /\ y \notin s.asOf =>
                phase'[y] \in {"done", "lost"} /\ clog'[y] # "Committed"
  BY <1>3, <1>5, <1>6, <1>7 DEF Judges
<1>9. QED
  BY Zenon, <1>1, <1>8 DEF Judges, s

\* Every action keeps the invariant.
LEMMA InvNext == TxnInv /\ [Next]_vars => TxnInv'
<1> SUFFICES ASSUME TxnInv, [Next]_vars PROVE TxnInv'
  BY Zenon
<1>0. TypeOK /\ Bookkeeping /\ SnapshotsJudge
  BY Zenon DEF TxnInv
<1>1. CASE BeginTxn
  <2>1. clock \in XidSet /\ clock \in Nat /\ clock + 1 \in 1..(MaxXid + 1)
    BY <1>0, <1>1, BoundsAssumption DEF BeginTxn, TypeOK, XidSet
  <2>2. TypeOK'
    BY Zenon, <1>0, <1>1, <2>1 DEF BeginTxn, TypeOK, PhaseSet, Live
  <2>3. phase[clock] = "unused"
    BY <1>0, <2>1 DEF Bookkeeping
  <2>4. Bookkeeping'
    <3> SUFFICES ASSUME NEW y \in XidSet
                 PROVE  /\ y \in active' <=> phase'[y] \in Live
                        /\ phase'[y] = "unused" <=> y >= clock'
                        /\ clog'[y] \in Terminal <=> phase'[y] \in {"decided", "done"}
      BY Zenon DEF Bookkeeping
    <3>1. y \in Nat
      BY Zenon, XidFacts
    <3>2. phase' = [phase EXCEPT ![clock] = "running"] /\ clog' = clog
          /\ active' = active \cup {clock} /\ clock' = clock + 1
      BY Zenon, <1>1 DEF BeginTxn
    <3>3. phase \in [XidSet -> PhaseSet]
      BY Zenon, <1>0 DEF TypeOK
    <3>4. CASE y = clock
      BY <1>0, <2>1, <2>3, <3>1, <3>2, <3>3, <3>4 DEF Bookkeeping, Live
    <3>5. CASE y # clock
      BY <1>0, <2>1, <3>1, <3>2, <3>3, <3>5 DEF Bookkeeping
    <3>6. QED
      BY Zenon, <3>4, <3>5
  <2>5. SnapshotsJudge'
    <3>1. clock <= clock'
      BY <1>1, <2>1 DEF BeginTxn
    <3>2. /\ \A y \in XidSet : snap'[y] = snap[y]
          /\ \A y \in XidSet : phase[y] \in {"done", "lost"} => phase'[y] = phase[y]
          /\ \A y \in XidSet : clog'[y] = clog[y]
      BY Zenon, <1>0, <1>1, <2>3 DEF BeginTxn, TypeOK
    <3>3. QED
      BY Zenon, <2>2, <3>1, <3>2, SnapshotsKept
  <2>6. QED
    BY Zenon, <2>2, <2>4, <2>5 DEF TxnInv
<1>2. ASSUME NEW x \in XidSet, Snapshot(x)
      PROVE  TxnInv'
  <2>1. TakeSnapshot \in SnapshotRecords /\ Judges(TakeSnapshot)
    BY Zenon, <1>0, FreshSnapshot
  <2>2. TypeOK'
    BY Zenon, <1>0, <1>2, <2>1 DEF Snapshot, TypeOK
  <2>3. Bookkeeping'
    BY Zenon, <1>0, <1>2 DEF Snapshot, Bookkeeping
  <2>4. SnapshotsJudge'
    <3> SUFFICES ASSUME NEW y \in XidSet, snap'[y] # NoSnapshot
                 PROVE  Judges(snap[y])'
      BY Zenon DEF SnapshotsJudge
    <3>1. Judges(snap'[y])
      <4>1. CASE y = x
        BY Zenon, <1>0, <1>2, <2>1, <4>1 DEF Snapshot, TypeOK
      <4>2. CASE y # x
        BY Zenon, <1>0, <1>2, <4>2 DEF Snapshot, TypeOK, SnapshotsJudge
      <4>3. QED
        BY Zenon, <4>1, <4>2
    <3>2. clock' = clock /\ phase' = phase /\ clog' = clog
      BY Zenon, <1>2 DEF Snapshot
    <3>3. QED
      BY Zenon, <3>1, <3>2 DEF Judges
  <2>5. QED
    BY Zenon, <2>2, <2>3, <2>4 DEF TxnInv
<1>3. ASSUME NEW x \in XidSet, AdvanceCurcid(x)
      PROVE  TxnInv'
  <2> DEFINE s == snap[x]
             t == [s EXCEPT !.curcid = s.curcid + 1]
  <2>1. s \in SnapshotRecords /\ s.curcid < MaxCid /\ s # NoSnapshot
    BY Zenon, <1>0, <1>3 DEF AdvanceCurcid, TypeOK
  <2>2. snap' = [snap EXCEPT ![x] = t]
    BY Zenon, <1>3 DEF AdvanceCurcid
  <2>3. t \in SnapshotRecords /\ t.xmax = s.xmax /\ t.xip = s.xip /\ t.asOf = s.asOf
    <3> HIDE DEF s
    <3>1. s.curcid + 1 \in 0..MaxCid
      BY <2>1, BoundsAssumption DEF SnapshotRecords
    <3>2. QED
      BY Zenon, <2>1, <3>1 DEF SnapshotRecords
  <2> HIDE DEF t
  <2>4. TypeOK'
    BY Zenon, <1>0, <1>3, <2>2, <2>3 DEF AdvanceCurcid, TypeOK
  <2>5. Bookkeeping'
    BY Zenon, <1>0, <1>3 DEF AdvanceCurcid, Bookkeeping
  <2>6. SnapshotsJudge'
    <3> SUFFICES ASSUME NEW y \in XidSet, snap'[y] # NoSnapshot
                 PROVE  Judges(snap[y])'
      BY DEF SnapshotsJudge
    <3>1. Judges(snap'[y])
      <4>1. CASE y = x
        <5>1. Judges(s)
          BY Zenon, <1>0, <2>1 DEF SnapshotsJudge
        <5>2. Judges(t)
          BY Zenon, <5>1, <2>3 DEF Judges
        <5>3. QED
          BY Zenon, <1>0, <2>2, <4>1, <5>2 DEF TypeOK
      <4>2. CASE y # x
        BY Zenon, <1>0, <2>2, <4>2 DEF TypeOK, SnapshotsJudge
      <4>3. QED
        BY <4>1, <4>2
    <3>2. clock' = clock /\ phase' = phase /\ clog' = clog
      BY Zenon, <1>3 DEF AdvanceCurcid
    <3>3. QED
      BY <3>1, <3>2 DEF Judges
  <2>7. QED
    BY <2>4, <2>5, <2>6 DEF TxnInv
<1>4. ASSUME NEW x \in XidSet, NEW state \in Terminal, AppendEnd(x, state)
      PROVE  TxnInv'
  <2>1. TypeOK'
    BY Zenon, <1>0, <1>4 DEF AppendEnd, TypeOK, PhaseSet, Live, Ending
  <2>2. Bookkeeping'
    BY Zenon, <1>0, <1>4 DEF AppendEnd, TypeOK, Bookkeeping, Live, Ending, Terminal
  <2>3. SnapshotsJudge'
    <3>1. clock <= clock'
      BY <1>0, <1>4, BoundsAssumption DEF AppendEnd, TypeOK
    <3>2. /\ \A y \in XidSet : snap'[y] = snap[y] \/ snap'[y] = NoSnapshot
          /\ \A y \in XidSet : phase[y] \in {"done", "lost"} => phase'[y] = phase[y]
          /\ \A y \in XidSet : phase[y] # "durable" => clog'[y] = clog[y]
      BY Zenon, <1>0, <1>4 DEF AppendEnd, TypeOK
    <3>3. QED
      BY Zenon, <2>1, <3>1, <3>2, SnapshotsKept
  <2>4. QED
    BY Zenon, <2>1, <2>2, <2>3 DEF TxnInv
<1>5. ASSUME NEW x \in XidSet, FlushTo(x)
      PROVE  TxnInv'
  <2>1. TypeOK'
    BY Zenon, <1>0, <1>5 DEF FlushTo, TypeOK, PhaseSet, Live, Ending
  <2>2. Bookkeeping'
    BY Zenon, <1>0, <1>5 DEF FlushTo, TypeOK, Bookkeeping, Live, Ending, Terminal
  <2>3. SnapshotsJudge'
    <3>1. clock <= clock'
      BY <1>0, <1>5, BoundsAssumption DEF FlushTo, TypeOK
    <3>2. /\ \A y \in XidSet : snap'[y] = snap[y] \/ snap'[y] = NoSnapshot
          /\ \A y \in XidSet : phase[y] \in {"done", "lost"} => phase'[y] = phase[y]
          /\ \A y \in XidSet : phase[y] # "durable" => clog'[y] = clog[y]
      BY Zenon, <1>0, <1>5 DEF FlushTo, TypeOK
    <3>3. QED
      BY Zenon, <2>1, <3>1, <3>2, SnapshotsKept
  <2>4. QED
    BY <2>1, <2>2, <2>3 DEF TxnInv
<1>6. ASSUME NEW x \in XidSet, WalFails(x)
      PROVE  TxnInv'
  <2>1. TypeOK'
    BY Zenon, <1>0, <1>6 DEF WalFails, TypeOK, PhaseSet, Live, Ending
  <2>2. Bookkeeping'
    BY Zenon, <1>0, <1>6 DEF WalFails, TypeOK, Bookkeeping, Live, Ending, Terminal
  <2>3. SnapshotsJudge'
    <3>1. clock <= clock'
      BY <1>0, <1>6, BoundsAssumption DEF WalFails, TypeOK
    <3>2. /\ \A y \in XidSet : snap'[y] = snap[y] \/ snap'[y] = NoSnapshot
          /\ \A y \in XidSet : phase[y] \in {"done", "lost"} => phase'[y] = phase[y]
          /\ \A y \in XidSet : phase[y] # "durable" => clog'[y] = clog[y]
      BY Zenon, <1>0, <1>6 DEF WalFails, TypeOK
    <3>3. QED
      BY <2>1, <3>1, <3>2, SnapshotsKept
  <2>4. QED
    BY <2>1, <2>2, <2>3 DEF TxnInv
<1>7. ASSUME NEW x \in XidSet, SetState(x)
      PROVE  TxnInv'
  <2>1. TypeOK'
    BY Zenon, <1>0, <1>7 DEF SetState, TypeOK, PhaseSet, Live, Ending, TxnStates
  <2>2. Bookkeeping'
    BY Zenon, <1>0, <1>7 DEF SetState, TypeOK, Bookkeeping, Live, Ending, Terminal
  <2>3. SnapshotsJudge'
    <3>1. clock <= clock'
      BY <1>0, <1>7, BoundsAssumption DEF SetState, TypeOK
    <3>2. /\ \A y \in XidSet : snap'[y] = snap[y] \/ snap'[y] = NoSnapshot
          /\ \A y \in XidSet : phase[y] \in {"done", "lost"} => phase'[y] = phase[y]
          /\ \A y \in XidSet : phase[y] # "durable" => clog'[y] = clog[y]
      BY Zenon, <1>0, <1>7 DEF SetState, TypeOK
    <3>3. QED
      BY <2>1, <3>1, <3>2, SnapshotsKept
  <2>4. QED
    BY <2>1, <2>2, <2>3 DEF TxnInv
<1>8. ASSUME NEW x \in XidSet, RemoveActive(x)
      PROVE  TxnInv'
  <2>1. TypeOK'
    BY Zenon, <1>0, <1>8 DEF RemoveActive, TypeOK, PhaseSet, Live, Ending
  <2>2. Bookkeeping'
    BY Zenon, <1>0, <1>8 DEF RemoveActive, TypeOK, Bookkeeping, Live, Ending, Terminal
  <2>3. SnapshotsJudge'
    <3>1. clock <= clock'
      BY <1>0, <1>8, BoundsAssumption DEF RemoveActive, TypeOK
    <3>2. /\ \A y \in XidSet : snap'[y] = snap[y] \/ snap'[y] = NoSnapshot
          /\ \A y \in XidSet : phase[y] \in {"done", "lost"} => phase'[y] = phase[y]
          /\ \A y \in XidSet : phase[y] # "durable" => clog'[y] = clog[y]
      BY Zenon, <1>0, <1>8 DEF RemoveActive, TypeOK
    <3>3. QED
      BY <2>1, <3>1, <3>2, SnapshotsKept
  <2>4. QED
    BY <2>1, <2>2, <2>3 DEF TxnInv
<1>9. CASE Restart
  <2>1. TypeOK'
    BY Zenon, <1>0, <1>9 DEF Restart, Reopened, TypeOK, PhaseSet, Terminal
  <2>2. Bookkeeping'
    <3> SUFFICES ASSUME NEW y \in XidSet
                 PROVE  /\ y \in active' <=> phase'[y] \in Live
                        /\ phase'[y] = "unused" <=> y >= clock'
                        /\ clog'[y] \in Terminal <=> phase'[y] \in {"decided", "done"}
      BY DEF Bookkeeping
    <3>1. phase'[y] = IF y >= clock' THEN "unused"
                      ELSE IF clog'[y] \in Terminal THEN "done" ELSE "lost"
      BY Zenon, <1>9 DEF Restart, Reopened
    <3>2. active' = {} /\ (clog'[y] \in Terminal => y < clock')
      BY Zenon, <1>9 DEF Restart, Reopened, SurvivesIn
    <3>3. y \in Nat /\ clock' \in Nat
      BY <1>9, XidFacts, BoundsAssumption DEF Restart
    <3>4. clog'[y] \in Terminal => ~(y >= clock')
      BY <3>2, <3>3
    <3>5. QED
      BY Zenon, <3>1, <3>2, <3>4 DEF Live, Ending
  <2>3. SnapshotsJudge'
    BY Zenon, <1>9 DEF Restart, Reopened, SnapshotsJudge
  <2>4. QED
    BY <2>1, <2>2, <2>3 DEF TxnInv
<1>10. CASE UNCHANGED vars
  BY Zenon, <1>0, <1>10 DEF vars, TxnInv, TypeOK, Bookkeeping, SnapshotsJudge, Judges
<1>11. QED
  BY Zenon, <1>1, <1>2, <1>3, <1>4, <1>5, <1>6, <1>7, <1>8, <1>9, <1>10 DEF Next, SessionStep

\* The strengthened invariant holds in every reachable state of the manager.
THEOREM TxnManagerInvariant == Spec => []TxnInv
<1>1. QED
  BY InvInit, InvNext, PTL DEF Spec

\* Type correctness of the transaction manager.
THEOREM TxnManagerTypes == Spec => []TypeOK
<1>1. TxnInv => TypeOK
  BY Zenon DEF TxnInv
<1>2. QED
  BY <1>1, TxnManagerInvariant, PTL

\* What the invariant says of one snapshot and one other transaction.
LEMMA PastIsAsOf ==
    ASSUME TxnInv, NEW x \in XidSet, snap[x] # NoSnapshot, NEW y \in XidSet
    PROVE  IsPast(y, snap[x]) <=> y \in snap[x].asOf
BY Zenon DEF TxnInv, SnapshotsJudge, Judges, IsPast

\* Snapshot isolation: begin_txn, snapshot, the hard order of commit_txn and
\* is_visible together show every snapshot the database of one instant, for
\* any number of transactions and through any number of restarts.
THEOREM SnapshotIsolation == Spec => []SnapshotIsInstant
<1>1. TxnInv => SnapshotIsInstant
  <2> SUFFICES ASSUME TxnInv, NEW x \in XidSet, snap[x] # NoSnapshot,
                      NEW tmin \in XidSet, NEW tmax \in XidSet \cup {InvalidXid},
                      NEW cid \in 0..MaxCid
               PROVE  IsVisible(tmin, tmax, cid, x, snap[x])
                         <=> /\ Did(tmin, cid, x, snap[x])
                             /\ ~ (tmax # InvalidXid /\ Did(tmax, cid, x, snap[x]))
    BY Zenon DEF SnapshotIsInstant
  <2> DEFINE s == snap[x]
  <2>1. s \in SnapshotRecords
    BY Zenon DEF TxnInv, TypeOK
  <2>2. s.curcid \in Int /\ cid \in Int
    BY <2>1, BoundsAssumption DEF SnapshotRecords
  <2>3. \A y \in XidSet : IsPast(y, s) <=> y \in s.asOf
    BY Zenon, PastIsAsOf
  <2> HIDE DEF s
  <2>4. XminVisible(tmin, cid, x, s) <=> Did(tmin, cid, x, s)
    BY Zenon, <2>3 DEF XminVisible, Did
  <2>5. XmaxVisible(tmax, cid, x, s) <=> ~ (tmax # InvalidXid /\ Did(tmax, cid, x, s))
    <3>1. CASE tmax = InvalidXid
      BY Zenon, <3>1 DEF XmaxVisible
    <3>2. CASE tmax # InvalidXid /\ tmax = x
      <4>1. cid >= s.curcid <=> ~ (cid < s.curcid)
        BY <2>2
      <4>2. QED
        BY Zenon, <3>2, <4>1 DEF XmaxVisible, Did
    <3>3. CASE tmax # InvalidXid /\ tmax # x
      BY Zenon, <2>3, <3>3 DEF XmaxVisible, Did
    <3>4. QED
      BY Zenon, <3>1, <3>2, <3>3
  <2>6. QED
    BY Zenon, <2>4, <2>5 DEF IsVisible, s
<1>2. QED
  BY <1>1, TxnManagerInvariant, PTL

\* Finality: no step of a session changes a terminal state; with Restart's
\* promise, neither does a crash.
THEOREM Finality == Spec => TerminalIsFinal
<1>1. TxnInv /\ [Next]_vars =>
         [\A x \in XidSet : clog[x] \in Terminal => clog'[x] = clog[x]]_vars
  <2> SUFFICES ASSUME TxnInv, Next, NEW y \in XidSet, clog[y] \in Terminal
               PROVE  clog'[y] = clog[y]
    BY Zenon
  <2>1. phase[y] \in {"decided", "done"} /\ clog \in [XidSet -> TxnStates]
    BY Zenon DEF TxnInv, Bookkeeping, TypeOK
  <2>2. CASE BeginTxn
    BY Zenon, <2>2 DEF BeginTxn
  <2>3. CASE Restart
    BY Zenon, <2>3 DEF Restart, SurvivesIn
  <2>4. ASSUME NEW x \in XidSet, SessionStep(x)
        PROVE  clog'[y] = clog[y]
    BY Zenon, <2>1, <2>4 DEF SessionStep, Snapshot, AdvanceCurcid, AppendEnd, FlushTo,
                      WalFails, SetState, RemoveActive
  <2>5. QED
    BY Zenon, <2>2, <2>3, <2>4 DEF Next
<1>2. QED
  BY <1>1, TxnManagerInvariant, PTL DEF Spec, TerminalIsFinal

----------------------------------------------------------------------------
(* The inductive invariant                                                 *)

EndRecords == [kind : {"end"}, xid : {InvalidXid}, redo : Nat, att : SUBSET XidSet]
LogRecords == [kind : {"data", "Committed", "Aborted"}, xid : XidSet]
              \cup [kind : {"begin"}, xid : {InvalidXid}] \cup EndRecords

AfterClog == {"synced", "read", "ended", "flushed"}
AfterRead == {"read", "ended", "flushed"}
CkptSteps == {"idle", "begun", "sampled"} \cup AfterClog

DiskTypes ==
    /\ log \in Seq(LogRecords)
    /\ flushed \in 0..Len(log)
    /\ clogDisk \in [XidSet -> TxnStates]
    /\ sb \in [redo : Nat, next : 1..(MaxXid + 1)]
    /\ ckpt \in [pc : CkptSteps, begin : Nat, att : SUBSET XidSet, next : 0..(MaxXid + 1)]
    /\ sb.redo <= flushed

\* A terminal record is the only one of its XID and says what was asked for.
TerminalRecords ==
    \A i \in 1..Len(log) : log[i].kind \in Terminal =>
       LET x == log[i].xid IN
         /\ fate[x] = log[i].kind
         /\ phase[x] \in Ending \cup {"failed", "done"}
         /\ clog[x] \in Terminal => clog[x] = log[i].kind
         /\ \A j \in 1..Len(log) : log[j].kind \in Terminal /\ log[j].xid = x => j = i

\* The record of a commit under way lies where recovery will look for it.
RecordInReach(x, n) ==
    \E i \in RedoStart(sb)..n : log[i] = Ended(x, fate[x])

CommitsUnderWay ==
    \A x \in XidSet : /\ phase[x] = "appended" => RecordInReach(x, Len(log))
                      /\ phase[x] = "durable" => RecordInReach(x, flushed)
                      /\ phase[x] = "failed" => poisoned

\* A CheckpointEnd comes after its redo position; the one the superblock
\* names knows no XID from the superblock's counter on.
CheckpointRecords ==
    \A i \in 1..Len(log) : log[i].kind = "end" =>
       /\ log[i].redo \in 1..(i - 1)
       /\ log[i].redo = sb.redo => \A x \in log[i].att : x < sb.next

\* The checkpoint in progress: no commit is under way, and each step leaves
\* what the later ones rely on.
CheckpointUnderWay ==
    ckpt.pc # "idle" =>
       /\ ~ poisoned
       /\ \A x \in XidSet : phase[x] \notin Ending
       /\ sb.redo < ckpt.begin /\ ckpt.begin <= Len(log)
       /\ \A x \in ckpt.att : x < clock
       /\ ckpt.pc \in AfterClog =>
             \A x \in XidSet : clog[x] \in Terminal => clogDisk[x] = clog[x]
       /\ ckpt.pc \in AfterRead =>
             /\ ckpt.next \in 1..clock
             /\ \A x \in ckpt.att : x < ckpt.next
             /\ \A x \in XidSet : clog[x] \in Terminal => x < ckpt.next
             /\ \A i \in 1..(ckpt.begin - 1) : log[i].xid < ckpt.next
       /\ \A i \in 1..Len(log) : log[i].kind = "end" /\ log[i].redo = ckpt.begin =>
             ckpt.pc \in {"ended", "flushed"} /\ log[i].att = ckpt.att
       /\ ckpt.pc = "ended" => \E i \in 1..Len(log) : log[i] = EndRecord(ckpt)
       /\ ckpt.pc = "flushed" => ckpt.begin <= flushed

\* The file lags behind memory and never contradicts it.
FileLags ==
    /\ \A x \in XidSet : clogDisk[x] \in Terminal => clog[x] = clogDisk[x]
    /\ \A i \in 1..(sb.redo - 1) :
          /\ log[i].xid < sb.next
          /\ log[i].kind \in Terminal => clogDisk[log[i].xid] = log[i].kind

\* The XID is known to recovery from the first n records.
Known(x, n) == x < sb.next \/ \E i \in RedoStart(sb)..n : log[i].xid = x

\* Recovery from the first m records finds x among the losers, by what is in the
\* first n: a record of x, or the latest CheckpointEnd.
Loser(x, n, m) ==
    \/ \E i \in RedoStart(sb)..n : log[i].xid = x
    \/ \E e \in RedoStart(sb)..n :
          /\ log[e].kind = "end" /\ log[e].redo = sb.redo /\ x \in log[e].att
          /\ \A i \in 1..m : log[i].kind = "end" => i <= e

\* Every outcome is in the file, or in the durable log, or is an abort that
\* recovery itself decided and will decide again.
OutcomesKept ==
    \A x \in XidSet : clog[x] \in Terminal =>
       /\ Known(x, flushed)
       /\ \/ clogDisk[x] = clog[x]
          \/ \E i \in RedoStart(sb)..flushed : log[i].kind = clog[x] /\ log[i].xid = x
          \/ clog[x] = "Aborted" /\ Loser(x, flushed, Len(log))

CRInv == /\ DiskTypes /\ TerminalRecords /\ CommitsUnderWay /\ CheckpointRecords
         /\ CheckpointUnderWay /\ FileLags /\ OutcomesKept /\ ClockAheadOfLog

----------------------------------------------------------------------------
(* Facts about records and the log                                         *)

LEMMA RecordFacts ==
    /\ \A x \in XidSet : Data(x) \in LogRecords
    /\ \A x \in XidSet, state \in Terminal : Ended(x, state) \in LogRecords
    /\ BeginRecord \in LogRecords
    /\ DiskTypes => EndRecord(ckpt) \in LogRecords
BY Zenon DEF Data, Ended, BeginRecord, EndRecord, LogRecords, EndRecords, Terminal, DiskTypes

LEMMA Indices ==
    ASSUME NEW S, NEW s \in Seq(S)
    PROVE  /\ Len(s) \in Nat /\ DOMAIN s = 1..Len(s)
           /\ \A i \in 1..Len(s) : s[i] \in S
OBVIOUS

LEMMA AppendFacts ==
    ASSUME DiskTypes, NEW r \in LogRecords, log' = Append(log, r)
    PROVE  /\ log' \in Seq(LogRecords)
           /\ Len(log) \in Nat
           /\ Len(log') = Len(log) + 1
           /\ \A i \in 1..Len(log) : log'[i] = log[i] /\ i \in 1..Len(log') /\ i # Len(log) + 1
           /\ log'[Len(log) + 1] = r
<1>1. /\ log' \in Seq(LogRecords) /\ Len(log) \in Nat /\ Len(log') = Len(log) + 1
      /\ \A i \in 1..Len(log) : log'[i] = log[i]
      /\ log'[Len(log) + 1] = r
  BY DEF DiskTypes
<1>2. \A i \in 1..Len(log) : i \in 1..Len(log') /\ i # Len(log) + 1
  BY <1>1
<1> QED
  BY Zenon, <1>1, <1>2

LEMMA LogFacts ==
    ASSUME DiskTypes
    PROVE  /\ Len(log) \in Nat /\ DOMAIN log = 1..Len(log)
           /\ flushed \in Nat /\ flushed <= Len(log)
           /\ \A i \in 1..Len(log) : log[i] \in LogRecords
           /\ sb.redo \in Nat /\ sb.next \in Nat
           /\ RedoStart(sb) \in Nat /\ RedoStart(sb) >= 1 /\ RedoStart(sb) >= sb.redo
           /\ RedoStart(sb) <= Len(log) + 1
BY Indices, BoundsAssumption DEF DiskTypes, RedoStart

LEMMA CRInvInit == CRInit => CRInv
<1> SUFFICES ASSUME CRInit PROVE CRInv
  BY Zenon
<1>1. /\ log = <<>> /\ Len(log) = 0 /\ flushed = 0
      /\ clogDisk = clog
      /\ sb = [redo |-> 0, next |-> 1]
      /\ ckpt = Idle /\ ckpt.pc = "idle"
  BY Zenon DEF CRInit, Idle
<1>2. TypeOK /\ \A x \in XidSet : clog[x] = "InProgress" /\ phase[x] = "unused"
  BY Zenon, InvInit DEF CRInit, Init, TxnInv
<1>3. DiskTypes
  <2>1. log \in Seq(LogRecords)
    BY <1>1
  <2>2. ckpt \in [pc : CkptSteps, begin : Nat, att : SUBSET XidSet, next : 0..(MaxXid + 1)]
    BY <1>1, BoundsAssumption DEF Idle, CkptSteps
  <2>3. sb \in [redo : Nat, next : 1..(MaxXid + 1)] /\ sb.redo = 0
    BY <1>1, BoundsAssumption
  <2>4. QED
    BY <1>1, <1>2, <2>1, <2>2, <2>3 DEF DiskTypes, TypeOK
<1>4. TerminalRecords /\ CheckpointRecords /\ ClockAheadOfLog
  BY <1>1 DEF TerminalRecords, CheckpointRecords, ClockAheadOfLog
<1>5. CommitsUnderWay /\ OutcomesKept
  BY Zenon, <1>2 DEF CommitsUnderWay, OutcomesKept, Terminal
<1>6. CheckpointUnderWay /\ FileLags
  BY <1>1, <1>2 DEF CheckpointUnderWay, FileLags, Terminal
<1>7. QED
  BY Zenon, <1>3, <1>4, <1>5, <1>6 DEF CRInv

\* A bounded set of numbers has a largest member.
LEMMA LargestMember ==
    ASSUME NEW n \in Nat, NEW S, S \subseteq 0..n, S # {}
    PROVE  \E m \in S : \A k \in S : k <= m
<1> DEFINE D == {n - k : k \in S}
<1>1. D \subseteq Nat /\ D # {}
  <2>1. \A k \in S : k \in Nat /\ n - k \in Nat
    OBVIOUS
  <2>2. D # {}
    BY Zenon
  <2>3. QED
    BY Zenon, <2>1, <2>2
<1>2. PICK d \in D : \A e \in D : ~(<<e, d>> \in OpToRel(<, Nat))
  BY Zenon, <1>1, NatLessThanWellFounded, WFMin
<1>3. \A e \in D : ~(e < d)
  BY Zenon, <1>1, <1>2 DEF OpToRel
<1>4. PICK m \in S : d = n - m
  BY Zenon
<1>5. ASSUME NEW k \in S PROVE k <= m
  <2>1. ~(n - k < n - m)
    BY Zenon, <1>3, <1>4
  <2>2. QED
    BY <2>1
<1>6. QED
  BY Zenon, <1>5

\* What recovery sees of the first n records.
LEMMA SurvivorFacts ==
    ASSUME DiskTypes, NEW n \in 0..Len(log)
    PROVE  /\ Survivor(n) \in Seq(LogRecords)
           /\ Len(Survivor(n)) = n
           /\ \A i \in 1..n : Survivor(n)[i] = log[i]
BY LogFacts DEF Survivor, DiskTypes

LEMMA SetsFromLog ==
    ASSUME DiskTypes, NEW n \in 0..Len(log), NEW x \in XidSet
    PROVE  /\ \A state \in Terminal : x \in EndedFrom(Survivor(n), RedoStart(sb), state) <=>
                 \E i \in RedoStart(sb)..n : log[i].kind = state /\ log[i].xid = x
           /\ x \in XidsFrom(Survivor(n), RedoStart(sb)) <=>
                 \E i \in RedoStart(sb)..n : log[i].xid = x
<1>1. /\ Len(Survivor(n)) = n
      /\ \A i \in RedoStart(sb)..n : Survivor(n)[i] = log[i]
  BY SurvivorFacts, LogFacts
<1>2. x # InvalidXid
  BY Zenon, XidFacts
<1>3. QED
  BY Zenon, <1>1, <1>2 DEF EndedFrom, XidsFrom

LEMMA BaselineFacts ==
    ASSUME DiskTypes, NEW n \in 0..Len(log), NEW x \in XidSet
    PROVE  x \in Baseline(Survivor(n), sb) <=>
             \E e \in RedoStart(sb)..n :
                /\ log[e].kind = "end" /\ log[e].redo = sb.redo /\ x \in log[e].att
                /\ \A i \in RedoStart(sb)..n : log[i].kind = "end" => i <= e
<1> DEFINE E == EndPositions(Survivor(n), sb)
<1>0. /\ Len(Survivor(n)) = n /\ n \in Nat
      /\ RedoStart(sb) \in Nat
      /\ \A i \in RedoStart(sb)..n : Survivor(n)[i] = log[i]
  BY SurvivorFacts, LogFacts
<1>1. E = {i \in RedoStart(sb)..n : log[i].kind = "end"}
  BY Zenon, <1>0 DEF EndPositions
<1>2. \A i \in E : i \in Nat /\ Survivor(n)[i] = log[i]
  BY <1>0, <1>1
<1>3. CASE E = {}
  BY Zenon, <1>1, <1>3 DEF Baseline
<1>4. CASE E # {}
  <2> DEFINE m == LatestEnd(Survivor(n), sb)
  <2>1. E \subseteq 0..n /\ n \in Nat
    BY <1>1, LogFacts
  <2>2. \E i \in E : \A j \in E : j <= i
    BY Zenon, <1>4, <2>1, LargestMember
  <2>3. m \in E /\ \A j \in E : j <= m
    BY Zenon, <2>2 DEF LatestEnd
  <2>4. \A e \in E : (\A j \in E : j <= e) => e = m
    BY <1>2, <2>3
  <2>5. x \in Baseline(Survivor(n), sb) <=> log[m].redo = sb.redo /\ x \in log[m].att
    BY Zenon, <1>2, <1>4, <2>3 DEF Baseline
  <2> HIDE DEF m
  <2>6. QED
    BY Zenon, <1>1, <2>3, <2>4, <2>5
<1>5. QED
  BY Zenon, <1>3, <1>4

----------------------------------------------------------------------------
(* What recovery makes of one transaction                                  *)

\* Whatever of the log beyond its durable part and of the CLOG file a crash
\* leaves: recovery keeps outcomes, invents no commit, and agrees with the
\* records and with the file that it read.
LEMMA Recovered ==
    ASSUME TxnInv, CRInv, NEW n \in flushed..Len(log), NEW kept \in SUBSET XidSet,
           NEW x \in XidSet, NEW c, NEW base,
           c = RecoveredClog(ClogFile(kept), Survivor(n), sb)[x],
           base = ClogFile(kept)[x]
    PROVE  /\ c \in TxnStates /\ base \in TxnStates
           /\ clog[x] \in Terminal => c = clog[x]
           /\ c = "Committed" => \/ clog[x] = "Committed"
                                 \/ phase[x] \in Live /\ fate[x] = "Committed"
           /\ c \in Terminal => Known(x, n)
           /\ \A i \in 1..n : log[i].kind \in Terminal /\ log[i].xid = x => c = log[i].kind
           /\ base \in Terminal => c = base
           /\ c \in Terminal =>
                 \/ base = c
                 \/ \E i \in RedoStart(sb)..n : log[i].kind = c /\ log[i].xid = x
                 \/ c = "Aborted" /\ Loser(x, n, n)
<1> DEFINE p == RedoStart(sb)
           Has(state) == \E i \in p..n : log[i].kind = state /\ log[i].xid = x
           Mentioned == \E i \in p..n : log[i].xid = x
           Listed == \E e \in p..n :
                       /\ log[e].kind = "end" /\ log[e].redo = sb.redo /\ x \in log[e].att
                       /\ \A i \in p..n : log[i].kind = "end" => i <= e
           rep == ReplayedClog(ClogFile(kept), Survivor(n), sb)[x]
<1>1. DiskTypes /\ TypeOK
  BY Zenon DEF CRInv, TxnInv
<1>2. /\ p \in Nat /\ n \in Nat /\ flushed \in Nat /\ flushed <= n /\ n <= Len(log)
      /\ p >= 1 /\ sb.redo \in Nat /\ (p = sb.redo \/ p = 1)
      /\ n \in 0..Len(log) /\ Len(log) \in Nat
  BY <1>1, LogFacts DEF RedoStart
<1>3. /\ \A state \in Terminal : x \in EndedFrom(Survivor(n), p, state) <=> Has(state)
      /\ x \in XidsFrom(Survivor(n), p) <=> Mentioned
      /\ x \in Baseline(Survivor(n), sb) <=> Listed
  BY <1>1, <1>2, SetsFromLog, BaselineFacts
<1>4. rep = IF Has("Committed") THEN "Committed" ELSE IF Has("Aborted") THEN "Aborted" ELSE base
  BY Zenon, <1>3 DEF ReplayedClog, Terminal
<1>5. x \in AnalysisAtt(Survivor(n), sb) <=>
         (Listed \/ Mentioned) /\ ~Has("Committed") /\ ~Has("Aborted")
  BY Zenon, <1>3 DEF AnalysisAtt, TerminatedFrom, Terminal
<1>6. c = IF x \in AnalysisAtt(Survivor(n), sb) /\ rep = "InProgress" THEN "Aborted" ELSE rep
  BY Zenon DEF RecoveredClog
<1>7. /\ base = IF x \in kept THEN clog[x] ELSE clogDisk[x]
      /\ base \in TxnStates
      /\ base \in Terminal => clog[x] = base
      /\ clogDisk[x] \in Terminal => base = clogDisk[x] /\ clog[x] = base
  BY Zenon, <1>1 DEF ClogFile, DiskTypes, TypeOK, CRInv, FileLags
<1>8. ASSUME NEW i \in 1..n, log[i].kind \in Terminal, log[i].xid = x
      PROVE  /\ fate[x] = log[i].kind
             /\ phase[x] \in Ending \cup {"failed", "done"}
             /\ clog[x] \in Terminal => clog[x] = log[i].kind
             /\ i < p => clogDisk[x] = log[i].kind
  <2>1. i \in 1..Len(log)
    BY <1>2
  <2>2. i < p => i \in 1..(sb.redo - 1)
    BY <1>2
  <2>3. QED
    BY Zenon, <1>8, <2>1, <2>2 DEF CRInv, TerminalRecords, FileLags
<1>9. \A i \in p..n : i \in 1..n
  BY <1>2
<1>10. \A state \in Terminal : Has(state) =>
          /\ fate[x] = state
          /\ phase[x] \in Ending \cup {"failed", "done"}
          /\ clog[x] \in Terminal => clog[x] = state
  BY Zenon, <1>8, <1>9
<1> HIDE DEF rep, Has, Mentioned, Listed
<1>11. c \in TxnStates
  BY Zenon, <1>4, <1>6, <1>7 DEF TxnStates, Terminal
<1>12. base \in Terminal => c = base
  <2> SUFFICES ASSUME base \in Terminal PROVE c = base
    BY Zenon
  <2>1. clog[x] = base
    BY Zenon, <1>7
  <2>2. rep = base
    BY Zenon, <1>4, <1>10, <2>1 DEF Terminal
  <2>3. QED
    BY Zenon, <1>6, <2>2 DEF Terminal
<1>13. ASSUME NEW i \in 1..n, log[i].kind \in Terminal, log[i].xid = x
       PROVE  c = log[i].kind
  <2>1. CASE i < p
    BY Zenon, <1>7, <1>8, <1>12, <1>13, <2>1
  <2>2. CASE i >= p
    <3>1. Has(log[i].kind)
      BY <1>2, <1>13, <2>2 DEF Has
    <3>2. rep = log[i].kind
      BY Zenon, <1>4, <1>10, <1>13, <3>1 DEF Terminal
    <3>3. QED
      BY Zenon, <1>6, <1>13, <3>2 DEF Terminal
  <2>3. QED
    BY <1>2, <2>1, <2>2
<1>14. c \in Terminal => \/ base = c
                         \/ Has(c)
                         \/ c = "Aborted" /\ (Listed \/ Mentioned)
  BY Zenon, <1>4, <1>5, <1>6, <1>7 DEF Terminal, TxnStates
<1>15. clog[x] \in Terminal => c = clog[x]
  <2> SUFFICES ASSUME clog[x] \in Terminal PROVE c = clog[x]
    BY Zenon
  <2>1. \/ clogDisk[x] = clog[x]
        \/ \E i \in p..flushed : log[i].kind = clog[x] /\ log[i].xid = x
        \/ clog[x] = "Aborted" /\ Loser(x, flushed, Len(log))
    BY Zenon DEF CRInv, OutcomesKept
  <2>2. CASE clogDisk[x] = clog[x]
    BY Zenon, <1>7, <1>12, <2>2
  <2>3. CASE \E i \in p..flushed : log[i].kind = clog[x] /\ log[i].xid = x
    BY <1>2, <1>13, <2>3
  <2>4. CASE clog[x] = "Aborted" /\ Loser(x, flushed, Len(log))
    <3>1. Listed \/ Mentioned
      BY <1>2, <2>4 DEF Loser, Listed, Mentioned
    <3>2. \A state \in Terminal : Has(state) => state = clog[x]
      BY Zenon, <1>10
    <3>3. base \in Terminal => base = clog[x]
      BY Zenon, <1>7
    <3>4. QED
      BY Zenon, <1>4, <1>5, <1>6, <1>7, <2>4, <3>1, <3>2, <3>3 DEF Terminal, TxnStates
  <2>5. QED
    BY Zenon, <2>1, <2>2, <2>3, <2>4
<1>16. c = "Committed" => \/ clog[x] = "Committed"
                          \/ phase[x] \in Live /\ fate[x] = "Committed"
  <2> SUFFICES ASSUME c = "Committed"
               PROVE  \/ clog[x] = "Committed"
                      \/ phase[x] \in Live /\ fate[x] = "Committed"
    BY Zenon
  <2>1. base = "Committed" \/ Has("Committed")
    BY Zenon, <1>14 DEF Terminal
  <2>2. phase[x] = "done" => clog[x] \in Terminal
    BY Zenon DEF TxnInv, Bookkeeping
  <2>3. QED
    BY Zenon, <1>7, <1>10, <2>1, <2>2 DEF Terminal, Live, Ending
<1>17. c \in Terminal => Known(x, n)
  <2> SUFFICES ASSUME c \in Terminal PROVE Known(x, n)
    BY Zenon
  <2>1. CASE base \in Terminal
    <3>1. Known(x, flushed)
      BY Zenon, <1>7, <2>1 DEF CRInv, OutcomesKept
    <3>2. QED
      BY <1>2, <3>1 DEF Known
  <2>2. CASE Mentioned \/ Has(c)
    BY Zenon, <2>2 DEF Mentioned, Has, Known
  <2>3. CASE Listed
    <3>1. \A e \in p..n : e \in 1..Len(log)
      BY <1>2
    <3>2. QED
      BY Zenon, <2>3, <3>1 DEF Listed, Known, CRInv, CheckpointRecords
  <2>4. QED
    BY Zenon, <1>14, <2>1, <2>2, <2>3
<1>18. Listed \/ Mentioned => Loser(x, n, n)
  <2>1. \A e \in p..n, i \in 1..n : i \in p..n \/ i <= e
    BY <1>2
  <2>2. QED
    BY Zenon, <2>1 DEF Listed, Mentioned, Loser
<1>19. QED
  BY Zenon, <1>7, <1>11, <1>12, <1>13, <1>14, <1>15, <1>16, <1>17, <1>18 DEF Has

LEMMA RecordXids ==
    ASSUME DiskTypes, NEW i \in 1..Len(log)
    PROVE  /\ log[i].xid \in XidSet \cup {InvalidXid} /\ log[i].xid \in Nat
           /\ log[i].kind \in Terminal => log[i].xid \in XidSet
<1>1. log[i] \in LogRecords
  BY Zenon, LogFacts
<1>2. /\ log[i].xid \in XidSet \cup {InvalidXid}
      /\ log[i].kind \in Terminal => log[i].xid \in XidSet
  BY Zenon, <1>1 DEF LogRecords, EndRecords, Terminal
<1>3. XidSet \cup {InvalidXid} \subseteq Nat
  <2>1. InvalidXid \in Nat
    BY Zenon DEF InvalidXid
  <2>2. QED
    BY Zenon, <2>1, XidFacts
<1>4. QED
  BY Zenon, <1>2, <1>3

\* The seed of the XID clock is past the superblock's counter and past every
\* record that recovery reads.
LEMMA ClockFacts ==
    ASSUME DiskTypes, NEW n \in 0..Len(log), NEW k, k = RecoveredClock(Survivor(n), sb)
    PROVE  /\ k \in 1..(MaxXid + 1)
           /\ sb.next <= k
           /\ \A i \in RedoStart(sb)..n : log[i].xid < k
<1> DEFINE X == XidsFrom(Survivor(n), RedoStart(sb))
           S == {sb.next} \cup {x + 1 : x \in X}
<1>1. /\ Len(Survivor(n)) = n /\ n \in Nat
      /\ \A i \in RedoStart(sb)..n : Survivor(n)[i] = log[i] /\ i \in 1..Len(log)
  BY SurvivorFacts, LogFacts
<1>2. X = {log[i].xid : i \in RedoStart(sb)..n} \ {InvalidXid}
  BY Zenon, <1>1 DEF XidsFrom
<1>3. X \subseteq XidSet
  BY Zenon, <1>1, <1>2, RecordXids
<1>4. sb.next \in 1..(MaxXid + 1)
  BY Zenon DEF DiskTypes
<1>5. \A x \in X : x \in Nat /\ x + 1 \in 1..(MaxXid + 1)
  <2> HIDE DEF X
  <2>1. \A x \in XidSet : x \in Nat /\ x + 1 \in 1..(MaxXid + 1)
    BY BoundsAssumption DEF XidSet
  <2>2. QED
    BY Zenon, <1>3, <2>1
<1>6. S \subseteq 1..(MaxXid + 1)
  BY Zenon, <1>4, <1>5
<1>7. S \subseteq 0..(MaxXid + 1) /\ MaxXid + 1 \in Nat
  <2>1. 1..(MaxXid + 1) \subseteq 0..(MaxXid + 1) /\ MaxXid + 1 \in Nat
    BY BoundsAssumption
  <2>2. QED
    BY Zenon, <1>6, <2>1
<1>8. \E m \in S : \A y \in S : y <= m
  BY Zenon, <1>7, LargestMember
<1>9. k \in S /\ \A y \in S : y <= k
  BY Zenon, <1>8 DEF RecoveredClock, MaxIn
<1>10. ASSUME NEW i \in RedoStart(sb)..n PROVE log[i].xid < k
  <2>1. k \in Nat /\ k >= 1
    BY <1>6, <1>9
  <2>2. CASE log[i].xid = InvalidXid
    BY <2>1, <2>2 DEF InvalidXid
  <2>3. CASE log[i].xid # InvalidXid
    <3>1. log[i].xid \in X
      BY Zenon, <1>2, <2>3
    <3>2. log[i].xid + 1 <= k /\ log[i].xid \in Nat
      BY Zenon, <1>5, <1>9, <3>1
    <3>3. QED
      BY <2>1, <3>2
  <2>4. QED
    BY Zenon, <2>2, <2>3
<1>11. QED
  BY Zenon, <1>6, <1>9, <1>10

----------------------------------------------------------------------------
(* Every step is a step of the transaction manager                         *)

LEMMA CrashRefines ==
    ASSUME TxnInv, CRInv, NEW n \in flushed..Len(log), NEW kept \in SUBSET XidSet,
           Crash(n, kept)
    PROVE  Restart
<1>1. DiskTypes /\ n \in 0..Len(log) /\ n \in Nat
  BY LogFacts DEF CRInv
<1>2. /\ clock' = RecoveredClock(Survivor(n), sb)
      /\ clog' = RecoveredClog(ClogFile(kept), Survivor(n), sb)
      /\ Reopened
  BY Zenon DEF Crash
<1>3. /\ clock' \in 1..(MaxXid + 1)
      /\ sb.next <= clock'
      /\ \A i \in RedoStart(sb)..n : log[i].xid < clock'
  BY Zenon, <1>1, <1>2, ClockFacts
<1>4. \A x \in XidSet :
         /\ clog'[x] \in TxnStates
         /\ clog[x] \in Terminal => clog'[x] = clog[x]
         /\ clog'[x] = "Committed" => \/ clog[x] = "Committed"
                                      \/ phase[x] \in Live /\ fate[x] = "Committed"
         /\ clog'[x] \in Terminal => Known(x, n)
  BY <1>2, Recovered
<1>5. clog' \in [XidSet -> TxnStates]
  BY Zenon, <1>2, <1>4 DEF RecoveredClog
<1>6. \A x \in XidSet : Known(x, n) => x < clock'
  <2>1. clock' \in Nat /\ sb.next \in Nat
    BY <1>1, <1>3, LogFacts
  <2>2. QED
    BY <1>3, <2>1, XidFacts DEF Known
<1>7. SurvivesIn(clog', clock')
  BY Zenon, <1>4, <1>6 DEF SurvivesIn
<1>8. QED
  BY Zenon, <1>2, <1>3, <1>5, <1>7 DEF Restart

LEMMA CRNextRefines ==
    ASSUME TxnInv, CRInv, [CRNext]_crVars
    PROVE  [Next]_vars
<1>1. CASE MemoryStep
  BY Zenon, <1>1 DEF MemoryStep, Next, SessionStep
<1>2. ASSUME NEW x \in XidSet, WriteData(x) PROVE UNCHANGED vars
  BY Zenon, <1>2 DEF WriteData, memory, vars
<1>3. ASSUME NEW x \in XidSet, CommitFlush(x) PROVE Next
  BY Zenon, <1>3 DEF CommitFlush, Next, SessionStep
<1>4. ASSUME NEW x \in XidSet, NEW state \in Terminal, CommitAppend(x, state) PROVE Next
  BY Zenon, <1>4 DEF CommitAppend, Next, SessionStep
<1>5. CASE GroupFsync \/ Checkpoint
  BY Zenon, <1>5 DEF GroupFsync, Checkpoint, CkptBegin, CkptSample, CkptClog, CkptRead, CkptEnd,
              CkptFlush, CkptSuperblock, CkptFail, memory, vars
<1>6. ASSUME NEW n \in flushed..Len(log), NEW kept \in SUBSET XidSet, Crash(n, kept)
      PROVE  Next
  BY Zenon, <1>6, CrashRefines DEF Next
<1>7. CASE UNCHANGED crVars
  BY Zenon, <1>7 DEF crVars, vars
<1>8. QED
  BY Zenon, <1>1, <1>2, <1>3, <1>4, <1>5, <1>6, <1>7 DEF CRNext

----------------------------------------------------------------------------
(* The invariant is inductive: a crash                                     *)

LEMMA CrashKeeps ==
    ASSUME TxnInv, TxnInv', CRInv, NEW n \in flushed..Len(log),
           NEW kept \in SUBSET XidSet, Crash(n, kept)
    PROVE  CRInv'
<1>1. DiskTypes /\ n \in 0..Len(log) /\ n \in Nat /\ flushed \in Nat /\ Len(log) \in Nat
  BY LogFacts DEF CRInv
<1>2. /\ clock' = RecoveredClock(Survivor(n), sb)
      /\ clog' = RecoveredClog(ClogFile(kept), Survivor(n), sb)
      /\ clogDisk' = ClogFile(kept)
      /\ log' = Survivor(n) /\ flushed' = n
      /\ ckpt' = Idle /\ sb' = sb
      /\ \A x \in XidSet :
            /\ phase'[x] = IF x >= clock' THEN "unused"
                           ELSE IF clog'[x] \in Terminal THEN "done" ELSE "lost"
            /\ x < clock' => fate'[x] = fate[x]
  <2>1. \A x \in XidSet : x < clock' => ~(x >= clock')
    BY XidFacts, BoundsAssumption DEF TxnInv, TypeOK
  <2>2. QED
    BY Zenon, <2>1 DEF Crash, Reopened
<1>3. /\ clock' \in Nat /\ sb.next <= clock' /\ sb.next \in Nat
      /\ \A i \in RedoStart(sb)..n : log[i].xid < clock'
  BY <1>1, <1>2, ClockFacts, LogFacts, BoundsAssumption
<1>4. /\ log' \in Seq(LogRecords) /\ Len(log') = n
      /\ \A i \in 1..n : log'[i] = log[i] /\ i \in 1..Len(log)
  BY <1>1, <1>2, SurvivorFacts
<1>5. \A x \in XidSet :
         /\ clog'[x] \in TxnStates /\ clogDisk'[x] \in TxnStates
         /\ clog'[x] \in Terminal => Known(x, n)
         /\ \A i \in 1..n : log[i].kind \in Terminal /\ log[i].xid = x => clog'[x] = log[i].kind
         /\ clogDisk'[x] \in Terminal => clog'[x] = clogDisk'[x]
         /\ clog[x] \in Terminal => clog'[x] = clog[x]
         /\ clog'[x] \in Terminal =>
               \/ clogDisk'[x] = clog'[x]
               \/ \E i \in RedoStart(sb)..n : log[i].kind = clog'[x] /\ log[i].xid = x
               \/ clog'[x] = "Aborted" /\ Loser(x, n, n)
  BY <1>2, Recovered
<1>6. /\ sb.redo \in Nat /\ sb.redo <= n
      /\ RedoStart(sb) \in Nat /\ RedoStart(sb) >= 1
      /\ RedoStart(sb)' = RedoStart(sb)
      /\ (RedoStart(sb) = sb.redo \/ RedoStart(sb) = 1)
  BY <1>1, <1>2, LogFacts DEF DiskTypes, RedoStart
<1>7. DiskTypes'
  <2>1. ckpt' \in [pc : CkptSteps, begin : Nat, att : SUBSET XidSet, next : 0..(MaxXid + 1)]
    BY <1>2, BoundsAssumption DEF Idle, CkptSteps
  <2>2. clogDisk' \in [XidSet -> TxnStates]
    BY Zenon, <1>2, <1>5 DEF ClogFile
  <2>3. flushed' \in 0..Len(log')
    BY <1>1, <1>2, <1>4
  <2>4. QED
    BY Zenon, <1>1, <1>2, <1>4, <1>6, <2>1, <2>2, <2>3 DEF DiskTypes
<1>8. ClockAheadOfLog'
  <2>1. ASSUME NEW i \in 1..n PROVE log'[i].xid < clock'
    <3>1. CASE i < RedoStart(sb)
      <4>1. i \in 1..(sb.redo - 1)
        BY <1>6, <3>1
      <4>2. log[i].xid < sb.next /\ log[i].xid \in Nat
        BY Zenon, <1>1, <1>4, <4>1, RecordXids DEF CRInv, FileLags
      <4>3. QED
        BY <1>3, <1>4, <4>2
    <3>2. CASE i >= RedoStart(sb)
      BY <1>3, <1>4, <1>6, <3>2
    <3>3. QED
      BY <1>6, <3>1, <3>2
  <2>2. DOMAIN log' = 1..n
    BY Zenon, <1>4, Indices
  <2>3. QED
    BY Zenon, <2>1, <2>2 DEF ClockAheadOfLog
<1>9. TerminalRecords'
  <2> SUFFICES ASSUME NEW i \in 1..n, log'[i].kind \in Terminal
               PROVE  LET x == log'[i].xid IN
                        /\ fate'[x] = log'[i].kind
                        /\ phase'[x] \in Ending \cup {"failed", "done"}
                        /\ clog'[x] \in Terminal => clog'[x] = log'[i].kind
                        /\ \A j \in 1..n : log'[j].kind \in Terminal /\ log'[j].xid = x => j = i
    BY Zenon, <1>4 DEF TerminalRecords
  <2>1. log'[i] = log[i] /\ i \in 1..Len(log)
    BY Zenon, <1>4
  <2> DEFINE x == log[i].xid
  <2>2. x \in XidSet /\ x \in Nat /\ fate[x] = log[i].kind
    BY Zenon, <1>1, <2>1, RecordXids DEF CRInv, TerminalRecords
  <2>3. x < clock'
    BY Zenon, <1>4, <1>8, <2>1, Indices DEF ClockAheadOfLog
  <2>4. clog'[x] = log[i].kind
    BY Zenon, <1>5, <2>1, <2>2
  <2>5. phase'[x] = "done" /\ fate'[x] = log[i].kind
    BY <1>2, <1>3, <2>1, <2>2, <2>3, <2>4
  <2>6. \A j \in 1..n : log'[j].kind \in Terminal /\ log'[j].xid = x => j = i
    BY Zenon, <1>4, <2>1 DEF CRInv, TerminalRecords
  <2>7. QED
    BY Zenon, <2>1, <2>4, <2>5, <2>6
<1>10. CommitsUnderWay'
  BY Zenon, <1>2 DEF CommitsUnderWay
<1>11. CheckpointRecords'
  BY Zenon, <1>2, <1>4 DEF CRInv, CheckpointRecords
<1>12. CheckpointUnderWay'
  BY Zenon, <1>2 DEF CheckpointUnderWay, Idle
<1>13. FileLags'
  <2>1. ASSUME NEW i \in 1..(sb.redo - 1)
        PROVE  /\ log'[i].xid < sb.next
               /\ log'[i].kind \in Terminal => clogDisk'[log'[i].xid] = log'[i].kind
    <3>1. i \in 1..n /\ log'[i] = log[i]
      BY <1>4, <1>6
    <3>2. /\ log[i].xid < sb.next
          /\ log[i].kind \in Terminal =>
                /\ log[i].xid \in XidSet
                /\ clogDisk[log[i].xid] = log[i].kind
                /\ clog[log[i].xid] = log[i].kind
      BY Zenon, <1>1, <1>4, <3>1, RecordXids DEF CRInv, FileLags
    <3>3. QED
      BY Zenon, <1>2, <3>1, <3>2 DEF ClogFile
  <2>2. QED
    BY Zenon, <1>2, <1>5, <2>1 DEF FileLags
<1>14. OutcomesKept'
  <2> SUFFICES ASSUME NEW x \in XidSet, clog'[x] \in Terminal
               PROVE  /\ Known(x, flushed)'
                      /\ \/ clogDisk'[x] = clog'[x]
                         \/ \E i \in RedoStart(sb)'..flushed' :
                               log'[i].kind = clog'[x] /\ log'[i].xid = x
                         \/ clog'[x] = "Aborted" /\ Loser(x, flushed, Len(log))'
    BY Zenon DEF OutcomesKept
  <2>1. \A i \in RedoStart(sb)..n : i \in 1..n /\ log'[i] = log[i]
    BY <1>4, <1>6
  <2>2. Known(x, flushed)'
    BY <1>2, <1>5, <1>6, <2>1 DEF Known
  <2>3. Loser(x, n, n) => Loser(x, flushed, Len(log))'
    BY <1>2, <1>4, <1>6, <2>1 DEF Loser
  <2>4. QED
    BY <1>2, <1>5, <1>6, <2>1, <2>2, <2>3
<1>15. QED
  BY Zenon, <1>7, <1>8, <1>9, <1>10, <1>11, <1>12, <1>13, <1>14 DEF CRInv

----------------------------------------------------------------------------
(* The invariant is inductive: the steps of sessions                       *)

LEMMA MemoryKeeps ==
    ASSUME TxnInv, TxnInv', CRInv, MemoryStep
    PROVE  CRInv'
<1>1. /\ log' = log /\ flushed' = flushed /\ clogDisk' = clogDisk /\ sb' = sb /\ ckpt' = ckpt
      /\ fate' = fate
  BY Zenon DEF MemoryStep, disk, BeginTxn, WalFails, SetState, RemoveActive
<1>2. clock \in Nat /\ clock' \in Nat /\ clock <= clock'
  <2>1. clock \in Nat /\ clock' \in Nat
    BY BoundsAssumption DEF TxnInv, TypeOK
  <2>2. QED
    BY <2>1 DEF MemoryStep, BeginTxn, WalFails, SetState, RemoveActive
<1>3. /\ phase \in [XidSet -> PhaseSet] /\ clog \in [XidSet -> TxnStates] /\ Bookkeeping
      /\ DiskTypes
  BY Zenon DEF TxnInv, TypeOK, CRInv
<1>4. \A y \in XidSet :
         /\ phase[y] \in Ending \cup {"failed", "done"} =>
               phase'[y] \in Ending \cup {"failed", "done"}
         /\ phase'[y] = "appended" => phase[y] = "appended"
         /\ phase'[y] = "durable" => phase[y] = "durable"
         /\ phase'[y] = "failed" => phase[y] = "failed" \/ poisoned'
         /\ clog'[y] = clog[y] \/ (phase[y] = "durable" /\ clog'[y] = fate[y])
  <2>1. CASE BeginTxn
    <3>1. clock \in XidSet /\ phase[clock] = "unused"
      BY <1>3, <2>1, BoundsAssumption DEF BeginTxn, TxnInv, TypeOK, XidSet, Bookkeeping
    <3>2. QED
      BY Zenon, <1>3, <2>1, <3>1 DEF BeginTxn, Ending
  <2>2. CASE \E x \in XidSet : WalFails(x)
    BY Zenon, <1>3, <2>2 DEF WalFails, Ending
  <2>3. CASE \E x \in XidSet : SetState(x)
    BY Zenon, <1>3, <2>3 DEF SetState, Ending
  <2>4. CASE \E x \in XidSet : RemoveActive(x)
    BY Zenon, <1>3, <2>4 DEF RemoveActive, Ending
  <2>5. QED
    BY Zenon, <2>1, <2>2, <2>3, <2>4 DEF MemoryStep
<1>5. poisoned => poisoned'
  BY Zenon DEF MemoryStep, BeginTxn, WalFails, SetState, RemoveActive
<1>6. DiskTypes' /\ CheckpointRecords'
  BY Zenon, <1>1 DEF CRInv, DiskTypes, CheckpointRecords
<1>7. TerminalRecords'
  <2>1. \A i \in 1..Len(log) : log[i].kind \in Terminal => log[i].xid \in XidSet
    BY Zenon, <1>3, RecordXids
  <2>2. QED
    BY <1>1, <1>3, <1>4, <2>1 DEF CRInv, TerminalRecords
<1>8. CommitsUnderWay'
  BY Zenon, <1>1, <1>4, <1>5 DEF CRInv, CommitsUnderWay, RecordInReach, RedoStart
<1>9. CheckpointUnderWay'
  <2> SUFFICES ASSUME ckpt.pc # "idle" PROVE CheckpointUnderWay'
    BY Zenon, <1>1 DEF CheckpointUnderWay
  <2>1. BeginTxn
    BY Zenon DEF CRInv, CheckpointUnderWay, MemoryStep, WalFails, SetState, RemoveActive, Ending
  <2>2. clock \in XidSet /\ clog' = clog /\ poisoned' = poisoned
    BY Zenon, <1>2, <2>1, BoundsAssumption DEF BeginTxn, TxnInv, TypeOK, XidSet
  <2>3. \A y \in XidSet : phase'[y] \notin Ending
    BY Zenon, <1>3, <2>1, <2>2 DEF CRInv, CheckpointUnderWay, BeginTxn, Ending
  <2>4. \A x \in ckpt.att : x < clock'
    <3>1. ckpt.att \subseteq Nat
      BY Zenon, <1>3, XidFacts DEF DiskTypes
    <3>2. QED
      BY <1>2, <3>1 DEF CRInv, CheckpointUnderWay
  <2>5. ckpt.pc \in AfterRead => ckpt.next \in 1..clock'
    BY <1>2 DEF CRInv, CheckpointUnderWay
  <2>6. EndRecord(ckpt)' = EndRecord(ckpt)
    BY Zenon, <1>1 DEF EndRecord
  <2>7. QED
    BY Zenon, <1>1, <2>2, <2>3, <2>4, <2>5, <2>6 DEF CRInv, CheckpointUnderWay
<1>10. FileLags'
  BY Zenon, <1>1, <1>3, <1>4 DEF CRInv, FileLags, Bookkeeping
<1>11. OutcomesKept'
  <2> SUFFICES ASSUME NEW x \in XidSet, clog'[x] \in Terminal
               PROVE  /\ Known(x, flushed)'
                      /\ \/ clogDisk'[x] = clog'[x]
                         \/ \E i \in RedoStart(sb)'..flushed' :
                               log'[i].kind = clog'[x] /\ log'[i].xid = x
                         \/ clog'[x] = "Aborted" /\ Loser(x, flushed, Len(log))'
    BY Zenon DEF OutcomesKept
  <2>1. /\ RedoStart(sb)' = RedoStart(sb)
        /\ Known(x, flushed)' = Known(x, flushed)
        /\ Loser(x, flushed, Len(log))' = Loser(x, flushed, Len(log))
    BY Zenon, <1>1 DEF RedoStart, Known, Loser
  <2>2. CASE clog'[x] = clog[x]
    BY Zenon, <1>1, <2>1, <2>2 DEF CRInv, OutcomesKept
  <2>3. CASE phase[x] = "durable" /\ clog'[x] = fate[x]
    <3>1. PICK i \in RedoStart(sb)..flushed : log[i] = Ended(x, fate[x])
      BY Zenon, <2>3 DEF CRInv, CommitsUnderWay, RecordInReach
    <3>2. log[i].kind = fate[x] /\ log[i].xid = x
      BY <3>1 DEF Ended
    <3>3. Known(x, flushed)
      BY Zenon, <3>2 DEF Known
    <3>4. QED
      BY Zenon, <1>1, <2>1, <2>3, <3>2, <3>3
  <2>4. QED
    BY Zenon, <1>4, <2>2, <2>3
<1>12. ClockAheadOfLog'
  <2>1. \A i \in DOMAIN log : log[i].xid \in Nat /\ log[i].xid < clock
    BY Zenon, <1>3, LogFacts, RecordXids DEF CRInv, ClockAheadOfLog
  <2>2. QED
    BY <1>1, <1>2, <2>1 DEF ClockAheadOfLog
<1>13. QED
  BY Zenon, <1>6, <1>7, <1>8, <1>9, <1>10, <1>11, <1>12 DEF CRInv

\* What appending any record but CheckpointEnd leaves true.

----------------------------------------------------------------------------
(* The invariant is inductive: the steps that append and flush             *)

LEMMA AppendKeeps ==
    ASSUME TxnInv, CRInv, NEW r \in LogRecords, r.kind # "end", r.xid < clock,
           log' = Append(log, r), flushed' = flushed, clogDisk' = clogDisk, sb' = sb,
           clog' = clog, clock' = clock
    PROVE  /\ log' \in Seq(LogRecords) /\ flushed' \in 0..Len(log') /\ sb'.redo <= flushed'
           /\ CheckpointRecords' /\ FileLags' /\ OutcomesKept' /\ ClockAheadOfLog'
           /\ \A x \in XidSet : fate'[x] = fate[x] =>
                 /\ RecordInReach(x, Len(log)) => RecordInReach(x, Len(log))'
                 /\ RecordInReach(x, flushed) => RecordInReach(x, flushed)'
<1>1. DiskTypes
  BY Zenon DEF CRInv
<1>2. /\ log' \in Seq(LogRecords) /\ Len(log') = Len(log) + 1
      /\ \A i \in 1..Len(log) : log'[i] = log[i]
      /\ log'[Len(log) + 1] = r
  BY Zenon, <1>1, AppendFacts
<1>3. /\ Len(log) \in Nat /\ flushed \in Nat /\ flushed <= Len(log)
      /\ sb.redo \in Nat /\ sb.redo <= flushed
      /\ RedoStart(sb) \in Nat /\ RedoStart(sb) >= 1 /\ RedoStart(sb)' = RedoStart(sb)
  BY Zenon, <1>1, LogFacts DEF DiskTypes, RedoStart
<1>4. \A i \in 1..Len(log') : i \in 1..Len(log) \/ i = Len(log) + 1
  BY <1>2, <1>3
<1>5. flushed' \in 0..Len(log')
  BY <1>2, <1>3
<1>6. CheckpointRecords'
  <2> SUFFICES ASSUME NEW i \in 1..Len(log'), log'[i].kind = "end"
               PROVE  /\ log'[i].redo \in 1..(i - 1)
                      /\ log'[i].redo = sb.redo => \A x \in log'[i].att : x < sb.next
    BY Zenon DEF CheckpointRecords
  <2>1. i \in 1..Len(log) /\ log'[i] = log[i]
    BY Zenon, <1>2, <1>4
  <2>2. QED
    BY Zenon, <2>1 DEF CRInv, CheckpointRecords
<1>7. FileLags'
  <2>1. \A i \in 1..(sb.redo - 1) : log'[i] = log[i]
    BY <1>2, <1>3
  <2>2. QED
    BY Zenon, <2>1 DEF CRInv, FileLags
<1>8. \A i \in RedoStart(sb)..flushed : log'[i] = log[i]
  BY <1>2, <1>3
<1>9. \A i \in RedoStart(sb)..Len(log) : log'[i] = log[i] /\ i \in RedoStart(sb)..Len(log')
  BY <1>2, <1>3
<1>10. OutcomesKept'
  <2> SUFFICES ASSUME NEW x \in XidSet, clog[x] \in Terminal
               PROVE  /\ Known(x, flushed)'
                      /\ \/ clogDisk[x] = clog[x]
                         \/ \E i \in RedoStart(sb)..flushed :
                               log'[i].kind = clog[x] /\ log'[i].xid = x
                         \/ clog[x] = "Aborted" /\ Loser(x, flushed, Len(log))'
    BY Zenon, <1>3 DEF OutcomesKept
  <2>1. Known(x, flushed) => Known(x, flushed)'
    BY Zenon, <1>3, <1>8 DEF Known
  <2>2. ASSUME Loser(x, flushed, Len(log)) PROVE Loser(x, flushed, Len(log))'
    <3>1. CASE \E i \in RedoStart(sb)..flushed : log[i].xid = x
      BY Zenon, <1>3, <1>8, <3>1 DEF Loser
    <3>2. CASE \E e \in RedoStart(sb)..flushed :
                 /\ log[e].kind = "end" /\ log[e].redo = sb.redo /\ x \in log[e].att
                 /\ \A i \in 1..Len(log) : log[i].kind = "end" => i <= e
      <4>1. PICK e \in RedoStart(sb)..flushed :
                 /\ log[e].kind = "end" /\ log[e].redo = sb.redo /\ x \in log[e].att
                 /\ \A i \in 1..Len(log) : log[i].kind = "end" => i <= e
        BY Zenon, <3>2
      <4>2. log'[e] = log[e]
        BY Zenon, <1>8
      <4>3. \A i \in 1..Len(log') : log'[i].kind = "end" => i <= e
        BY Zenon, <1>2, <1>4, <4>1
      <4>4. QED
        BY Zenon, <1>3, <4>1, <4>2, <4>3 DEF Loser
    <3>3. QED
      BY Zenon, <2>2, <3>1, <3>2 DEF Loser
  <2>3. QED
    BY Zenon, <1>8, <2>1, <2>2 DEF CRInv, OutcomesKept
<1>11. ClockAheadOfLog'
  <2>1. DOMAIN log' = 1..Len(log') /\ DOMAIN log = 1..Len(log)
    BY Zenon, <1>1, <1>2, Indices, LogFacts
  <2>2. QED
    BY Zenon, <1>2, <1>4, <2>1 DEF CRInv, ClockAheadOfLog
<1>12. ASSUME NEW x \in XidSet, fate'[x] = fate[x]
       PROVE  /\ RecordInReach(x, Len(log)) => RecordInReach(x, Len(log))'
              /\ RecordInReach(x, flushed) => RecordInReach(x, flushed)'
  <2>1. Ended(x, fate[x])' = Ended(x, fate[x])
    BY Zenon, <1>12 DEF Ended
  <2>2. QED
    BY Zenon, <1>3, <1>8, <1>9, <1>12, <2>1 DEF RecordInReach
<1>13. QED
  BY Zenon, <1>2, <1>3, <1>5, <1>6, <1>7, <1>10, <1>11, <1>12

LEMMA WriteDataKeeps ==
    ASSUME TxnInv, CRInv, NEW x \in XidSet, WriteData(x)
    PROVE  CRInv'
<1>1. /\ log' = Append(log, Data(x))
      /\ clock' = clock /\ clog' = clog /\ phase' = phase /\ fate' = fate /\ poisoned' = poisoned
      /\ flushed' = flushed /\ clogDisk' = clogDisk /\ sb' = sb /\ ckpt' = ckpt
  BY Zenon DEF WriteData, memory
<1>2. /\ Data(x) \in LogRecords /\ Data(x).kind = "data" /\ Data(x).xid = x
      /\ Data(x).kind \notin Terminal /\ Data(x).kind # "end"
  BY Zenon, RecordFacts DEF Data, Terminal
<1>3. x < clock
  <2>1. ~ (x >= clock)
    BY Zenon DEF WriteData, TxnInv, Bookkeeping
  <2>2. QED
    BY <2>1, XidFacts, BoundsAssumption DEF TxnInv, TypeOK
<1>4. /\ log' \in Seq(LogRecords) /\ flushed' \in 0..Len(log') /\ sb'.redo <= flushed'
      /\ CheckpointRecords' /\ FileLags' /\ OutcomesKept' /\ ClockAheadOfLog'
      /\ \A y \in XidSet : fate'[y] = fate[y] =>
            /\ RecordInReach(y, Len(log)) => RecordInReach(y, Len(log))'
            /\ RecordInReach(y, flushed) => RecordInReach(y, flushed)'
  BY Zenon, <1>1, <1>2, <1>3, AppendKeeps
<1>5. DiskTypes'
  BY Zenon, <1>1, <1>4 DEF CRInv, DiskTypes
<1>6. /\ Len(log') = Len(log) + 1 /\ Len(log) \in Nat
      /\ \A i \in 1..Len(log) : log'[i] = log[i] /\ i \in 1..Len(log')
      /\ log'[Len(log) + 1] = Data(x)
  <2>1. DiskTypes /\ log' = Append(log, Data(x)) /\ Data(x) \in LogRecords
    BY Zenon, <1>1, <1>2 DEF CRInv
  <2>2. QED
    BY Zenon, <2>1, AppendFacts
<1>7. \A i \in 1..Len(log') : i \in 1..Len(log) \/ log'[i] = Data(x)
  BY <1>6
<1>8. TerminalRecords'
  <2> SUFFICES ASSUME NEW i \in 1..Len(log'), log'[i].kind \in Terminal
               PROVE  LET z == log'[i].xid IN
                        /\ fate[z] = log'[i].kind
                        /\ phase[z] \in Ending \cup {"failed", "done"}
                        /\ clog[z] \in Terminal => clog[z] = log'[i].kind
                        /\ \A j \in 1..Len(log') :
                              log'[j].kind \in Terminal /\ log'[j].xid = z => j = i
    BY Zenon, <1>1 DEF TerminalRecords
  <2>1. i \in 1..Len(log) /\ log'[i] = log[i]
    BY Zenon, <1>2, <1>6, <1>7
  <2>2. QED
    BY <1>2, <1>6, <1>7, <2>1 DEF CRInv, TerminalRecords
<1>9. CommitsUnderWay'
  BY Zenon, <1>1, <1>4 DEF CRInv, CommitsUnderWay
<1>10. CheckpointUnderWay'
  <2> SUFFICES ASSUME ckpt.pc # "idle" PROVE CheckpointUnderWay'
    BY Zenon, <1>1 DEF CheckpointUnderWay
  <2>1. EndRecord(ckpt)' = EndRecord(ckpt)
    BY Zenon, <1>1 DEF EndRecord
  <2>2. ckpt.begin \in Nat /\ ckpt.begin <= Len(log)
    BY Zenon DEF CRInv, DiskTypes, CheckpointUnderWay
  <2>3. ckpt.begin <= Len(log') /\ \A i \in 1..(ckpt.begin - 1) : log'[i] = log[i]
    BY <1>6, <2>2
  <2>4. \A i \in 1..Len(log') : log'[i].kind = "end" /\ log'[i].redo = ckpt.begin =>
             ckpt.pc \in {"ended", "flushed"} /\ log'[i].att = ckpt.att
    BY Zenon, <1>2, <1>6, <1>7 DEF CRInv, CheckpointUnderWay
  <2>5. ckpt.pc = "ended" => \E i \in 1..Len(log') : log'[i] = EndRecord(ckpt)
    BY Zenon, <1>6 DEF CRInv, CheckpointUnderWay
  <2>6. QED
    BY Zenon, <1>1, <2>1, <2>3, <2>4, <2>5 DEF CRInv, CheckpointUnderWay
<1>11. QED
  BY Zenon, <1>4, <1>5, <1>8, <1>9, <1>10 DEF CRInv

LEMMA CommitAppendKeeps ==
    ASSUME TxnInv, CRInv, NEW x \in XidSet, NEW state \in Terminal, CommitAppend(x, state)
    PROVE  CRInv'
<1>1. /\ log' = Append(log, Ended(x, state)) /\ ckpt.pc = "idle" /\ phase[x] = "running"
      /\ clock' = clock /\ clog' = clog /\ poisoned' = poisoned
      /\ phase' = [phase EXCEPT ![x] = "appended"]
      /\ fate' = [fate EXCEPT ![x] = state]
      /\ flushed' = flushed /\ clogDisk' = clogDisk /\ sb' = sb /\ ckpt' = ckpt
  BY Zenon DEF CommitAppend, AppendEnd
<1>2. /\ Ended(x, state) \in LogRecords /\ Ended(x, state).xid = x
      /\ Ended(x, state).kind = state /\ Ended(x, state).kind # "end"
  BY Zenon, RecordFacts DEF Ended, Terminal
<1>3. x < clock /\ clog[x] \notin Terminal
  <2>1. ~ (x >= clock) /\ clog[x] \notin Terminal
    BY Zenon, <1>1 DEF TxnInv, Bookkeeping
  <2>2. QED
    BY <2>1, XidFacts, BoundsAssumption DEF TxnInv, TypeOK
<1>4. /\ log' \in Seq(LogRecords) /\ flushed' \in 0..Len(log') /\ sb'.redo <= flushed'
      /\ CheckpointRecords' /\ FileLags' /\ OutcomesKept' /\ ClockAheadOfLog'
      /\ \A y \in XidSet : fate'[y] = fate[y] =>
            /\ RecordInReach(y, Len(log)) => RecordInReach(y, Len(log))'
            /\ RecordInReach(y, flushed) => RecordInReach(y, flushed)'
  BY Zenon, <1>1, <1>2, <1>3, AppendKeeps
<1>5. DiskTypes'
  BY Zenon, <1>1, <1>4 DEF CRInv, DiskTypes
<1>6. /\ Len(log') = Len(log) + 1 /\ Len(log) \in Nat
      /\ \A i \in 1..Len(log) : log'[i] = log[i] /\ i \in 1..Len(log') /\ i # Len(log) + 1
      /\ log'[Len(log) + 1] = Ended(x, state)
  <2>1. DiskTypes /\ log' = Append(log, Ended(x, state)) /\ Ended(x, state) \in LogRecords
    BY Zenon, <1>1, <1>2 DEF CRInv
  <2>2. QED
    BY Zenon, <2>1, AppendFacts
<1>7. \A i \in 1..Len(log') : i \in 1..Len(log) \/ i = Len(log) + 1
  BY <1>6
<1>8. /\ phase'[x] = "appended" /\ fate'[x] = state
      /\ \A y \in XidSet : y # x => phase'[y] = phase[y] /\ fate'[y] = fate[y]
  BY Zenon, <1>1 DEF TxnInv, TypeOK
<1>9. \A i \in 1..Len(log) : log[i].kind \in Terminal => log[i].xid # x /\ log[i].xid \in XidSet
  BY Zenon, <1>1, RecordXids DEF CRInv, TerminalRecords, Ending
<1>10. TerminalRecords'
  <2> SUFFICES ASSUME NEW i \in 1..Len(log'), log'[i].kind \in Terminal
               PROVE  LET z == log'[i].xid IN
                        /\ fate'[z] = log'[i].kind
                        /\ phase'[z] \in Ending \cup {"failed", "done"}
                        /\ clog'[z] \in Terminal => clog'[z] = log'[i].kind
                        /\ \A j \in 1..Len(log') :
                              log'[j].kind \in Terminal /\ log'[j].xid = z => j = i
    BY Zenon DEF TerminalRecords
  <2>1. CASE i \in 1..Len(log)
    <3>1. log'[i] = log[i] /\ log[i].xid # x /\ log[i].xid \in XidSet
      BY Zenon, <1>6, <1>9, <2>1
    <3>2. \A j \in 1..Len(log') : log'[j].kind \in Terminal /\ log'[j].xid = log'[i].xid => j = i
      BY Zenon, <1>2, <1>6, <1>7, <2>1, <3>1 DEF CRInv, TerminalRecords
    <3>3. /\ fate[log[i].xid] = log[i].kind
          /\ phase[log[i].xid] \in Ending \cup {"failed", "done"}
          /\ clog[log[i].xid] \in Terminal => clog[log[i].xid] = log[i].kind
      BY Zenon, <2>1, <3>1 DEF CRInv, TerminalRecords
    <3>4. fate'[log[i].xid] = fate[log[i].xid] /\ phase'[log[i].xid] = phase[log[i].xid]
      BY Zenon, <1>8, <3>1
    <3>5. QED
      BY Zenon, <1>1, <3>1, <3>2, <3>3, <3>4
  <2>2. CASE i = Len(log) + 1
    <3>1. log'[i].xid = x /\ log'[i].kind = state
      BY Zenon, <1>2, <1>6, <2>2
    <3>2. \A j \in 1..Len(log') : log'[j].kind \in Terminal /\ log'[j].xid = x => j = i
      BY Zenon, <1>6, <1>7, <1>9, <2>2
    <3>3. QED
      BY Zenon, <1>1, <1>3, <1>8, <3>1, <3>2 DEF Ending
  <2>3. QED
    BY Zenon, <1>7, <2>1, <2>2
<1>11. CommitsUnderWay'
  <2>1. RecordInReach(x, Len(log))'
    <3>1. RedoStart(sb)' = RedoStart(sb) /\ RedoStart(sb) \in Nat /\ RedoStart(sb) <= Len(log) + 1
      BY Zenon, <1>1, LogFacts DEF CRInv, RedoStart
    <3>2. Len(log) + 1 \in RedoStart(sb)'..Len(log')
      BY <1>6, <3>1
    <3>3. log'[Len(log) + 1] = Ended(x, fate'[x])
      BY Zenon, <1>6, <1>8
    <3>4. QED
      BY Zenon, <3>2, <3>3 DEF RecordInReach, Ended
  <2>2. QED
    BY Zenon, <1>1, <1>4, <1>8, <2>1 DEF CRInv, CommitsUnderWay
<1>12. CheckpointUnderWay'
  BY Zenon, <1>1 DEF CheckpointUnderWay
<1>13. QED
  BY Zenon, <1>4, <1>5, <1>10, <1>11, <1>12 DEF CRInv

\* What an fsync leaves true.
LEMMA FsyncKeeps ==
    ASSUME TxnInv, CRInv, flushed' \in flushed..Len(log),
           log' = log, clogDisk' = clogDisk, sb' = sb, clog' = clog, clock' = clock, fate' = fate
    PROVE  /\ flushed' \in 0..Len(log') /\ sb'.redo <= flushed' /\ flushed' \in Nat
           /\ CheckpointRecords' /\ FileLags' /\ OutcomesKept' /\ ClockAheadOfLog'
           /\ \A x \in XidSet :
                 /\ RecordInReach(x, Len(log)) => RecordInReach(x, Len(log))'
                 /\ RecordInReach(x, flushed) => RecordInReach(x, flushed)'
<1>1. /\ Len(log) \in Nat /\ flushed \in Nat /\ flushed' \in Nat
      /\ sb.redo \in Nat /\ sb.redo <= flushed
      /\ RedoStart(sb) \in Nat /\ RedoStart(sb)' = RedoStart(sb)
  BY LogFacts DEF CRInv, DiskTypes, RedoStart
<1>2. flushed' \in 0..Len(log') /\ sb'.redo <= flushed'
  BY <1>1
<1>3. \A i \in RedoStart(sb)..flushed : i \in RedoStart(sb)..flushed'
  BY <1>1
<1>4. CheckpointRecords' /\ FileLags' /\ ClockAheadOfLog'
  BY Zenon DEF CRInv, CheckpointRecords, FileLags, ClockAheadOfLog
<1>5. OutcomesKept'
  <2> SUFFICES ASSUME NEW x \in XidSet, clog[x] \in Terminal
               PROVE  /\ Known(x, flushed)'
                      /\ \/ clogDisk[x] = clog[x]
                         \/ \E i \in RedoStart(sb)..flushed' :
                               log[i].kind = clog[x] /\ log[i].xid = x
                         \/ clog[x] = "Aborted" /\ Loser(x, flushed, Len(log))'
    BY Zenon, <1>1 DEF OutcomesKept
  <2>1. Known(x, flushed) => Known(x, flushed)'
    BY Zenon, <1>1, <1>3 DEF Known
  <2>2. Loser(x, flushed, Len(log)) => Loser(x, flushed, Len(log))'
    BY Zenon, <1>1, <1>3 DEF Loser
  <2>3. QED
    BY Zenon, <1>3, <2>1, <2>2 DEF CRInv, OutcomesKept
<1>6. ASSUME NEW x \in XidSet
      PROVE  /\ RecordInReach(x, Len(log)) => RecordInReach(x, Len(log))'
             /\ RecordInReach(x, flushed) => RecordInReach(x, flushed)'
  <2>1. Ended(x, fate[x])' = Ended(x, fate[x])
    BY Zenon DEF Ended
  <2>2. QED
    BY Zenon, <1>1, <1>3, <2>1 DEF RecordInReach
<1>7. QED
  BY Zenon, <1>1, <1>2, <1>4, <1>5, <1>6

LEMMA CommitFlushKeeps ==
    ASSUME FlushIsExact, TxnInv, CRInv, NEW x \in XidSet, CommitFlush(x)
    PROVE  CRInv'
<1> DEFINE p == PositionOf(Ended(x, fate[x]))
<1>1. /\ phase[x] = "appended" /\ phase' = [phase EXCEPT ![x] = "durable"]
      /\ log' = log /\ clogDisk' = clogDisk /\ sb' = sb /\ ckpt' = ckpt
      /\ clog' = clog /\ clock' = clock /\ fate' = fate /\ poisoned' = poisoned
      /\ flushed' = IF AlreadySynced(p) THEN flushed ELSE p
  BY Zenon DEF CommitFlush, FlushTo, FlushUpTo
<1>2. PICK i \in RedoStart(sb)..Len(log) : log[i] = Ended(x, fate[x])
  BY Zenon, <1>1 DEF CRInv, CommitsUnderWay, RecordInReach
<1>3. /\ RedoStart(sb) \in Nat /\ RedoStart(sb) >= 1 /\ Len(log) \in Nat
      /\ DOMAIN log = 1..Len(log) /\ flushed \in Nat /\ flushed <= Len(log)
  BY Zenon, LogFacts DEF CRInv
<1>4. i \in DOMAIN log /\ i \in Nat
  BY <1>3
<1>5. p \in 1..Len(log) /\ log[p] = Ended(x, fate[x])
  <2>1. p \in DOMAIN log /\ log[p] = Ended(x, fate[x])
    BY Zenon, <1>2, <1>4 DEF PositionOf
  <2>2. QED
    BY Zenon, <1>3, <2>1
<1>6. p = i
  <2>1. /\ log[p].xid = x /\ log[p].kind = fate[x] /\ log[i].xid = x /\ log[i].kind = fate[x]
        /\ fate[x] \in Terminal
    BY <1>2, <1>5 DEF Ended, TxnInv, TypeOK
  <2>2. QED
    BY Zenon, <1>3, <1>4, <1>5, <2>1 DEF CRInv, TerminalRecords
<1> HIDE DEF p
<1>7. flushed' \in flushed..Len(log) /\ p <= flushed' /\ flushed' \in Nat
  BY <1>1, <1>3, <1>5 DEF AlreadySynced
<1>8. /\ flushed' \in 0..Len(log') /\ sb'.redo <= flushed'
      /\ CheckpointRecords' /\ FileLags' /\ OutcomesKept' /\ ClockAheadOfLog'
      /\ \A y \in XidSet :
            /\ RecordInReach(y, Len(log)) => RecordInReach(y, Len(log))'
            /\ RecordInReach(y, flushed) => RecordInReach(y, flushed)'
  BY Zenon, <1>1, <1>7, FsyncKeeps
<1>9. DiskTypes'
  BY Zenon, <1>1, <1>8 DEF CRInv, DiskTypes
<1>10. \A y \in XidSet : y # x => phase'[y] = phase[y]
  BY Zenon, <1>1 DEF TxnInv, TypeOK
<1>11. phase'[x] = "durable"
  BY Zenon, <1>1 DEF TxnInv, TypeOK
<1>12. TerminalRecords'
  <2>1. \A y \in XidSet : phase[y] \in Ending \cup {"failed", "done"} =>
                             phase'[y] \in Ending \cup {"failed", "done"}
    BY Zenon, <1>10, <1>11 DEF Ending
  <2>2. \A j \in 1..Len(log) : log[j].kind \in Terminal => log[j].xid \in XidSet
    BY Zenon, RecordXids DEF CRInv
  <2>3. QED
    BY Zenon, <1>1, <2>1, <2>2 DEF CRInv, TerminalRecords
<1>13. CommitsUnderWay'
  <2>1. RecordInReach(x, flushed)'
    <3>1. RedoStart(sb)' = RedoStart(sb) /\ Ended(x, fate[x])' = Ended(x, fate[x])
      BY Zenon, <1>1 DEF RedoStart, Ended
    <3>2. i \in RedoStart(sb)..flushed'
      BY <1>3, <1>4, <1>6, <1>7
    <3>3. QED
      BY Zenon, <1>1, <1>2, <3>1, <3>2 DEF RecordInReach
  <2>2. QED
    BY Zenon, <1>1, <1>8, <1>10, <1>11, <2>1 DEF CRInv, CommitsUnderWay
<1>14. CheckpointUnderWay'
  BY Zenon, <1>1 DEF CRInv, CheckpointUnderWay, Ending
<1>15. QED
  BY Zenon, <1>8, <1>9, <1>12, <1>13, <1>14 DEF CRInv

LEMMA GroupFsyncKeeps ==
    ASSUME TxnInv, CRInv, GroupFsync
    PROVE  CRInv'
<1>1. /\ log' = log /\ clogDisk' = clogDisk /\ sb' = sb /\ ckpt' = ckpt
      /\ clog' = clog /\ clock' = clock /\ fate' = fate /\ poisoned' = poisoned /\ phase' = phase
      /\ flushed' = Len(log)
  BY Zenon DEF GroupFsync, memory
<1>2. flushed' \in flushed..Len(log) /\ flushed \in Nat /\ flushed <= flushed'
  BY <1>1, LogFacts DEF CRInv
<1>3. /\ flushed' \in 0..Len(log') /\ sb'.redo <= flushed' /\ flushed' \in Nat
      /\ CheckpointRecords' /\ FileLags' /\ OutcomesKept' /\ ClockAheadOfLog'
      /\ \A y \in XidSet :
            /\ RecordInReach(y, Len(log)) => RecordInReach(y, Len(log))'
            /\ RecordInReach(y, flushed) => RecordInReach(y, flushed)'
  BY Zenon, <1>1, <1>2, FsyncKeeps
<1>4. DiskTypes' /\ TerminalRecords' /\ CommitsUnderWay'
  BY Zenon, <1>1, <1>3 DEF CRInv, DiskTypes, TerminalRecords, CommitsUnderWay
<1>5. CheckpointUnderWay'
  <2>1. EndRecord(ckpt)' = EndRecord(ckpt)
    BY Zenon, <1>1 DEF EndRecord
  <2>2. ckpt.begin <= flushed => ckpt.begin <= flushed'
    BY <1>2, <1>3 DEF CRInv, DiskTypes
  <2>3. QED
    BY Zenon, <1>1, <2>1, <2>2 DEF CRInv, CheckpointUnderWay
<1>6. QED
  BY Zenon, <1>3, <1>4, <1>5 DEF CRInv

----------------------------------------------------------------------------
(* The invariant is inductive: the steps of the checkpoint                 *)

CkptRecords == [pc : CkptSteps, begin : Nat, att : SUBSET XidSet, next : 0..(MaxXid + 1)]

LEMMA CkptBeginKeeps ==
    ASSUME TxnInv, CRInv, CkptBegin
    PROVE  CRInv'
<1>1. /\ log' = Append(log, BeginRecord) /\ ckpt.pc = "idle" /\ ~ poisoned
      /\ clock' = clock /\ clog' = clog /\ phase' = phase /\ fate' = fate /\ poisoned' = poisoned
      /\ flushed' = flushed /\ clogDisk' = clogDisk /\ sb' = sb
      /\ \A x \in XidSet : phase[x] \notin Ending
      /\ ckpt' = [pc |-> "begun", begin |-> Len(log) + 1, att |-> {}, next |-> 0]
  BY Zenon DEF CkptBegin, memory, Idle
<1>2. /\ BeginRecord \in LogRecords /\ BeginRecord.kind = "begin" /\ BeginRecord.xid = 0
      /\ BeginRecord.kind \notin Terminal /\ BeginRecord.kind # "end"
  BY Zenon, RecordFacts DEF BeginRecord, Terminal, InvalidXid
<1>3. 0 < clock
  BY BoundsAssumption DEF TxnInv, TypeOK
<1>4. /\ log' \in Seq(LogRecords) /\ flushed' \in 0..Len(log') /\ sb'.redo <= flushed'
      /\ CheckpointRecords' /\ FileLags' /\ OutcomesKept' /\ ClockAheadOfLog'
  BY Zenon, <1>1, <1>2, <1>3, AppendKeeps
<1>5. /\ Len(log') = Len(log) + 1 /\ Len(log) \in Nat
      /\ \A i \in 1..Len(log) : log'[i] = log[i] /\ i \in 1..Len(log')
      /\ log'[Len(log) + 1] = BeginRecord
  <2>1. DiskTypes /\ log' = Append(log, BeginRecord) /\ BeginRecord \in LogRecords
    BY Zenon, <1>1, <1>2 DEF CRInv
  <2>2. QED
    BY Zenon, <2>1, AppendFacts
<1>6. \A i \in 1..Len(log') : i \in 1..Len(log) \/ log'[i] = BeginRecord
  BY <1>5
<1>7. DiskTypes'
  <2>1. ckpt' \in [pc : CkptSteps, begin : Nat, att : SUBSET XidSet, next : 0..(MaxXid + 1)]
    BY <1>1, <1>5, BoundsAssumption DEF CkptSteps
  <2>2. QED
    BY Zenon, <1>1, <1>4, <2>1 DEF CRInv, DiskTypes
<1>8. TerminalRecords'
  <2> SUFFICES ASSUME NEW i \in 1..Len(log'), log'[i].kind \in Terminal
               PROVE  LET z == log'[i].xid IN
                        /\ fate[z] = log'[i].kind
                        /\ phase[z] \in Ending \cup {"failed", "done"}
                        /\ clog[z] \in Terminal => clog[z] = log'[i].kind
                        /\ \A j \in 1..Len(log') :
                              log'[j].kind \in Terminal /\ log'[j].xid = z => j = i
    BY Zenon, <1>1 DEF TerminalRecords
  <2>1. i \in 1..Len(log) /\ log'[i] = log[i]
    BY Zenon, <1>2, <1>5, <1>6
  <2>2. QED
    BY <1>2, <1>5, <1>6, <2>1 DEF CRInv, TerminalRecords
<1>9. CommitsUnderWay'
  BY Zenon, <1>1 DEF CRInv, CommitsUnderWay, Ending
<1>10. CheckpointUnderWay'
  <2>1. ckpt'.pc = "begun" /\ ckpt'.begin = Len(log) + 1 /\ ckpt'.att = {}
    BY Zenon, <1>1
  <2>2. sb.redo < Len(log) + 1
    BY <1>5, LogFacts DEF CRInv, DiskTypes
  <2>3. ASSUME NEW i \in 1..Len(log'), log'[i].kind = "end" PROVE log'[i].redo # Len(log) + 1
    <3>1. i \in 1..Len(log) /\ log'[i] = log[i]
      BY Zenon, <1>2, <1>5, <1>6, <2>3
    <3>2. log[i].redo \in 1..(i - 1)
      BY Zenon, <2>3, <3>1 DEF CRInv, CheckpointRecords
    <3>3. QED
      BY <1>5, <3>1, <3>2
  <2>4. QED
    BY <1>1, <1>5, <2>1, <2>2, <2>3 DEF CheckpointUnderWay, AfterClog, AfterRead
<1>11. QED
  BY Zenon, <1>4, <1>7, <1>8, <1>9, <1>10 DEF CRInv

\* The steps of the checkpoint that change neither the log nor the superblock.
LEMMA QuietKeeps ==
    ASSUME CRInv, UNCHANGED <<memory, log, flushed, sb>>,
           ckpt' \in CkptRecords,
           clogDisk' \in [XidSet -> TxnStates],
           \A x \in XidSet : clogDisk'[x] = clogDisk[x] \/ clogDisk'[x] = clog[x]
    PROVE  /\ DiskTypes' /\ TerminalRecords' /\ CommitsUnderWay' /\ CheckpointRecords'
           /\ FileLags' /\ OutcomesKept' /\ ClockAheadOfLog'
<1>1. /\ log' = log /\ flushed' = flushed /\ sb' = sb /\ clock' = clock /\ clog' = clog
      /\ phase' = phase /\ fate' = fate /\ poisoned' = poisoned
  BY Zenon DEF memory
<1>2. DiskTypes' /\ TerminalRecords' /\ CheckpointRecords' /\ ClockAheadOfLog'
  BY Zenon, <1>1 DEF CRInv, DiskTypes, CkptRecords, TerminalRecords, CheckpointRecords, ClockAheadOfLog
<1>3. CommitsUnderWay'
  <2>1. /\ \A x \in XidSet : RecordInReach(x, Len(log))' = RecordInReach(x, Len(log))
        /\ \A x \in XidSet : RecordInReach(x, flushed)' = RecordInReach(x, flushed)
    BY Zenon, <1>1 DEF RecordInReach, RedoStart, Ended
  <2>2. QED
    BY Zenon, <1>1, <2>1 DEF CRInv, CommitsUnderWay
<1>4. \A x \in XidSet : clogDisk[x] \in Terminal => clogDisk'[x] = clogDisk[x]
  BY Zenon DEF CRInv, FileLags
<1>5. FileLags'
  <2>1. ASSUME NEW i \in 1..(sb.redo - 1), log[i].kind \in Terminal
        PROVE  clogDisk'[log[i].xid] = log[i].kind
    <3>1. i \in 1..Len(log)
      BY LogFacts DEF CRInv, DiskTypes
    <3>2. log[i].xid \in XidSet
      BY Zenon, <2>1, <3>1, RecordXids DEF CRInv
    <3>3. clogDisk[log[i].xid] = log[i].kind
      BY Zenon, <2>1 DEF CRInv, FileLags
    <3>4. QED
      BY Zenon, <1>4, <2>1, <3>2, <3>3
  <2>2. QED
    BY Zenon, <1>1, <2>1 DEF CRInv, FileLags
<1>6. OutcomesKept'
  <2> SUFFICES ASSUME NEW x \in XidSet, clog[x] \in Terminal
               PROVE  /\ Known(x, flushed)'
                      /\ \/ clogDisk'[x] = clog[x]
                         \/ \E i \in RedoStart(sb)'..flushed :
                               log[i].kind = clog[x] /\ log[i].xid = x
                         \/ clog[x] = "Aborted" /\ Loser(x, flushed, Len(log))'
    BY Zenon, <1>1 DEF OutcomesKept
  <2>1. /\ RedoStart(sb)' = RedoStart(sb)
        /\ Known(x, flushed)' = Known(x, flushed)
        /\ Loser(x, flushed, Len(log))' = Loser(x, flushed, Len(log))
    BY Zenon, <1>1 DEF RedoStart, Known, Loser
  <2>2. clogDisk[x] = clog[x] => clogDisk'[x] = clog[x]
    BY Zenon, <1>4
  <2>3. QED
    BY Zenon, <2>1, <2>2 DEF CRInv, OutcomesKept
<1>7. QED
  BY Zenon, <1>2, <1>3, <1>5, <1>6

LEMMA CkptSampleKeeps ==
    ASSUME TxnInv, CRInv, CkptSample
    PROVE  CRInv'
<1>1. ckpt \in CkptRecords /\ DiskTypes /\ ckpt.pc = "begun"
  BY Zenon DEF CRInv, DiskTypes, CkptRecords, CkptSample
<1>2. /\ ckpt' = [ckpt EXCEPT !.pc = "sampled", !.att = active]
      /\ clogDisk' = clogDisk /\ UNCHANGED <<memory, log, flushed, sb>>
  BY Zenon DEF CkptSample
<1>3. ckpt' \in CkptRecords
  BY Zenon, <1>1, <1>2 DEF CkptRecords, CkptSteps, TxnInv, TypeOK
<1>4. ckpt'.pc = "sampled" /\ ckpt'.begin = ckpt.begin /\ ckpt'.att = active
  BY Zenon, <1>1, <1>2 DEF CkptRecords
<1>5. /\ DiskTypes' /\ TerminalRecords' /\ CommitsUnderWay' /\ CheckpointRecords'
      /\ FileLags' /\ OutcomesKept' /\ ClockAheadOfLog'
  BY Zenon, <1>1, <1>2, <1>3, QuietKeeps DEF DiskTypes
<1>6. \A x \in active : x < clock
  <2>1. \A x \in active : x \in XidSet /\ ~ (x >= clock)
    BY Zenon DEF TxnInv, TypeOK, Bookkeeping, Live, Ending
  <2>2. QED
    BY <2>1, XidFacts, BoundsAssumption DEF TxnInv, TypeOK
<1>7. CheckpointUnderWay'
  BY Zenon, <1>1, <1>2, <1>4, <1>6
     DEF CRInv, CheckpointUnderWay, memory, AfterClog, AfterRead
<1>8. QED
  BY Zenon, <1>5, <1>7 DEF CRInv

LEMMA CkptClogKeeps ==
    ASSUME TxnInv, CRInv, CkptClog
    PROVE  CRInv'
<1>1. ckpt \in CkptRecords /\ DiskTypes /\ ckpt.pc = "sampled"
  BY Zenon DEF CRInv, DiskTypes, CkptRecords, CkptClog
<1>2. /\ ckpt' = [ckpt EXCEPT !.pc = "synced"]
      /\ clogDisk' = clog /\ UNCHANGED <<memory, log, flushed, sb>>
  BY Zenon DEF CkptClog
<1>3. ckpt' \in CkptRecords
  BY Zenon, <1>1, <1>2 DEF CkptRecords, CkptSteps, AfterClog
<1>4. ckpt'.pc = "synced" /\ ckpt'.begin = ckpt.begin /\ ckpt'.att = ckpt.att
  BY Zenon, <1>1, <1>2 DEF CkptRecords
<1>5. /\ DiskTypes' /\ TerminalRecords' /\ CommitsUnderWay' /\ CheckpointRecords'
      /\ FileLags' /\ OutcomesKept' /\ ClockAheadOfLog'
  BY Zenon, <1>2, <1>3, QuietKeeps DEF TxnInv, TypeOK
<1>6. CheckpointUnderWay'
  BY Zenon, <1>1, <1>2, <1>4 DEF CRInv, CheckpointUnderWay, memory, AfterRead
<1>7. QED
  BY <1>5, <1>6 DEF CRInv

LEMMA CkptReadKeeps ==
    ASSUME TxnInv, CRInv, CkptRead
    PROVE  CRInv'
<1>1. ckpt \in CkptRecords /\ DiskTypes /\ ckpt.pc = "synced"
  BY Zenon DEF CRInv, DiskTypes, CkptRecords, CkptRead
<1>2. /\ ckpt' = [ckpt EXCEPT !.pc = "read", !.next = clock]
      /\ clogDisk' = clogDisk /\ UNCHANGED <<memory, log, flushed, sb>>
  BY Zenon DEF CkptRead
<1>3. clock \in 1..(MaxXid + 1) /\ clock \in 0..(MaxXid + 1) /\ clock \in 1..clock
  BY BoundsAssumption DEF TxnInv, TypeOK
<1>4. ckpt' \in CkptRecords
  BY Zenon, <1>1, <1>2, <1>3 DEF CkptRecords, CkptSteps, AfterClog
<1>5. /\ ckpt'.pc = "read" /\ ckpt'.begin = ckpt.begin /\ ckpt'.att = ckpt.att
      /\ ckpt'.next = clock
  BY Zenon, <1>1, <1>2 DEF CkptRecords
<1>6. /\ DiskTypes' /\ TerminalRecords' /\ CommitsUnderWay' /\ CheckpointRecords'
      /\ FileLags' /\ OutcomesKept' /\ ClockAheadOfLog'
  BY Zenon, <1>1, <1>2, <1>4, QuietKeeps DEF DiskTypes
<1>7. \A x \in XidSet : clog[x] \in Terminal => x < clock
  <2>1. \A x \in XidSet : clog[x] \in Terminal => ~ (x >= clock)
    BY Zenon DEF TxnInv, Bookkeeping
  <2>2. QED
    BY <1>3, <2>1, XidFacts, BoundsAssumption
<1>8. \A i \in 1..(ckpt.begin - 1) : log[i].xid < clock
  <2>1. ckpt.begin \in Nat /\ ckpt.begin <= Len(log) /\ Len(log) \in Nat
    BY Zenon, <1>1, LogFacts DEF CRInv, CheckpointUnderWay, CkptRecords
  <2>2. \A i \in 1..(ckpt.begin - 1) : i \in DOMAIN log
    BY <1>1, <2>1, LogFacts
  <2>3. QED
    BY Zenon, <2>2 DEF CRInv, ClockAheadOfLog
<1>9. CheckpointUnderWay'
  BY Zenon, <1>1, <1>2, <1>3, <1>5, <1>7, <1>8
     DEF CRInv, CheckpointUnderWay, memory, AfterClog
<1>10. QED
  BY <1>6, <1>9 DEF CRInv

LEMMA CkptFailKeeps ==
    ASSUME CRInv, CkptFail
    PROVE  CRInv'
<1>1. /\ ckpt' = Idle /\ clogDisk' = clogDisk /\ UNCHANGED <<memory, log, flushed, sb>>
      /\ clogDisk \in [XidSet -> TxnStates]
  BY Zenon DEF CkptFail, CRInv, DiskTypes
<1>2. ckpt' \in CkptRecords /\ ckpt'.pc = "idle"
  BY <1>1, BoundsAssumption DEF Idle, CkptRecords, CkptSteps
<1>3. /\ DiskTypes' /\ TerminalRecords' /\ CommitsUnderWay' /\ CheckpointRecords'
      /\ FileLags' /\ OutcomesKept' /\ ClockAheadOfLog'
  BY Zenon, <1>1, <1>2, QuietKeeps
<1>4. QED
  BY Zenon, <1>2, <1>3 DEF CRInv, CheckpointUnderWay

LEMMA CkptSuperblockKeeps ==
    ASSUME TxnInv, CRInv, CkptSuperblock
    PROVE  CRInv'
<1>1. /\ sb' = [redo |-> ckpt.begin, next |-> ckpt.next] /\ ckpt' = Idle /\ ckpt.pc = "flushed"
      /\ log' = log /\ flushed' = flushed /\ clogDisk' = clogDisk
      /\ clock' = clock /\ clog' = clog /\ phase' = phase /\ fate' = fate /\ poisoned' = poisoned
  BY Zenon DEF CkptSuperblock, memory
<1>2. sb'.redo = ckpt.begin /\ sb'.next = ckpt.next
  BY Zenon, <1>1
<1>3. /\ ~ poisoned
      /\ \A x \in XidSet : phase[x] \notin Ending
      /\ ckpt.begin <= flushed /\ ckpt.begin <= Len(log)
      /\ \A x \in XidSet : clog[x] \in Terminal => clogDisk[x] = clog[x]
      /\ ckpt.next \in 1..clock
      /\ \A x \in ckpt.att : x < ckpt.next
      /\ \A x \in XidSet : clog[x] \in Terminal => x < ckpt.next
      /\ \A i \in 1..(ckpt.begin - 1) : log[i].xid < ckpt.next
      /\ \A i \in 1..Len(log) : log[i].kind = "end" /\ log[i].redo = ckpt.begin =>
            log[i].att = ckpt.att
  BY Zenon, <1>1 DEF CRInv, CheckpointUnderWay, AfterClog, AfterRead
<1>4. DiskTypes'
  <2>1. ckpt' \in [pc : CkptSteps, begin : Nat, att : SUBSET XidSet, next : 0..(MaxXid + 1)]
    BY <1>1, BoundsAssumption DEF Idle, CkptSteps
  <2>2. ckpt.next \in 1..(MaxXid + 1) /\ ckpt.begin \in Nat
    BY <1>3, BoundsAssumption DEF TxnInv, TypeOK, CRInv, DiskTypes
  <2>3. sb' \in [redo : Nat, next : 1..(MaxXid + 1)]
    BY Zenon, <1>1, <2>2
  <2>4. QED
    BY Zenon, <1>1, <1>2, <1>3, <2>1, <2>3 DEF CRInv, DiskTypes
<1>5. TerminalRecords' /\ ClockAheadOfLog'
  BY Zenon, <1>1 DEF CRInv, TerminalRecords, ClockAheadOfLog
<1>6. CommitsUnderWay'
  BY Zenon, <1>1, <1>3 DEF CRInv, CommitsUnderWay, Ending
<1>7. CheckpointRecords'
  BY Zenon, <1>1, <1>2, <1>3 DEF CRInv, CheckpointRecords
<1>8. CheckpointUnderWay'
  BY Zenon, <1>1 DEF CheckpointUnderWay, Idle
<1>9. FileLags'
  <2>1. ASSUME NEW i \in 1..(ckpt.begin - 1), log[i].kind \in Terminal
        PROVE  clogDisk[log[i].xid] = log[i].kind
    <3>1. i \in 1..Len(log)
      BY <1>3, LogFacts DEF CRInv, DiskTypes
    <3>2. log[i].xid \in XidSet
      BY Zenon, <2>1, <3>1, RecordXids DEF CRInv
    <3>3. phase[log[i].xid] = "done"
      BY Zenon, <1>3, <2>1, <3>1, <3>2 DEF CRInv, TerminalRecords, CommitsUnderWay
    <3>4. clog[log[i].xid] \in Terminal
      BY Zenon, <3>2, <3>3 DEF TxnInv, Bookkeeping
    <3>5. clog[log[i].xid] = log[i].kind
      BY Zenon, <2>1, <3>1, <3>4 DEF CRInv, TerminalRecords
    <3>6. QED
      BY Zenon, <1>3, <3>2, <3>4, <3>5
  <2>2. QED
    BY Zenon, <1>1, <1>2, <1>3, <2>1 DEF CRInv, FileLags
<1>10. OutcomesKept'
  BY Zenon, <1>1, <1>2, <1>3 DEF OutcomesKept, Known
<1>11. QED
  BY Zenon, <1>4, <1>5, <1>6, <1>7, <1>8, <1>9, <1>10 DEF CRInv

LEMMA CkptEndKeeps ==
    ASSUME TxnInv, CRInv, CkptEnd
    PROVE  CRInv'
<1>1. ckpt \in CkptRecords /\ DiskTypes /\ ckpt.pc = "read"
  BY Zenon DEF CRInv, DiskTypes, CkptRecords, CkptEnd
<1>2. /\ log' = Append(log, EndRecord(ckpt)) /\ ckpt' = [ckpt EXCEPT !.pc = "ended"]
      /\ clock' = clock /\ clog' = clog /\ phase' = phase /\ fate' = fate /\ poisoned' = poisoned
      /\ flushed' = flushed /\ clogDisk' = clogDisk /\ sb' = sb
  BY Zenon DEF CkptEnd, memory
<1>3. /\ ckpt' \in CkptRecords
      /\ ckpt'.pc = "ended" /\ ckpt'.begin = ckpt.begin /\ ckpt'.att = ckpt.att
      /\ ckpt'.next = ckpt.next
  BY Zenon, <1>1, <1>2 DEF CkptRecords, CkptSteps, AfterClog
<1>4. /\ EndRecord(ckpt) \in LogRecords /\ EndRecord(ckpt).kind = "end"
      /\ EndRecord(ckpt).kind \notin Terminal /\ EndRecord(ckpt).xid = 0
      /\ EndRecord(ckpt).redo = ckpt.begin /\ EndRecord(ckpt).att = ckpt.att
  BY Zenon, <1>1, RecordFacts DEF EndRecord, Terminal, InvalidXid
<1>5. /\ log' \in Seq(LogRecords) /\ Len(log') = Len(log) + 1 /\ Len(log) \in Nat
      /\ \A i \in 1..Len(log) : log'[i] = log[i] /\ i \in 1..Len(log')
      /\ log'[Len(log) + 1] = EndRecord(ckpt)
  <2>1. DiskTypes /\ log' = Append(log, EndRecord(ckpt)) /\ EndRecord(ckpt) \in LogRecords
    BY Zenon, <1>1, <1>2, <1>4
  <2>2. QED
    BY Zenon, <2>1, AppendFacts
<1>6. \A i \in 1..Len(log') : i \in 1..Len(log) \/ (i = Len(log) + 1 /\ log'[i] = EndRecord(ckpt))
  BY <1>5
<1>7. /\ flushed \in Nat /\ flushed <= Len(log) /\ sb.redo \in Nat /\ sb.redo <= flushed
      /\ RedoStart(sb) \in Nat /\ RedoStart(sb) >= 1
  BY Zenon, <1>1, LogFacts DEF DiskTypes
<1>8. /\ ~ poisoned
      /\ \A x \in XidSet : phase[x] \notin Ending
      /\ sb.redo < ckpt.begin /\ ckpt.begin <= Len(log) /\ ckpt.begin \in Nat
      /\ \A x \in ckpt.att : x < clock
      /\ \A x \in XidSet : clog[x] \in Terminal => clogDisk[x] = clog[x]
      /\ ckpt.next \in 1..clock
      /\ \A x \in ckpt.att : x < ckpt.next
      /\ \A x \in XidSet : clog[x] \in Terminal => x < ckpt.next
      /\ \A i \in 1..(ckpt.begin - 1) : log[i].xid < ckpt.next
      /\ \A i \in 1..Len(log) : log[i].kind = "end" => log[i].redo # ckpt.begin
  BY Zenon, <1>1 DEF CRInv, CheckpointUnderWay, AfterClog, AfterRead, CkptRecords
<1>9. DiskTypes'
  <2>1. flushed' \in 0..Len(log')
    BY <1>2, <1>5, <1>7
  <2>2. QED
    BY Zenon, <1>1, <1>2, <1>3, <1>5, <2>1 DEF DiskTypes, CkptRecords
<1>10. TerminalRecords'
  <2> SUFFICES ASSUME NEW i \in 1..Len(log'), log'[i].kind \in Terminal
               PROVE  LET z == log'[i].xid IN
                        /\ fate[z] = log'[i].kind
                        /\ phase[z] \in Ending \cup {"failed", "done"}
                        /\ clog[z] \in Terminal => clog[z] = log'[i].kind
                        /\ \A j \in 1..Len(log') :
                              log'[j].kind \in Terminal /\ log'[j].xid = z => j = i
    BY Zenon, <1>2 DEF TerminalRecords
  <2>1. i \in 1..Len(log) /\ log'[i] = log[i]
    BY Zenon, <1>4, <1>5, <1>6
  <2>2. QED
    BY <1>4, <1>5, <1>6, <2>1 DEF CRInv, TerminalRecords
<1>11. CommitsUnderWay'
  BY Zenon, <1>2, <1>8 DEF CRInv, CommitsUnderWay, Ending
<1>12. CheckpointRecords'
  <2> SUFFICES ASSUME NEW i \in 1..Len(log'), log'[i].kind = "end"
               PROVE  /\ log'[i].redo \in 1..(i - 1)
                      /\ log'[i].redo = sb.redo => \A x \in log'[i].att : x < sb.next
    BY Zenon, <1>2 DEF CheckpointRecords
  <2>1. CASE i \in 1..Len(log)
    BY Zenon, <1>5, <2>1 DEF CRInv, CheckpointRecords
  <2>2. CASE i = Len(log) + 1
    <3>1. log'[i].redo = ckpt.begin
      BY Zenon, <1>4, <1>5, <2>2
    <3>2. QED
      BY <1>5, <1>7, <1>8, <2>2, <3>1
  <2>3. QED
    BY Zenon, <1>6, <2>1, <2>2
<1>13. CheckpointUnderWay'
  <2>1. EndRecord(ckpt)' = EndRecord(ckpt)
    BY Zenon, <1>3 DEF EndRecord
  <2>2. \A i \in 1..(ckpt.begin - 1) : log'[i] = log[i]
    BY <1>5, <1>8
  <2>3. ckpt.begin <= Len(log') /\ Len(log) + 1 \in 1..Len(log')
    BY <1>5, <1>8
  <2>4. \A i \in 1..Len(log') : log'[i].kind = "end" /\ log'[i].redo = ckpt.begin =>
             log'[i].att = ckpt.att
    BY Zenon, <1>4, <1>5, <1>6, <1>8
  <2>5. \E i \in 1..Len(log') : log'[i] = EndRecord(ckpt)'
    BY Zenon, <1>5, <2>1, <2>3
  <2>6. QED
    BY <1>2, <1>3, <1>8, <2>2, <2>3, <2>4, <2>5 DEF CheckpointUnderWay
<1>14. FileLags'
  <2>1. \A i \in 1..(sb.redo - 1) : log'[i] = log[i]
    BY <1>5, <1>7
  <2>2. QED
    BY Zenon, <1>2, <2>1 DEF CRInv, FileLags
<1>15. OutcomesKept'
  <2>1. \A i \in RedoStart(sb)..flushed : log'[i] = log[i]
    BY <1>5, <1>7
  <2>2. RedoStart(sb)' = RedoStart(sb)
    BY Zenon, <1>2 DEF RedoStart
  <2>3. \A x \in XidSet : Known(x, flushed) => Known(x, flushed)'
    BY Zenon, <1>2, <2>1, <2>2 DEF Known
  <2>4. QED
    BY Zenon, <1>2, <1>8, <2>3 DEF CRInv, OutcomesKept
<1>16. ClockAheadOfLog'
  <2>1. DOMAIN log' = 1..Len(log') /\ DOMAIN log = 1..Len(log) /\ 0 < clock
    BY <1>1, <1>5, Indices, LogFacts, BoundsAssumption DEF TxnInv, TypeOK
  <2>2. QED
    BY Zenon, <1>2, <1>4, <1>5, <1>6, <2>1 DEF CRInv, ClockAheadOfLog
<1>17. QED
  BY Zenon, <1>9, <1>10, <1>11, <1>12, <1>13, <1>14, <1>15, <1>16 DEF CRInv

LEMMA CkptFlushKeeps ==
    ASSUME FlushIsExact, TxnInv, CRInv, CkptFlush
    PROVE  CRInv'
<1> DEFINE p == PositionOf(EndRecord(ckpt))
<1>1. ckpt \in CkptRecords /\ DiskTypes /\ ckpt.pc = "ended"
  BY Zenon DEF CRInv, DiskTypes, CkptRecords, CkptFlush
<1>2. /\ ckpt' = [ckpt EXCEPT !.pc = "flushed"]
      /\ flushed' = IF AlreadySynced(p) THEN flushed ELSE p
      /\ log' = log /\ clogDisk' = clogDisk /\ sb' = sb
      /\ clog' = clog /\ clock' = clock /\ fate' = fate /\ poisoned' = poisoned /\ phase' = phase
  BY Zenon DEF CkptFlush, FlushUpTo, memory
<1>3. /\ ckpt' \in CkptRecords
      /\ ckpt'.pc = "flushed" /\ ckpt'.begin = ckpt.begin /\ ckpt'.att = ckpt.att
      /\ ckpt'.next = ckpt.next
  BY Zenon, <1>1, <1>2 DEF CkptRecords, CkptSteps, AfterClog
<1>4. /\ Len(log) \in Nat /\ DOMAIN log = 1..Len(log) /\ flushed \in Nat /\ flushed <= Len(log)
  BY Zenon, <1>1, LogFacts
<1>5. p \in DOMAIN log /\ log[p] = EndRecord(ckpt)
  BY Zenon, <1>1, <1>4 DEF PositionOf, CRInv, CheckpointUnderWay
<1>6. p \in 1..Len(log) /\ log[p].kind = "end" /\ log[p].redo = ckpt.begin
  BY <1>4, <1>5 DEF EndRecord
<1> HIDE DEF p
<1>7. ckpt.begin \in 1..(p - 1)
  BY Zenon, <1>6 DEF CRInv, CheckpointRecords
<1>8. flushed' \in flushed..Len(log) /\ ckpt.begin <= flushed'
  BY <1>2, <1>4, <1>6, <1>7 DEF AlreadySynced
<1>9. /\ flushed' \in 0..Len(log') /\ sb'.redo <= flushed'
      /\ CheckpointRecords' /\ FileLags' /\ OutcomesKept' /\ ClockAheadOfLog'
      /\ \A y \in XidSet :
            /\ RecordInReach(y, Len(log)) => RecordInReach(y, Len(log))'
            /\ RecordInReach(y, flushed) => RecordInReach(y, flushed)'
  BY Zenon, <1>2, <1>8, FsyncKeeps
<1>10. DiskTypes' /\ TerminalRecords' /\ CommitsUnderWay'
  BY Zenon, <1>2, <1>3, <1>9 DEF CRInv, DiskTypes, CkptRecords, TerminalRecords, CommitsUnderWay
<1>11. CheckpointUnderWay'
  BY Zenon, <1>1, <1>2, <1>3, <1>8 DEF CRInv, CheckpointUnderWay, AfterClog, AfterRead
<1>12. QED
  BY Zenon, <1>9, <1>10, <1>11 DEF CRInv

----------------------------------------------------------------------------
(* The theorems                                                            *)

LEMMA CRInvNext ==
    ASSUME FlushIsExact, TxnInv, CRInv, [CRNext]_crVars
    PROVE  TxnInv' /\ CRInv' /\ [Next]_vars
<1>1. [Next]_vars
  BY Zenon, CRNextRefines
<1>2. TxnInv'
  BY Zenon, <1>1, InvNext
<1> SUFFICES CRInv'
  BY Zenon, <1>1, <1>2
<1>3. CASE MemoryStep
  BY Zenon, <1>2, <1>3, MemoryKeeps
<1>4. CASE \E x \in XidSet : WriteData(x)
  BY Zenon, <1>4, WriteDataKeeps
<1>5. CASE \E x \in XidSet : CommitFlush(x)
  BY Zenon, <1>5, CommitFlushKeeps
<1>6. CASE \E x \in XidSet : \E state \in Terminal : CommitAppend(x, state)
  BY Zenon, <1>6, CommitAppendKeeps
<1>7. CASE GroupFsync
  BY Zenon, <1>7, GroupFsyncKeeps
<1>8. CASE Checkpoint
  BY Zenon, <1>8, CkptBeginKeeps, CkptSampleKeeps, CkptClogKeeps, CkptReadKeeps, CkptEndKeeps,
     CkptFlushKeeps, CkptSuperblockKeeps, CkptFailKeeps DEF Checkpoint
<1>9. CASE \E n \in flushed..Len(log), kept \in SUBSET XidSet : Crash(n, kept)
  BY Zenon, <1>2, <1>9, CrashKeeps
<1>10. CASE UNCHANGED crVars
  <2>1. CRInv' = CRInv
    <3>1. UNCHANGED <<clock, clog, phase, fate, poisoned, log, flushed, clogDisk, sb, ckpt>>
      BY Zenon, <1>10 DEF crVars
    <3>2. DiskTypes' = DiskTypes /\ TerminalRecords' = TerminalRecords
      BY Zenon, <3>1 DEF DiskTypes, TerminalRecords
    <3>3. CommitsUnderWay' = CommitsUnderWay /\ CheckpointRecords' = CheckpointRecords
      BY Zenon, <3>1 DEF CommitsUnderWay, RecordInReach, RedoStart, Ended, CheckpointRecords
    <3>4. CheckpointUnderWay' = CheckpointUnderWay /\ FileLags' = FileLags
      BY Zenon, <3>1 DEF CheckpointUnderWay, EndRecord, FileLags
    <3>5. OutcomesKept' = OutcomesKept /\ ClockAheadOfLog' = ClockAheadOfLog
      BY <3>1 DEF OutcomesKept, Known, Loser, RedoStart, ClockAheadOfLog
    <3>6. QED
      BY Zenon, <3>2, <3>3, <3>4, <3>5 DEF CRInv
  <2>2. QED
    BY Zenon, <2>1
<1>11. QED
  BY Zenon, <1>3, <1>4, <1>5, <1>6, <1>7, <1>8, <1>9, <1>10 DEF CRNext

\* The invariant holds in every reachable state of the log, the checkpoint,
\* the crash and recovery (txn_manager.rs, checkpoint.rs, analysis.rs, engine.rs).
THEOREM CommitRecoveryInvariant ==
    ASSUME FlushIsExact
    PROVE  CRSpec => [](TxnInv /\ CRInv)
<1>1. CRInit => TxnInv /\ CRInv
  BY Zenon, InvInit, CRInvInit DEF CRInit
<1>2. TxnInv /\ CRInv /\ [CRNext]_crVars => TxnInv' /\ CRInv'
  BY Zenon, CRInvNext
<1>3. QED
  BY <1>1, <1>2, PTL DEF CRSpec

\* Recovery keeps the transaction manager's promises across any number of
\* crashes at any step, checkpoints included: the log, the CLOG file and the
\* superblock together implement TxnManager, provided flush_to covers the
\* record it is given.
THEOREM RecoveryImplementsTxnManager ==
    ASSUME FlushIsExact
    PROVE  CRSpec => ImplementsTxnManager
<1>1. CRInit => Init
  BY Zenon DEF CRInit
<1>2. TxnInv /\ CRInv /\ [CRNext]_crVars => [Next]_vars
  BY Zenon, CRInvNext
<1>3. QED
  BY <1>1, <1>2, CommitRecoveryInvariant, PTL DEF CRSpec, ImplementsTxnManager, Spec

\* A commit anyone has seen is recovered from what has been fsynced, at
\* whatever step of a session or of a checkpoint the machine stops.
THEOREM CommitsAreDurable ==
    ASSUME FlushIsExact
    PROVE  CRSpec => []VisibleIsDurable
<1>1. ASSUME TxnInv, CRInv PROVE VisibleIsDurable
  <2> SUFFICES ASSUME NEW x \in XidSet, clog[x] = "Committed"
               PROVE  RecoveredClog(clogDisk, Survivor(flushed), sb)[x] = "Committed"
    BY Zenon DEF VisibleIsDurable
  <2>1. ClogFile({}) = clogDisk
    BY Zenon, <1>1 DEF ClogFile, CRInv, DiskTypes
  <2>2. flushed \in flushed..Len(log) /\ {} \in SUBSET XidSet
    BY <1>1, LogFacts DEF CRInv
  <2>3. RecoveredClog(ClogFile({}), Survivor(flushed), sb)[x] = clog[x]
    BY <1>1, <2>2, Recovered DEF Terminal
  <2>4. QED
    BY Zenon, <2>1, <2>3
<1>2. QED
  BY <1>1, CommitRecoveryInvariant, PTL

\* No XID that the log mentions is handed out again (the seed of the XID clock
\* in StorageEngine's recovery).
THEOREM XidsAreNotReused ==
    ASSUME FlushIsExact
    PROVE  CRSpec => []ClockAheadOfLog
<1>1. TxnInv /\ CRInv => ClockAheadOfLog
  BY Zenon DEF CRInv
<1>2. QED
  BY <1>1, CommitRecoveryInvariant, PTL

\* A terminal state that a session could have read survives every crash.
THEOREM RecoveryIsFinal ==
    ASSUME FlushIsExact
    PROVE  CRSpec => TerminalIsFinal
BY RecoveryImplementsTxnManager, Finality, PTL DEF ImplementsTxnManager
=============================================================================
