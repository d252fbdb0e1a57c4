-------------------------- MODULE WalWriterProofs --------------------------
(***************************************************************************)
(* Proofs about WalWriter: what flush_to and flush promise holds for any   *)
(* number of callers, any record and segment sizes and any number of       *)
(* crashes, with power loss or without.                                    *)
(***************************************************************************)
EXTENDS WalWriter, WellFoundedInduction, TLAPS

----------------------------------------------------------------------------
(* The reader: what the scan of a log computes                             *)

Positions == First..(MaxLsn + 1)

\* Every unit that was written holds a record that covers it and fits the log.
WellFormed(b) ==
    /\ b \in [Units -> Records \cup {Zero}]
    /\ \A p \in Units : b[p] # Zero => p \in Span(b[p]) /\ EndOf(b[p]) \in Positions

\* The units from lo up to hi are whole records, one after the other.
Tiled(b, lo, hi) ==
    \A p \in Units : lo <= p /\ p < hi =>
        /\ b[p] # Zero /\ IntactIn(b, b[p])
        /\ lo <= b[p].lsn /\ EndOf(b[p]) <= hi

\* Every nonempty set of numbers has a least element: the induction of the
\* proofs below.
LEMMA Least ==
    ASSUME NEW T, T \subseteq Nat, T # {}
    PROVE  \E n \in T : \A m \in T : n <= m
<1> DEFINE R == OpToRel(<, Nat)
<1>1. R = {ss \in Nat \X Nat : ss[1] < ss[2]}
  BY Zenon DEF OpToRel
<1>2. IsWellFoundedOn(R, Nat)
  BY Zenon, NatLessThanWellFounded
<1> HIDE DEF R
<1>3. \E n \in T : \A m \in T : ~ (<<m, n>> \in R)
  BY Zenon, <1>2, WFMin
<1>4. \A m \in Nat, n \in Nat : m < n => <<m, n>> \in R
  BY SMT, <1>1
<1>5. PICK n \in T : \A m \in T : <<m, n>> \notin R
  BY Zenon, <1>3
<1>6. \A m \in T : m \in Nat /\ n \in Nat /\ ~(m < n)
  BY Zenon, <1>4, <1>5
<1>7. \A m \in T : n <= m
  BY <1>6
<1>8. QED
  BY Zenon, <1>7

\* A set of positions that holds every position whose successors it holds
\* holds them all.
LEMMA FromTheEnd ==
    ASSUME NEW S,
           \A p \in Positions : (\A q \in Positions : p < q => q \in S) => p \in S
    PROVE  Positions \subseteq S
<1> DEFINE T == {k \in 0..MaxLsn : (MaxLsn + 1) - k \notin S}
<1> USE SizesAssumption DEF Positions, First
<1>1. SUFFICES ASSUME ~ (Positions \subseteq S) PROVE FALSE
  BY Zenon
<1>2. PICK q \in Positions : q \notin S
  BY Zenon, <1>1
<1>3. (MaxLsn + 1) - q \in T
  <2>1. (MaxLsn + 1) - q \in 0..MaxLsn /\ (MaxLsn + 1) - ((MaxLsn + 1) - q) = q
    BY <1>2
  <2>2. \A k \in 0..MaxLsn : (MaxLsn + 1) - k = q => k \in T
    BY Zenon, <1>2
  <2>3. QED
    BY Zenon, <2>1, <2>2
<1>4. T \subseteq Nat /\ T # {}
  <2>1. T \subseteq 0..MaxLsn /\ T # {}
    BY Zenon, <1>3
  <2>2. 0..MaxLsn \subseteq Nat
    OBVIOUS
  <2>3. QED
    BY Zenon, <2>1, <2>2
<1>5. PICK k \in T : \A m \in T : k <= m
  BY Zenon, <1>4, Least
<1>6. k \in 0..MaxLsn /\ (MaxLsn + 1) - k \in Positions /\ (MaxLsn + 1) - k \notin S
  BY <1>5
<1>7. PICK r \in Positions : (MaxLsn + 1) - k < r /\ r \notin S
  BY <1>6
<1>8. (MaxLsn + 1) - r \in 0..MaxLsn /\ (MaxLsn + 1) - ((MaxLsn + 1) - r) = r
  BY <1>7
<1>9. (MaxLsn + 1) - r \in T
  <2>1. \A i \in 0..MaxLsn : (MaxLsn + 1) - i = r => i \in T
    BY Zenon, <1>7
  <2>2. QED
    BY Zenon, <2>1, <1>8
<1>10. k <= (MaxLsn + 1) - r
  BY Zenon, <1>5, <1>9
<1>11. QED
  BY <1>6, <1>7, <1>10

ScanRule(b, s, p) == IF Readable(b, p) THEN s[EndOf(b[p])] ELSE p

\* The fields of a record: it has a header, so it is not empty.
LEMMA RecordTypes ==
    ASSUME NEW r \in Records
    PROVE  /\ r.lsn \in Units /\ r.size \in Nat \ {0} /\ r.gen \in 0..MaxCrashes
           /\ r.lsn \in Nat /\ EndOf(r) \in Nat /\ r.lsn < EndOf(r)
           /\ r.lsn \in Span(r)
<1>1. r.lsn \in Units /\ r.size \in Sizes /\ r.gen \in 0..MaxCrashes
  BY DEF Records
<1>2. r.lsn \in Nat /\ r.size \in Nat \ {0}
  <2>1. r.size \in 1..SegmentSize
    BY Zenon, <1>1, SizesAssumption
  <2>2. QED
    BY <1>1, <2>1, SizesAssumption DEF Units, First
<1>3. EndOf(r) \in Nat /\ r.lsn < EndOf(r) /\ r.lsn <= r.lsn
  BY <1>2 DEF EndOf
<1>4. QED
  BY Zenon, <1>1, <1>2, <1>3 DEF Span

\* A record that can be read ends behind its position, inside the log.
LEMMA ReadableAdvances ==
    ASSUME NEW b, WellFormed(b), NEW p \in Positions, Readable(b, p)
    PROVE  p \in Units /\ EndOf(b[p]) \in Positions /\ p < EndOf(b[p])
<1>1. p \in Units /\ b[p] # Zero /\ b[p] \in Records /\ b[p].lsn = p /\ EndOf(b[p]) \in Positions
  BY Zenon DEF WellFormed, Readable
<1>2. QED
  BY Zenon, <1>1, RecordTypes

\* The recursion of next_record, from the end of the log backwards, is that
\* of a function.
LEMMA ScanExists ==
    ASSUME NEW b, WellFormed(b)
    PROVE  \E s : s = [p \in Positions |-> ScanRule(b, s, p)]
<1> DEFINE Scan(s, p) == /\ s \in [p..(MaxLsn + 1) -> Positions]
                         /\ \A q \in p..(MaxLsn + 1) : s[q] = ScanRule(b, s, q)
           S == {p \in Positions : \E s : Scan(s, p)}
<1>1. ASSUME NEW p \in Positions, \A q \in Positions : p < q => q \in S
      PROVE  p \in S
  <2>1. CASE p = MaxLsn + 1
    <3> DEFINE s == [q \in p..(MaxLsn + 1) |-> p]
    <3>1. ~ Readable(b, p)
      BY <2>1, SizesAssumption DEF Readable, Units, First
    <3>2. \A q \in p..(MaxLsn + 1) : q = p
      BY <2>1, SizesAssumption
    <3>3. Scan(s, p)
      BY Zenon, <3>1, <3>2 DEF ScanRule
    <3>4. QED
      BY Zenon, <3>3
  <2>2. CASE p # MaxLsn + 1
    <3>1. p + 1 \in Positions /\ p < p + 1 /\ p \notin (p + 1)..(MaxLsn + 1)
          /\ p..(MaxLsn + 1) = {p} \cup ((p + 1)..(MaxLsn + 1))
          /\ (p + 1)..(MaxLsn + 1) \subseteq Positions
      BY <2>2, SizesAssumption DEF Positions, First
    <3>2. PICK s : Scan(s, p + 1)
      BY Zenon, <1>1, <3>1
    <3> DEFINE D == p..(MaxLsn + 1)
               E == (p + 1)..(MaxLsn + 1)
               t == [q \in D |-> IF q = p THEN ScanRule(b, s, p) ELSE s[q]]
    <3>3. \A q \in E : Readable(b, q) => EndOf(b[q]) \in E
      <4>1. \A q \in E : Readable(b, q) => EndOf(b[q]) \in Positions /\ q < EndOf(b[q]) /\ q \in Positions
        BY Zenon, <3>1, ReadableAdvances
      <4>2. QED
        BY <4>1, SizesAssumption DEF Positions, First
    <3>4. Readable(b, p) => EndOf(b[p]) \in E
      <4>1. Readable(b, p) => EndOf(b[p]) \in Positions /\ p < EndOf(b[p])
        BY Zenon, <3>1, ReadableAdvances
      <4>2. QED
        BY <4>1, SizesAssumption DEF Positions, First
    <3> HIDE DEF D, E
    <3>5. D = {p} \cup E /\ p \notin E
      BY Zenon, <3>1 DEF D, E
    <3>6. s \in [E -> Positions] /\ \A q \in E : s[q] = ScanRule(b, s, q)
      BY Zenon, <3>2 DEF E
    <3>7. t \in [D -> Positions]
      BY Zenon, <3>4, <3>5, <3>6 DEF ScanRule
    <3>8. \A q \in E : t[q] = s[q]
      BY Zenon, <3>5
    <3>9. t[p] = ScanRule(b, s, p)
      BY Zenon, <3>5
    <3> HIDE DEF t
    <3>10. \A q \in D : t[q] = ScanRule(b, t, q)
      BY Zenon, <3>3, <3>4, <3>5, <3>6, <3>8, <3>9 DEF ScanRule
    <3>11. Scan(t, p)
      BY Zenon, <3>7, <3>10 DEF D
    <3>12. QED
      BY Zenon, <3>11
  <2>3. QED
    BY Zenon, <2>1, <2>2
<1>2. First \in Positions
  BY SizesAssumption DEF Positions, First
<1>3. First \in S
  <2> HIDE DEF S
  <2>1. Positions \subseteq S
    BY Zenon, <1>1, FromTheEnd
  <2>2. QED
    BY Zenon, <2>1, <1>2
<1>4. PICK s : Scan(s, First)
  BY Zenon, <1>3
<1>5. s = [p \in Positions |-> ScanRule(b, s, p)]
  BY <1>4 DEF Positions
<1>6. QED
  BY Zenon, <1>5

\* Where next_record stops when it starts at First is a value of that
\* function.
LEMMA StopAtScans ==
    ASSUME NEW b, WellFormed(b)
    PROVE  \E s : s = [p \in Positions |-> ScanRule(b, s, p)] /\ StopAt(b) = s[First]
<1> DEFINE s == CHOOSE s : s = [p \in Positions |-> ScanRule(b, s, p)]
<1>1. s = [p \in Positions |-> ScanRule(b, s, p)]
  BY Zenon, ScanExists
<1>2. StopAt(b) = s[First]
  BY Zenon DEF StopAt, Positions, ScanRule
<1>3. QED
  BY Zenon, <1>1, <1>2

\* Two whole records that share a unit are the same.
LEMMA IntactApart ==
    ASSUME NEW b, NEW r, NEW s, NEW p, IntactIn(b, r), IntactIn(b, s), p \in Span(r), p \in Span(s)
    PROVE  r = s
  BY Zenon DEF IntactIn

\* What a well-formed log holds at a unit.
LEMMA UnitTypes ==
    ASSUME NEW b, WellFormed(b), NEW p \in Units, b[p] # Zero
    PROVE  /\ b[p] \in Records /\ p \in Span(b[p]) /\ p \in Positions /\ p \in Nat
           /\ b[p].lsn \in Units /\ b[p].lsn \in Nat /\ b[p].lsn <= p /\ p < EndOf(b[p])
           /\ EndOf(b[p]) \in Positions /\ EndOf(b[p]) \in Nat /\ b[p].lsn \in Span(b[p])
<1>1. b[p] \in Records /\ p \in Span(b[p]) /\ EndOf(b[p]) \in Positions
  BY Zenon DEF WellFormed
<1>2. p \in Positions /\ p \in Nat
  BY SizesAssumption DEF Units, Positions, First
<1>3. b[p].lsn <= p /\ p < EndOf(b[p])
  BY Zenon, <1>1 DEF Span
<1>4. QED
  BY Zenon, <1>1, <1>2, <1>3, RecordTypes

\* The scan stops no sooner than it starts, and everything it has passed is
\* whole.
LEMMA ScanTiles ==
    ASSUME NEW b, WellFormed(b), NEW s, s = [p \in Positions |-> ScanRule(b, s, p)],
           NEW p \in Positions
    PROVE  s[p] \in Positions /\ p <= s[p] /\ Tiled(b, p, s[p])
<1> DEFINE S == {q \in Positions : s[q] \in Positions /\ q <= s[q] /\ Tiled(b, q, s[q])}
<1>0. Positions \subseteq Nat
  BY SizesAssumption DEF Positions, First
<1>1. ASSUME NEW q \in Positions, \A n \in Positions : q < n => n \in S
      PROVE  q \in S
  <2>1. s[q] = ScanRule(b, s, q)
    BY Zenon
  <2>2. CASE ~ Readable(b, q)
    <3>1. s[q] = q
      BY Zenon, <2>1, <2>2 DEF ScanRule
    <3>2. q <= q /\ \A n \in Units : ~ (q <= n /\ n < q)
      BY <1>0, SizesAssumption DEF Units, First
    <3>3. QED
      BY Zenon, <3>1, <3>2 DEF Tiled
  <2>3. CASE Readable(b, q)
    <3> DEFINE e == EndOf(b[q])
    <3>1. q \in Units /\ e \in Positions /\ q < e
      BY Zenon, <2>3, ReadableAdvances
    <3>2. s[q] = s[e]
      BY Zenon, <2>1, <2>3 DEF ScanRule
    <3>3. s[e] \in Positions /\ e <= s[e] /\ Tiled(b, e, s[e])
      BY Zenon, <1>1, <3>1
    <3>4. b[q] # Zero /\ b[q].lsn = q /\ IntactIn(b, b[q])
      BY Zenon, <2>3 DEF Readable
    <3> HIDE DEF e
    <3>5. q \in Nat /\ e \in Nat /\ s[e] \in Nat /\ q <= s[e]
      <4>1. q \in Nat /\ e \in Nat /\ s[e] \in Nat
        BY Zenon, <1>0, <3>1, <3>3
      <4>2. QED
        BY <4>1, <3>1, <3>3
    <3>6. ASSUME NEW n \in Units, q <= n, n < s[e]
          PROVE  b[n] # Zero /\ IntactIn(b, b[n]) /\ q <= b[n].lsn /\ EndOf(b[n]) <= s[e]
      <4>1. CASE n < e
        <5>1. n \in Span(b[q])
          BY Zenon, <3>4, <3>6, <4>1 DEF Span, e
        <5>2. b[n] = b[q]
          BY Zenon, <3>4, <5>1 DEF IntactIn
        <5>3. q <= q /\ e <= s[e]
          BY <3>5, <3>3
        <5>4. QED
          BY Zenon, <5>2, <5>3, <3>4 DEF e
      <4>2. CASE ~ (n < e)
        <5>1. n \in Nat /\ e <= n
          BY <4>2, <3>5, SizesAssumption DEF Units, First
        <5>2. b[n] # Zero /\ IntactIn(b, b[n]) /\ e <= b[n].lsn /\ EndOf(b[n]) <= s[e]
          BY Zenon, <5>1, <3>3, <3>6 DEF Tiled
        <5>3. b[n].lsn \in Nat
          BY Zenon, <5>2, UnitTypes
        <5>4. q <= b[n].lsn
          BY <5>2, <5>3, <3>5, <3>1
        <5>5. QED
          BY Zenon, <5>2, <5>4
      <4>3. QED
        BY Zenon, <4>1, <4>2
    <3>7. Tiled(b, q, s[e])
      BY Zenon, <3>6 DEF Tiled
    <3>8. QED
      BY Zenon, <3>2, <3>3, <3>5, <3>7
  <2>4. QED
    BY Zenon, <2>2, <2>3
<1>2. p \in S
  <2> HIDE DEF S
  <2>1. Positions \subseteq S
    BY Zenon, <1>1, FromTheEnd
  <2>2. QED
    BY Zenon, <2>1
<1>3. QED
  BY Zenon, <1>2

\* A scan that starts where whole records begin goes on to where they end.
LEMMA ScanPasses ==
    ASSUME NEW b, WellFormed(b), NEW s, s = [p \in Positions |-> ScanRule(b, s, p)],
           NEW e \in Positions, NEW p \in Positions, p <= e, Tiled(b, p, e)
    PROVE  e <= s[p]
<1> DEFINE S == {q \in Positions : q <= e /\ Tiled(b, q, e) => e <= s[q]}
<1>0. Positions \subseteq Nat
  BY SizesAssumption DEF Positions, First
<1>1. ASSUME NEW q \in Positions, \A n \in Positions : q < n => n \in S
      PROVE  q \in S
  <2>1. SUFFICES ASSUME q <= e, Tiled(b, q, e) PROVE e <= s[q]
    BY Zenon
  <2>2. CASE q = e
    BY Zenon, <2>2, ScanTiles
  <2>3. CASE q # e
    <3>1. q \in Units /\ q <= q /\ q < e
      BY <2>1, <2>3, SizesAssumption DEF Positions, Units, First
    <3>2. b[q] # Zero /\ IntactIn(b, b[q]) /\ q <= b[q].lsn /\ EndOf(b[q]) <= e
      BY Zenon, <2>1, <3>1 DEF Tiled
    <3>3. b[q].lsn \in Nat /\ b[q].lsn <= q /\ q \in Nat
      BY Zenon, <3>1, <3>2, UnitTypes
    <3>4. b[q].lsn = q
      BY <3>2, <3>3
    <3>5. Readable(b, q)
      BY Zenon, <3>1, <3>2, <3>4 DEF Readable
    <3> DEFINE n == EndOf(b[q])
    <3>6. n \in Positions /\ q < n /\ s[q] = s[n]
      BY Zenon, <3>5, ReadableAdvances DEF ScanRule
    <3>7. ASSUME NEW m \in Units, n <= m, m < e
          PROVE  b[m] # Zero /\ IntactIn(b, b[m]) /\ n <= b[m].lsn /\ EndOf(b[m]) <= e
      <4>0. n \in Nat /\ q \in Nat /\ m \in Nat
        <5>1. m \in Nat
          BY SizesAssumption DEF Units, First
        <5>2. QED
          BY Zenon, <5>1, <1>0, <3>6
      <4>1. q <= m
        BY <4>0, <3>6, <3>7
      <4>2. b[m] # Zero /\ IntactIn(b, b[m]) /\ q <= b[m].lsn /\ EndOf(b[m]) <= e
        BY Zenon, <2>1, <4>1, <3>7 DEF Tiled
      <4>3. b[m].lsn \in Units /\ b[m].lsn \in Nat /\ b[m].lsn \in Span(b[m]) /\ m < EndOf(b[m])
        BY Zenon, <4>2, UnitTypes
      <4>4. ASSUME b[m].lsn < n PROVE FALSE
        <5>1. b[m].lsn \in Span(b[q])
          BY Zenon, <4>2, <4>3, <4>4, <3>4 DEF Span
        <5>2. b[m] = b[q]
          BY Zenon, <5>1, <4>2, <4>3, <3>2, IntactApart
        <5>3. m < n
          BY Zenon, <5>2, <4>3
        <5>4. QED
          BY <5>3, <3>7, <4>0
      <4>5. n <= b[m].lsn
        BY <4>4, <4>3, <4>0
      <4>6. QED
        BY Zenon, <4>2, <4>5
    <3>8. Tiled(b, n, e)
      BY Zenon, <3>7 DEF Tiled
    <3>9. QED
      BY Zenon, <1>1, <3>6, <3>8, <3>2
  <2>4. QED
    BY Zenon, <2>2, <2>3
<1>2. p \in S
  <2> HIDE DEF S
  <2>1. Positions \subseteq S
    BY Zenon, <1>1, FromTheEnd
  <2>2. QED
    BY Zenon, <2>1
<1>3. QED
  BY Zenon, <1>2

\* Where the scan of a log stops: a position up to which the log is whole, and
\* no whole prefix reaches further.
LEMMA StopAtReaches ==
    ASSUME NEW b, WellFormed(b)
    PROVE  /\ StopAt(b) \in Positions /\ Tiled(b, First, StopAt(b))
           /\ \A e \in Positions : Tiled(b, First, e) => e <= StopAt(b)
<1>1. First \in Positions /\ \A e \in Positions : First <= e
  BY SizesAssumption DEF Positions, First
<1>2. PICK s : s = [p \in Positions |-> ScanRule(b, s, p)] /\ StopAt(b) = s[First]
  BY Zenon, StopAtScans
<1>3. QED
  BY Zenon, <1>1, <1>2, ScanTiles, ScanPasses

----------------------------------------------------------------------------
(* The inductive invariant                                                 *)

Busy == worker.pc \in {"fsync", "finish"}
Mine == {r \in Written : r.gen = gen}

Types ==
    /\ clock \in Positions /\ segment \in Nat /\ synced \in Nat /\ synced <= clock
    /\ pending \in Nat /\ gen \in 0..MaxCrashes
    /\ worker \in [pc : {"loop", "wait", "fsync", "finish", "exit"}, lsn : Nat, seg : Nat,
                   pending : Nat]
    /\ WellFormed(file) /\ WellFormed(disk)
    /\ \A p \in Units : file[p] # Zero => file[p].gen <= gen
    /\ \A p \in Units : disk[p] # Zero => disk[p].gen <= gen

\* Only the current segment may differ from what is on the disk, and no later
\* one exists.
Lags(f, d, seg) ==
    \A p \in Units : /\ SegmentOf(p) # seg => d[p] = f[p]
                     /\ seg < SegmentOf(p) => f[p] = Zero

\* The log is whole up to the clock, or to where an append has failed, and what
\* lies behind was left by earlier processes.
Whole ==
    /\ \E h \in Positions : /\ h <= clock /\ Tiled(file, First, h)
                            /\ ~ failed => h = clock
                            /\ \A r \in Mine : EndOf(r) <= h
    /\ ~ failed => \A p \in Units : clock <= p /\ file[p] # Zero => file[p].gen < gen

\* The file and the disk agree below n.
AgreeBelow(f, d, n) == \A p \in Units : p < n => d[p] = f[p]

\* A safe record is in the whole part of the log, in the file and on the disk.
Kept(f, d, r) ==
    /\ r \in Records /\ EndOf(r) \in Positions
    /\ f[r.lsn] = r /\ Tiled(f, First, EndOf(r)) /\ AgreeBelow(f, d, EndOf(r))

SafeKept == \A r \in safe : EndOf(r) <= clock /\ Kept(file, disk, r)

\* What the worker captured stays within the log, its fsync covers it, and what
\* is not counted as pending is safe.
Counted ==
    /\ AgreeBelow(file, disk, synced)
    /\ pending > 0 => InSegments /\ (~ failed => clock <= (segment + 1) * SegmentSize)
    /\ pending = 0 => Mine \subseteq safe
    /\ Busy =>
        /\ worker.lsn <= clock /\ worker.seg <= segment /\ worker.pending <= pending
        /\ InSegments
        /\ \/ worker.lsn <= (worker.seg + 1) * SegmentSize
           \/ failed /\ worker.seg = segment
        /\ pending = worker.pending => \A r \in Mine : EndOf(r) <= worker.lsn \/ r \in safe
    /\ worker.pc = "finish" /\ worker.seg = segment => AgreeBelow(file, disk, worker.lsn)

WalInv == Types /\ Lags(file, disk, segment) /\ Whole /\ SafeKept /\ Counted

----------------------------------------------------------------------------
(* Segments and bytes                                                      *)

LEMMA SegmentBounds ==
    ASSUME NEW p \in Nat
    PROVE  /\ SegmentOf(p) \in Nat
           /\ SegmentOf(p) * SegmentSize <= p /\ p < (SegmentOf(p) + 1) * SegmentSize
  BY SizesAssumption, Z3 DEF SegmentOf

LEMMA Multiples ==
    ASSUME NEW i \in Nat, NEW j \in Nat, i <= j
    PROVE  i * SegmentSize \in Nat /\ i * SegmentSize <= j * SegmentSize
  BY SizesAssumption, Z3

\* Segments are in the order of the log.
LEMMA SegmentOrder ==
    ASSUME NEW p \in Nat, NEW q \in Nat, p <= q
    PROVE  SegmentOf(p) <= SegmentOf(q)
<1>1. /\ SegmentOf(p) \in Nat /\ SegmentOf(p) * SegmentSize <= p
      /\ SegmentOf(q) \in Nat /\ q < (SegmentOf(q) + 1) * SegmentSize
  BY Zenon, SegmentBounds
<1>2. SUFFICES ASSUME SegmentOf(q) < SegmentOf(p) PROVE FALSE
  BY <1>1
<1>3. (SegmentOf(q) + 1) * SegmentSize <= SegmentOf(p) * SegmentSize
  <2>1. SegmentOf(q) + 1 \in Nat /\ SegmentOf(q) + 1 <= SegmentOf(p)
    BY <1>1, <1>2
  <2>2. QED
    BY Zenon, <2>1, <1>1, Multiples
<1>4. (SegmentOf(q) + 1) * SegmentSize \in Nat /\ SegmentOf(p) * SegmentSize \in Nat
  <2>1. SegmentOf(q) + 1 \in Nat /\ SegmentOf(q) + 1 <= SegmentOf(q) + 1 /\ SegmentOf(p) <= SegmentOf(p)
    BY <1>1
  <2>2. QED
    BY Zenon, <2>1, <1>1, Multiples
<1>5. QED
  BY <1>1, <1>3, <1>4

\* A position that a segment begins at or before is in that segment or a later
\* one.
LEMMA SegmentReached ==
    ASSUME NEW p \in Nat, NEW k \in Nat
    PROVE  /\ k <= SegmentOf(p) => k * SegmentSize <= p
           /\ p < (k + 1) * SegmentSize => SegmentOf(p) <= k
<1>1. /\ SegmentOf(p) \in Nat /\ SegmentOf(p) * SegmentSize <= p
  BY Zenon, SegmentBounds
<1>2. ASSUME k <= SegmentOf(p) PROVE k * SegmentSize <= p
  <2>1. k * SegmentSize \in Nat /\ k * SegmentSize <= SegmentOf(p) * SegmentSize
    BY Zenon, <1>1, <1>2, Multiples
  <2>2. SegmentOf(p) * SegmentSize \in Nat
    BY <1>1, Multiples
  <2>3. QED
    BY <2>1, <2>2, <1>1
<1>3. ASSUME p < (k + 1) * SegmentSize, ~ (SegmentOf(p) <= k) PROVE FALSE
  <2>1. k + 1 \in Nat /\ k + 1 <= SegmentOf(p)
    BY <1>1, <1>3
  <2>2. (k + 1) * SegmentSize \in Nat /\ (k + 1) * SegmentSize <= SegmentOf(p) * SegmentSize
    BY Zenon, <1>1, <2>1, Multiples
  <2>3. SegmentOf(p) * SegmentSize \in Nat
    BY <1>1, Multiples
  <2>4. QED
    BY <2>2, <2>3, <1>1, <1>3
<1>4. QED
  BY Zenon, <1>2, <1>3

\* The last unit before a position is in a segment that ends behind it.
LEMMA SegmentEnd ==
    ASSUME NEW p \in Nat \ {0}
    PROVE  p <= (SegmentOf(p - 1) + 1) * SegmentSize
<1>1. p - 1 \in Nat
  OBVIOUS
<1>2. SegmentOf(p - 1) \in Nat /\ p - 1 < (SegmentOf(p - 1) + 1) * SegmentSize
  BY Zenon, <1>1, SegmentBounds
<1> DEFINE k == SegmentOf(p - 1) + 1
<1>3. k \in Nat /\ k <= k
  BY <1>2
<1> HIDE DEF k
<1>4. k * SegmentSize \in Nat
  BY Zenon, <1>3, Multiples
<1>5. p - 1 < k * SegmentSize
  BY Zenon, <1>2 DEF k
<1>6. p <= k * SegmentSize
  BY <1>4, <1>5
<1>7. QED
  BY Zenon, <1>6 DEF k

LEMMA PositionTypes == Positions \subseteq Nat /\ Units \subseteq Positions /\ Units \subseteq Nat
  BY SizesAssumption DEF Positions, Units, First

\* A whole prefix stays one while none of its units changes.
LEMMA TiledSame ==
    ASSUME NEW b, WellFormed(b), NEW c, NEW e \in Positions, Tiled(b, First, e),
           \A p \in Units : p < e => c[p] = b[p]
    PROVE  Tiled(c, First, e)
<1>1. ASSUME NEW p \in Units, First <= p, p < e
      PROVE  c[p] # Zero /\ IntactIn(c, c[p]) /\ First <= c[p].lsn /\ EndOf(c[p]) <= e
  <2>1. c[p] = b[p]
    BY Zenon, <1>1
  <2>2. b[p] # Zero /\ IntactIn(b, b[p]) /\ First <= b[p].lsn /\ EndOf(b[p]) <= e
    BY Zenon, <1>1 DEF Tiled
  <2>3. EndOf(b[p]) \in Nat /\ e \in Nat
    BY Zenon, <2>2, UnitTypes, PositionTypes
  <2>4. \A q \in Span(b[p]) : q \in Units /\ q < e
    <3>1. \A q \in Span(b[p]) : q \in Units /\ q \in Nat /\ q < EndOf(b[p])
      BY Zenon, PositionTypes DEF Span
    <3>2. QED
      BY <3>1, <2>2, <2>3
  <2>5. IntactIn(c, b[p])
    BY Zenon, <2>2, <2>4 DEF IntactIn
  <2>6. QED
    BY Zenon, <2>1, <2>2, <2>5
<1>2. QED
  BY Zenon, <1>1 DEF Tiled

\* The whole prefix up to a record of the log that it holds.
LEMMA TiledPrefix ==
    ASSUME NEW b, WellFormed(b), NEW h \in Positions, Tiled(b, First, h),
           NEW r \in Records, IntactIn(b, r), r.lsn < h
    PROVE  EndOf(r) \in Positions /\ EndOf(r) <= h /\ Tiled(b, First, EndOf(r))
<1>1. r.lsn \in Units /\ b[r.lsn] = r /\ r # Zero /\ First <= r.lsn
  <2>1. r.lsn \in Units /\ r.lsn \in Span(r)
    BY Zenon, RecordTypes
  <2>2. First <= r.lsn
    BY <2>1, SizesAssumption DEF Units, First
  <2>3. QED
    BY Zenon, <2>1, <2>2, ZeroAssumption DEF IntactIn
<1>2. EndOf(r) <= h /\ EndOf(r) \in Positions
  BY Zenon, <1>1, UnitTypes DEF Tiled
<1>3. ASSUME NEW p \in Units, First <= p, p < EndOf(r)
      PROVE  b[p] # Zero /\ IntactIn(b, b[p]) /\ First <= b[p].lsn /\ EndOf(b[p]) <= EndOf(r)
  <2>1. p \in Nat /\ EndOf(r) \in Nat /\ h \in Nat
    BY Zenon, <1>2, PositionTypes
  <2>2. p < h
    BY <2>1, <1>2, <1>3
  <2>3. b[p] # Zero /\ IntactIn(b, b[p]) /\ First <= b[p].lsn
    BY Zenon, <1>3, <2>2 DEF Tiled
  <2>4. b[p].lsn \in Nat /\ b[p].lsn <= p /\ p < EndOf(b[p]) /\ EndOf(b[p]) \in Nat
    BY Zenon, <2>3, UnitTypes
  <2>5. ASSUME ~ (EndOf(b[p]) <= EndOf(r)) PROVE FALSE
    <3> DEFINE q == EndOf(r) - 1
    <3>1. r.lsn \in Nat /\ r.lsn < EndOf(r)
      BY Zenon, RecordTypes
    <3>2. q \in Units /\ r.lsn <= q /\ q < EndOf(r) /\ b[p].lsn <= q /\ q < EndOf(b[p])
      BY <3>1, <2>1, <2>4, <2>5, <1>2, <1>1, <1>3, SizesAssumption DEF Positions, Units, First
    <3> HIDE DEF q
    <3>3. b[p] = r
      BY Zenon, <3>2, <2>3, IntactApart DEF Span
    <3>4. EndOf(r) <= EndOf(r)
      BY <2>1
    <3>5. QED
      BY Zenon, <3>3, <3>4, <2>5
  <2>6. QED
    BY Zenon, <2>3, <2>5
<1>4. QED
  BY Zenon, <1>2, <1>3 DEF Tiled

\* A record of this process that is whole.
LEMMA WrittenIn ==
    ASSUME NEW b, WellFormed(b), NEW p \in Units, b[p] # Zero, IntactIn(b, b[p])
    PROVE  /\ b[p] \in Records /\ b[p].lsn \in Units /\ b[b[p].lsn] = b[p]
           /\ EndOf(b[p]) \in Positions
  BY Zenon, UnitTypes DEF IntactIn

LEMMA MineFacts ==
    ASSUME Types, NEW r \in Mine
    PROVE  /\ r \in Records /\ r.lsn \in Units /\ file[r.lsn] = r /\ r # Zero /\ r.gen = gen
           /\ EndOf(r) \in Positions /\ IntactIn(file, r)
<1>1. PICK p \in Units : file[p] = r /\ r # Zero /\ IntactIn(file, r) /\ r.gen = gen
  BY Zenon DEF Mine, Written
<1>2. QED
  BY Zenon, <1>1, WrittenIn DEF Types

\* The record an append makes.
LEMMA NewRecordFacts ==
    ASSUME Types, NEW size \in Sizes, Fits(size)
    PROVE  /\ NewRecord(size) \in Records /\ NewRecord(size).lsn = clock /\ NewRecord(size).gen = gen
           /\ EndOf(NewRecord(size)) = clock + size /\ clock + size \in Positions
           /\ NewRecord(size) # Zero /\ clock \in Units /\ size \in Nat \ {0}
<1>1. size \in 1..SegmentSize
  BY Zenon, SizesAssumption
<1>2. size \in Nat \ {0} /\ clock \in Units /\ clock + size \in Positions
  BY <1>1, SizesAssumption DEF Types, Fits, Positions, Units, First
<1>3. gen \in 0..MaxCrashes
  BY Zenon DEF Types
<1>4. NewRecord(size) \in Records /\ NewRecord(size).lsn = clock /\ NewRecord(size).gen = gen
      /\ NewRecord(size).size = size
  BY <1>2, <1>3 DEF NewRecord, Records
<1>5. QED
  BY Zenon, <1>2, <1>4, ZeroAssumption DEF EndOf

\* The first n units of a record go to the file, and the segments that are left
\* to the disk.
WriteOf(size, n, seg, f, d) ==
    /\ n \in Nat /\ n <= size
    /\ n > 0 => Fits(size) /\ InSegments /\ SegmentOf(clock + n - 1) <= seg
    /\ seg \in Nat /\ segment <= seg
    /\ f = Put(file, NewRecord(size), n)
    /\ d = Synced(disk, f, segment, seg - 1)

WriteDone(size, n, seg, f, d) ==
    /\ \A p \in Units : f[p] = IF clock <= p /\ p < clock + n THEN NewRecord(size) ELSE file[p]
    /\ \A p \in Units : d[p] = disk[p] \/ d[p] = f[p]
    /\ WellFormed(f) /\ WellFormed(d)
    /\ \A p \in Units : f[p] # Zero => f[p].gen <= gen
    /\ Lags(f, d, seg)

LEMMA Writes ==
    ASSUME Types, Lags(file, disk, segment), NEW size \in Sizes, NEW n, NEW seg, NEW f, NEW d,
           WriteOf(size, n, seg, f, d)
    PROVE  WriteDone(size, n, seg, f, d)
<1> USE DEF WriteOf
<1> DEFINE r == NewRecord(size)
<1>1. clock \in Nat /\ size \in Nat /\ gen \in Nat /\ segment \in Nat
  <2>1. size \in 1..SegmentSize
    BY Zenon, SizesAssumption
  <2>2. clock \in Nat /\ gen \in 0..MaxCrashes /\ segment \in Nat
    BY Zenon, PositionTypes DEF Types
  <2>3. QED
    BY <2>1, <2>2, SizesAssumption
<1>2. n > 0 => r \in Records /\ EndOf(r) = clock + size /\ EndOf(r) \in Positions /\ r # Zero
  BY Zenon, NewRecordFacts
<1>3. r.lsn = clock /\ r.gen = gen /\ r.size = size
  BY DEF NewRecord
<1> HIDE DEF r
<1>4. \A p \in Units : p \in Span(r) /\ p < r.lsn + n <=> clock <= p /\ p < clock + n
  BY <1>1, <1>3 DEF Span, EndOf, Units, First
<1>5. \A p \in Units : f[p] = IF clock <= p /\ p < clock + n THEN r ELSE file[p]
  BY Zenon, <1>4 DEF Put, r
<1>6. f \in [Units -> Records \cup {Zero}]
  <2>1. \A p \in Units : clock <= p /\ p < clock + n => n > 0
    BY <1>1 DEF Units, First
  <2>2. file \in [Units -> Records \cup {Zero}]
    BY Zenon DEF Types, WellFormed
  <2>3. \A p \in Units : f[p] \in Records \cup {Zero}
    BY Zenon, <2>1, <2>2, <1>2, <1>5
  <2>4. f = [p \in Units |-> f[p]]
    BY Zenon DEF Put
  <2>5. QED
    BY Zenon, <2>3, <2>4
<1>7. ASSUME NEW p \in Units, f[p] # Zero
      PROVE  p \in Span(f[p]) /\ EndOf(f[p]) \in Positions /\ f[p].gen <= gen
  <2>1. CASE clock <= p /\ p < clock + n
    <3>1. n > 0
      BY <2>1, <1>1 DEF Units, First
    <3>2. f[p] = r /\ p \in Span(r)
      BY Zenon, <2>1, <1>4, <1>5
    <3>3. gen <= gen
      BY <1>1
    <3>4. QED
      BY Zenon, <3>1, <3>2, <3>3, <1>2, <1>3
  <2>2. CASE ~ (clock <= p /\ p < clock + n)
    <3>1. f[p] = file[p]
      BY Zenon, <2>2, <1>5
    <3>2. QED
      BY Zenon, <3>1, <1>7 DEF Types, WellFormed
  <2>3. QED
    BY Zenon, <2>1, <2>2
<1>8. WellFormed(f)
  BY Zenon, <1>6, <1>7 DEF WellFormed
<1>9. \A p \in Units : d[p] = IF SegmentOf(p) \in segment..(seg - 1) THEN f[p] ELSE disk[p]
  BY Zenon DEF Synced
<1>10. \A p \in Units : d[p] = disk[p] \/ d[p] = f[p]
  BY Zenon, <1>9
<1>11. WellFormed(d)
  <2>1. disk \in [Units -> Records \cup {Zero}]
    BY Zenon DEF Types, WellFormed
  <2>2. d = [p \in Units |-> d[p]]
    BY Zenon DEF Synced
  <2>3. d \in [Units -> Records \cup {Zero}]
    BY Zenon, <2>1, <2>2, <1>6, <1>10
  <2>4. QED
    BY Zenon, <2>3, <1>8, <1>10 DEF WellFormed, Types
<1>12. ASSUME NEW p \in Units
       PROVE  /\ SegmentOf(p) # seg => d[p] = f[p]
              /\ seg < SegmentOf(p) => f[p] = Zero
  <2>1. p \in Nat /\ SegmentOf(p) \in Nat
    BY Zenon, PositionTypes, SegmentBounds
  <2>2. ASSUME clock <= p, p < clock + n PROVE segment <= SegmentOf(p) /\ SegmentOf(p) <= seg
    <3>1. n > 0 /\ p <= clock + n - 1 /\ clock + n - 1 \in Nat
      BY <2>1, <2>2, <1>1
    <3>2. segment <= SegmentOf(clock) /\ SegmentOf(clock) \in Nat /\ SegmentOf(clock + n - 1) \in Nat
      BY Zenon, <3>1, <1>1, SegmentBounds DEF InSegments
    <3>3. SegmentOf(clock) <= SegmentOf(p) /\ SegmentOf(p) <= SegmentOf(clock + n - 1)
      BY Zenon, <2>1, <2>2, <3>1, <1>1, SegmentOrder
    <3>4. SegmentOf(clock + n - 1) <= seg
      BY Zenon, <3>1
    <3>5. QED
      BY <3>2, <3>3, <3>4, <2>1, <1>1
  <2>3. ~ (segment <= SegmentOf(p) /\ SegmentOf(p) <= seg) => f[p] = file[p]
    BY Zenon, <2>2, <1>5
  <2>4. SegmentOf(p) # segment => disk[p] = file[p]
    BY Zenon DEF Lags
  <2>5. segment < SegmentOf(p) => file[p] = Zero
    BY Zenon DEF Lags
  <2>6. \/ SegmentOf(p) \in segment..(seg - 1)
        \/ SegmentOf(p) = seg
        \/ SegmentOf(p) # segment /\ ~ (segment <= SegmentOf(p) /\ SegmentOf(p) <= seg)
    BY <2>1, <1>1
  <2>7. SegmentOf(p) # seg => d[p] = f[p]
    BY Zenon, <2>3, <2>4, <2>6, <1>9
  <2>8. seg < SegmentOf(p) => segment < SegmentOf(p) /\ ~ (SegmentOf(p) <= seg)
    BY <2>1, <1>1
  <2>9. QED
    BY Zenon, <2>3, <2>5, <2>7, <2>8
<1>13. Lags(f, d, seg)
  BY Zenon, <1>12 DEF Lags
<1>14. QED
  BY Zenon, <1>5, <1>7, <1>8, <1>10, <1>11, <1>13 DEF r, WriteDone

\* What lies below the clock is neither overwritten nor taken off the disk, so
\* safe records are kept.
LEMMA PrefixKept ==
    ASSUME Types, SafeKept, NEW f, NEW d,
           \A p \in Units : p < clock => f[p] = file[p],
           \A p \in Units : d[p] = disk[p] \/ d[p] = f[p]
    PROVE  /\ \A m \in Nat : m <= clock /\ AgreeBelow(file, disk, m) => AgreeBelow(f, d, m)
           /\ \A h \in Positions : h <= clock /\ Tiled(file, First, h) => Tiled(f, First, h)
           /\ \A r \in safe : EndOf(r) <= clock /\ Kept(f, d, r)
<1>1. clock \in Nat
  BY Zenon, PositionTypes DEF Types
<1>2. ASSUME NEW m \in Nat, m <= clock
      PROVE  \A p \in Units : p < m => f[p] = file[p]
  <2>1. \A p \in Units : p < m => p < clock
    BY <1>1, <1>2, PositionTypes
  <2>2. QED
    BY Zenon, <2>1
<1>3. \A m \in Nat : m <= clock /\ AgreeBelow(file, disk, m) => AgreeBelow(f, d, m)
  BY Zenon, <1>2 DEF AgreeBelow
<1>4. \A h \in Positions : h <= clock /\ Tiled(file, First, h) => Tiled(f, First, h)
  BY Zenon, <1>2, PositionTypes, TiledSame DEF Types
<1>5. ASSUME NEW r \in safe PROVE EndOf(r) <= clock /\ Kept(f, d, r)
  <2>1. /\ EndOf(r) <= clock /\ r \in Records /\ EndOf(r) \in Positions /\ file[r.lsn] = r
        /\ Tiled(file, First, EndOf(r)) /\ AgreeBelow(file, disk, EndOf(r))
    BY Zenon DEF SafeKept, Kept
  <2>2. r.lsn \in Units /\ r.lsn < EndOf(r) /\ EndOf(r) \in Nat
    BY Zenon, <2>1, RecordTypes
  <2>3. f[r.lsn] = r
    BY Zenon, <2>1, <2>2, <1>2
  <2>4. QED
    BY Zenon, <2>1, <2>2, <2>3, <1>3, <1>4 DEF Kept
<1>6. QED
  BY Zenon, <1>3, <1>4, <1>5

----------------------------------------------------------------------------
(* The steps that neither write nor publish                                *)

WorkerTypes == [pc : {"loop", "wait", "fsync", "finish", "exit"}, lsn : Nat, seg : Nat,
                pending : Nat]

\* The worker keeps what it has captured and starts no fsync.
WorkerKept ==
    /\ worker' \in WorkerTypes
    /\ worker'.lsn = worker.lsn /\ worker'.seg = worker.seg /\ worker'.pending = worker.pending
    /\ Busy' => worker'.pc = worker.pc /\ Busy

LEMMA WorkerMoves ==
    ASSUME Types, NEW s \in {"loop", "wait", "exit"}, worker' = [worker EXCEPT !.pc = s]
    PROVE  WorkerKept
  BY DEF Types, WorkerKept, WorkerTypes, Busy

LEMMA WorkerRests ==
    ASSUME Types, worker' = worker
    PROVE  WorkerKept
  BY Zenon DEF Types, WorkerKept, WorkerTypes, Busy

LEMMA NotifyKeeps ==
    ASSUME Types, NEW cs, NEW n, Notify(cs, n)
    PROVE  WorkerKept
<1>1. worker' = worker \/ worker' = [worker EXCEPT !.pc = "loop"]
  BY Zenon DEF Notify
<1>2. QED
  BY Zenon, <1>1, WorkerMoves, WorkerRests

LEMMA Stays ==
    ASSUME WalInv, UNCHANGED <<clock, segment, synced, pending, bytes, gen, safe>>,
           WorkerKept, failed => failed'
    PROVE  WalInv'
<1>1. /\ clock' = clock /\ segment' = segment /\ synced' = synced /\ pending' = pending
      /\ file' = file /\ disk' = disk /\ gen' = gen /\ safe' = safe
  BY Zenon DEF bytes
<1>2. Mine' = Mine
  BY Zenon, <1>1 DEF Mine, Written
<1>3. Types'
  BY Zenon, <1>1 DEF WalInv, Types, WorkerKept, WorkerTypes
<1>4. Lags(file, disk, segment)' /\ SafeKept'
  BY Zenon, <1>1 DEF WalInv, SafeKept, Lags, Kept, AgreeBelow
<1>5. Whole'
  BY Zenon, <1>1, <1>2 DEF WalInv, Whole
<1>6. Counted'
  <2>1. InSegments' = InSegments
    BY Zenon, <1>1 DEF InSegments
  <2>2. Counted
    BY Zenon DEF WalInv
  <2>3. /\ AgreeBelow(file, disk, synced)'
        /\ pending' > 0 => InSegments' /\ (~ failed' => clock' <= (segment' + 1) * SegmentSize)
        /\ pending' = 0 => Mine' \subseteq safe'
    BY Zenon, <1>1, <1>2, <2>1, <2>2 DEF Counted, AgreeBelow
  <2>4. ASSUME Busy'
        PROVE  /\ worker'.lsn <= clock' /\ worker'.seg <= segment' /\ worker'.pending <= pending'
               /\ InSegments'
               /\ \/ worker'.lsn <= (worker'.seg + 1) * SegmentSize
                  \/ failed' /\ worker'.seg = segment'
               /\ pending' = worker'.pending => \A r \in Mine' : EndOf(r) <= worker'.lsn \/ r \in safe'
    BY Zenon, <1>1, <1>2, <2>1, <2>2, <2>4 DEF Counted, WorkerKept
  <2>5. ASSUME worker'.pc = "finish", worker'.seg = segment'
        PROVE  AgreeBelow(file, disk, worker.lsn)'
    <3>1. Busy'
      BY Zenon, <2>5 DEF Busy
    <3>2. QED
      BY Zenon, <3>1, <1>1, <2>2, <2>5 DEF Counted, WorkerKept, AgreeBelow
  <2>6. QED
    BY Zenon, <2>3, <2>4, <2>5 DEF Counted
<1>7. QED
  BY Zenon, <1>3, <1>4, <1>5, <1>6 DEF WalInv

----------------------------------------------------------------------------
(* The group commit worker                                                 *)

LEMMA CapturesKeeps ==
    ASSUME WalInv, WorkerCaptures
    PROVE  WalInv'
<1>1. /\ clock' = clock /\ segment' = segment /\ synced' = synced /\ pending' = pending
      /\ failed' = failed /\ file' = file /\ disk' = disk /\ gen' = gen /\ safe' = safe
      /\ pending > 0
  BY Zenon DEF WorkerCaptures, state, bytes
<1>2. worker' = [pc |-> "fsync", lsn |-> clock, seg |-> segment, pending |-> pending]
  BY Zenon DEF WorkerCaptures
<1>3. /\ worker'.pc = "fsync" /\ worker'.lsn = clock /\ worker'.seg = segment
      /\ worker'.pending = pending
  BY <1>2
<1>4. Types /\ Whole /\ Counted /\ SafeKept /\ Lags(file, disk, segment)
  BY Zenon DEF WalInv
<1>5. clock \in Nat /\ segment \in Nat /\ pending \in Nat
  BY Zenon, <1>4, PositionTypes DEF Types
<1>6. Mine' = Mine /\ InSegments' = InSegments
  BY Zenon, <1>1 DEF Mine, Written, InSegments
<1>7. worker' \in WorkerTypes
  BY <1>2, <1>5 DEF WorkerTypes
<1>8. Types'
  BY Zenon, <1>1, <1>4, <1>7 DEF Types, WorkerTypes
<1>9. Lags(file, disk, segment)' /\ SafeKept' /\ Whole'
  BY Zenon, <1>1, <1>4, <1>6 DEF SafeKept, Lags, Kept, AgreeBelow, Whole
<1>10. InSegments /\ (failed \/ clock <= (segment + 1) * SegmentSize)
  BY Zenon, <1>1, <1>4 DEF Counted
<1>11. \A r \in Mine : EndOf(r) <= clock
  <2>1. PICK h \in Positions : h <= clock /\ \A r \in Mine : EndOf(r) <= h
    BY Zenon, <1>4 DEF Whole
  <2>2. \A r \in Mine : EndOf(r) \in Nat /\ h \in Nat
    BY Zenon, <1>4, MineFacts, PositionTypes
  <2>3. QED
    BY <2>1, <2>2, <1>5
<1>12. clock <= clock /\ segment <= segment /\ pending <= pending
  BY <1>5
<1>13. Counted'
  <2>1. /\ AgreeBelow(file, disk, synced)'
        /\ pending' > 0 => InSegments' /\ (~ failed' => clock' <= (segment' + 1) * SegmentSize)
        /\ pending' = 0 => Mine' \subseteq safe'
    BY Zenon, <1>1, <1>4, <1>6 DEF Counted, AgreeBelow
  <2>2. /\ worker'.lsn <= clock' /\ worker'.seg <= segment' /\ worker'.pending <= pending'
        /\ InSegments'
        /\ \/ worker'.lsn <= (worker'.seg + 1) * SegmentSize
           \/ failed' /\ worker'.seg = segment'
        /\ pending' = worker'.pending => \A r \in Mine' : EndOf(r) <= worker'.lsn \/ r \in safe'
    BY Zenon, <1>1, <1>3, <1>6, <1>10, <1>11, <1>12
  <2>3. worker'.pc # "finish"
    BY Zenon, <1>3
  <2>4. QED
    BY Zenon, <2>1, <2>2, <2>3 DEF Counted
<1>14. QED
  BY Zenon, <1>8, <1>9, <1>13 DEF WalInv

LEMMA FsyncsKeeps ==
    ASSUME WalInv, WorkerFsyncs
    PROVE  WalInv'
<1>1. /\ clock' = clock /\ segment' = segment /\ synced' = synced /\ pending' = pending
      /\ failed' = failed /\ file' = file /\ gen' = gen /\ safe' = safe /\ worker.pc = "fsync"
      /\ disk' = Synced(disk, file, worker.seg, worker.seg)
      /\ worker' = [worker EXCEPT !.pc = "finish"]
  BY Zenon DEF WorkerFsyncs, state
<1>2. Types /\ Whole /\ Counted /\ SafeKept /\ Lags(file, disk, segment)
  BY Zenon DEF WalInv
<1>3. /\ worker'.lsn = worker.lsn /\ worker'.seg = worker.seg /\ worker'.pending = worker.pending
      /\ worker'.pc = "finish" /\ worker' \in WorkerTypes
  BY <1>1, <1>2 DEF Types, WorkerTypes
<1>4. \A p \in Units : disk'[p] = IF SegmentOf(p) \in worker.seg..worker.seg THEN file[p] ELSE disk[p]
  BY Zenon, <1>1 DEF Synced
<1>5. \A p \in Units : disk'[p] = disk[p] \/ disk'[p] = file[p]
  BY Zenon, <1>4
<1>6. Mine' = Mine /\ InSegments' = InSegments
  BY Zenon, <1>1 DEF Mine, Written, InSegments
<1>7. Types'
  <2>1. disk' = [p \in Units |-> disk'[p]]
    BY Zenon, <1>1 DEF Synced
  <2>2. WellFormed(file) /\ WellFormed(disk)
    BY Zenon, <1>2 DEF Types
  <2>3. \A p \in Units : disk'[p] \in Records \cup {Zero}
    BY Zenon, <1>5, <2>2 DEF WellFormed
  <2>4. disk' \in [Units -> Records \cup {Zero}]
    BY Zenon, <2>1, <2>3
  <2>5. WellFormed(disk)'
    BY Zenon, <2>2, <2>4, <1>5 DEF WellFormed
  <2>6. QED
    BY Zenon, <1>1, <1>2, <1>3, <1>5, <2>5 DEF Types, WorkerTypes
<1>8. Lags(file, disk, segment)'
  BY Zenon, <1>1, <1>2, <1>5 DEF Lags
<1>9. Whole'
  BY Zenon, <1>1, <1>2, <1>6 DEF Whole
<1>10. /\ \A m \in Nat : m <= clock /\ AgreeBelow(file, disk, m) => AgreeBelow(file, disk', m)
       /\ \A r \in safe : EndOf(r) <= clock /\ Kept(file, disk', r)
  BY Zenon, <1>2, <1>5, PrefixKept
<1>11. SafeKept'
  BY Zenon, <1>1, <1>10 DEF SafeKept, Kept, AgreeBelow
<1>12. Counted'
  <2>1. AgreeBelow(file, disk, synced)'
    BY Zenon, <1>1, <1>2, <1>10 DEF Types, Counted, AgreeBelow
  <2>2. /\ pending' > 0 => InSegments' /\ (~ failed' => clock' <= (segment' + 1) * SegmentSize)
        /\ pending' = 0 => Mine' \subseteq safe'
    BY Zenon, <1>1, <1>2, <1>6 DEF Counted
  <2>3. Busy
    BY Zenon, <1>1 DEF Busy
  <2>4. /\ worker'.lsn <= clock' /\ worker'.seg <= segment' /\ worker'.pending <= pending'
        /\ InSegments'
        /\ \/ worker'.lsn <= (worker'.seg + 1) * SegmentSize
           \/ failed' /\ worker'.seg = segment'
        /\ pending' = worker'.pending => \A r \in Mine' : EndOf(r) <= worker'.lsn \/ r \in safe'
    BY Zenon, <1>1, <1>2, <1>3, <1>6, <2>3 DEF Counted
  <2>5. ASSUME worker'.seg = segment' PROVE AgreeBelow(file, disk, worker.lsn)'
    <3>1. worker.seg = segment /\ segment \in segment..segment
      <4>1. segment \in Nat
        BY Zenon, <1>2 DEF Types
      <4>2. segment \in segment..segment
        BY <4>1
      <4>3. QED
        BY Zenon, <4>2, <1>1, <1>3, <2>5
    <3>2. \A p \in Units : disk'[p] = file[p]
      BY Zenon, <3>1, <1>2, <1>4 DEF Lags
    <3>3. QED
      BY Zenon, <3>2, <1>1 DEF AgreeBelow
  <2>6. QED
    BY Zenon, <2>1, <2>2, <2>4, <2>5 DEF Counted
<1>13. QED
  BY Zenon, <1>7, <1>8, <1>9, <1>11, <1>12 DEF WalInv

\* What the worker publishes is in the log, on the disk, and covers what it
\* captured.
LEMMA DurableFacts ==
    ASSUME WalInv, worker.pc = "finish"
    PROVE  /\ Durable \in Nat /\ Durable <= clock /\ worker.lsn <= Durable
           /\ AgreeBelow(file, disk, Durable)
<1>1. Types /\ Counted /\ Lags(file, disk, segment) /\ Busy
  BY Zenon DEF WalInv, Busy
<1>2. /\ clock \in Nat /\ segment \in Nat
      /\ worker.lsn \in Nat /\ worker.seg \in Nat
  <2>1. worker \in WorkerTypes /\ clock \in Nat /\ segment \in Nat
    BY Zenon, <1>1, PositionTypes DEF Types, WorkerTypes
  <2>2. QED
    BY <2>1 DEF WorkerTypes
<1>3. /\ worker.lsn <= clock /\ worker.seg <= segment /\ InSegments
      /\ \/ worker.lsn <= (worker.seg + 1) * SegmentSize
         \/ failed /\ worker.seg = segment
      /\ worker.seg = segment => AgreeBelow(file, disk, worker.lsn)
  BY Zenon, <1>1 DEF Counted
<1>4. CASE segment = worker.seg
  <2>1. Durable = worker.lsn
    BY Zenon, <1>4 DEF Durable
  <2>2. worker.lsn <= worker.lsn
    BY <1>2
  <2>3. QED
    BY Zenon, <2>1, <2>2, <1>2, <1>3, <1>4
<1>5. CASE segment # worker.seg
  <2> DEFINE k == worker.seg + 1
  <2>1. Durable = k * SegmentSize
    BY Zenon, <1>5 DEF Durable
  <2>2. k \in Nat /\ k <= segment
    BY <1>2, <1>3, <1>5
  <2>3. SegmentOf(clock) \in Nat /\ segment <= SegmentOf(clock)
    BY Zenon, <1>2, <1>3, SegmentBounds DEF InSegments
  <2>4. k <= SegmentOf(clock) /\ k <= k
    BY <2>2, <2>3, <1>2
  <2>5. Durable \in Nat /\ Durable <= clock
    BY Zenon, <2>1, <2>2, <2>4, <1>2, SegmentReached, Multiples
  <2>6. worker.lsn <= Durable
    BY Zenon, <2>1, <1>3, <1>5
  <2>7. ASSUME NEW p \in Units, p < Durable PROVE disk[p] = file[p]
    <3>1. p \in Nat /\ SegmentOf(p) \in Nat
      BY Zenon, PositionTypes, SegmentBounds
    <3>2. SegmentOf(p) <= worker.seg
      BY Zenon, <3>1, <2>7, <2>1, <1>2, SegmentReached
    <3>3. SegmentOf(p) # segment
      BY <3>1, <3>2, <2>2, <1>2
    <3>4. QED
      BY Zenon, <3>3, <1>1 DEF Lags
  <2>8. QED
    BY Zenon, <2>5, <2>6, <2>7 DEF AgreeBelow
<1>6. QED
  BY Zenon, <1>4, <1>5

LEMMA FinishesKeeps ==
    ASSUME WalInv, WorkerFinishes
    PROVE  WalInv'
<1>1. /\ clock' = clock /\ segment' = segment
      /\ failed' = failed /\ file' = file /\ disk' = disk /\ gen' = gen
      /\ worker.pc = "finish"
      /\ synced' = LargerOf(synced, Durable)
      /\ pending' = pending - worker.pending
      /\ worker' = [pc |-> "loop", lsn |-> Invalid, seg |-> 0, pending |-> 0]
      /\ safe' = safe \cup {r \in Written : r.gen = gen /\ EndOf(r) <= synced'}
  BY Zenon DEF WorkerFinishes, bytes
<1>2. Types /\ Whole /\ Counted /\ SafeKept /\ Lags(file, disk, segment) /\ Busy
  BY Zenon, <1>1 DEF WalInv, Busy
<1>3. /\ Durable \in Nat /\ Durable <= clock /\ worker.lsn <= Durable
      /\ AgreeBelow(file, disk, Durable)
  BY Zenon, <1>1, DurableFacts
<1>4. /\ synced \in Nat /\ synced <= clock /\ AgreeBelow(file, disk, synced)
      /\ clock \in Nat /\ pending \in Nat /\ worker.pending \in Nat /\ worker.pending <= pending
      /\ worker.lsn \in Nat
  <2>1. worker \in WorkerTypes
    BY Zenon, <1>2 DEF Types, WorkerTypes
  <2>2. worker.pending \in Nat /\ worker.lsn \in Nat
    BY <2>1 DEF WorkerTypes
  <2>3. QED
    BY Zenon, <1>2, <2>2, PositionTypes DEF Types, Counted
<1>5. /\ synced' \in Nat /\ synced' <= clock /\ Durable <= synced'
      /\ AgreeBelow(file, disk, synced')
  <2>1. CASE synced > Durable
    <3>1. synced' = synced
      BY Zenon, <2>1, <1>1 DEF LargerOf
    <3>2. Durable <= synced
      BY <2>1, <1>3, <1>4
    <3>3. QED
      BY Zenon, <3>1, <3>2, <1>4
  <2>2. CASE ~ (synced > Durable)
    <3>1. synced' = Durable
      BY Zenon, <2>2, <1>1 DEF LargerOf
    <3>2. Durable <= Durable
      BY <1>3
    <3>3. QED
      BY Zenon, <3>1, <3>2, <1>3
  <2>3. QED
    BY Zenon, <2>1, <2>2
<1>6. Mine' = Mine /\ InSegments' = InSegments
  BY Zenon, <1>1 DEF Mine, Written, InSegments
<1>7. /\ worker'.pc = "loop" /\ worker' \in WorkerTypes
  BY <1>1 DEF WorkerTypes, Invalid
<1>8. pending' \in Nat
  BY <1>1, <1>4
<1>9. Types'
  BY Zenon, <1>1, <1>2, <1>5, <1>7, <1>8 DEF Types, WorkerTypes
<1>10. Lags(file, disk, segment)' /\ Whole'
  BY Zenon, <1>1, <1>2, <1>6 DEF Lags, Whole
<1>11. SafeKept'
  <2>1. ASSUME NEW r \in safe' PROVE EndOf(r) <= clock /\ Kept(file, disk, r)
    <3>1. CASE r \in safe
      BY Zenon, <3>1, <1>2 DEF SafeKept
    <3>2. CASE r \in Mine /\ EndOf(r) <= synced'
      <4>1. /\ r \in Records /\ r.lsn \in Units /\ file[r.lsn] = r /\ EndOf(r) \in Positions
            /\ IntactIn(file, r)
        BY Zenon, <3>2, <1>2, MineFacts
      <4>2. PICK h \in Positions : h <= clock /\ Tiled(file, First, h) /\ EndOf(r) <= h
        BY Zenon, <3>2, <1>2 DEF Whole
      <4>3. r.lsn \in Nat /\ r.lsn < EndOf(r) /\ EndOf(r) \in Nat /\ h \in Nat
        BY Zenon, <4>1, RecordTypes, PositionTypes
      <4>4. r.lsn < h /\ EndOf(r) <= clock
        BY <4>2, <4>3, <1>4
      <4>5. Tiled(file, First, EndOf(r))
        BY Zenon, <4>1, <4>2, <4>4, <1>2, TiledPrefix DEF Types
      <4>6. \A p \in Units : p < EndOf(r) => p < synced'
        BY <4>3, <3>2, <1>5, PositionTypes
      <4>7. AgreeBelow(file, disk, EndOf(r))
        BY Zenon, <4>6, <1>5 DEF AgreeBelow
      <4>8. QED
        BY Zenon, <4>1, <4>4, <4>5, <4>7 DEF Kept
    <3>3. QED
      BY Zenon, <3>1, <3>2, <1>1 DEF Mine
  <2>2. QED
    BY Zenon, <2>1, <1>1 DEF SafeKept, Kept, AgreeBelow
<1>12. Counted'
  <2>1. AgreeBelow(file, disk, synced)'
    BY Zenon, <1>1, <1>5 DEF AgreeBelow
  <2>2. pending' > 0 => pending > 0
    BY <1>1, <1>4
  <2>3. pending' > 0 => InSegments' /\ (~ failed' => clock' <= (segment' + 1) * SegmentSize)
    BY Zenon, <2>2, <1>1, <1>2, <1>6 DEF Counted
  <2>4. ASSUME pending' = 0, NEW r \in Mine PROVE r \in safe'
    <3>1. pending = worker.pending
      BY <2>4, <1>1, <1>4
    <3>2. EndOf(r) <= worker.lsn \/ r \in safe
      BY Zenon, <3>1, <1>2 DEF Counted
    <3>3. CASE EndOf(r) <= worker.lsn
      <4>1. EndOf(r) \in Nat
        BY Zenon, <1>2, MineFacts, PositionTypes
      <4>2. EndOf(r) <= synced'
        BY <4>1, <3>3, <1>3, <1>4, <1>5
      <4>3. QED
        BY Zenon, <4>2, <1>1 DEF Mine
    <3>4. QED
      BY Zenon, <3>2, <3>3, <1>1
  <2>5. ~ Busy' /\ worker'.pc # "finish"
    BY Zenon, <1>7 DEF Busy
  <2>6. pending' = 0 => Mine' \subseteq safe'
    BY Zenon, <2>4, <1>6
  <2>7. QED
    BY Zenon, <2>1, <2>3, <2>5, <2>6 DEF Counted
<1>13. QED
  BY Zenon, <1>9, <1>10, <1>11, <1>12 DEF WalInv

----------------------------------------------------------------------------
(* Appending                                                               *)

\* Types, once the files are known to be well-formed.
LEMMA TypesMove ==
    ASSUME Types, clock' \in Positions, clock <= clock', segment' \in Nat, synced' = synced,
           pending' \in Nat, gen' = gen, WorkerKept, WellFormed(file'), WellFormed(disk'),
           \A p \in Units : file'[p] # Zero => file'[p].gen <= gen,
           \A p \in Units : disk'[p] = disk[p] \/ disk'[p] = file'[p]
    PROVE  Types'
<1>1. synced \in Nat /\ synced <= clock /\ clock \in Nat /\ clock' \in Nat
  BY Zenon, PositionTypes DEF Types
<1>2. synced <= clock'
  BY <1>1
<1>3. WellFormed(file)' /\ WellFormed(disk)'
  BY Zenon DEF WellFormed
<1>4. QED
  BY Zenon, <1>1, <1>2, <1>3 DEF Types, WorkerKept, WorkerTypes

LEMMA AppendKeeps ==
    ASSUME WalInv, NEW c \in Callers, NEW size \in Sizes, Append(c, size)
    PROVE  WalInv'
<1> DEFINE r == NewRecord(size)
<1>1. Types /\ Whole /\ Counted /\ SafeKept /\ Lags(file, disk, segment)
  BY Zenon DEF WalInv
<1>2. /\ ~ failed /\ Fits(size) /\ InSegments /\ clock' = EndOf(r) /\ file' = Put(file, r, size)
      /\ segment' = SegmentOf(EndOf(r) - 1) /\ disk' = Synced(disk, file', segment, segment' - 1)
      /\ pending' = pending + 1 /\ synced' = synced /\ failed' = failed /\ gen' = gen
      /\ safe' = safe
  BY Zenon DEF Append, Usable
<1>3. WorkerKept
  <2>1. Notify(caller, 1) \/ worker' = worker
    BY Zenon DEF Append, threads
  <2>2. QED
    BY Zenon, <2>1, <1>1, NotifyKeeps, WorkerRests
<1>4. /\ r \in Records /\ r.lsn = clock /\ r.gen = gen /\ r # Zero /\ EndOf(r) = clock + size
      /\ clock + size \in Positions /\ clock \in Units /\ size \in Nat \ {0}
  BY Zenon, <1>1, <1>2, NewRecordFacts
<1>5. /\ clock \in Nat /\ segment \in Nat /\ pending \in Nat /\ size \in Nat /\ size <= size
      /\ clock' = clock + size /\ clock' \in Nat /\ clock < clock' /\ clock <= clock'
      /\ clock' - 1 \in Nat /\ clock <= clock' - 1 /\ clock' - 1 < clock' /\ clock' - 1 <= clock'
      /\ clock' \in Positions /\ size > 0 /\ pending' \in Nat /\ pending' > pending
  <2>1. clock \in Nat /\ segment \in Nat /\ pending \in Nat
    BY Zenon, <1>1, PositionTypes DEF Types
  <2>2. QED
    BY <2>1, <1>2, <1>4
<1>6. /\ segment' \in Nat /\ SegmentOf(clock) \in Nat /\ SegmentOf(clock') \in Nat
      /\ clock' - 1 < (segment' + 1) * SegmentSize /\ segment' <= SegmentOf(clock')
      /\ segment <= SegmentOf(clock) /\ SegmentOf(clock) <= segment'
  BY Zenon, <1>2, <1>5, SegmentBounds, SegmentOrder DEF InSegments
<1>7. segment <= segment' /\ clock' <= (segment' + 1) * SegmentSize
  <2>1. segment <= segment' /\ clock' \in Nat \ {0}
    BY <1>5, <1>6
  <2>2. QED
    BY Zenon, <2>1, <1>2, SegmentEnd
<1>8. /\ \A p \in Units : file'[p] = IF clock <= p /\ p < clock + size THEN r ELSE file[p]
      /\ \A p \in Units : disk'[p] = disk[p] \/ disk'[p] = file'[p]
      /\ WellFormed(file') /\ WellFormed(disk')
      /\ \A p \in Units : file'[p] # Zero => file'[p].gen <= gen
      /\ Lags(file', disk', segment')
  <2>1. clock + size - 1 = clock' - 1 /\ segment' <= segment'
    BY <1>5, <1>6
  <2>2. SegmentOf(clock + size - 1) <= segment'
    BY Zenon, <2>1, <1>2
  <2>3. WriteOf(size, size, segment', file', disk')
    BY Zenon, <2>2, <1>2, <1>5, <1>6, <1>7 DEF WriteOf
  <2>4. WriteDone(size, size, segment', file', disk')
    BY Zenon, <2>3, <1>1, Writes
  <2>5. QED
    BY Zenon, <2>4 DEF WriteDone
<1> HIDE DEF r
<1>9. \A p \in Units : p < clock => file'[p] = file[p]
  <2>1. \A p \in Units : p < clock => ~ (clock <= p)
    BY <1>5, PositionTypes
  <2>2. QED
    BY Zenon, <2>1, <1>8
<1>10. /\ \A m \in Nat : m <= clock /\ AgreeBelow(file, disk, m) => AgreeBelow(file', disk', m)
       /\ \A s \in safe : EndOf(s) <= clock /\ Kept(file', disk', s)
       /\ \A h \in Positions : h <= clock /\ Tiled(file, First, h) => Tiled(file', First, h)
  BY Zenon, <1>1, <1>8, <1>9, PrefixKept
<1>11. Types'
  BY Zenon, <1>1, <1>2, <1>3, <1>5, <1>6, <1>8, TypesMove
<1>12. Lags(file, disk, segment)'
  BY Zenon, <1>8 DEF Lags
<1>13. SafeKept'
  <2>1. \A s \in safe : EndOf(s) <= clock'
    <3>1. \A s \in safe : EndOf(s) \in Nat /\ EndOf(s) <= clock
      BY Zenon, <1>10, PositionTypes DEF Kept
    <3>2. QED
      BY <3>1, <1>5
  <2>2. QED
    BY Zenon, <2>1, <1>2, <1>10 DEF SafeKept, Kept, AgreeBelow
<1>14. Tiled(file', First, clock')
  <2>1. Tiled(file', First, clock)
    BY Zenon, <1>1, <1>2, <1>10 DEF Whole, Types
  <2>2. ASSUME NEW p \in Units, First <= p, p < clock'
        PROVE  /\ file'[p] # Zero /\ IntactIn(file', file'[p])
               /\ First <= file'[p].lsn /\ EndOf(file'[p]) <= clock'
    <3>1. CASE p < clock
      <4>1. /\ file'[p] # Zero /\ IntactIn(file', file'[p])
            /\ First <= file'[p].lsn /\ EndOf(file'[p]) <= clock
        BY Zenon, <2>1, <2>2, <3>1 DEF Tiled
      <4>2. EndOf(file'[p]) \in Nat
        BY Zenon, <4>1, <1>8, UnitTypes
      <4>3. EndOf(file'[p]) <= clock'
        BY <4>1, <4>2, <1>5
      <4>4. QED
        BY Zenon, <4>1, <4>3
    <3>2. CASE ~ (p < clock)
      <4>1. clock <= p /\ p < clock + size /\ First <= clock /\ clock' <= clock'
        BY <3>2, <2>2, <1>4, <1>5, PositionTypes DEF Units, First
      <4>2. file'[p] = r
        BY Zenon, <4>1, <1>8
      <4>3. IntactIn(file', r)
        BY Zenon, <1>4, <1>8 DEF IntactIn, Span
      <4>4. QED
        BY Zenon, <4>1, <4>2, <4>3, <1>2, <1>4
    <3>3. QED
      BY Zenon, <3>1, <3>2
  <2>3. QED
    BY Zenon, <2>2 DEF Tiled
<1>15. ASSUME NEW p \in Units, clock' <= p, file'[p] # Zero PROVE file'[p].gen < gen'
  <2>1. ~ (p < clock + size) /\ clock <= p
    BY <1>15, <1>5, PositionTypes
  <2>2. file'[p] = file[p]
    BY Zenon, <2>1, <1>8
  <2>3. QED
    BY Zenon, <2>1, <2>2, <1>1, <1>2, <1>15 DEF Whole
<1>16. Whole'
  <2>1. ASSUME NEW s \in Mine' PROVE EndOf(s) <= clock'
    <3>1. /\ s \in Records /\ s.lsn \in Units /\ file'[s.lsn] = s /\ s # Zero /\ s.gen = gen'
      <4>1. PICK p \in Units : file'[p] = s /\ s # Zero /\ IntactIn(file', s) /\ s.gen = gen'
        BY Zenon DEF Mine, Written, IntactIn
      <4>2. QED
        BY Zenon, <4>1, <1>8, WrittenIn
    <3>2. s.lsn \in Nat /\ s.gen \in Nat /\ gen' \in Nat
      <4>1. s.lsn \in Nat /\ s.gen \in 0..MaxCrashes
        BY Zenon, <3>1, RecordTypes
      <4>2. s.gen \in Nat
        BY <4>1, SizesAssumption
      <4>3. QED
        BY Zenon, <4>1, <4>2, <3>1
    <3>3. s.lsn < clock'
      <4>1. SUFFICES ASSUME ~ (s.lsn < clock') PROVE FALSE
        BY Zenon
      <4>2. clock' <= s.lsn
        BY <4>1, <3>2, <1>5
      <4>3. s.gen < gen'
        BY Zenon, <4>2, <3>1, <1>15
      <4>4. QED
        BY <4>3, <3>1, <3>2
    <3>4. First <= s.lsn
      BY <3>1, <3>2 DEF Units, First
    <3>5. QED
      BY Zenon, <3>1, <3>3, <3>4, <1>14 DEF Tiled
  <2>2. clock' <= clock'
    BY <1>5
  <2>3. QED
    BY Zenon, <2>1, <2>2, <1>5, <1>14, <1>15 DEF Whole, Tiled, IntactIn
<1>17. Counted'
  <2>1. AgreeBelow(file, disk, synced)'
    BY Zenon, <1>1, <1>2, <1>10 DEF Types, Counted, AgreeBelow
  <2>2. InSegments'
    BY Zenon, <1>6 DEF InSegments
  <2>3. pending' # 0
    BY <1>5
  <2>4. ASSUME Busy'
        PROVE  /\ worker'.lsn <= clock' /\ worker'.seg <= segment' /\ worker'.pending <= pending'
               /\ worker'.lsn <= (worker'.seg + 1) * SegmentSize
               /\ pending' # worker'.pending
               /\ worker.lsn \in Nat /\ worker.lsn <= clock /\ worker.seg \in Nat
               /\ worker.seg <= segment
    <3>1. /\ worker.lsn <= clock /\ worker.seg <= segment /\ worker.pending <= pending
          /\ worker.lsn <= (worker.seg + 1) * SegmentSize
      BY Zenon, <2>4, <1>1, <1>2, <1>3 DEF Counted, WorkerKept
    <3>2. worker.lsn \in Nat /\ worker.seg \in Nat /\ worker.pending \in Nat
      <4>1. worker \in WorkerTypes
        BY Zenon, <1>1 DEF Types, WorkerTypes
      <4>2. QED
        BY <4>1 DEF WorkerTypes
    <3>3. /\ worker.lsn <= clock' /\ worker.seg <= segment' /\ worker.pending <= pending'
          /\ pending' # worker.pending
      BY <3>1, <3>2, <1>5, <1>6, <1>7
    <3>4. QED
      BY Zenon, <3>1, <3>2, <3>3, <1>3 DEF WorkerKept
  <2>5. ASSUME worker'.pc = "finish", worker'.seg = segment'
        PROVE  AgreeBelow(file, disk, worker.lsn)'
    <3>1. Busy' /\ worker.pc = "finish" /\ worker.seg = segment' /\ worker'.lsn = worker.lsn
      BY Zenon, <2>5, <1>3 DEF WorkerKept, Busy
    <3>2. worker.seg = segment
      BY <3>1, <2>4, <1>5, <1>6, <1>7
    <3>3. AgreeBelow(file, disk, worker.lsn)
      BY Zenon, <3>1, <3>2, <1>1 DEF Counted
    <3>4. AgreeBelow(file', disk', worker.lsn)
      BY Zenon, <3>1, <3>3, <2>4, <1>10
    <3>5. QED
      BY Zenon, <3>1, <3>4 DEF AgreeBelow
  <2>6. QED
    BY Zenon, <2>1, <2>2, <2>3, <2>4, <2>5, <1>7 DEF Counted
<1>18. QED
  BY Zenon, <1>11, <1>12, <1>13, <1>16, <1>17 DEF WalInv

\* Where the segment is after n units of a record.
LEMMA SegmentAfterFacts ==
    ASSUME Types, InSegments, NEW n \in Nat, NEW seg \in SegmentAfter(n)
    PROVE  /\ seg \in Nat /\ segment <= seg /\ seg <= SegmentOf(clock + n)
           /\ n > 0 => SegmentOf(clock + n - 1) <= seg
<1>1. clock \in Nat /\ segment \in Nat /\ segment <= SegmentOf(clock)
  BY Zenon, PositionTypes DEF Types, InSegments
<1>2. clock + n \in Nat /\ clock <= clock + n
  BY <1>1
<1>3. /\ SegmentOf(clock) \in Nat /\ SegmentOf(clock + n) \in Nat
      /\ SegmentOf(clock) <= SegmentOf(clock + n)
  BY Zenon, <1>1, <1>2, SegmentBounds, SegmentOrder
<1>4. n > 0 => /\ SegmentOf(clock + n - 1) \in Nat /\ SegmentOf(clock) <= SegmentOf(clock + n - 1)
               /\ SegmentOf(clock + n - 1) <= SegmentOf(clock + n)
  <2>1. n > 0 => clock + n - 1 \in Nat /\ clock <= clock + n - 1 /\ clock + n - 1 <= clock + n
    BY <1>1
  <2>2. QED
    BY Zenon, <2>1, <1>1, <1>2, SegmentBounds, SegmentOrder
<1>5. \/ n = 0 /\ seg = segment
      \/ n # 0 /\ seg = SegmentOf(clock + n - 1)
      \/ seg = SegmentOf(clock + n)
  BY Zenon DEF SegmentAfter
<1>6. QED
  BY <1>1, <1>3, <1>4, <1>5

\* A record that was only begun is not whole: its next unit is older.
LEMMA TornIsNotMine ==
    ASSUME Types, Whole, ~ failed, NEW size \in Sizes, NEW n \in Nat, n < size, Fits(size),
           NEW f, WellFormed(f),
           \A p \in Units : f[p] = IF clock <= p /\ p < clock + n THEN NewRecord(size) ELSE file[p],
           NEW p \in Units, f[p] # Zero, IntactIn(f, f[p]), f[p].gen = gen
    PROVE  f[p] \in Mine
<1> DEFINE r == NewRecord(size)
           s == f[p]
<1>1. /\ r.lsn = clock /\ r.gen = gen /\ r # Zero /\ EndOf(r) = clock + size
      /\ clock + size \in Positions /\ clock \in Units /\ size \in Nat \ {0} /\ r \in Records
  BY Zenon, NewRecordFacts
<1>2. s \in Records /\ s.lsn \in Units /\ f[s.lsn] = s /\ s # Zero
  BY Zenon, WrittenIn
<1>3. clock \in Nat /\ gen \in Nat /\ s.lsn \in Nat
  <2>1. gen \in 0..MaxCrashes
    BY Zenon DEF Types
  <2>2. gen \in Nat
    BY <2>1, SizesAssumption
  <2>3. QED
    BY Zenon, <2>2, <1>1, <1>2, PositionTypes
<1>4. \A q \in Units : clock <= q /\ file[q] # Zero => file[q].gen < gen
  BY Zenon DEF Whole
<1>5. ASSUME NEW q \in Units, clock <= q PROVE file[q] # Zero => file[q].gen # gen
  <2>1. SUFFICES ASSUME file[q] # Zero, file[q].gen = gen PROVE FALSE
    BY Zenon
  <2>2. gen < gen
    BY Zenon, <1>4, <1>5, <2>1
  <2>3. QED
    BY <2>2, <1>3
<1> HIDE DEF r, s
<1>6. \A q \in Units : f[q] = IF clock <= q /\ q < clock + n THEN r ELSE file[q]
  BY Zenon DEF r
<1>7. s # r
  <2>1. SUFFICES ASSUME s = r PROVE FALSE
    BY Zenon
  <2> DEFINE q == clock + n
  <2>2. q \in Units /\ clock <= q /\ q < clock + size /\ ~ (q < clock + n)
    BY <1>1, <1>3, SizesAssumption DEF Positions, Units, First
  <2> HIDE DEF q
  <2>3. f[q] = file[q]
    BY Zenon, <2>2, <1>6
  <2>4. f[q] = r
    BY Zenon, <2>1, <2>2, <1>1 DEF IntactIn, Span, s
  <2>5. QED
    BY Zenon, <2>2, <2>3, <2>4, <1>1, <1>5
<1>8. f[s.lsn] = file[s.lsn]
  BY Zenon, <1>2, <1>6, <1>7
<1>9. s.lsn < clock
  <2>1. SUFFICES ASSUME ~ (s.lsn < clock) PROVE FALSE
    BY Zenon
  <2>2. clock <= s.lsn
    BY <2>1, <1>3
  <2>3. QED
    BY Zenon, <2>2, <1>2, <1>5, <1>8 DEF s
<1>10. Tiled(file, First, clock) /\ First <= s.lsn
  <2>1. First <= s.lsn
    BY <1>2, <1>3 DEF Units, First
  <2>2. QED
    BY Zenon, <2>1 DEF Whole
<1>11. IntactIn(file, s) /\ file[s.lsn] = s
  BY Zenon, <1>2, <1>8, <1>9, <1>10 DEF Tiled
<1>12. QED
  BY Zenon, <1>2, <1>11 DEF Mine, Written, s

LEMMA AppendFailsKeeps ==
    ASSUME WalInv, NEW c \in Callers, NEW size \in Sizes, NEW n \in 0..SegmentSize,
           AppendFails(c, size, n)
    PROVE  WalInv'
<1> DEFINE r == NewRecord(size)
<1>1. Types /\ Whole /\ Counted /\ SafeKept /\ Lags(file, disk, segment)
  BY Zenon DEF WalInv
<1>2. /\ ~ failed /\ Fits(size) /\ n < size /\ (InSegments \/ n = 0)
      /\ clock' = clock + size /\ file' = Put(file, r, n)
      /\ segment' \in (IF InSegments THEN SegmentAfter(n) ELSE {segment})
      /\ disk' = Synced(disk, file', segment, segment' - 1)
      /\ pending' = pending /\ synced' = synced /\ failed' = TRUE /\ gen' = gen /\ safe' = safe
      /\ worker' = [worker EXCEPT !.pc = IF @ = "wait" THEN "loop" ELSE @]
  BY Zenon DEF AppendFails, Usable
<1>3. WorkerKept
  <2>1. worker \in WorkerTypes
    BY Zenon, <1>1 DEF Types, WorkerTypes
  <2>2. worker' = worker \/ worker' = [worker EXCEPT !.pc = "loop"]
    BY <2>1, <1>2 DEF WorkerTypes
  <2>3. QED
    BY Zenon, <2>2, <1>1, WorkerMoves, WorkerRests
<1>4. /\ clock + size \in Positions /\ clock \in Units /\ size \in Nat \ {0}
  BY Zenon, <1>1, <1>2, NewRecordFacts
<1>5. /\ clock \in Nat /\ segment \in Nat /\ pending \in Nat /\ n \in Nat /\ n <= size
      /\ clock' = clock + size /\ clock' \in Nat /\ clock <= clock' /\ clock + n <= clock'
      /\ clock + n \in Nat /\ clock' \in Positions /\ clock \in Positions /\ segment <= segment
  <2>1. clock \in Nat /\ segment \in Nat /\ pending \in Nat /\ clock \in Positions
    BY Zenon, <1>1, PositionTypes DEF Types
  <2>2. n \in Nat
    OBVIOUS
  <2>3. clock' = clock + size /\ n < size
    BY Zenon, <1>2
  <2>4. QED
    BY <2>1, <2>2, <2>3, <1>4
<1>6. /\ segment' \in Nat /\ segment <= segment'
      /\ n > 0 => SegmentOf(clock + n - 1) <= segment'
      /\ InSegments => InSegments'
      /\ ~ InSegments => segment' = segment
  <2>1. CASE ~ InSegments
    <3>1. n = 0 /\ segment' = segment
      BY Zenon, <2>1, <1>2
    <3>2. ~ (n > 0)
      BY <3>1
    <3>3. QED
      BY Zenon, <2>1, <3>1, <3>2, <1>5
  <2>2. CASE InSegments
    <3>1. segment' \in SegmentAfter(n)
      BY Zenon, <2>2, <1>2
    <3>2. /\ segment' \in Nat /\ segment <= segment' /\ segment' <= SegmentOf(clock + n)
          /\ n > 0 => SegmentOf(clock + n - 1) <= segment'
      BY Zenon, <2>2, <3>1, <1>1, <1>5, SegmentAfterFacts
    <3>3. /\ SegmentOf(clock + n) \in Nat /\ SegmentOf(clock') \in Nat
          /\ SegmentOf(clock + n) <= SegmentOf(clock')
      BY Zenon, <1>5, SegmentBounds, SegmentOrder
    <3>4. segment' <= SegmentOf(clock')
      BY <3>2, <3>3
    <3>5. QED
      BY Zenon, <2>2, <3>2, <3>4 DEF InSegments
  <2>3. QED
    BY Zenon, <2>1, <2>2
<1>7. WriteDone(size, n, segment', file', disk')
  <2>1. n > 0 => InSegments
    BY <1>2
  <2>2. WriteOf(size, n, segment', file', disk')
    BY Zenon, <2>1, <1>2, <1>5, <1>6 DEF WriteOf
  <2>3. QED
    BY Zenon, <2>2, <1>1, Writes
<1>8. /\ \A p \in Units : file'[p] = IF clock <= p /\ p < clock + n THEN r ELSE file[p]
      /\ \A p \in Units : disk'[p] = disk[p] \/ disk'[p] = file'[p]
      /\ WellFormed(file') /\ WellFormed(disk')
      /\ \A p \in Units : file'[p] # Zero => file'[p].gen <= gen
      /\ Lags(file', disk', segment')
  BY Zenon, <1>7 DEF WriteDone
<1>9. \A p \in Units : p < clock => file'[p] = file[p]
  <2>1. \A p \in Units : p < clock => ~ (clock <= p)
    BY <1>5, PositionTypes
  <2>2. QED
    BY Zenon, <2>1, <1>8
<1>10. /\ \A m \in Nat : m <= clock /\ AgreeBelow(file, disk, m) => AgreeBelow(file', disk', m)
       /\ \A s \in safe : EndOf(s) <= clock /\ Kept(file', disk', s)
       /\ \A h \in Positions : h <= clock /\ Tiled(file, First, h) => Tiled(file', First, h)
  BY Zenon, <1>1, <1>8, <1>9, PrefixKept
<1>11. Types'
  BY Zenon, <1>1, <1>2, <1>3, <1>5, <1>6, <1>8, TypesMove
<1>12. Lags(file, disk, segment)'
  BY Zenon, <1>8 DEF Lags
<1>13. SafeKept'
  <2>1. \A s \in safe : EndOf(s) <= clock'
    <3>1. \A s \in safe : EndOf(s) \in Nat /\ EndOf(s) <= clock
      BY Zenon, <1>10, PositionTypes DEF Kept
    <3>2. QED
      BY <3>1, <1>5
  <2>2. QED
    BY Zenon, <2>1, <1>2, <1>10 DEF SafeKept, Kept, AgreeBelow
<1>14. Mine' \subseteq Mine
  <2>1. ASSUME NEW s \in Mine' PROVE s \in Mine
    <3>1. PICK p \in Units : file'[p] = s /\ s # Zero /\ IntactIn(file', s) /\ s.gen = gen'
      BY Zenon DEF Mine, Written, IntactIn
    <3>2. QED
      BY Zenon, <3>1, <1>1, <1>2, <1>5, <1>8, TornIsNotMine
  <2>2. QED
    BY Zenon, <2>1
<1>15. Whole'
  <2>1. Tiled(file, First, clock) /\ (\A s \in Mine : EndOf(s) <= clock) /\ clock <= clock
    <3>1. clock <= clock
      BY <1>5
    <3>2. QED
      BY Zenon, <3>1, <1>1, <1>2 DEF Whole
  <2>2. Tiled(file', First, clock) /\ \A s \in Mine' : EndOf(s) <= clock
    BY Zenon, <2>1, <1>5, <1>10, <1>14
  <2>3. QED
    BY Zenon, <2>2, <1>2, <1>5 DEF Whole, Tiled, IntactIn
<1>16. Counted'
  <2>1. AgreeBelow(file, disk, synced)'
    BY Zenon, <1>1, <1>2, <1>10 DEF Types, Counted, AgreeBelow
  <2>2. /\ pending' > 0 => InSegments' /\ failed'
        /\ pending' = 0 => Mine' \subseteq safe'
    BY Zenon, <1>1, <1>2, <1>6, <1>14 DEF Counted
  <2>3. ASSUME Busy'
        PROVE  /\ worker'.lsn <= clock' /\ worker'.seg <= segment' /\ worker'.pending <= pending'
               /\ InSegments' /\ worker'.lsn <= (worker'.seg + 1) * SegmentSize
               /\ pending' = worker'.pending => \A s \in Mine' : EndOf(s) <= worker'.lsn \/ s \in safe'
               /\ worker.lsn \in Nat /\ worker.lsn <= clock /\ worker.seg \in Nat
               /\ worker.seg <= segment
    <3>1. /\ worker.lsn <= clock /\ worker.seg <= segment /\ worker.pending <= pending
          /\ InSegments /\ worker.lsn <= (worker.seg + 1) * SegmentSize
          /\ pending = worker.pending => \A s \in Mine : EndOf(s) <= worker.lsn \/ s \in safe
      BY Zenon, <2>3, <1>1, <1>2, <1>3 DEF Counted, WorkerKept
    <3>2. worker.lsn \in Nat /\ worker.seg \in Nat /\ worker.pending \in Nat
      <4>1. worker \in WorkerTypes
        BY Zenon, <1>1 DEF Types, WorkerTypes
      <4>2. QED
        BY <4>1 DEF WorkerTypes
    <3>3. worker.lsn <= clock' /\ worker.seg <= segment'
      <4>1. worker.lsn <= clock /\ worker.seg <= segment
        BY Zenon, <3>1
      <4>2. QED
        BY <4>1, <3>2, <1>5, <1>6
    <3>4. QED
      BY Zenon, <3>1, <3>2, <3>3, <1>2, <1>3, <1>6, <1>14 DEF WorkerKept
  <2>4. ASSUME worker'.pc = "finish", worker'.seg = segment'
        PROVE  AgreeBelow(file, disk, worker.lsn)'
    <3>1. Busy' /\ worker.pc = "finish" /\ worker.seg = segment' /\ worker'.lsn = worker.lsn
      BY Zenon, <2>4, <1>3 DEF WorkerKept, Busy
    <3>2. worker.seg = segment
      <4>1. worker.seg <= segment /\ segment <= segment' /\ segment \in Nat /\ segment' \in Nat
        BY Zenon, <3>1, <2>3, <1>5, <1>6
      <4>2. QED
        BY <4>1, <3>1
    <3>3. AgreeBelow(file, disk, worker.lsn)
      BY Zenon, <3>1, <3>2, <1>1 DEF Counted
    <3>4. AgreeBelow(file', disk', worker.lsn)
      BY Zenon, <3>1, <3>3, <2>3, <1>10
    <3>5. QED
      BY Zenon, <3>1, <3>4 DEF AgreeBelow
  <2>5. QED
    BY Zenon, <2>1, <2>2, <2>3, <2>4 DEF Counted
<1>17. QED
  BY Zenon, <1>11, <1>12, <1>13, <1>15, <1>16 DEF WalInv

----------------------------------------------------------------------------
(* Crashing and opening                                                    *)

LEMMA CrashKeeps ==
    ASSUME WalInv, NEW size \in Sizes, NEW n \in 0..SegmentSize, Crash(size, n)
    PROVE  WalInv'
<1>1. Types /\ Whole /\ Counted /\ SafeKept /\ Lags(file, disk, segment)
  BY Zenon DEF WalInv
<1>2. PICK seg \in IF n = 0 THEN {segment} ELSE SegmentAfter(n) :
        \E b \in Survivors(Put(file, NewRecord(size), n),
                           Synced(disk, Put(file, NewRecord(size), n), segment, seg - 1)) :
          Open(b, IF b = Put(file, NewRecord(size), n)
                  THEN Synced(disk, Put(file, NewRecord(size), n), segment, seg - 1) ELSE b, seg)
  BY Zenon DEF Crash
<1> DEFINE f == Put(file, NewRecord(size), n)
           d == Synced(disk, f, segment, seg - 1)
<1>3. PICK b \in Survivors(f, d) : Open(b, IF b = f THEN d ELSE b, seg)
  BY Zenon, <1>2
<1>4. /\ n > 0 => Usable /\ InSegments /\ Fits(size) /\ n < size
      /\ gen < MaxCrashes /\ gen' = gen + 1
  BY Zenon DEF Crash
<1>5. n \in Nat /\ size \in Nat /\ n <= size /\ segment \in Nat /\ clock \in Nat /\ gen \in Nat
  <2>1. size \in 1..SegmentSize
    BY Zenon, SizesAssumption
  <2>2. segment \in Nat /\ clock \in Nat /\ gen \in 0..MaxCrashes
    BY Zenon, <1>1, PositionTypes DEF Types
  <2>3. n > 0 => n < size
    BY Zenon, <1>4
  <2>4. QED
    BY <2>1, <2>2, <2>3, SizesAssumption
<1>6. seg \in Nat /\ segment <= seg /\ (n > 0 => SegmentOf(clock + n - 1) <= seg)
  <2>1. CASE n = 0
    <3>1. seg = segment
      BY Zenon, <2>1, <1>2
    <3>2. ~ (n > 0) /\ segment <= segment
      BY <2>1, <1>5
    <3>3. QED
      BY Zenon, <3>1, <3>2, <1>5
  <2>2. CASE n # 0
    <3>1. n > 0
      BY <2>2, <1>5
    <3>2. seg \in SegmentAfter(n) /\ InSegments
      BY Zenon, <3>1, <2>2, <1>2, <1>4
    <3>3. QED
      BY Zenon, <3>2, <1>1, <1>5, SegmentAfterFacts
  <2>3. QED
    BY Zenon, <2>1, <2>2
<1>7. WriteDone(size, n, seg, f, d)
  <2>1. WriteOf(size, n, seg, f, d)
    BY Zenon, <1>4, <1>5, <1>6 DEF WriteOf
  <2>2. QED
    BY Zenon, <2>1, <1>1, Writes
<1>8. b \in {[p \in Units |-> IF p \in L THEN d[p] ELSE f[p]] : L \in
                SUBSET (IF PowerLoss THEN {p \in Units : f[p] # d[p]} ELSE {})}
  BY Zenon, <1>3 DEF Survivors
<1> HIDE DEF f, d
<1>9. /\ \A p \in Units : f[p] = IF clock <= p /\ p < clock + n THEN NewRecord(size) ELSE file[p]
      /\ \A p \in Units : d[p] = disk[p] \/ d[p] = f[p]
      /\ WellFormed(f) /\ WellFormed(d)
      /\ \A p \in Units : f[p] # Zero => f[p].gen <= gen
      /\ Lags(f, d, seg)
  BY Zenon, <1>7 DEF WriteDone
<1>10. /\ b = [p \in Units |-> b[p]]
       /\ \A p \in Units : b[p] = f[p] \/ b[p] = d[p]
  <2>1. PICK L : b = [p \in Units |-> IF p \in L THEN d[p] ELSE f[p]]
    BY Zenon, <1>8
  <2>2. QED
    BY Zenon, <2>1
<1>11. WellFormed(b)
  <2>1. \A p \in Units : b[p] \in Records \cup {Zero}
    BY Zenon, <1>9, <1>10 DEF WellFormed
  <2>2. b \in [Units -> Records \cup {Zero}]
    BY Zenon, <2>1, <1>10
  <2>3. QED
    BY Zenon, <2>2, <1>9, <1>10 DEF WellFormed
<1>12. /\ file' = b /\ disk' = Synced(IF b = f THEN d ELSE b, b, seg, seg) /\ segment' = seg
       /\ clock' = StopAt(b) /\ synced' = (IF clock' > First THEN clock' ELSE Invalid)
       /\ pending' = 0 /\ failed' = FALSE
       /\ worker' = [pc |-> "loop", lsn |-> Invalid, seg |-> 0, pending |-> 0]
       /\ safe' = safe \cup {r \in Records : Readable(b, r.lsn) /\ b[r.lsn] = r /\ EndOf(r) <= clock'}
  BY Zenon, <1>3 DEF Open
<1>13. \A p \in Units : disk'[p] = b[p]
  <2>1. \A p \in Units : disk'[p] = IF SegmentOf(p) \in seg..seg THEN b[p]
                                    ELSE (IF b = f THEN d ELSE b)[p]
    BY Zenon, <1>12 DEF Synced
  <2>2. seg \in seg..seg
    BY <1>6
  <2>3. \A p \in Units : SegmentOf(p) = seg \/ d[p] = f[p]
    BY Zenon, <1>9 DEF Lags
  <2>4. QED
    BY Zenon, <2>1, <2>2, <2>3
<1>14. /\ clock' \in Positions /\ Tiled(b, First, clock') /\ clock' \in Nat
       /\ \A e \in Positions : Tiled(b, First, e) => e <= clock'
  BY Zenon, <1>11, <1>12, StopAtReaches, PositionTypes
<1>15. \A p \in Units : p < clock => f[p] = file[p]
  <2>1. \A p \in Units : p < clock => ~ (clock <= p)
    BY <1>5, PositionTypes
  <2>2. QED
    BY Zenon, <2>1, <1>9
<1>16. \A r \in safe : EndOf(r) <= clock /\ Kept(f, d, r)
  BY Zenon, <1>1, <1>9, <1>15, PrefixKept
<1>17. ASSUME NEW r \in safe PROVE EndOf(r) <= clock' /\ Kept(b, disk', r)
  <2>1. /\ r \in Records /\ EndOf(r) \in Positions /\ f[r.lsn] = r
        /\ Tiled(f, First, EndOf(r)) /\ AgreeBelow(f, d, EndOf(r))
    BY Zenon, <1>16, <1>17 DEF Kept
  <2>2. \A p \in Units : p < EndOf(r) => b[p] = f[p]
    BY Zenon, <2>1, <1>10 DEF AgreeBelow
  <2>3. r.lsn \in Units /\ r.lsn < EndOf(r)
    BY Zenon, <2>1, RecordTypes
  <2>4. Tiled(b, First, EndOf(r))
    BY Zenon, <2>1, <2>2, <1>9, TiledSame
  <2>5. QED
    BY Zenon, <2>1, <2>2, <2>3, <2>4, <1>13, <1>14 DEF Kept, AgreeBelow
<1>18. ASSUME NEW r \in Records, Readable(b, r.lsn), b[r.lsn] = r, EndOf(r) <= clock'
       PROVE  Kept(b, disk', r)
  <2>1. r.lsn \in Nat /\ EndOf(r) \in Nat /\ r.lsn < EndOf(r)
    BY Zenon, RecordTypes
  <2>2. r.lsn < clock'
    BY <2>1, <1>14, <1>18
  <2>3. IntactIn(b, r)
    BY Zenon, <1>18 DEF Readable
  <2>4. EndOf(r) \in Positions /\ Tiled(b, First, EndOf(r))
    BY Zenon, <2>2, <2>3, <1>11, <1>14, TiledPrefix
  <2>5. QED
    BY Zenon, <2>4, <1>13, <1>18 DEF Kept, AgreeBelow
<1>19. SafeKept'
  <2>1. ASSUME NEW r \in safe' PROVE EndOf(r) <= clock' /\ Kept(b, disk', r)
    BY Zenon, <2>1, <1>12, <1>17, <1>18
  <2>2. QED
    BY Zenon, <2>1, <1>12 DEF SafeKept, Kept, AgreeBelow, Tiled, IntactIn
<1>20. \A p \in Units : file'[p] # Zero => file'[p].gen <= gen /\ file'[p].gen \in Nat
  <2>1. \A p \in Units : d[p] # Zero => d[p].gen <= gen
    BY Zenon, <1>9, <1>1 DEF Types
  <2>2. \A p \in Units : b[p] # Zero => b[p].gen \in 0..MaxCrashes
    BY Zenon, <1>11, UnitTypes, RecordTypes
  <2>3. \A p \in Units : b[p] # Zero => b[p].gen \in Nat
    BY <2>2, SizesAssumption
  <2>4. QED
    BY Zenon, <2>1, <2>3, <1>9, <1>10, <1>12
<1>21. gen' \in 0..MaxCrashes /\ gen' \in Nat /\ gen <= gen' /\ ~ (gen' <= gen)
  BY <1>4, <1>5, SizesAssumption
<1>22. \A p \in Units : file'[p] # Zero => file'[p].gen <= gen' /\ file'[p].gen < gen' /\ file'[p].gen # gen'
  BY <1>20, <1>5, <1>21
<1>23. Mine' = {}
  BY Zenon, <1>22 DEF Mine, Written
<1>24. /\ worker'.pc = "loop" /\ worker' \in WorkerTypes
  BY <1>12 DEF WorkerTypes, Invalid
<1>25. Types'
  <2>1. WellFormed(file)'
    BY Zenon, <1>11, <1>12 DEF WellFormed
  <2>2. disk' = [p \in Units |-> disk'[p]]
    BY Zenon, <1>12 DEF Synced
  <2>3. disk' = file'
    BY Zenon, <2>2, <1>10, <1>12, <1>13
  <2>4. WellFormed(disk)'
    BY Zenon, <2>1, <2>3 DEF WellFormed
  <2>5. synced' \in Nat /\ synced' <= clock'
    <3>1. CASE clock' > First
      <4>1. synced' = clock' /\ clock' <= clock'
        BY <3>1, <1>12, <1>14
      <4>2. QED
        BY Zenon, <4>1, <1>14
    <3>2. CASE ~ (clock' > First)
      <4>1. synced' = 0 /\ 0 <= clock'
        BY <3>2, <1>12, <1>14 DEF Invalid
      <4>2. QED
        BY <4>1
    <3>3. QED
      BY Zenon, <3>1, <3>2
  <2>6. pending' \in Nat /\ segment' \in Nat
    BY <1>6, <1>12
  <2>7. QED
    BY Zenon, <2>1, <2>3, <2>4, <2>5, <2>6, <1>14, <1>21, <1>22, <1>24 DEF Types, WorkerTypes
<1>26. Lags(file, disk, segment)'
  <2>1. ASSUME NEW p \in Units, seg < SegmentOf(p) PROVE b[p] = Zero
    <3>1. SegmentOf(p) \in Nat
      BY Zenon, PositionTypes, SegmentBounds
    <3>2. SegmentOf(p) # seg
      BY <3>1, <2>1, <1>6
    <3>3. QED
      BY Zenon, <3>2, <2>1, <1>9, <1>10 DEF Lags
  <2>2. QED
    BY Zenon, <2>1, <1>12, <1>13 DEF Lags
<1>27. Whole'
  <2>1. clock' <= clock'
    BY <1>14
  <2>2. Tiled(file', First, clock')
    BY Zenon, <1>12, <1>14
  <2>3. QED
    BY Zenon, <2>1, <2>2, <1>14, <1>22, <1>23 DEF Whole, Tiled, IntactIn
<1>28. Counted'
  <2>1. AgreeBelow(file, disk, synced)'
    BY Zenon, <1>12, <1>13 DEF AgreeBelow
  <2>2. ~ (pending' > 0) /\ ~ Busy' /\ worker'.pc # "finish"
    BY <1>12, <1>24 DEF Busy
  <2>3. QED
    BY Zenon, <2>1, <2>2, <1>23 DEF Counted
<1>29. QED
  BY Zenon, <1>19, <1>25, <1>26, <1>27, <1>28 DEF WalInv

----------------------------------------------------------------------------
(* The theorems                                                            *)

LEMMA WalInvInit == Init => WalInv
<1> SUFFICES ASSUME Init PROVE WalInv
  OBVIOUS
<1>1. /\ clock = 1 /\ segment = 0 /\ synced = 0 /\ pending = 0 /\ gen = 0 /\ safe = {}
      /\ worker = [pc |-> "loop", lsn |-> 0, seg |-> 0, pending |-> 0]
      /\ file = [p \in Units |-> Zero] /\ disk = file
  BY Zenon DEF Init, First, Invalid
<1>2. \A p \in Units : file[p] = Zero /\ disk[p] = Zero
  BY Zenon, <1>1
<1>3. Mine = {}
  BY Zenon, <1>2 DEF Mine, Written
<1>4. Types
  <2>1. clock \in Positions /\ segment \in Nat /\ synced \in Nat /\ synced <= clock
        /\ pending \in Nat /\ gen \in 0..MaxCrashes /\ worker \in WorkerTypes
    BY <1>1, SizesAssumption DEF Positions, First, WorkerTypes
  <2>2. WellFormed(file) /\ WellFormed(disk)
    BY Zenon, <1>1, <1>2 DEF WellFormed
  <2>3. QED
    BY Zenon, <2>1, <2>2, <1>2 DEF Types, WorkerTypes
<1>5. Lags(file, disk, segment) /\ SafeKept
  BY Zenon, <1>1, <1>2 DEF Lags, SafeKept
<1>6. Whole
  <2>1. clock \in Positions /\ clock <= clock /\ \A p \in Units : ~ (First <= p /\ p < clock)
    BY <1>1, SizesAssumption DEF Positions, Units, First
  <2>2. QED
    BY Zenon, <2>1, <1>2, <1>3 DEF Whole, Tiled
<1>7. Counted
  <2>1. ~ (pending > 0) /\ ~ Busy /\ worker.pc # "finish"
    BY <1>1 DEF Busy
  <2>2. QED
    BY Zenon, <2>1, <1>2, <1>3 DEF Counted, AgreeBelow
<1>8. QED
  BY Zenon, <1>4, <1>5, <1>6, <1>7 DEF WalInv

\* The steps of the threads that wait, wake and leave the files alone.
QuietCaller(c) == (\E t \in Targets : FlushToWaits(c, t)) \/ WakeReturns(c) \/ WakeWaits(c)
Quiet == \/ \E c \in Callers : QuietCaller(c)
         \/ WorkerExits \/ WorkerWaits \/ WorkerTimesOut \/ WorkerFails \/ Close

LEMMA QuietSteps ==
    ASSUME WalInv, Quiet
    PROVE  WalInv'
<1>1. Types
  BY Zenon DEF WalInv
<1>2. ASSUME NEW c \in Callers, NEW t, FlushToWaits(c, t) PROVE WalInv'
  <2>1. UNCHANGED <<clock, segment, synced, pending, bytes, gen, safe>> /\ failed' = failed
    BY Zenon, <1>2 DEF FlushToWaits
  <2>2. WorkerKept
    BY Zenon, <1>1, <1>2, NotifyKeeps DEF FlushToWaits
  <2>3. QED
    BY Zenon, <2>1, <2>2, Stays
<1>3. ASSUME NEW c \in Callers, WakeReturns(c) PROVE WalInv'
  <2>1. UNCHANGED <<clock, segment, synced, pending, bytes, gen, safe>> /\ failed' = failed
    BY Zenon, <1>3 DEF WakeReturns, state
  <2>2. WorkerKept
    BY Zenon, <1>1, <1>3, WorkerRests DEF WakeReturns
  <2>3. QED
    BY Zenon, <2>1, <2>2, Stays
<1>4. ASSUME NEW c \in Callers, WakeWaits(c) PROVE WalInv'
  <2>1. UNCHANGED <<clock, segment, synced, pending, bytes, gen, safe>> /\ failed' = failed
    BY Zenon, <1>4 DEF WakeWaits
  <2>2. WorkerKept
    BY Zenon, <1>1, <1>4, NotifyKeeps DEF WakeWaits
  <2>3. QED
    BY Zenon, <2>1, <2>2, Stays
<1>5. CASE WorkerExits \/ WorkerWaits \/ WorkerTimesOut
  <2>1. UNCHANGED <<clock, segment, synced, pending, bytes, gen, safe>> /\ failed' = failed
    BY Zenon, <1>5 DEF WorkerExits, WorkerWaits, WorkerTimesOut, state
  <2>2. WorkerKept
    BY Zenon, <1>1, <1>5, WorkerMoves DEF WorkerExits, WorkerWaits, WorkerTimesOut
  <2>3. QED
    BY Zenon, <2>1, <2>2, Stays
<1>6. CASE WorkerFails
  <2>1. UNCHANGED <<clock, segment, synced, pending, bytes, gen, safe>> /\ failed'
    BY Zenon, <1>6 DEF WorkerFails
  <2>2. WorkerKept
    BY Zenon, <1>1, <1>6, WorkerMoves DEF WorkerFails
  <2>3. QED
    BY Zenon, <2>1, <2>2, Stays
<1>7. CASE Close
  <2>1. UNCHANGED <<clock, segment, synced, pending, bytes, gen, safe>> /\ failed' = failed
    BY Zenon, <1>7 DEF Close
  <2>2. WorkerKept
    BY Zenon, <1>1, <1>7, NotifyKeeps DEF Close
  <2>3. QED
    BY Zenon, <2>1, <2>2, Stays
<1>8. QED
  BY Zenon, <1>2, <1>3, <1>4, <1>5, <1>6, <1>7 DEF Quiet, QuietCaller

LEMMA WalInvNext == WalInv /\ [Next]_vars => WalInv'
<1> SUFFICES ASSUME WalInv, [Next]_vars PROVE WalInv'
  OBVIOUS
<1>1. ASSUME NEW c \in Callers, Caller(c) PROVE WalInv'
  <2>1. CASE \E size \in Sizes : Append(c, size)
    BY Zenon, <2>1, AppendKeeps
  <2>2. CASE \E size \in Sizes, n \in 0..SegmentSize : AppendFails(c, size, n)
    BY Zenon, <2>2, AppendFailsKeeps
  <2>3. CASE QuietCaller(c)
    BY Zenon, <2>3, QuietSteps DEF Quiet
  <2>4. QED
    BY Zenon, <1>1, <2>1, <2>2, <2>3 DEF Caller, QuietCaller
<1>2. CASE Worker \/ Close
  BY Zenon, <1>2, QuietSteps, CapturesKeeps, FsyncsKeeps, FinishesKeeps DEF Worker, Quiet
<1>3. ASSUME NEW size \in Sizes, NEW n \in 0..SegmentSize, Crash(size, n) PROVE WalInv'
  BY Zenon, <1>3, CrashKeeps
<1>4. CASE UNCHANGED vars
  <2>1. UNCHANGED <<clock, segment, synced, pending, bytes, gen, safe>> /\ failed' = failed
        /\ worker' = worker
    BY Zenon, <1>4 DEF vars, state, threads
  <2>2. QED
    BY Zenon, <2>1, WorkerRests, Stays DEF WalInv
<1>5. QED
  BY Zenon, <1>1, <1>2, <1>3, <1>4 DEF Next

\* The strengthening holds throughout: below the clock the log is whole records,
\* only the current segment may be ahead of the disk, what the worker captured
\* covers what it will subtract from pending, and safe records lie in the part
\* of the file that is on the disk.
THEOREM WalInvariant == Spec => []WalInv
  BY WalInvInit, WalInvNext, PTL DEF Spec

\* Of every log: what flush_to or flush has reported durable, and what open has
\* read, is on the disk and within reach of a scan, through appends, rotations,
\* failed writes, fsyncs without the lock, crashes and power losses (writer.rs).
THEOREM FlushIsDurable == Spec => []FlushedIsDurable
<1>1. WalInv => FlushedIsDurable
  <2> SUFFICES ASSUME WalInv PROVE FlushedIsDurable
    OBVIOUS
  <2>1. Types /\ SafeKept /\ Counted
    BY Zenon DEF WalInv
  <2>2. ASSUME NEW r \in safe PROVE IntactIn(disk, r) /\ EndOf(r) <= StopAt(disk)
    <3>1. /\ r \in Records /\ EndOf(r) \in Positions /\ file[r.lsn] = r
          /\ Tiled(file, First, EndOf(r)) /\ AgreeBelow(file, disk, EndOf(r))
      BY Zenon, <2>1 DEF SafeKept, Kept
    <3>2. WellFormed(file) /\ WellFormed(disk)
      BY Zenon, <2>1 DEF Types
    <3>3. Tiled(disk, First, EndOf(r))
      BY Zenon, <3>1, <3>2, TiledSame DEF AgreeBelow
    <3>4. EndOf(r) <= StopAt(disk)
      BY Zenon, <3>1, <3>2, <3>3, StopAtReaches
    <3>5. r.lsn \in Units /\ r.lsn < EndOf(r) /\ First <= r.lsn
      <4>1. r.lsn \in Units /\ r.lsn < EndOf(r)
        BY Zenon, <3>1, RecordTypes
      <4>2. QED
        BY <4>1, SizesAssumption DEF Units, First
    <3>6. disk[r.lsn] = r
      BY Zenon, <3>1, <3>5 DEF AgreeBelow
    <3>7. IntactIn(disk, r)
      BY Zenon, <3>3, <3>5, <3>6 DEF Tiled
    <3>8. QED
      BY Zenon, <3>4, <3>7
  <2>3. NothingPendingIsDurable
    BY Zenon, <2>1 DEF Counted, Mine, NothingPendingIsDurable
  <2>4. QED
    BY Zenon, <2>2, <2>3 DEF FlushedIsDurable, SyncedIsDurable
<1>2. QED
  BY <1>1, WalInvariant, PTL

\* Of every log: no record whose append succeeded is ever behind a hole, although
\* an append that fails leaves one and moves the clock past it (append).
THEOREM NoHoles == Spec => []NoRecordBehindHole
<1>1. WalInv => NoRecordBehindHole
  <2> SUFFICES ASSUME WalInv, NEW r \in Written, r.gen = gen PROVE EndOf(r) <= StopAt(file)
    BY Zenon DEF NoRecordBehindHole
  <2>1. Types /\ Whole /\ r \in Mine
    BY Zenon DEF WalInv, Mine
  <2>2. PICK h \in Positions : Tiled(file, First, h) /\ EndOf(r) <= h
    BY Zenon, <2>1 DEF Whole
  <2>3. h <= StopAt(file) /\ StopAt(file) \in Positions
    BY Zenon, <2>1, <2>2, StopAtReaches DEF Types
  <2>4. EndOf(r) \in Nat /\ h \in Nat /\ StopAt(file) \in Nat
    BY Zenon, <2>1, <2>3, MineFacts, PositionTypes
  <2>5. QED
    BY <2>2, <2>3, <2>4
<1>2. QED
  BY <1>1, WalInvariant, PTL
=============================================================================
