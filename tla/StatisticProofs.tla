--------------------------- MODULE StatisticProofs ---------------------------
(***************************************************************************)
(* For any set of connections and any sizes, however the counters' atomic  *)
(* operations interleave with the manager's load, publication and reset,   *)
(* the published rates miss exactly what was added between a load and the  *)
(* reset after it, and the totals count every byte once.                   *)
(***************************************************************************)
EXTENDS Statistic, FiniteSetTheorems, TLAPS

\* The initial state satisfies the types and the account.
LEMMA StatInitial == StatInit => StatTypeOK /\ RateAccounting
<1> SUFFICES ASSUME StatInit PROVE StatTypeOK /\ RateAccounting
  OBVIOUS
<1>1. StatTypeOK
  BY DEF StatInit, StatTypeOK, Ways, Up, Down
<1>2. RateAccounting
  BY DEF StatInit, RateAccounting, ToPublish, Ways, Up, Down
<1> QED
  BY <1>1, <1>2

\* A step of a relay's goroutine keeps both.
LEMMA MoverStep ==
  ASSUME StatTypeOK, RateAccounting, NEW m \in Movers, Move(m) \/ Count(m)
  PROVE  StatTypeOK' /\ RateAccounting'
<1>0. m[2] \in Ways /\ size[m] \in Nat
  BY DEF Movers, StatTypeOK
<1>1. CASE Move(m)
  <2>1. StatTypeOK'
    BY <1>1, StatisticAssumption DEF Move, StatTypeOK
  <2>2. RateAccounting'
    BY <1>1 DEF Move, RateAccounting, ToPublish
  <2> QED
    BY <2>1, <2>2
<1>2. CASE AddTemp(m)
  <2>1. StatTypeOK'
    BY <1>0, <1>2 DEF AddTemp, StatTypeOK
  <2>2. SUFFICES ASSUME NEW w \in Ways
                 PROVE  added'[w] = shown'[w] + missed'[w] + ToPublish(w)'
    BY <2>1 DEF RateAccounting
  <2>3. CASE w # m[2]
    BY <1>0, <1>2, <2>3 DEF AddTemp, StatTypeOK, RateAccounting, ToPublish
  <2>4. CASE w = m[2] /\ InWindow(w)
    BY <1>0, <1>2, <2>4 DEF AddTemp, InWindow, StatTypeOK, RateAccounting, ToPublish
  <2>5. CASE w = m[2] /\ ~InWindow(w)
    BY <1>0, <1>2, <2>5 DEF AddTemp, InWindow, StatTypeOK, RateAccounting, ToPublish
  <2> QED
    BY <2>3, <2>4, <2>5
<1>3. CASE AddTotal(m)
  <2>1. StatTypeOK'
    BY <1>0, <1>3 DEF AddTotal, StatTypeOK
  <2>2. RateAccounting'
    BY <1>3 DEF AddTotal, RateAccounting, ToPublish
  <2> QED
    BY <2>1, <2>2
<1>4. CASE AddOwn(m)
  <2>1. StatTypeOK'
    BY <1>0, <1>4 DEF AddOwn, StatTypeOK
  <2>2. RateAccounting'
    BY <1>4 DEF AddOwn, RateAccounting, ToPublish
  <2> QED
    BY <2>1, <2>2
<1> QED
  BY <1>1, <1>2, <1>3, <1>4 DEF Count

\* A step of Manager.handle keeps both.
LEMMA TickStep ==
  ASSUME StatTypeOK, RateAccounting, NEW w \in Ways, Tick(w)
  PROVE  StatTypeOK' /\ RateAccounting'
<1>1. CASE Load(w)
  <2>1. StatTypeOK'
    BY <1>1 DEF Load, counters, StatTypeOK
  <2>2. RateAccounting'
    BY <1>1 DEF Load, counters, StatTypeOK, RateAccounting, ToPublish
  <2> QED
    BY <2>1, <2>2
<1>2. CASE Publish(w)
  <2>1. StatTypeOK'
    BY <1>2 DEF Publish, counters, StatTypeOK
  <2>2. RateAccounting'
    BY <1>2 DEF Publish, counters, StatTypeOK, RateAccounting, ToPublish
  <2> QED
    BY <2>1, <2>2
<1>3. CASE Reset(w)
  <2>1. StatTypeOK'
    BY <1>3 DEF Reset, StatTypeOK, Ways
  <2>2. RateAccounting'
    BY <1>3 DEF Reset, StatTypeOK, RateAccounting, ToPublish, Ways, Up, Down
  <2> QED
    BY <2>1, <2>2
<1> QED
  BY <1>1, <1>2, <1>3 DEF Tick

\* What was added to a counter of the second (tracker.go 34-48, manager.go 43-51) is what
\* handle has published, what waits for its next tick, and what was added between its
\* Load and its Store of 0 (manager.go 83-86): nothing else is left out, nothing is
\* published twice, for any number of connections.
THEOREM RatesAccounted == StatSpec => [](StatTypeOK /\ RateAccounting)
<1>1. StatTypeOK /\ RateAccounting /\ [StatNext]_svars => (StatTypeOK /\ RateAccounting)'
  <2> SUFFICES ASSUME StatTypeOK, RateAccounting, [StatNext]_svars
               PROVE  StatTypeOK' /\ RateAccounting'
    OBVIOUS
  <2>1. CASE UNCHANGED svars
    BY <2>1 DEF svars, counters, StatTypeOK, RateAccounting, ToPublish
  <2>2. CASE \E m \in Movers : Move(m) \/ Count(m)
    BY <2>2, MoverStep
  <2>3. CASE \E w \in Ways : Tick(w)
    BY <2>3, TickStep
  <2> QED
    BY <2>1, <2>2, <2>3 DEF StatNext
<1> QED
  BY <1>1, StatInitial, PTL DEF StatSpec

-----------------------------------------------------------------------------
(* The totals *)

\* With the types, and the finiteness that its cardinalities need, TotalsAgree is inductive.
TotalsInv == StatTypeOK /\ TotalsAgree /\ \A w \in Ways : IsFiniteSet(CountedBytes(w))

\* At the start nothing is counted.
LEMMA TotalsInitial == StatInit => TotalsInv
<1> SUFFICES ASSUME StatInit PROVE TotalsInv
  OBVIOUS
<1>1. \A m \in Movers : Counted(m) = 0 /\ moved[m] = own[m] + Pending(m, {"temp", "total", "own"})
  BY DEF StatInit, Counted, Pending
<1>2. \A w \in Ways : CountedBytes(w) = {}
  BY <1>1 DEF CountedBytes, Movers
<1>3. \A w \in Ways : total[w] = 0
  BY DEF StatInit
<1> QED
  BY <1>1, <1>2, <1>3, StatInitial, FS_EmptySet DEF TotalsInv, TotalsAgree

\* The bytes i to j of one mover are j - i + 1 bytes.
LEMMA BytesOfOne ==
  ASSUME NEW m, NEW i \in Int, NEW j \in Int, i <= j + 1
  PROVE  IsFiniteSet({m} \X (i .. j)) /\ Cardinality({m} \X (i .. j)) = j - i + 1
<1>1. IsFiniteSet({m}) /\ Cardinality({m}) = 1
  BY FS_Singleton
<1>2. IsFiniteSet(i .. j) /\ Cardinality(i .. j) = j - i + 1
  BY FS_Interval
<1>3. /\ IsFiniteSet({m} \X (i .. j))
      /\ Cardinality({m} \X (i .. j)) = Cardinality({m}) * Cardinality(i .. j)
  BY ONLY <1>1, <1>2, FS_Product
<1> QED
  BY ONLY i \in Int, j \in Int, <1>1, <1>2, <1>3

\* What is counted is a number.
LEMMA CountedType ==
  ASSUME StatTypeOK, NEW m \in Movers
  PROVE  Counted(m) \in Nat
BY DEF StatTypeOK, Counted, Pending

\* A mover that counts s bytes more adds s bytes to those of its direction ...
LEMMA BytesAdded ==
  ASSUME TotalsInv, StatTypeOK', NEW m \in Movers, NEW s \in Nat,
         Counted(m)' = Counted(m) + s,
         \A o \in Movers : o # m => Counted(o)' = Counted(o)
  PROVE  /\ IsFiniteSet(CountedBytes(m[2])')
         /\ Cardinality(CountedBytes(m[2])') = Cardinality(CountedBytes(m[2])) + s
<1> DEFINE w    == m[2]
           more == {m} \X (Counted(m) + 1 .. Counted(m) + s)
<1>1. m = <<m[1], w>> /\ m \in Trackers \X {w} /\ w \in Ways /\ Trackers \X {w} \subseteq Movers
  BY DEF Movers
<1>2. Counted(m) \in Nat /\ \A o \in Movers : Counted(o) \in Nat
  BY CountedType DEF TotalsInv
<1>3. CountedBytes(w)' = CountedBytes(w) \cup more
  <2>1. ASSUME NEW b PROVE b \in CountedBytes(w)' => b \in CountedBytes(w) \cup more
    BY <1>1, <1>2 DEF CountedBytes
  <2>2. ASSUME NEW b PROVE b \in CountedBytes(w) \cup more => b \in CountedBytes(w)'
    BY <1>1, <1>2 DEF CountedBytes
  <2> QED
    BY <2>1, <2>2
<1>4. CountedBytes(w) \cap more = {}
  BY <1>1, <1>2 DEF CountedBytes
<1>5. IsFiniteSet(more) /\ Cardinality(more) = s
  <2> DEFINE i == Counted(m) + 1
             j == Counted(m) + s
  <2>1. i \in Int /\ j \in Int /\ i <= j + 1 /\ j - i + 1 = s
    BY <1>2
  <2> HIDE DEF i, j
  <2>2. IsFiniteSet({m} \X (i .. j)) /\ Cardinality({m} \X (i .. j)) = j - i + 1
    BY ONLY <2>1, BytesOfOne
  <2> QED
    BY <2>1, <2>2 DEF i, j
<1>6. IsFiniteSet(CountedBytes(w))
  BY <1>1 DEF TotalsInv
<1>7. /\ IsFiniteSet(CountedBytes(w) \cup more)
      /\ Cardinality(CountedBytes(w) \cup more) =
           Cardinality(CountedBytes(w)) + s - Cardinality(CountedBytes(w) \cap more)
  BY ONLY <1>5, <1>6, FS_Union
<1>8. Cardinality(CountedBytes(w)) \in Nat /\ Cardinality(CountedBytes(w) \cap more) = 0
  BY <1>4, <1>6, FS_CardinalityType, FS_EmptySet
<1> HIDE DEF w, more
<1>9. /\ IsFiniteSet(CountedBytes(w)')
      /\ Cardinality(CountedBytes(w)') = Cardinality(CountedBytes(w)) + s
  BY <1>3, <1>7, <1>8
<1> QED
  BY <1>9 DEF w

\* ... and a step that counts nothing for a direction leaves its bytes as they are.
LEMMA BytesSame ==
  ASSUME NEW w \in Ways, \A o \in Movers : o[2] = w => Counted(o)' = Counted(o)
  PROVE  CountedBytes(w)' = CountedBytes(w)
<1>1. \A o \in Trackers \X {w} : o \in Movers /\ o[2] = w
  BY DEF Movers
<1> QED
  BY <1>1 DEF CountedBytes

\* Every step of a mover keeps the totals.
LEMMA MoverTotals ==
  ASSUME TotalsInv, StatTypeOK', NEW m \in Movers, Move(m) \/ Count(m)
  PROVE  TotalsInv'
<1> DEFINE Moved(o) == moved[o] = own[o] + Pending(o, {"temp", "total", "own"})
<1>0. /\ m[2] \in Ways /\ size[m] \in Nat /\ own[m] \in Nat
      /\ \A o \in Movers : o[2] \in Ways /\ Moved(o)
  BY DEF Movers, TotalsInv, StatTypeOK, TotalsAgree
<1>1. CASE Move(m) \/ AddTemp(m) \/ AddOwn(m)
  <2>1. ASSUME NEW o \in Movers PROVE Counted(o)' = Counted(o)
    <3>1. CASE o # m
      BY <1>1, <3>1 DEF Move, AddTemp, AddOwn, Counted, Pending, TotalsInv, StatTypeOK
    <3>2. CASE o = m
      BY <1>0, <1>1, <3>2 DEF Move, AddTemp, AddOwn, Counted, Pending, TotalsInv, StatTypeOK
    <3> QED
      BY <3>1, <3>2
  <2>2. \A w \in Ways : CountedBytes(w)' = CountedBytes(w)
    BY <2>1, BytesSame
  <2>3. ASSUME NEW o \in Movers PROVE Moved(o)'
    <3>1. CASE o # m
      BY <1>0, <1>1, <3>1 DEF Move, AddTemp, AddOwn, Pending, TotalsInv, StatTypeOK
    <3>2. CASE o = m /\ Move(m)
      <4>1. PICK k \in Sizes : /\ size' = [size EXCEPT ![m] = k]
                               /\ moved' = [moved EXCEPT ![m] = @ + k]
        BY <3>2 DEF Move
      <4>2. k \in Nat
        BY <4>1, StatisticAssumption
      <4> QED
        BY <1>0, <3>2, <4>1, <4>2 DEF Move, Pending, TotalsInv, StatTypeOK
    <3>3. CASE o = m /\ (AddTemp(m) \/ AddOwn(m))
      BY <1>0, <3>3 DEF AddTemp, AddOwn, Pending, TotalsInv, StatTypeOK
    <3> QED
      BY <1>1, <3>1, <3>2, <3>3
  <2>4. UNCHANGED total
    BY <1>1 DEF Move, AddTemp, AddOwn
  <2> QED
    BY <2>2, <2>3, <2>4 DEF TotalsInv, TotalsAgree
<1>2. CASE AddTotal(m)
  <2>1. Counted(m)' = Counted(m) + size[m]
    BY <1>0, <1>2 DEF AddTotal, Counted, Pending, TotalsInv, StatTypeOK
  <2>2. \A o \in Movers : o # m => Counted(o)' = Counted(o)
    BY <1>2 DEF AddTotal, Counted, Pending, TotalsInv, StatTypeOK
  <2>3. /\ IsFiniteSet(CountedBytes(m[2])')
        /\ Cardinality(CountedBytes(m[2])') = Cardinality(CountedBytes(m[2])) + size[m]
    BY <1>0, <2>1, <2>2, BytesAdded
  <2>4. ASSUME NEW w \in Ways, w # m[2] PROVE CountedBytes(w)' = CountedBytes(w)
    BY <2>2, <2>4, BytesSame
  <2>5. \A w \in Ways : total[w]' = IF w = m[2] THEN total[w] + size[m] ELSE total[w]
    BY <1>0, <1>2 DEF AddTotal, TotalsInv, StatTypeOK
  <2>6. \A w \in Ways : total[w]' = Cardinality(CountedBytes(w)') /\ IsFiniteSet(CountedBytes(w)')
    BY <2>3, <2>4, <2>5 DEF TotalsInv, TotalsAgree
  <2>7. ASSUME NEW o \in Movers PROVE Moved(o)'
    BY <1>0, <1>2 DEF AddTotal, Pending, TotalsInv, StatTypeOK
  <2> QED
    BY <2>6, <2>7 DEF TotalsInv, TotalsAgree
<1> QED
  BY <1>1, <1>2 DEF Count

\* However the additions of any number of connections interleave, the totals of the process
\* are the bytes that its trackers have counted or are about to, each byte once, and no
\* tracker loses or repeats one (tracker.go 34-48, manager.go 43-51).
THEOREM TotalsCounted == StatSpec => []TotalsAgree
<1>1. StatTypeOK' /\ TotalsInv /\ [StatNext]_svars => TotalsInv'
  <2> SUFFICES ASSUME StatTypeOK', TotalsInv, [StatNext]_svars PROVE TotalsInv'
    OBVIOUS
  <2>1. CASE UNCHANGED svars \/ \E w \in Ways : Tick(w)
    <3>1. UNCHANGED <<at, size, own, total, moved>>
      BY <2>1 DEF svars, counters, Tick, Load, Publish, Reset
    <3> QED
      BY <3>1 DEF TotalsInv, TotalsAgree, CountedBytes, Counted, Pending
  <2>2. CASE \E m \in Movers : Move(m) \/ Count(m)
    BY <2>2, MoverTotals
  <2> QED
    BY <2>1, <2>2 DEF StatNext
<1>2. TotalsInv => TotalsAgree
  BY DEF TotalsInv
<1> QED
  BY <1>1, <1>2, TotalsInitial, RatesAccounted, PTL DEF StatSpec
=============================================================================
