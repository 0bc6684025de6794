------------------------- MODULE DeviceStackProofs -------------------------
(***************************************************************************)
(* Proofs about the device stack, for every capacity and every number of   *)
(* allocations: the numberings of a qubit stay in step (NumberingsAgree),  *)
(* no lookup inside the simulator fails, and it refuses a qubit only when  *)
(* it is full (PanicsHaveCause).                                           *)
(*                                                                         *)
(* The simulator moves a qubit to the most significant bit before it       *)
(* measures, resets or frees it, so the invariant is first shown of a      *)
(* device alone (Numbered), operator by operator, and then of the names    *)
(* the wrapper keeps for its qubits.                                       *)
(***************************************************************************)
EXTENDS DeviceStack, FiniteSetTheorems, FunctionTheorems, SequenceTheorems, TLAPS

\* A device in step with itself: the vector has one bit for each position, and
\* the two maps are inverse to each other.
Numbered(d) ==
  /\ d = [state |-> d.state, unit |-> d.unit, map |-> d.map, inv |-> d.inv, counter |-> d.counter]
  /\ d.counter \in Nat
  /\ d.inv \in Seq(Nat)
  /\ Allocated(d) \subseteq Nat
  /\ d.map = [q \in Allocated(d) |-> d.map[q]]
  /\ DOMAIN d.state = 0 .. 2^Len(d.inv) - 1
  /\ \A q \in Allocated(d) :
       d.map[q] \in 0 .. Len(d.inv) - 1 /\ d.inv[d.map[q] + 1] = q
  /\ \A i \in DOMAIN d.inv :
       d.inv[i] \in Allocated(d) /\ d.map[d.inv[i]] = i - 1
  /\ \A q \in Allocated(d) : q < d.counter

\* Each name in use stands for an allocated qubit, and each of these for one name.
Named ==
  /\ qubit_counter \in Nat
  /\ InUse \subseteq Nat
  /\ qubit_mapping = [q \in InUse |-> qubit_mapping[q]]
  /\ {qubit_mapping[q] : q \in InUse} = Allocated(dev)
  /\ \A q, p \in InUse : qubit_mapping[q] = qubit_mapping[p] => q = p
  /\ \A q \in InUse : q < qubit_counter

DInv == Numbered(dev) /\ Named

LEMMA DInvImpliesNumberingsAgree == DInv => NumberingsAgree
  BY DEF DInv, Numbered, Named, NumberingsAgree

----------------------------------------------------------------------------
\* A device that differs in its vector alone, over the same indices, is as
\* numbered as before: gates, the two halves of a measurement, EPR.
SameNumbers(d, e) ==
  /\ e = [state |-> e.state, unit |-> e.unit, map |-> d.map, inv |-> d.inv, counter |-> d.counter]
  /\ DOMAIN e.state = DOMAIN d.state

LEMMA SameNumbersNumbered ==
  ASSUME NEW d, NEW e, Numbered(d), SameNumbers(d, e)
  PROVE  Numbered(e) /\ Allocated(e) = Allocated(d) /\ e.counter = d.counter /\ e.inv = d.inv
<1>1. e.map = d.map /\ e.inv = d.inv /\ e.counter = d.counter
  BY DEF SameNumbers
<1>2. e = [state |-> e.state, unit |-> e.unit, map |-> e.map, inv |-> e.inv, counter |-> e.counter]
  BY <1>1 DEF SameNumbers
<1>3. DOMAIN e.state = DOMAIN d.state
  BY DEF SameNumbers
<1>4. Allocated(e) = Allocated(d)
  BY <1>1 DEF Allocated
<1>5. QED
  BY <1>1, <1>2, <1>3, <1>4 DEF Numbered

LEMMA NewNumbered == Numbered(New) /\ Allocated(New) = {}
<1>1. Allocated(New) = {}
  BY DEF Allocated, New
<1>2. New.inv = <<>> /\ New.counter = 0 /\ New.map = [q \in {} |-> 0]
  BY DEF New
<1>3. DOMAIN New.state = 0 .. 2^0 - 1
  <2>1. 2^0 = 1
    BY SMT
  <2>2. DOMAIN New.state = {0}
    BY DEF New
  <2>3. QED
    BY <2>1, <2>2
<1>4. New.inv \in Seq(Nat) /\ Len(New.inv) = 0 /\ DOMAIN New.inv = {}
  BY <1>2
<1>5. New = [state |-> New.state, unit |-> New.unit, map |-> New.map, inv |-> New.inv,
             counter |-> New.counter]
  BY DEF New
<1>6. New.map = [q \in Allocated(New) |-> New.map[q]]
  BY <1>1, <1>2
<1>7. QED
  BY <1>1, <1>2, <1>3, <1>4, <1>5, <1>6 DEF Numbered

\* The last qubit of a device that has one.
LEMMA LastQubit ==
  ASSUME NEW d, Numbered(d), NEW q \in Allocated(d)
  PROVE  /\ Len(d.inv) \in Nat \ {0}
         /\ Last(d.inv) \in Allocated(d)
         /\ d.map[Last(d.inv)] = Len(d.inv) - 1
<1>1. Len(d.inv) \in Nat /\ DOMAIN d.inv = 1 .. Len(d.inv)
  BY LenProperties DEF Numbered
<1>2. d.map[q] \in 0 .. Len(d.inv) - 1
  BY DEF Numbered
<1>3. Len(d.inv) \in DOMAIN d.inv
  BY <1>1, <1>2
<1>4. Len(d.inv) \in Nat \ {0}
  BY <1>1, <1>2
<1>5. d.inv[Len(d.inv)] \in Allocated(d) /\ d.map[d.inv[Len(d.inv)]] = Len(d.inv) - 1
  BY <1>3 DEF Numbered
<1>6. QED
  BY <1>4, <1>5 DEF Last

LEMMA SwapBitsNumbered ==
  ASSUME NEW d, Numbered(d), NEW q1 \in Allocated(d), NEW q2 \in Allocated(d)
  PROVE  LET e == SwapBits(d, q1, q2)
         IN  /\ Numbered(e)
             /\ Allocated(e) = Allocated(d)
             /\ e.counter = d.counter
             /\ Len(e.inv) = Len(d.inv)
             /\ e.inv[d.map[q2] + 1] = q1
<1> DEFINE e == SwapBits(d, q1, q2)
           i1 == d.map[q1]
           i2 == d.map[q2]
           n == Len(d.inv)
           mid == [d.inv EXCEPT ![i1 + 1] = q2]
           inv == [mid EXCEPT ![i2 + 1] = q1]
           map == [[d.map EXCEPT ![q1] = i2] EXCEPT ![q2] = i1]
<1>1. n \in Nat /\ DOMAIN d.inv = 1 .. n /\ q1 \in Nat /\ q2 \in Nat
  BY LenProperties DEF Numbered
<1>2. i1 \in 0 .. n - 1 /\ i2 \in 0 .. n - 1
  BY DEF Numbered
<1>3. /\ e = [state |-> e.state, unit |-> e.unit, map |-> e.map, inv |-> e.inv, counter |-> e.counter]
      /\ DOMAIN e.state = DOMAIN d.state
      /\ e.inv = inv /\ e.map = map /\ e.counter = d.counter
  <2>1. d = [state |-> d.state, unit |-> d.unit, map |-> d.map, inv |-> d.inv, counter |-> d.counter]
    BY DEF Numbered
  <2> DEFINE state == [i \in DOMAIN d.state |-> d.state[ExchangeBits(i, i1, i2)]]
           inv2 == [d.inv EXCEPT ![i1 + 1] = q2, ![i2 + 1] = q1]
           map2 == [d.map EXCEPT ![q1] = i2, ![q2] = i1]
  <2>2. e = [d EXCEPT !.state = state, !.inv = inv2, !.map = map2]
    BY DEF SwapBits
  <2>3. inv2 = inv
    OBVIOUS
  <2>4. map2 = map
    OBVIOUS
  <2>5. e = [state |-> state, unit |-> d.unit, map |-> map, inv |-> inv, counter |-> d.counter]
    <3> HIDE DEF e, state, map, inv, inv2, map2
    <3>1. e = [d EXCEPT !.state = state, !.inv = inv, !.map = map]
      BY <2>2, <2>3, <2>4
    <3>2. QED
      BY <3>1, <2>1
  <2>6. DOMAIN state = DOMAIN d.state
    OBVIOUS
  <2> HIDE DEF e, state, map, inv
  <2>7. QED
    BY <2>5, <2>6
<1>4. /\ mid \in Seq(Nat) /\ Len(mid) = n
      /\ \A j \in 1 .. n : mid[j] = IF j = i1 + 1 THEN q2 ELSE d.inv[j]
  <2>1. i1 + 1 \in 1 .. Len(d.inv) /\ d.inv \in Seq(Nat)
    BY <1>1, <1>2, SMTT(40) DEF Numbered
  <2> HIDE DEF i1
  <2>2. QED
    BY <1>1, <2>1, ExceptSeq
<1>5. /\ inv \in Seq(Nat) /\ Len(inv) = n
      /\ \A j \in 1 .. n : inv[j] = IF j = i2 + 1 THEN q1 ELSE mid[j]
  <2>1. i2 + 1 \in 1 .. Len(mid)
    BY SMTT(40), <1>1, <1>2, <1>4
  <2> HIDE DEF i2, mid
  <2>2. QED
    BY <1>1, <1>4, <2>1, ExceptSeq
<1>6. DOMAIN inv = 1 .. n
  BY <1>5, LenProperties
<1>7. /\ DOMAIN map = Allocated(d)
      /\ \A q \in Allocated(d) : map[q] = IF q = q2 THEN i1 ELSE IF q = q1 THEN i2 ELSE d.map[q]
      /\ map = [q \in Allocated(d) |-> map[q]]
  <2>1. d.map = [q \in Allocated(d) |-> d.map[q]]
    BY DEF Numbered
  <2>2. QED
    BY <2>1 DEF Allocated
<1>8. Allocated(e) = Allocated(d)
  BY <1>3, <1>7 DEF Allocated
<1>9. \A q \in Allocated(d) : map[q] \in 0 .. n - 1 /\ inv[map[q] + 1] = q
  <2> SUFFICES ASSUME NEW q \in Allocated(d)
               PROVE  map[q] \in 0 .. n - 1 /\ inv[map[q] + 1] = q
    OBVIOUS
  <2>1. d.map[q] \in 0 .. n - 1 /\ d.inv[d.map[q] + 1] = q
    BY DEF Numbered
  <2>2. d.inv[i1 + 1] = q1 /\ d.inv[i2 + 1] = q2
    BY DEF Numbered
  <2> HIDE DEF map, inv, mid, i1, i2, n
  <2>3. CASE q = q2
    <3>1. map[q] = i1 /\ i1 + 1 \in 1 .. n
      BY <1>1, <1>2, <1>7, <2>3
    <3>2. inv[i1 + 1] = IF i1 + 1 = i2 + 1 THEN q1 ELSE mid[i1 + 1]
      BY <1>5, <3>1
    <3>3. mid[i1 + 1] = q2
      BY <1>4, <3>1
    <3>4. i1 = i2 => q1 = q2
      BY <2>2
    <3>5. QED
      BY <1>1, <1>2, <2>3, <3>1, <3>2, <3>3, <3>4
  <2>4. CASE q # q2 /\ q = q1
    <3>1. map[q] = i2 /\ i2 + 1 \in 1 .. n
      BY <1>1, <1>2, <1>7, <2>4
    <3>2. inv[i2 + 1] = q1
      BY <1>5, <3>1
    <3>3. QED
      BY <1>1, <1>2, <2>4, <3>1, <3>2
  <2>5. CASE q # q2 /\ q # q1
    <3>1. map[q] = d.map[q] /\ d.map[q] + 1 \in 1 .. n
      BY <1>1, <1>7, <2>1, <2>5
    <3>2. d.map[q] # i1 /\ d.map[q] # i2
      BY <2>1, <2>2, <2>5
    <3> DEFINE j == d.map[q] + 1
    <3>3. j \in 1 .. n /\ j # i1 + 1 /\ j # i2 + 1
      BY SMTT(40), <1>1, <1>2, <2>1, <3>1, <3>2
    <3> HIDE DEF j
    <3>4. inv[j] = mid[j] /\ mid[j] = d.inv[j]
      BY <1>4, <1>5, <3>3
    <3>5. QED
      BY <2>1, <3>1, <3>4 DEF j
  <2>6. QED
    BY <2>3, <2>4, <2>5
<1>10. \A i \in 1 .. n : inv[i] \in Allocated(d) /\ map[inv[i]] = i - 1
  <2> SUFFICES ASSUME NEW i \in 1 .. n
               PROVE  inv[i] \in Allocated(d) /\ map[inv[i]] = i - 1
    OBVIOUS
  <2>1. d.inv[i] \in Allocated(d) /\ d.map[d.inv[i]] = i - 1
    BY <1>1 DEF Numbered
  <2> HIDE DEF map, inv, mid, n
  <2>2. CASE i = i2 + 1
    <3>1. inv[i] = q1
      BY <1>5, <2>2
    <3>2. map[q1] = IF q1 = q2 THEN i1 ELSE i2
      BY <1>7
    <3>3. QED
      BY <1>2, <2>2, <3>1, <3>2
  <2>3. CASE i # i2 + 1 /\ i = i1 + 1
    <3>1. inv[i] = q2
      BY <1>4, <1>5, <2>3
    <3>2. QED
      BY <1>2, <1>7, <2>3, <3>1
  <2>4. CASE i # i2 + 1 /\ i # i1 + 1
    <3>1. inv[i] = d.inv[i]
      BY <1>4, <1>5, <2>4
    <3>2. d.inv[i] # q1 /\ d.inv[i] # q2
      BY SMTT(40), <1>1, <1>2, <2>1, <2>4
    <3>3. QED
      BY <1>7, <2>1, <3>1, <3>2
  <2>5. QED
    BY <2>2, <2>3, <2>4
<1>11. \A q \in Allocated(d) : q < d.counter
  BY DEF Numbered
<1>12. DOMAIN e.state = 0 .. 2^Len(e.inv) - 1
  BY <1>3, <1>5 DEF Numbered
<1>13. d.counter \in Nat /\ Allocated(d) \subseteq Nat
  BY DEF Numbered
<1>14. inv[i2 + 1] = q1
  BY <1>1, <1>2, <1>5
<1> HIDE DEF e, map, inv, mid
<1>15. Numbered(e)
  BY <1>3, <1>5, <1>6, <1>7, <1>8, <1>9, <1>10, <1>11, <1>12, <1>13 DEF Numbered
<1>16. QED
  BY <1>3, <1>5, <1>8, <1>14, <1>15 DEF e

----------------------------------------------------------------------------
\* Operators that write the vector alone.

LEMMA ScaledSameNumbers ==
  ASSUME NEW d, Numbered(d), NEW v, DOMAIN v = DOMAIN d.state, NEW u
  PROVE  SameNumbers(d, Scaled(d, v, u))
<1> DEFINE e == Scaled(d, v, u)
<1>1. d = [state |-> d.state, unit |-> d.unit, map |-> d.map, inv |-> d.inv, counter |-> d.counter]
  BY DEF Numbered
<1> DEFINE n == CommonPower(v, u)
           w == [i \in DOMAIN v |-> <<v[i][1] \div 2^n, v[i][2] \div 2^n>>]
           x == <<u[1] \div 4^n, u[2] \div 4^n>>
<1>2. e = [d EXCEPT !.state = w, !.unit = x] /\ DOMAIN w = DOMAIN v
  BY DEF Scaled
<1> HIDE DEF e, w, x
<1>3. e = [state |-> w, unit |-> x, map |-> d.map, inv |-> d.inv, counter |-> d.counter]
  BY <1>1, <1>2
<1>4. SameNumbers(d, e)
  BY <1>2, <1>3 DEF SameNumbers
<1>5. QED
  BY <1>4 DEF e

LEMMA SingleQubitGateNumbered ==
  ASSUME NEW d, Numbered(d), NEW C, NEW q, NEW mat
  PROVE  LET e == SingleQubitGate(d, C, q, mat)
         IN  Numbered(e) /\ Allocated(e) = Allocated(d)
<1>1. PICK v, u : SingleQubitGate(d, C, q, mat) = Scaled(d, v, u) /\ DOMAIN v = DOMAIN d.state
  BY DEF SingleQubitGate
<1>2. QED
  BY <1>1, ScaledSameNumbers, SameNumbersNumbered

LEMMA TwoQubitGateNumbered ==
  ASSUME NEW d, Numbered(d), NEW C, NEW q1, NEW q2, NEW mat
  PROVE  LET e == TwoQubitGate(d, C, q1, q2, mat)
         IN  Numbered(e) /\ Allocated(e) = Allocated(d) /\ e.counter = d.counter
<1> DEFINE e == TwoQubitGate(d, C, q1, q2, mat)
<1>1. d = [state |-> d.state, unit |-> d.unit, map |-> d.map, inv |-> d.inv, counter |-> d.counter]
  BY DEF Numbered
<1>2. e = [state |-> e.state, unit |-> e.unit, map |-> d.map, inv |-> d.inv, counter |-> d.counter]
  BY <1>1 DEF TwoQubitGate
<1>3. DOMAIN e.state = DOMAIN d.state
  BY <1>1 DEF TwoQubitGate, TwoQubitVector
<1> HIDE DEF e
<1>4. SameNumbers(d, e)
  BY <1>2, <1>3 DEF SameNumbers
<1>5. QED
  BY <1>4, SameNumbersNumbered, SMTT(40) DEF e

LEMMA PairNumbered ==
  ASSUME NEW d, Numbered(d), NEW q1, NEW q2
  PROVE  LET e == Pair(d, q1, q2)
         IN  Numbered(e) /\ Allocated(e) = Allocated(d)
<1>1. PICK v, u : Pair(d, q1, q2) = Scaled(d, v, u) /\ DOMAIN v = DOMAIN d.state
  BY DEF Pair
<1>2. QED
  BY <1>1, ScaledSameNumbers, SameNumbersNumbered

LEMMA CollapseNumbered ==
  ASSUME NEW d, Numbered(d), NEW b
  PROVE  LET e == Collapse(d, b)
         IN  Numbered(e) /\ Allocated(e) = Allocated(d) /\ e.counter = d.counter /\ e.inv = d.inv
<1>1. PICK v, u : Collapse(d, b) = Scaled(d, v, u) /\ DOMAIN v = DOMAIN d.state
  BY DEF Collapse, Half
<1>2. QED
  BY <1>1, ScaledSameNumbers, SameNumbersNumbered

LEMMA ZeroMsbNumbered ==
  ASSUME NEW d, Numbered(d)
  PROVE  LET e == ZeroMsb(d)
         IN  Numbered(e) /\ Allocated(e) = Allocated(d) /\ e.counter = d.counter
<1> DEFINE e == ZeroMsb(d)
<1>1. d = [state |-> d.state, unit |-> d.unit, map |-> d.map, inv |-> d.inv, counter |-> d.counter]
  BY DEF Numbered
<1>2. e = [state |-> e.state, unit |-> e.unit, map |-> d.map, inv |-> d.inv, counter |-> d.counter]
  BY <1>1 DEF ZeroMsb
<1>3. DOMAIN e.state = DOMAIN d.state
  BY <1>1 DEF ZeroMsb
<1> HIDE DEF e
<1>4. SameNumbers(d, e)
  BY <1>2, <1>3 DEF SameNumbers
<1>5. QED
  BY <1>4, SameNumbersNumbered DEF e

----------------------------------------------------------------------------
\* A measured qubit is the last one of the device afterwards, whatever it gave.
LEMMA MeasureNumbered ==
  ASSUME NEW d, Numbered(d), NEW q \in Allocated(d), NEW o \in MeasureOutcomes(d, q)
  PROVE  /\ Numbered(o.dev)
         /\ Allocated(o.dev) = Allocated(d)
         /\ o.dev.counter = d.counter
         /\ Len(o.dev.inv) = Len(d.inv)
         /\ Last(o.dev.inv) = q
<1> DEFINE m == SwapToMsb(d, q)
<1>1. /\ Len(d.inv) \in Nat \ {0}
      /\ Last(d.inv) \in Allocated(d)
      /\ d.map[Last(d.inv)] = Len(d.inv) - 1
  BY LastQubit
<1>2. /\ Numbered(m) /\ Allocated(m) = Allocated(d) /\ m.counter = d.counter
      /\ Len(m.inv) = Len(d.inv) /\ m.inv[d.map[Last(d.inv)] + 1] = q
  BY <1>1, SwapBitsNumbered, SMTT(40) DEF SwapToMsb
<1>3. Last(m.inv) = q
  BY <1>1, <1>2 DEF Last
<1>4. PICK b : o = Outcome(b, Collapse(m, b), TRUE)
  BY DEF MeasureOutcomes
<1> HIDE DEF m
<1>5. o.dev = Collapse(m, b)
  BY <1>4 DEF Outcome
<1>6. QED
  BY <1>2, <1>3, <1>5, CollapseNumbered

LEMMA ResetNumbered ==
  ASSUME NEW d, Numbered(d), NEW q \in Allocated(d), NEW r \in ResetOutcomes(d, q)
  PROVE  Numbered(r.dev) /\ Allocated(r.dev) = Allocated(d)
<1>1. PICK o \in MeasureOutcomes(d, q) : r.dev = IF o.bit = 1 THEN ZeroMsb(o.dev) ELSE o.dev
  BY DEF ResetOutcomes, Outcome
<1>2. Numbered(o.dev) /\ Allocated(o.dev) = Allocated(d)
  BY MeasureNumbered
<1>3. QED
  BY <1>1, <1>2, ZeroMsbNumbered

LEMMA EprNumbered ==
  ASSUME NEW d, Numbered(d), NEW q1 \in Allocated(d), NEW q2 \in Allocated(d),
         NEW r \in EprOutcomes(d, q1, q2)
  PROVE  Numbered(r.dev) /\ Allocated(r.dev) = Allocated(d)
<1>1. PICK o1 \in MeasureOutcomes(d, q1) :
        \E o2 \in MeasureOutcomes(o1.dev, q2) : r.dev = Pair(o2.dev, q1, q2)
  BY DEF EprOutcomes, Outcome
<1>2. PICK o2 \in MeasureOutcomes(o1.dev, q2) : r.dev = Pair(o2.dev, q1, q2)
  BY <1>1
<1>3. Numbered(o1.dev) /\ Allocated(o1.dev) = Allocated(d)
  BY MeasureNumbered
<1>4. Numbered(o2.dev) /\ Allocated(o2.dev) = Allocated(d)
  BY <1>3, MeasureNumbered
<1>5. QED
  BY <1>2, <1>4, PairNumbered

----------------------------------------------------------------------------
\* Operators that change the set of qubits.

\* The last qubit goes, with the upper or the lower half of the vector.
LEMMA TraceOutMsbNumbered ==
  ASSUME NEW d, Numbered(d), Allocated(d) # {}, NEW b
  PROVE  LET e == TraceOutMsb(d, b)
         IN  /\ Numbered(e)
             /\ Allocated(e) = Allocated(d) \ {Last(d.inv)}
             /\ e.counter = d.counter
<1> DEFINE e == TraceOutMsb(d, b)
           n == Len(d.inv)
           z == Last(d.inv)
<1>1. n \in Nat \ {0} /\ z \in Allocated(d) /\ d.map[z] = n - 1
  BY LastQubit
<1>2. d.inv \in Seq(Nat) /\ DOMAIN d.inv = 1 .. n
  BY LenProperties DEF Numbered
<1>3. /\ e = [state |-> e.state, unit |-> e.unit, map |-> e.map, inv |-> e.inv, counter |-> e.counter]
      /\ e.map = [q \in Allocated(d) \ {z} |-> d.map[q]]
      /\ e.inv = Front(d.inv)
      /\ e.counter = d.counter
      /\ DOMAIN e.state = 0 .. 2^(n - 1) - 1
  BY DEF TraceOutMsb, Allocated, Msb
<1>4. /\ e.inv \in Seq(Nat) /\ Len(e.inv) = n - 1
      /\ \A i \in 1 .. n - 1 : e.inv[i] = d.inv[i]
  <2>1. e.inv = SubSeq(d.inv, 1, n - 1)
    BY <1>3 DEF Front
  <2>2. \A i \in 1 .. n - 1 : d.inv[i] \in Nat
    BY <1>1, <1>2, ElementOfSeq
  <2> HIDE DEF e, n
  <2>3. /\ SubSeq(d.inv, 1, n - 1) \in Seq(Nat)
        /\ Len(SubSeq(d.inv, 1, n - 1)) = IF 1 <= n - 1 THEN n - 1 - 1 + 1 ELSE 0
        /\ \A i \in 1 .. n - 1 - 1 + 1 : SubSeq(d.inv, 1, n - 1)[i] = d.inv[1 + i - 1]
    BY <1>1, <2>2, SubSeqProperties
  <2>4. QED
    BY <1>1, <2>1, <2>3
<1>5. Allocated(e) = Allocated(d) \ {z}
  BY <1>3 DEF Allocated
<1>6. DOMAIN e.inv = 1 .. n - 1
  BY <1>4, LenProperties
<1>7. DOMAIN e.state = 0 .. 2^Len(e.inv) - 1
  BY <1>3, <1>4
<1>8. \A q \in Allocated(e) : e.map[q] \in 0 .. Len(e.inv) - 1 /\ e.inv[e.map[q] + 1] = q
  <2> SUFFICES ASSUME NEW q \in Allocated(e)
               PROVE  e.map[q] \in 0 .. Len(e.inv) - 1 /\ e.inv[e.map[q] + 1] = q
    OBVIOUS
  <2>1. q \in Allocated(d) /\ q # z /\ e.map[q] = d.map[q]
    BY <1>3, <1>5
  <2>2. d.map[q] \in 0 .. n - 1 /\ d.inv[d.map[q] + 1] = q
    BY <2>1 DEF Numbered
  <2>3. d.map[q] # n - 1
    <3>1. d.inv[n] = z
      BY DEF Last
    <3>2. QED
      BY <1>1, <2>1, <2>2, <3>1
  <2> HIDE DEF e, n, z
  <2>4. d.map[q] \in 0 .. n - 2
    BY <1>1, <2>2, <2>3
  <2>5. d.map[q] + 1 \in 1 .. n - 1
    BY <1>1, <2>4
  <2>6. e.inv[d.map[q] + 1] = d.inv[d.map[q] + 1]
    BY <1>4, <2>5
  <2>7. e.map[q] \in 0 .. Len(e.inv) - 1
    BY <1>1, <1>4, <2>1, <2>4
  <2>8. QED
    BY <2>1, <2>2, <2>6, <2>7
<1>9. \A i \in DOMAIN e.inv : e.inv[i] \in Allocated(e) /\ e.map[e.inv[i]] = i - 1
  <2> SUFFICES ASSUME NEW i \in 1 .. n - 1
               PROVE  e.inv[i] \in Allocated(e) /\ e.map[e.inv[i]] = i - 1
    BY <1>6
  <2>1. e.inv[i] = d.inv[i] /\ i \in DOMAIN d.inv
    <3> HIDE DEF e, n
    <3>1. i \in 1 .. n
      BY <1>1
    <3>2. QED
      BY <1>2, <1>4, <3>1
  <2>2. d.inv[i] \in Allocated(d) /\ d.map[d.inv[i]] = i - 1
    BY <2>1 DEF Numbered
  <2>3. d.inv[i] # z
    BY <1>1, <2>2
  <2> HIDE DEF e, n, z
  <2>4. QED
    BY <1>3, <1>5, <2>1, <2>2, <2>3
<1>10. /\ e.counter \in Nat /\ Allocated(e) \subseteq Nat
       /\ \A q \in Allocated(e) : q < e.counter
  BY <1>3, <1>5 DEF Numbered
<1> HIDE DEF e
<1>11. e.map = [q \in Allocated(e) |-> e.map[q]]
  BY <1>3, <1>5
<1>12. Numbered(e)
  BY <1>3, <1>4, <1>7, <1>8, <1>9, <1>10, <1>11 DEF Numbered
<1>13. QED
  BY <1>3, <1>5, <1>12 DEF e

LEMMA FreeNumbered ==
  ASSUME NEW d, Numbered(d), NEW q \in Allocated(d), NEW r \in FreeOutcomes(d, q)
  PROVE  Numbered(r.dev) /\ Allocated(r.dev) = Allocated(d) \ {q}
<1>1. PICK o \in MeasureOutcomes(d, q) : r.dev = TraceOutMsb(o.dev, o.bit)
  BY DEF FreeOutcomes, Outcome
<1>2. /\ Numbered(o.dev) /\ Allocated(o.dev) = Allocated(d)
      /\ Last(o.dev.inv) = q
  BY MeasureNumbered
<1>3. QED
  BY <1>1, <1>2, TraceOutMsbNumbered

LEMMA AllocateNumbered ==
  ASSUME NEW d, Numbered(d)
  PROVE  LET e == Allocate(d)
         IN  /\ Numbered(e)
             /\ d.counter \notin Allocated(d)
             /\ Allocated(e) = Allocated(d) \cup {d.counter}
             /\ e.counter = d.counter + 1
<1> DEFINE e == Allocate(d)
           n == Len(d.inv)
           new == d.counter
<1>1. /\ n \in Nat /\ new \in Nat /\ d.inv \in Seq(Nat) /\ DOMAIN d.inv = 1 .. n
      /\ Allocated(d) \subseteq Nat
      /\ \A q \in Allocated(d) : q < new
  BY LenProperties DEF Numbered
<1>2. new \notin Allocated(d)
  BY <1>1
<1>3. /\ e = [state |-> e.state, unit |-> e.unit, map |-> e.map, inv |-> e.inv, counter |-> e.counter]
      /\ e.map = [q \in Allocated(d) \cup {new} |-> IF q = new THEN n ELSE d.map[q]]
      /\ e.inv = Append(d.inv, new)
      /\ e.counter = new + 1
      /\ DOMAIN e.state = 0 .. 2^(n + 1) - 1
  BY DEF Allocate, Allocated
<1>4. Allocated(e) = Allocated(d) \cup {new}
  BY <1>3 DEF Allocated
<1>5. /\ e.inv \in Seq(Nat) /\ Len(e.inv) = n + 1 /\ DOMAIN e.inv = 1 .. n + 1
      /\ \A i \in 1 .. n : e.inv[i] = d.inv[i]
      /\ e.inv[n + 1] = new
  BY <1>1, <1>3
<1>6. \A q \in Allocated(e) : e.map[q] \in 0 .. Len(e.inv) - 1 /\ e.inv[e.map[q] + 1] = q
  <2> SUFFICES ASSUME NEW q \in Allocated(e)
               PROVE  e.map[q] \in 0 .. n /\ e.inv[e.map[q] + 1] = q
    BY <1>1, <1>5
  <2>1. CASE q = new
    BY <1>1, <1>3, <1>4, <1>5, <2>1
  <2>2. CASE q \in Allocated(d)
    <3>1. d.map[q] \in 0 .. n - 1 /\ d.inv[d.map[q] + 1] = q
      BY <2>2 DEF Numbered
    <3>2. e.map[q] = d.map[q]
      BY <1>2, <1>3, <2>2
    <3> HIDE DEF e, n, new
    <3>3. d.map[q] + 1 \in 1 .. n
      BY <1>1, <3>1
    <3>4. e.inv[d.map[q] + 1] = d.inv[d.map[q] + 1]
      BY <1>5, <3>3
    <3>5. d.map[q] \in 0 .. n
      BY <1>1, <3>1
    <3>6. QED
      BY <3>1, <3>2, <3>4, <3>5
  <2>3. QED
    BY <1>4, <2>1, <2>2
<1>7. \A i \in DOMAIN e.inv : e.inv[i] \in Allocated(e) /\ e.map[e.inv[i]] = i - 1
  <2> SUFFICES ASSUME NEW i \in 1 .. n + 1
               PROVE  e.inv[i] \in Allocated(e) /\ e.map[e.inv[i]] = i - 1
    BY <1>5
  <2>1. CASE i = n + 1
    BY <1>1, <1>3, <1>4, <1>5, <2>1
  <2>2. CASE i \in 1 .. n
    <3>1. d.inv[i] \in Allocated(d) /\ d.map[d.inv[i]] = i - 1
      BY <1>1, <2>2 DEF Numbered
    <3>2. e.inv[i] = d.inv[i] /\ e.map[d.inv[i]] = d.map[d.inv[i]]
      BY <1>2, <1>3, <1>5, <2>2, <3>1
    <3>3. QED
      BY <1>4, <3>1, <3>2
  <2>3. QED
    BY SMTT(40), <1>1, <2>1, <2>2
<1>8. /\ e.counter \in Nat /\ Allocated(e) \subseteq Nat
      /\ \A q \in Allocated(e) : q < e.counter
  BY SMTT(40), <1>1, <1>3, <1>4
<1> HIDE DEF e
<1>9. e.map = [q \in Allocated(e) |-> e.map[q]]
  BY SMTT(40), <1>3, <1>4
<1>10. Numbered(e)
  BY <1>3, <1>5, <1>6, <1>7, <1>8, <1>9 DEF Numbered
<1>11. QED
  BY <1>2, <1>3, <1>4, <1>10 DEF e

----------------------------------------------------------------------------
\* The wrapper.  What it accepts is sound for the simulator: the arguments are
\* names in use and differ, so their qubits are allocated and differ.
LEMMA AcceptedIsSound ==
  ASSUME Named, NEW C, NEW qs, DOMAIN qs \subseteq Int, Accepted(C, qs)
  PROVE  Sound(qs)
<1>1. \A i \in DOMAIN qs : qs[i] \in InUse
  BY DEF Accepted
<1>2. \A i \in DOMAIN qs : Inner(qs[i]) \in Allocated(dev)
  BY <1>1 DEF Named, Inner
<1>3. ASSUME NEW i \in DOMAIN qs, NEW j \in DOMAIN qs, i # j
      PROVE  Inner(qs[i]) # Inner(qs[j])
  <2>1. qs[i] # qs[j]
    <3>1. i \in Int /\ j \in Int
      OBVIOUS
    <3>2. i < j \/ j < i
      BY <1>3, <3>1
    <3>3. QED
      BY <3>2 DEF Accepted, Duplicate
  <2>2. QED
    BY <1>1, <2>1 DEF Named, Inner
<1>4. QED
  BY <1>2, <1>3 DEF Sound

\* A device holds as many qubits as there are names in use.
LEMMA AsManyNames ==
  ASSUME Named
  PROVE  /\ IsFiniteSet(InUse) /\ Cardinality(InUse) \in Nat
         /\ Cardinality(Allocated(dev)) = Cardinality(InUse)
<1>1. IsFiniteSet(InUse)
  <2>1. qubit_counter \in Nat /\ InUse \subseteq 0 .. qubit_counter - 1
    BY DEF Named
  <2>2. IsFiniteSet(0 .. qubit_counter - 1)
    BY <2>1, FS_Interval
  <2>3. QED
    BY <2>1, <2>2, FS_Subset
<1>2. qubit_mapping \in Bijection(InUse, Allocated(dev))
  <2>1. qubit_mapping \in [InUse -> Allocated(dev)]
    BY DEF Named
  <2>2. \A p, q \in InUse : qubit_mapping[p] = qubit_mapping[q] => p = q
    BY DEF Named
  <2>3. \A n \in Allocated(dev) : \E q \in InUse : qubit_mapping[q] = n
    BY DEF Named
  <2>4. QED
    BY <2>1, <2>2, <2>3, Fun_IsBij
<1>3. QED
  BY <1>1, <1>2, FS_Bijection, FS_CardinalityType DEF ExistsBijection

SInv == DInv /\ Cardinality(InUse) <= Capacity /\ PanicsHaveCause

LEMMA PanicKeepsSInv ==
  ASSUME SInv, NEW where, where # "device",
         where = "capacity" => Cardinality(InUse) = Capacity, Panic(where)
  PROVE  SInv'
<1>1. UNCHANGED <<qubit_counter, qubit_mapping, dev>> /\ panic' = where
  BY DEF Panic
<1>2. QED
  BY <1>1 DEF SInv, DInv, Named, InUse, Allocated, Numbered, PanicsHaveCause

LEMMA RefuseKeepsSInv ==
  ASSUME SInv, NEW C, NEW qs, Refuse(C, qs)
  PROVE  SInv'
<1>1. Panic("checked") /\ "checked" # "device" /\ "checked" # "capacity"
  BY DEF Refuse
<1>2. QED
  BY <1>1, PanicKeepsSInv

LEMMA InitSInv == Init => SInv
<1> SUFFICES ASSUME Init PROVE SInv
  OBVIOUS
<1>1. Numbered(dev) /\ Allocated(dev) = {}
  BY NewNumbered DEF Init
<1>2. qubit_counter = 0 /\ qubit_mapping = [q \in {} |-> 0] /\ InUse = {} /\ panic = "none"
  BY DEF Init, InUse
<1>3. {qubit_mapping[q] : q \in InUse} = Allocated(dev)
  BY <1>1, <1>2
<1>4. Named
  BY <1>2, <1>3 DEF Named
<1>5. Cardinality(InUse) <= Capacity
  BY <1>2, FS_EmptySet, DeviceAssumption
<1>6. QED
  BY <1>1, <1>2, <1>4, <1>5 DEF SInv, DInv, PanicsHaveCause

LEMMA AllocKeepsSInv == SInv /\ Alloc => SInv'
<1> SUFFICES ASSUME SInv, Alloc PROVE SInv'
  OBVIOUS
<1>1. CASE Cardinality(Allocated(dev)) + 1 > Capacity
  <2>1. Panic("capacity") /\ "capacity" # "device"
    BY <1>1 DEF Alloc
  <2>2. Cardinality(InUse) = Capacity
    BY <1>1, AsManyNames, DeviceAssumption DEF SInv, DInv
  <2>3. QED
    BY <2>1, <2>2, PanicKeepsSInv
<1>2. CASE ~(Cardinality(Allocated(dev)) + 1 > Capacity)
  <2> DEFINE new == dev.counter
  <2>1. /\ dev' = Allocate(dev)
        /\ qubit_counter' = qubit_counter + 1
        /\ qubit_mapping' = [q \in InUse \cup {qubit_counter} |->
                               IF q = qubit_counter THEN new ELSE qubit_mapping[q]]
        /\ panic = "none" /\ panic' = panic
    BY <1>2 DEF Alloc, Running
  <2>2. /\ Numbered(dev') /\ new \notin Allocated(dev)
        /\ Allocated(dev') = Allocated(dev) \cup {new}
    BY <2>1, AllocateNumbered DEF SInv, DInv
  <2>3. /\ qubit_counter \in Nat /\ InUse \subseteq Nat
        /\ \A q \in InUse : q < qubit_counter
        /\ {qubit_mapping[q] : q \in InUse} = Allocated(dev)
        /\ \A q, p \in InUse : qubit_mapping[q] = qubit_mapping[p] => q = p
    BY DEF SInv, DInv, Named
  <2>4. qubit_counter \notin InUse
    BY <2>3
  <2>5. InUse' = InUse \cup {qubit_counter}
    BY <2>1 DEF InUse
  <2>6. /\ qubit_mapping'[qubit_counter] = new
        /\ \A q \in InUse : qubit_mapping'[q] = qubit_mapping[q]
    BY <2>1, <2>4
  <2> HIDE DEF new
  <2>7. {qubit_mapping'[q] : q \in InUse'} = Allocated(dev')
    BY <2>2, <2>3, <2>5, <2>6
  <2>8. \A q, p \in InUse' : qubit_mapping'[q] = qubit_mapping'[p] => q = p
    BY <2>2, <2>3, <2>5, <2>6
  <2>9. /\ qubit_counter' \in Nat /\ InUse' \subseteq Nat
        /\ \A q \in InUse' : q < qubit_counter'
    BY <2>1, <2>3, <2>5
  <2>10. qubit_mapping' = [q \in InUse' |-> qubit_mapping'[q]]
    BY <2>1, <2>5
  <2>11. Named'
    BY <2>7, <2>8, <2>9, <2>10 DEF Named, Allocated
  <2>12. Numbered(dev)'
    BY <2>2 DEF Numbered, Allocated
  <2>13. Cardinality(InUse') <= Capacity
    BY <1>2, <2>4, <2>5, AsManyNames, FS_AddElement, DeviceAssumption DEF SInv, DInv
  <2>14. QED
    BY <2>1, <2>11, <2>12, <2>13 DEF SInv, DInv, PanicsHaveCause
<1>3. QED
  BY <1>1, <1>2

----------------------------------------------------------------------------
\* Each call the simulator serves.

\* A call that leaves the qubits as they are.
LEMMA CallKeepsSInv ==
  ASSUME SInv, NEW op, NEW C, NEW qs, DOMAIN qs \subseteq Int, NEW outcomes,
         Call(op, C, qs, outcomes, qubit_mapping),
         Sound(qs) => \A o \in outcomes : Numbered(o.dev) /\ Allocated(o.dev) = Allocated(dev)
  PROVE  SInv'
<1>1. Sound(qs)
  BY AcceptedIsSound DEF Call, SInv, DInv
<1>2. CASE Panic("norm")
  <2>1. "norm" # "device" /\ "norm" # "capacity"
    OBVIOUS
  <2>2. QED
    BY <1>2, <2>1, PanicKeepsSInv
<1>3. CASE ~Panic("norm")
  <2>1. PICK o \in outcomes :
          dev' = o.dev /\ UNCHANGED <<qubit_counter, qubit_mapping, panic>>
    BY <1>1, <1>3 DEF Call
  <2>2. Numbered(dev') /\ Allocated(dev') = Allocated(dev)
    BY <1>1, <2>1
  <2>3. Named'
    BY <2>1, <2>2 DEF SInv, DInv, Named, InUse
  <2>4. PanicsHaveCause' /\ Cardinality(InUse)' <= Capacity
    BY <2>1 DEF SInv, PanicsHaveCause, InUse
  <2>5. Numbered(dev)'
    BY <2>2 DEF Numbered, Allocated
  <2>6. QED
    BY <2>3, <2>4, <2>5 DEF SInv, DInv
<1>4. QED
  BY <1>2, <1>3

LEMMA SQGateKeepsSInv ==
  ASSUME SInv, NEW op, NEW C, NEW q, SQGate(op, C, q)
  PROVE  SInv'
<1> DEFINE after == SingleQubitGate(dev, InnerSet(C), Inner(q), SQMatrix[op])
<1>1. Numbered(after) /\ Allocated(after) = Allocated(dev)
  BY SingleQubitGateNumbered DEF SInv, DInv
<1> DEFINE outcomes == {Outcome(0, after, TRUE)}
<1>2. Call(op, C, <<q>>, outcomes, qubit_mapping)
  BY DEF SQGate
<1> HIDE DEF after
<1>3. \A o \in outcomes : Numbered(o.dev) /\ Allocated(o.dev) = Allocated(dev)
  BY <1>1 DEF Outcome
<1> HIDE DEF outcomes
<1>4. QED
  BY <1>2, <1>3, CallKeepsSInv

LEMMA TQGateKeepsSInv ==
  ASSUME SInv, NEW op, NEW q1, NEW q2, TQGate(op, q1, q2)
  PROVE  SInv'
<1> DEFINE after == TwoQubitGate(dev, {}, Inner(q1), Inner(q2), TQMatrix[op])
<1>1. Numbered(after) /\ Allocated(after) = Allocated(dev)
  BY TwoQubitGateNumbered DEF SInv, DInv
<1> DEFINE outcomes == {Outcome(0, after, TRUE)}
<1>2. Call(op, {}, <<q1, q2>>, outcomes, qubit_mapping)
  BY DEF TQGate
<1> HIDE DEF after
<1>3. \A o \in outcomes : Numbered(o.dev) /\ Allocated(o.dev) = Allocated(dev)
  BY <1>1 DEF Outcome
<1> HIDE DEF outcomes
<1>4. QED
  BY <1>2, <1>3, CallKeepsSInv

LEMMA MeasureKeepsSInv ==
  ASSUME SInv, NEW q, Measure(q)
  PROVE  SInv'
<1>1. Sound(<<q>>) => Inner(q) \in Allocated(dev)
  BY DEF Sound
<1>2. Sound(<<q>>) => \A o \in MeasureOutcomes(dev, Inner(q)) :
                       Numbered(o.dev) /\ Allocated(o.dev) = Allocated(dev)
  BY <1>1, MeasureNumbered DEF SInv, DInv
<1>3. QED
  BY <1>2, CallKeepsSInv DEF Measure

LEMMA ResetKeepsSInv ==
  ASSUME SInv, NEW q, Reset(q)
  PROVE  SInv'
<1>1. Sound(<<q>>) => Inner(q) \in Allocated(dev)
  BY DEF Sound
<1>2. Sound(<<q>>) => \A o \in ResetOutcomes(dev, Inner(q)) :
                       Numbered(o.dev) /\ Allocated(o.dev) = Allocated(dev)
  BY <1>1, ResetNumbered DEF SInv, DInv
<1>3. QED
  BY <1>2, CallKeepsSInv DEF Reset

LEMMA EprKeepsSInv ==
  ASSUME SInv, NEW q1, NEW q2, Epr(q1, q2)
  PROVE  SInv'
<1>1. Sound(<<q1, q2>>) => Inner(q1) \in Allocated(dev) /\ Inner(q2) \in Allocated(dev)
  BY DEF Sound
<1>2. Sound(<<q1, q2>>) => \A o \in EprOutcomes(dev, Inner(q1), Inner(q2)) :
                            Numbered(o.dev) /\ Allocated(o.dev) = Allocated(dev)
  BY <1>1, EprNumbered DEF SInv, DInv
<1>3. QED
  BY <1>2, CallKeepsSInv DEF Epr

\* A freed name and its qubit go together.
LEMMA FreeKeepsSInv ==
  ASSUME SInv, NEW q, Free(q)
  PROVE  SInv'
<1> DEFINE outcomes == FreeOutcomes(dev, Inner(q))
           mapping == [p \in InUse \ {q} |-> qubit_mapping[p]]
<1>1. Running /\ Accepted({}, <<q>>) /\ Call("free", {}, <<q>>, outcomes, mapping)
  BY DEF Free, Call
<1>2. Sound(<<q>>) /\ q \in InUse
  BY <1>1, AcceptedIsSound DEF SInv, DInv, Accepted
<1>3. Inner(q) \in Allocated(dev)
  BY <1>2 DEF Sound
<1>4. CASE Panic("norm")
  <2>1. "norm" # "device" /\ "norm" # "capacity"
    OBVIOUS
  <2>2. QED
    BY <1>4, <2>1, PanicKeepsSInv
<1>5. CASE ~Panic("norm")
  <2> HIDE DEF outcomes, mapping
  <2>1. PICK o \in outcomes :
          dev' = o.dev /\ qubit_mapping' = mapping /\ UNCHANGED <<qubit_counter, panic>>
    BY <1>1, <1>2, <1>5 DEF Call
  <2> USE DEF outcomes, mapping
  <2>2. Numbered(dev') /\ Allocated(dev') = Allocated(dev) \ {Inner(q)}
    BY <1>3, <2>1, FreeNumbered DEF SInv, DInv
  <2>3. InUse' = InUse \ {q} /\ \A p \in InUse' : qubit_mapping'[p] = qubit_mapping[p]
    BY <2>1 DEF InUse
  <2>4. Named
    BY DEF SInv, DInv
  <2>5. {qubit_mapping'[p] : p \in InUse'} = Allocated(dev')
    BY <1>2, <2>2, <2>3, <2>4 DEF Named, Inner
  <2>6. qubit_mapping' = [p \in InUse' |-> qubit_mapping'[p]]
    BY <2>1, <2>3
  <2>7. /\ \A r, p \in InUse' : qubit_mapping'[r] = qubit_mapping'[p] => r = p
        /\ qubit_counter' \in Nat /\ InUse' \subseteq Nat
        /\ \A p \in InUse' : p < qubit_counter'
    BY <2>1, <2>3, <2>4 DEF Named
  <2>8. Named'
    BY <2>5, <2>6, <2>7 DEF Named, Allocated
  <2>9. Numbered(dev)'
    BY <2>2 DEF Numbered, Allocated
  <2>10. Cardinality(InUse') <= Capacity
    <3>1. IsFiniteSet(InUse) /\ Cardinality(InUse) \in Nat
      BY <2>4, AsManyNames
    <3>2. Cardinality(InUse \ {q}) = Cardinality(InUse) - 1
      BY <1>2, <3>1, FS_RemoveElement
    <3>3. Cardinality(InUse) <= Capacity
      BY DEF SInv
    <3>4. QED
      BY <2>3, <3>1, <3>2, <3>3, DeviceAssumption
  <2>11. panic' = "none"
    BY <1>1, <2>1 DEF Running
  <2>12. QED
    BY <2>8, <2>9, <2>10, <2>11 DEF SInv, DInv, PanicsHaveCause
<1>6. QED
  BY <1>4, <1>5

LEMMA NextKeepsSInv == SInv /\ [Next]_vars => SInv'
<1> SUFFICES ASSUME SInv, [Next]_vars PROVE SInv'
  OBVIOUS
<1>1. CASE Alloc
  BY <1>1, AllocKeepsSInv
<1>2. ASSUME NEW q \in Name, Free(q) PROVE SInv'
  BY <1>2, FreeKeepsSInv
<1>3. ASSUME NEW q \in Name, Measure(q) PROVE SInv'
  BY <1>3, MeasureKeepsSInv
<1>4. ASSUME NEW q \in Name, Reset(q) PROVE SInv'
  BY <1>4, ResetKeepsSInv
<1>5. ASSUME NEW op, NEW C, NEW q, SQGate(op, C, q) PROVE SInv'
  BY <1>5, SQGateKeepsSInv
<1>6. ASSUME NEW C, NEW qs, Refuse(C, qs) PROVE SInv'
  BY <1>6, RefuseKeepsSInv
<1>7. ASSUME NEW q, NEW p, Epr(q, p) PROVE SInv'
  BY <1>7, EprKeepsSInv
<1>8. ASSUME NEW op, NEW q, NEW p, TQGate(op, q, p) PROVE SInv'
  BY <1>8, TQGateKeepsSInv
<1>9. CASE UNCHANGED vars
  BY <1>9 DEF vars, SInv, DInv, Named, InUse, Numbered, Allocated, PanicsHaveCause
<1>10. QED
  BY <1>1, <1>2, <1>3, <1>4, <1>5, <1>6, <1>7, <1>8, <1>9 DEF Next

LEMMA DeviceInvariance == Spec => []SInv
<1>1. QED
  BY InitSInv, NextKeepsSInv, PTL DEF Spec

\* Whatever program runs, on a device of any capacity, the names of the wrapper,
\* the numbers of the simulator and the bit positions of its vector stay in
\* step: qubit_mapping, qubit_map and qubit_map_inv never disagree.
THEOREM NumberingsStayInStep == Spec => []NumberingsAgree
<1>1. SInv => NumberingsAgree
  BY DInvImpliesNumberingsAgree DEF SInv
<1>2. QED
  BY <1>1, DeviceInvariance, PTL

\* Whatever arguments a program passes, freed and repeated qubits among them, no
\* lookup in the simulator fails and no gate gets a qubit twice: CheckedDevice is
\* enough.  And an allocation is refused only while Capacity qubits are in use.
THEOREM WrapperGuardsTheDevice == Spec => []PanicsHaveCause
<1>1. SInv => PanicsHaveCause
  BY DEF SInv
<1>2. QED
  BY <1>1, DeviceInvariance, PTL
=============================================================================
