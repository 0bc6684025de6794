---------------------------- MODULE NaiveDevice ----------------------------
(***************************************************************************)
(* The state-vector simulator.  A device is a record                       *)
(*   state    for each basis index the amplitude, times the root of unit   *)
(*   unit     the common factor of the vector, squared                     *)
(*   map      qubit_map: the bit position of each allocated qubit          *)
(*   inv      qubit_map_inv: the qubit at each position, lowest first      *)
(*   counter  allocated_qubit_counter: the next qubit number               *)
(* and an operation is an operator on devices.  Measuring, resetting and   *)
(* freeing a qubit first swap it to the most significant bit, so a qubit   *)
(* changes its position whenever this is done to it or to the qubit there. *)
(*                                                                         *)
(* The arithmetic is exact: the entries of state and unit are numbers      *)
(* a + b*sqrt(2), written <<a, b>>.  The code's floating-point numbers     *)
(* differ from these by rounding, which the code's tolerances are for.     *)
(***************************************************************************)
EXTENDS Integers, Sequences, SequencesExt

Zero == <<0, 0>>
One == <<1, 0>>
Plus(x, y) == <<x[1] + y[1], x[2] + y[2]>>
Times(k, x) == <<k * x[1], k * x[2]>>
TimesRoot2(x) == <<2 * x[2], x[1]>>
Square(x) == <<x[1] * x[1] + 2 * x[2] * x[2], 2 * x[1] * x[2]>>

\* Whether a + b*sqrt(2) > 0.
Positive(x) ==
  \/ x[1] >= 0 /\ x[2] >= 0 /\ x # Zero
  \/ x[1] > 0 /\ x[1] * x[1] > 2 * x[2] * x[2]
  \/ x[2] > 0 /\ 2 * x[2] * x[2] > x[1] * x[1]
Below(x, y) == Positive(Plus(y, Times(-1, x)))

\* The sum of the squares of the entries of a vector.
Length(v) == FoldFunction(Plus, Zero, [i \in DOMAIN v |-> Square(v[i])])

New ==
  [state |-> [i \in {0} |-> One], unit |-> One, map |-> [q \in {} |-> 0], inv |-> <<>>,
   counter |-> 0]

Bit(i, p) == (i \div 2^p) % 2
FlipBit(i, p) == IF Bit(i, p) = 0 THEN i + 2^p ELSE i - 2^p
Msb(d) == Len(d.inv) - 1

Allocated(d) == DOMAIN d.map

----------------------------------------------------------------------------
\* The index whose bits p and q are exchanged.
ExchangeBits(i, p, q) ==
  IF Bit(i, p) = Bit(i, q) THEN i ELSE FlipBit(FlipBit(i, p), q)

\* A swap that exchanges the amplitudes and one of the two maps.
SwapBits_MapStale(d, q1, q2) ==
  LET i1 == d.map[q1]
      i2 == d.map[q2]
  IN [d EXCEPT !.state = [i \in DOMAIN @ |-> @[ExchangeBits(i, i1, i2)]],
               !.inv = [@ EXCEPT ![i1 + 1] = q2, ![i2 + 1] = q1]]

\* A swap that updates the maps and leaves the amplitudes.
SwapBits_StateStale(d, q1, q2) ==
  LET i1 == d.map[q1]
      i2 == d.map[q2]
  IN [d EXCEPT !.inv = [@ EXCEPT ![i1 + 1] = q2, ![i2 + 1] = q1],
               !.map = [@ EXCEPT ![q1] = i2, ![q2] = i1]]

\* Two qubits exchange their positions, their amplitudes with them.
SwapBits(d, q1, q2) ==
  LET i1 == d.map[q1]
      i2 == d.map[q2]
  IN [d EXCEPT !.state = [i \in DOMAIN @ |-> @[ExchangeBits(i, i1, i2)]],
               !.inv = [@ EXCEPT ![i1 + 1] = q2, ![i2 + 1] = q1],
               !.map = [@ EXCEPT ![q1] = i2, ![q2] = i1]]

SwapToMsb(d, q) == SwapBits(d, q, Last(d.inv))

----------------------------------------------------------------------------
\* validate: the vector has length 1.
Valid(d) == Length(d.state) = d.unit

\* The vector v with the factor u, in lowest terms.
CommonPower(v, u) ==
  LET Divides(k) == /\ u[1] % 4^k = 0 /\ u[2] % 4^k = 0
                    /\ \A i \in DOMAIN v : v[i][1] % 2^k = 0 /\ v[i][2] % 2^k = 0
      Power[k \in Nat] == IF Divides(k + 1) THEN Power[k + 1] ELSE k
  IN  Power[0]

Scaled(d, v, u) ==
  LET n == CommonPower(v, u)
  IN  [d EXCEPT !.state = [i \in DOMAIN v |-> <<v[i][1] \div 2^n, v[i][2] \div 2^n>>],
                !.unit = <<u[1] \div 4^n, u[2] \div 4^n>>]

\* The half of the vector where the most significant bit is b, 0 elsewhere.
Half(d, b) == [i \in DOMAIN d.state |-> IF Bit(i, Msb(d)) = b THEN d.state[i] ELSE Zero]

\* try_remove_msb_qubit: the probability of 0 (times unit), at most 1.
ProbZero(d) ==
  LET lo == Length(Half(d, 0)) IN IF Below(lo, d.unit) THEN lo ELSE d.unit
ProbOne(d) == Plus(d.unit, Times(-1, ProbZero(d)))

\* The outcomes random_coin may draw for the most significant bit.
Possible(d, b) == Positive(IF b = 0 THEN ProbZero(d) ELSE ProbOne(d))

\* What is left is divided by the root of the probability, as it was computed.
Collapse(d, b) == Scaled(d, Half(d, b), IF b = 0 THEN ProbZero(d) ELSE ProbOne(d))

\* What a call may lead to: the bit it returns, the device, and whether the
\* assertions on the way held.
Outcome(b, d, ok) == [bit |-> b, dev |-> d, ok |-> ok]

MeasureOutcomes(d, q) ==
  LET m == SwapToMsb(d, q) IN
  {Outcome(b, Collapse(m, b), TRUE) : b \in {c \in 0 .. 1 : Possible(m, c)}}

\* zeroing_msb: the upper half becomes the lower one.
ZeroMsb(d) ==
  [d EXCEPT !.state = [i \in DOMAIN @ |->
                         IF Bit(i, Msb(d)) = 0 THEN @[FlipBit(i, Msb(d))] ELSE Zero]]

\* The vector is validated before and after the qubit is set to 0.
ResetOutcomes(d, q) ==
  LET Zeroed(o) == IF o.bit = 1 THEN ZeroMsb(o.dev) ELSE o.dev
  IN  {Outcome(0, Zeroed(o), Valid(o.dev) /\ Valid(Zeroed(o))) : o \in MeasureOutcomes(d, q)}

\* trace_out_msb_computational_qubit, between its two calls of validate
TraceOutMsb(d, b) ==
  [state |-> [i \in 0 .. 2^Msb(d) - 1 |-> d.state[i + b * 2^Msb(d)]],
   unit |-> d.unit,
   map |-> [q \in DOMAIN d.map \ {Last(d.inv)} |-> d.map[q]],
   inv |-> Front(d.inv),
   counter |-> d.counter]

FreeOutcomes(d, q) ==
  {Outcome(0, TraceOutMsb(o.dev, o.bit), Valid(o.dev) /\ Valid(TraceOutMsb(o.dev, o.bit))) :
     o \in MeasureOutcomes(d, q)}

\* allocate_qubit_at_msb: the vector doubles, its new half is 0.
Allocate(d) ==
  LET n == Len(d.inv) IN
  [state |-> [i \in 0 .. 2^(n + 1) - 1 |-> IF i < 2^n THEN d.state[i] ELSE Zero],
   unit |-> d.unit,
   map |-> [q \in DOMAIN d.map \cup {d.counter} |->
              IF q = d.counter THEN n ELSE d.map[q]],
   inv |-> Append(d.inv, d.counter),
   counter |-> d.counter + 1]

----------------------------------------------------------------------------
\* The gate matrices; that of the Hadamard gate is MatH over the root of 2.
MatX == << <<0, 1>>, <<1, 0>> >>
MatZ == << <<1, 0>>, <<0, -1>> >>
MatH == << <<1, 1>>, <<1, -1>> >>
MatSwap == << <<1, 0, 0, 0>>, <<0, 0, 1, 0>>, <<0, 1, 0, 0>>, <<0, 0, 0, 1>> >>
MatCNOT == << <<1, 0, 0, 0>>, <<0, 1, 0, 0>>, <<0, 0, 0, 1>>, <<0, 0, 1, 0>> >>
MatCZ == << <<1, 0, 0, 0>>, <<0, 1, 0, 0>>, <<0, 0, 1, 0>>, <<0, 0, 0, -1>> >>

\* The controllers are tested at the bit of their NUMBER: the code does not
\* look their position up, unlike that of the target.
Controlled(C, i) == \A c \in C : Bit(i, c) = 1

SingleQubitGate(d, C, q, mat) ==
  LET pos == d.map[q]
      v == d.state
      Low(i) == IF Bit(i, pos) = 0 THEN i ELSE i - 2^pos
      Row(i) == mat[Bit(i, pos) + 1]
      Kept(x) == IF mat = MatH THEN TimesRoot2(x) ELSE x
  IN  Scaled(d,
             [i \in DOMAIN v |->
                IF Controlled(C, Low(i))
                  THEN Plus(Times(Row(i)[1], v[Low(i)]), Times(Row(i)[2], v[Low(i) + 2^pos]))
                  ELSE Kept(v[i])],
             IF mat = MatH THEN Times(2, d.unit) ELSE d.unit)

TwoQubitVector(d, C, q1, q2, mat) ==
  LET p1 == 2^d.map[q1]
      p2 == 2^d.map[q2]
      b1(i) == Bit(i, d.map[q1])
      b2(i) == Bit(i, d.map[q2])
      Low(i) == i - b1(i) * p1 - b2(i) * p2
      Row(i) == mat[2 * b1(i) + b2(i) + 1]
      v == d.state
  IN [i \in DOMAIN v |->
        IF Controlled(C, Low(i))
          THEN Plus(Plus(Times(Row(i)[1], v[Low(i)]), Times(Row(i)[2], v[Low(i) + p2])),
                    Plus(Times(Row(i)[3], v[Low(i) + p1]), Times(Row(i)[4], v[Low(i) + p1 + p2])))
          ELSE v[i]]
TwoQubitGate(d, C, q1, q2, mat) == [d EXCEPT !.state = TwoQubitVector(d, C, q1, q2, mat)]

----------------------------------------------------------------------------
\* What EPR makes of the vector once both qubits are measured: the sum of the
\* four amplitudes, over the root of 2, goes to 00 and to 11.  Nothing writes 01
\* and 10: what is there stays, and makes the vector longer than it should be.
Pair(d, q1, q2) ==
  LET p1 == 2^d.map[q1]
      p2 == 2^d.map[q2]
      b1(i) == Bit(i, d.map[q1])
      b2(i) == Bit(i, d.map[q2])
      Low(i) == i - b1(i) * p1 - b2(i) * p2
      v == d.state
      Sum(i) == Plus(Plus(v[i], v[i + p2]), Plus(v[i + p1], v[i + p1 + p2]))
  IN  Scaled(d,
             [i \in DOMAIN v |-> IF b1(i) = b2(i) THEN Sum(Low(i)) ELSE TimesRoot2(v[i])],
             Times(2, d.unit))

\* EPR returns no bit; here it is 1 where the qubits measured to different bits.
EprOutcomes(d, q1, q2) ==
  UNION {{Outcome(IF o1.bit = o2.bit THEN 0 ELSE 1, Pair(o2.dev, q1, q2), TRUE) :
            o2 \in MeasureOutcomes(o1.dev, q2)} :
         o1 \in MeasureOutcomes(d, q1)}
=============================================================================
