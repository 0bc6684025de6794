--------------------------- MODULE MultiControl ---------------------------
(***************************************************************************)
(* The synthesis of multiply controlled gates                              *)
(* (lib/synthesis/MultiControlDecompose.cpp): what each function of that   *)
(* file returns, a sequence of element gates on numbered qubits.  Qubits   *)
(* are counted from 0, as there; a qubit list q is a sequence, whose       *)
(* element i of the code is q[i+1].                                        *)
(***************************************************************************)
EXTENDS GateAlgebra

CONSTANT MaxGray    \* the most controls decomposed along a Gray code (8 in the code)

ASSUME MaxGrayAssumption == MaxGray \in Nat \ {0}

Element(type, q, par) == [type |-> type, q |-> q, par |-> par]
Cnot(a, b)            == Element("CNOT", <<a, b>>, <<>>)
Toffoli(a, b, c)      == Element("TOFFOLI", <<a, b, c>>, <<>>)
Single(type, a)       == Element(type, <<a>>, <<>>)
Turned(type, a, par)  == Element(type, <<a>>, par)

First(q, k) == SubSeq(q, 1, k)
From(q, k)  == SubSeq(q, k + 1, Len(q))      \* from index k of the code on
Rev(s)      == Reverse(s)

---------------------------------------------------------------------------
(***************************************************************************)
(* X on the last qubit of q, controlled by the others.                     *)
(***************************************************************************)

Twice(s)         == s \o s
Around(s, inner) == s \o inner \o Rev(s)

\* With the qubits of a to borrow.
mcdecompose_with_mcancilla(q, a) ==
  LET size == Len(q)
      mid  == [k \in 1..(size - 4) |-> Toffoli(q[size - 1 - k], a[k + 1], a[k])]
  IN  CASE size = 2 -> <<Cnot(q[1], q[2])>>
        [] size = 3 -> <<Toffoli(q[1], q[2], q[3])>>
        [] OTHER    -> Twice(<<Toffoli(q[size - 1], a[1], q[size])>>
                               \o Around(mid, <<Toffoli(q[1], q[2], a[size - 3])>>))

\* With one qubit to borrow.
mcdecompose_with_ancilla(q, a) ==
  LET l  == (Len(q) + 1) \div 2
      lq == First(q, l)
      rq == From(q, l)
  IN  IF Len(q) <= 3 THEN mcdecompose_with_mcancilla(q, <<a>>)
      ELSE Twice(mcdecompose_with_mcancilla(Append(lq, a), rq)
                   \o mcdecompose_with_mcancilla(<<a>> \o rq, lq))

\* Adds one to the number whose least significant bit is the first of q; a
\* is borrowed.
RECURSIVE mcdecompose_add_one(_, _)
mcdecompose_add_one(q, a) ==
  LET size == Len(q)
      l  == (size + 1) \div 2
      lq == First(q, l)
      rq == From(q, l)
      spread == [i \in 1..Len(rq) |-> Cnot(a, rq[i])]
      halves(radd, clist) == radd \o spread \o clist \o radd \o clist \o spread
  IN  CASE size = 1 -> <<Single("X", q[1])>>
        [] size = 2 -> <<Cnot(q[1], q[2]), Single("X", q[1])>>
        [] size = 3 -> <<Toffoli(q[1], q[2], q[3]), Cnot(q[1], q[2]), Single("X", q[1])>>
        [] OTHER    -> halves(Append(mcdecompose_add_one(<<a>> \o rq, q[1]), Single("X", a)),
                              mcdecompose_with_ancilla(Append(lq, a), q[l + 1]))
                         \o mcdecompose_add_one(lq, a)

\* The phase theta on the state where every qubit of q is one; a is borrowed.
mcdecompose_z(theta, q, a) ==
  LET size == Len(q)
      halves(sign) == [k \in 1..(size - 1) |->
                         Turned("CPHASE", q[size + 1 - k], <<sign * (theta \div 2^k)>>)]
  IN  IF size = 1 THEN <<Turned("CPHASE", q[1], <<theta>>)>>
      ELSE Around(mcdecompose_add_one(q, a), halves(-1)) \o halves(1)
             \o <<Turned("CPHASE", q[1], <<theta \div 2^(size - 1)>>)>>

\* Without any other qubit.
mcdecompose_x(q) ==
  LET size == Len(q)
      t    == q[size]
      b    == q[size - 1]
      z(theta, qs, a) == mcdecompose_z(theta, qs, a)
      phases(xlist, quarter) ==
        xlist \o z(-quarter, <<b, t>>, q[1]) \o xlist \o z(quarter, <<b, t>>, q[1])
          \o z(quarter, Append(First(q, size - 2), t), b)
  IN  CASE size = 2 -> <<Cnot(q[1], q[2])>>
        [] size = 3 -> <<Toffoli(q[1], q[2], q[3])>>
        [] OTHER    -> Around(<<Single("H", t)>>,
                         phases(mcdecompose_with_ancilla(First(q, size - 1), t), Turn \div 4))

\* The increment of n-1 qubits the passes ask for; the last of the n is borrowed.
mcdecompose_addone(n) ==
  IF n <= 2 THEN <<>> ELSE mcdecompose_add_one([i \in 1..(n - 1) |-> i - 1], n - 1)

---------------------------------------------------------------------------
(***************************************************************************)
(* Rotations under several controls, along a Gray code of the controls.    *)
(***************************************************************************)

ctrl_r(g, c, t, theta) ==
  LET flip(h) == <<Cnot(c, t), Turned(h, t, <<-(theta \div 2)>>),
                   Cnot(c, t), Turned(h, t, <<theta \div 2>>)>>
  IN  CASE g = "RX"     -> <<Turned("RZ", t, <<-(Turn \div 4)>>)>> \o flip("RY")
                             \o <<Turned("RZ", t, <<Turn \div 4>>)>>
        [] g = "CPHASE" -> flip("RZ") \o <<Turned("CPHASE", c, <<theta \div 2>>)>>
        [] OTHER        -> flip(g)

\* The codes of n bits: each doubling appends the codes so far, backwards,
\* with the next bit set.
generate_gray_code(n) ==
  FoldLeft(LAMBDA codes, i : codes \o [j \in 1..Len(codes) |-> codes[Len(codes) + 1 - j] + 2^i],
           <<0>>, [i \in 1..n |-> i - 1])

BitsOf(x, n)      == {i \in 0..(n - 1) : (x \div 2^i) % 2 = 1}
\* The control of the most significant bit of x, -1 when x is 0.
last_one_idx(x, n)  == IF BitsOf(x, n) = {} THEN -1 ELSE n - 1 - Max(BitsOf(x, n))
get_one_count(x, n) == Cardinality(BitsOf(x, n))
Differing(x, y, n)  == {i \in 0..(n - 1) : (x \div 2^i) % 2 # (y \div 2^i) % 2}

\* The CNOTs that fold the parity of a pattern on one of its controls, when
\* the pattern follows last in the Gray code.
GrayCnots(last, pattern, n) ==
  LET lm  == last_one_idx(pattern, n)
      pos == IF last = pattern THEN -1 ELSE n - 1 - Max(Differing(last, pattern, n))
      others == Rev(SetToSortSeq(BitsOf(pattern, n) \ {n - 1 - lm}, <))
  IN  CASE pos = -1  -> <<>>
        [] pos # lm  -> <<<<pos, lm>>>>
        [] OTHER     -> [k \in 1..Len(others) |-> <<n - 1 - others[k], lm>>]

mcr_graycode(g, theta, ctrl, target) ==
  LET n    == Len(ctrl)
      code == generate_gray_code(n)
      step(i) ==
        LET pattern == code[i]
            last    == IF i = 2 THEN pattern ELSE code[i - 1]
            cnots   == GrayCnots(last, pattern, n)
        IN  [k \in 1..Len(cnots) |-> Cnot(ctrl[cnots[k][1] + 1], ctrl[cnots[k][2] + 1])]
              \o ctrl_r(g, ctrl[last_one_idx(pattern, n) + 1], target,
                        IF get_one_count(pattern, n) % 2 = 0 THEN -theta ELSE theta)
  IN  FlattenSeq([i \in 1..(Len(code) - 1) |-> step(i + 1)])

---------------------------------------------------------------------------
(***************************************************************************)
(* Any one-qubit gate U under any controls.                                *)
(***************************************************************************)

\* Angles with U = exp(i alpha) Rz(beta) Ry(gamma) Rz(delta), in the eighths
\* of a turn the gates of the library need.  The code computes them with
\* complex arguments and then corrects signs until the product is U.
ZYDecompose(U) ==
  LET eighths  == {64 * k : k \in 0..7}
      ga == CASE U[0][1] = 0 -> 0 [] U[0][0] = 0 -> Turn \div 2 [] OTHER -> Turn \div 4
      turns == IF ga = Turn \div 4 THEN eighths ELSE {0}
  IN  CHOOSE z \in {<<32 * al, be, ga, de>> : al \in 0..15, be \in eighths, de \in turns} :
        U = Scaled(Phase(z[1]), U3(z[3], z[2], z[4]))

PauliX == Matrix2(0, 1, 1, 0)

\* U = exp(i z[1]) Rz(z[2]) Ry(z[3]) Rz(z[4]) on the qubit after the controls.
AlongGrayCode(z, m) ==
  LET q == [i \in 1..m |-> i - 1]
      rotation(g, theta) ==
        IF theta = 0 THEN <<>> ELSE mcr_graycode(g, theta \div 2^(m - 1), q, m)
      phase == CASE z[1] = 0 -> <<>>
                 [] m = 1    -> <<Turned("CPHASE", 0, <<z[1]>>)>>
                 [] OTHER    -> mcr_graycode("CPHASE", z[1] \div 2^(m - 2), First(q, m - 1), m - 1)
  IN  rotation("RZ", z[4]) \o rotation("RY", z[3]) \o rotation("RZ", z[2]) \o phase

AroundTwoX(z, m, x) ==
  LET u(par) == <<Turned("NONE", m, par)>>
  IN  u(<<0, (z[4] - z[2]) \div 2, 0>>) \o x
        \o u(<<-(z[3] \div 2), 0, -((z[4] + z[2]) \div 2)>>) \o x
        \o u(<<z[3] \div 2, z[2], 0>>) \o mcdecompose_z(z[1], [i \in 1..m |-> i - 1], m)

\* ctrl says which value each control needs.
mcdecompose_u(U, ctrl) ==
  LET m == Len(ctrl)
      flips == FlattenSeq([i \in 1..m |-> IF ctrl[i] THEN <<>> ELSE <<Single("X", i - 1)>>])
      inner(x) == CASE m <= MaxGray -> AlongGrayCode(ZYDecompose(U), m)
                    [] U = PauliX   -> x
                    [] OTHER        -> AroundTwoX(ZYDecompose(U), m, x)
  IN  flips \o inner(mcdecompose_x([i \in 1..(m + 1) |-> i - 1])) \o flips
=============================================================================
