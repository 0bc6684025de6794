---------------------------- MODULE GateAlgebra ----------------------------
(***************************************************************************)
(* What a gate does to a vector of amplitudes, in exact arithmetic.        *)
(*                                                                         *)
(* The amplitudes the passes of lib/passes meet are sums of products of    *)
(* roots of unity and of 1/sqrt(2).  They are kept in the field of P       *)
(* elements, where Zeta is a root of unity of order 1024: Zeta^512 = -1,   *)
(* Zeta^256 is the imaginary unit and Zeta^64 + Zeta^-64 is sqrt(2).  Two  *)
(* circuits that are equal over the complex numbers are equal here; two    *)
(* that are not are told apart by the vector the passes are tried on.      *)
(*                                                                         *)
(* An angle is an integer, Turn of them to a full turn, so that            *)
(* exp(i*theta/2) is Zeta^theta.  A vector over n wires is a sequence of   *)
(* 2^n amplitudes; wire w is bit w-1 of an index (counted from 0).         *)
(***************************************************************************)
EXTENDS Integers, Sequences, SequencesExt, FiniteSetsExt

P    == 40961
Zeta == 8091
Turn == 512
Half == 20481                          \* 1/2
Root == 17373                          \* 1/sqrt(2)
Imag == 14541                          \* the imaginary unit

Plus(a, b)  == (a + b) % P
Times(a, b) == (a * b) % P
Minus(a)    == (P - a) % P

\* Zeta^0, Zeta^1, ...: each doubling appends the powers so far times the next one.
ZetaPowers ==
  FoldLeft(LAMBDA acc, i :
             acc \o [k \in 1..Len(acc) |-> Times(Times(acc[Len(acc)], Zeta), acc[k])],
           <<1>>, [i \in 1..10 |-> i])

\* exp(i*theta/2)
HalfTurn(theta) == ZetaPowers[(theta % (2 * Turn)) + 1]
\* exp(i*theta)
Phase(theta) == HalfTurn(2 * theta)
Cosine(theta) == Times(Half, Plus(HalfTurn(theta), HalfTurn(-theta)))  \* of theta/2
Sine(theta)   == Times(Times(Half, Minus(Imag)),
                       Plus(HalfTurn(theta), Minus(HalfTurn(-theta)))) \* of theta/2

---------------------------------------------------------------------------
\* Matrices, as functions of the row and then of the column, from 0.

Matrix2(a, b, c, d) == (0 :> (0 :> a @@ 1 :> b) @@ 1 :> (0 :> c @@ 1 :> d))

Rz(theta) == Matrix2(HalfTurn(-theta), 0, 0, HalfTurn(theta))
Ry(theta) == Matrix2(Cosine(theta), Minus(Sine(theta)), Sine(theta), Cosine(theta))
Rx(theta) == Matrix2(Cosine(theta), Minus(Times(Imag, Sine(theta))),
                     Minus(Times(Imag, Sine(theta))), Cosine(theta))
\* The U3 of the simulator and of the removal of trivial gates: Rz(phi)Ry(theta)Rz(lambda).
U3(theta, phi, lambda) ==
  Matrix2(Times(HalfTurn(-phi - lambda), Cosine(theta)),
          Minus(Times(HalfTurn(lambda - phi), Sine(theta))),
          Times(HalfTurn(phi - lambda), Sine(theta)),
          Times(HalfTurn(phi + lambda), Cosine(theta)))

Size(M) == Cardinality(DOMAIN M)

Dot(row, col, dom) ==
  MapThenFoldSet(Plus, 0, LAMBDA k : Times(row[k], col[k]),
                 LAMBDA S : CHOOSE k \in S : TRUE, dom)
Scaled(s, M) == [r \in DOMAIN M |-> [c \in DOMAIN M |-> Times(s, M[r][c])]]
Product(A, B) ==
  [r \in DOMAIN A |-> [c \in DOMAIN A |->
    Dot(A[r], [k \in DOMAIN A |-> B[k][c]], DOMAIN A)]]
Identity(dom) == [r \in dom |-> [c \in dom |-> IF r = c THEN 1 ELSE 0]]

\* Complex conjugation of the numbers a matrix of a gate definition is made
\* of: zero, and one and 1/sqrt(2) times an eighth root of unity.
Conjugates ==
  LET eighths == {64 * k : k \in 0..15}
  IN  [x \in {0} \cup {HalfTurn(e) : e \in eighths}
                 \cup {Times(Root, HalfTurn(e)) : e \in eighths} |->
         IF x = 0 THEN 0
         ELSE IF \E e \in eighths : x = HalfTurn(e)
         THEN HalfTurn(-(CHOOSE e \in eighths : x = HalfTurn(e)))
         ELSE Times(Root, HalfTurn(-(CHOOSE e \in eighths : x = Times(Root, HalfTurn(e)))))]
Dagger(M) == [r \in DOMAIN M |-> [c \in DOMAIN M |-> Conjugates[M[c][r]]]]
\* The inverse of a rotation, whose determinant is 1.
RotationInverse(M) == Matrix2(M[1][1], Minus(M[0][1]), Minus(M[1][0]), M[0][0])

---------------------------------------------------------------------------
\* A gate at work: base says which matrix acts, or that the gate is a number.

Bit(x, w) == (x \div 2^(w - 1)) % 2
Holds(x, ctl) == \A c \in ctl : Bit(x, c[1]) = c[2]

\* TLC computes a function lazily; a sequence is computed once.
Computed(v) == SubSeq(v, 1, Len(v))

ActScalar(s, ctl, v) ==
  Computed([j \in 1..Len(v) |-> IF Holds(j - 1, ctl) THEN Times(s, v[j]) ELSE v[j]])

ActOne(M, ctl, t, v) ==
  LET p == 2^(t - 1)
  IN  Computed([j \in 1..Len(v) |->
        IF ~Holds(j - 1, ctl) THEN v[j]
        ELSE IF Bit(j - 1, t) = 0
        THEN Plus(Times(M[0][0], v[j]), Times(M[0][1], v[j + p]))
        ELSE Plus(Times(M[1][0], v[j - p]), Times(M[1][1], v[j]))])

\* The index of a basis state of the wires qs, the first the most significant.
IndexOn(x, qs) == FoldLeft(LAMBDA acc, w : 2 * acc + Bit(x, w), 0, qs)
WithIndex(x, qs, k) ==
  FoldLeft(LAMBDA acc, i : acc + (Bit(k, Len(qs) - i + 1) - Bit(x, qs[i])) * 2^(qs[i] - 1),
           x, [i \in 1..Len(qs) |-> i])

ActMatrix(M, ctl, qs, v) ==
  Computed([j \in 1..Len(v) |->
    IF ~Holds(j - 1, ctl) THEN v[j]
    ELSE LET row == M[IndexOn(j - 1, qs)]
             cols == {k \in DOMAIN row : row[k] # 0}
         IN  Dot(row, [k \in cols |-> v[WithIndex(j - 1, qs, k) + 1]], cols)])

ActTwo(M, ctl, a, b, v) ==
  LET p == 2^(a - 1)
      q == 2^(b - 1)
  IN  Computed([j \in 1..Len(v) |->
        IF ~Holds(j - 1, ctl) THEN v[j]
        ELSE LET row == M[2 * Bit(j - 1, a) + Bit(j - 1, b)]
                 base == j - p * Bit(j - 1, a) - q * Bit(j - 1, b)
             IN  Plus(Plus(Times(row[0], v[base]), Times(row[1], v[base + q])),
                      Plus(Times(row[2], v[base + p]), Times(row[3], v[base + p + q])))])

Act(M, ctl, qs, v) ==
  CASE Len(qs) = 1 -> ActOne(M, ctl, qs[1], v)
    [] Len(qs) = 2 -> ActTwo(M, ctl, qs[1], qs[2], v)
    [] OTHER       -> ActMatrix(M, ctl, qs, v)

\* A vector with no symmetry of its own.
Probe(n) ==
  LET entry(j) == LET y == (7919 * j + 12345) % P IN Times(Times(y, y), Times(y, y))
  IN  Computed([j \in 1..(2^n) |-> entry(j)])

Proportional(v, w) ==
  \E j \in 1..Len(v) :
     /\ w[j] # 0 /\ v[j] # 0
     /\ \A k \in 1..Len(v) : Times(v[j], w[k]) = Times(v[k], w[j])
=============================================================================
