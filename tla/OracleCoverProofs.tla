------------------------- MODULE OracleCoverProofs --------------------------
(***************************************************************************)
(* The optimisation of a cover keeps the table of the oracle, for every    *)
(* number of inputs, every table, every cover the code may start from and  *)
(* every choice of disjoint near pairs (QM::optimize, QM::optimizeLayer);  *)
(* and the loops of QM.cpp do choose such a cover and such pairs, whatever *)
(* their random picks are.                                                 *)
(*                                                                         *)
(* A pair and what it becomes cover every input the same number of times   *)
(* modulo 2.  Taking cubes out of a set or toggling them is a symmetric    *)
(* difference, under which these parities add up, so that the argument is  *)
(* an induction over the chosen pairs.  For the choices: every node of     *)
(* merge stands for exactly the inputs that lie in its cube, all of them   *)
(* still uncovered, and the chosen nodes have no input in common.          *)
(***************************************************************************)
EXTENDS Esop, SetInduction

----------------------------------------------------------------------------
(* The inputs. *)

\* Powers of two up to the m-th.
PowersUpTo(P, m) ==
  /\ P \in [0..m -> Nat \ {0}]
  /\ \A k \in 0..m : P[k] = IF k = 0 THEN 1 ELSE 2 * P[k - 1]

LEMMA PowersExist == \A m \in Nat : \E P : PowersUpTo(P, m)
<1> DEFINE S == {m \in Nat : \E P : PowersUpTo(P, m)}
<1>1. 0 \in S
  <2>1. PowersUpTo([k \in 0..0 |-> 1], 0)
    BY DEF PowersUpTo
  <2>2. QED
    BY <2>1
<1>2. ASSUME NEW m \in S PROVE m + 1 \in S
  <2>1. PICK P : PowersUpTo(P, m)
    OBVIOUS
  <2> DEFINE Q == [k \in 0..(m + 1) |-> IF k = m + 1 THEN 2 * P[m] ELSE P[k]]
  <2>2. P[m] \in Nat \ {0}
    BY <2>1 DEF PowersUpTo
  <2>3. Q \in [0..(m + 1) -> Nat \ {0}]
    BY <2>1, <2>2 DEF PowersUpTo
  <2>4. ASSUME NEW k \in 0..(m + 1) PROVE Q[k] = IF k = 0 THEN 1 ELSE 2 * Q[k - 1]
    <3>1. CASE k = m + 1
      BY <2>2, <3>1
    <3>2. CASE k # m + 1
      <4>1. k \in 0..m /\ (k # 0 => k - 1 \in 0..m)
        BY <3>2
      <4>2. Q[k] = P[k] /\ (k # 0 => Q[k - 1] = P[k - 1])
        BY <3>2, <4>1
      <4>3. QED
        BY <2>1, <4>1, <4>2 DEF PowersUpTo
    <3>3. QED
      BY <3>1, <3>2
  <2> HIDE DEF Q
  <2>5. PowersUpTo(Q, m + 1)
    BY <2>3, <2>4 DEF PowersUpTo
  <2>6. QED
    BY <2>5
<1>3. S = Nat
  <2>1. S \in SUBSET Nat
    OBVIOUS
  <2> HIDE DEF S
  <2>2. QED
    BY <1>1, <1>2, <2>1, SetNatInduction
<1>4. QED
  BY <1>3

LEMMA PowersAgree ==
  ASSUME NEW m \in Nat, NEW l \in Nat, NEW P, NEW Q, PowersUpTo(P, m), PowersUpTo(Q, l), m <= l
  PROVE  P[m] = Q[m]
<1> DEFINE S == {k \in Nat : k <= m => P[k] = Q[k]}
<1>1. 0 \in S
  BY DEF PowersUpTo
<1>2. ASSUME NEW k \in S PROVE k + 1 \in S
  <2>1. SUFFICES ASSUME k + 1 <= m PROVE P[k + 1] = Q[k + 1]
    OBVIOUS
  <2>2. P[k] = Q[k]
    BY <2>1
  <2>3. k + 1 \in 0..m /\ k + 1 \in 0..l /\ k + 1 # 0 /\ (k + 1) - 1 = k
    BY <2>1
  <2>4. P[k + 1] = 2 * P[k] /\ Q[k + 1] = 2 * Q[k]
    BY <2>3 DEF PowersUpTo
  <2>5. QED
    BY <2>2, <2>4
<1>3. S = Nat
  <2>1. S \in SUBSET Nat
    OBVIOUS
  <2> HIDE DEF S
  <2>2. QED
    BY <1>1, <1>2, <2>1, SetNatInduction
<1>4. m \in S
  BY <1>3
<1>5. QED
  BY <1>4

LEMMA TwoFacts ==
  /\ \A k \in Nat : Two[k] \in Nat \ {0}
  /\ Two[0] = 1
  /\ \A k \in Nat : Two[k + 1] = 2 * Two[k]
<1> DEFINE Chosen(m) == CHOOSE P : PowersUpTo(P, m)
           F == [k \in Nat |-> Chosen(k)[k]]
           Body(f) == [k \in Nat |-> IF k = 0 THEN 1 ELSE 2 * f[k - 1]]
<1>1. \A m \in Nat : PowersUpTo(Chosen(m), m)
  BY PowersExist
<1> HIDE DEF Chosen
<1>2. ASSUME NEW k \in Nat
      PROVE  F[k] \in Nat \ {0} /\ F[k] = Body(F)[k]
  <2>1. PowersUpTo(Chosen(k), k)
    BY <1>1
  <2>2. CASE k = 0
    BY <2>1, <2>2 DEF PowersUpTo
  <2>3. CASE k # 0
    <3>1. k - 1 \in Nat /\ PowersUpTo(Chosen(k - 1), k - 1)
      BY <1>1, <2>3
    <3>2. Chosen(k - 1)[k - 1] = Chosen(k)[k - 1]
      BY <2>1, <3>1, PowersAgree
    <3>3. Chosen(k)[k] = 2 * Chosen(k)[k - 1] /\ Chosen(k)[k] \in Nat \ {0}
      BY <2>1, <2>3 DEF PowersUpTo
    <3>4. QED
      BY <2>3, <3>1, <3>2, <3>3
  <2>4. QED
    BY <2>2, <2>3
<1>3. F = Body(F)
  BY <1>2
<1>4. Two = CHOOSE f : f = Body(f)
  BY DEF Two
<1> HIDE DEF F
<1>5. Two = Body(Two)
  <2> HIDE DEF Body
  <2>1. QED
    BY <1>3, <1>4
<1>6. /\ Two[0] = 1
      /\ \A k \in Nat : Two[k + 1] = 2 * Two[k]
  <2>1. \A k \in Nat : Two[k] = IF k = 0 THEN 1 ELSE 2 * Two[k - 1]
    BY <1>5
  <2>2. ASSUME NEW k \in Nat PROVE Two[k + 1] = 2 * Two[k]
    <3>1. k + 1 \in Nat /\ k + 1 # 0 /\ (k + 1) - 1 = k
      OBVIOUS
    <3>2. QED
      BY <2>1, <3>1
  <2>3. QED
    BY <2>1, <2>2
<1>7. \A k \in Nat : Two[k] \in Nat \ {0}
  <2> DEFINE S == {k \in Nat : Two[k] \in Nat \ {0}}
  <2>1. 0 \in S
    BY <1>6
  <2>2. ASSUME NEW k \in S PROVE k + 1 \in S
    BY <1>6
  <2>3. S \in SUBSET Nat
    OBVIOUS
  <2>4. S = Nat
    <3> HIDE DEF S
    <3>1. QED
      BY <2>1, <2>2, <2>3, SetNatInduction
  <2>5. QED
    BY <2>4
<1>8. QED
  BY <1>6, <1>7

\* Half of a quotient is the quotient by the double.
LEMMA HalfQuotient ==
  ASSUME NEW x \in Nat, NEW p \in Nat \ {0}
  PROVE  /\ x \div p \in Nat
         /\ (x \div p) \div 2 = x \div (2 * p)
<1> DEFINE q == x \div p
           h == q \div 2
<1>1. q \in Nat /\ p * q <= x /\ x < p * (q + 1)
  OBVIOUS
<1>2. h \in Nat /\ 2 * h <= q /\ q < 2 * h + 2
  BY <1>1
<1> HIDE DEF q
<1>3. p * (2 * h) <= p * q /\ p * (q + 1) <= p * (2 * h + 2)
  <2> HIDE DEF h
  <2>1. \A a, b \in Nat : a <= b => p * a <= p * b
    OBVIOUS
  <2>2. q + 1 <= 2 * h + 2
    BY <1>1, <1>2
  <2>3. QED
    BY <1>1, <1>2, <2>1, <2>2
<1>4. (2 * p) * h = p * (2 * h) /\ (2 * p) * (h + 1) = p * (2 * h + 2)
  <2> HIDE DEF h
  <2>1. QED
    BY <1>2
<1> HIDE DEF h
<1>5. (2 * p) * h <= x /\ x < (2 * p) * (h + 1)
  <2>1. p * (2 * h) \in Nat /\ p * q \in Nat /\ p * (q + 1) \in Nat /\ p * (2 * h + 2) \in Nat
    BY <1>1, <1>2
  <2>2. QED
    BY <1>1, <1>3, <1>4, <2>1
<1>6. ASSUME NEW d \in Nat \ {0}, NEW k \in Nat, d * k <= x, x < d * (k + 1)
      PROVE  x \div d = k
  <2> DEFINE e == x \div d
  <2>1. e \in Nat /\ d * e <= x /\ x < d * (e + 1)
    OBVIOUS
  <2> HIDE DEF e
  <2>2. \A a, b \in Nat : a < b => d * (a + 1) <= d * b
    OBVIOUS
  <2>3. d * e \in Nat /\ d * k \in Nat /\ d * (e + 1) \in Nat /\ d * (k + 1) \in Nat
    BY <2>1
  <2>4. ~(e < k) /\ ~(k < e)
    BY <1>6, <2>1, <2>2, <2>3
  <2>5. QED
    BY <2>1, <2>4 DEF e
<1>7. x \div (2 * p) = h
  <2>1. 2 * p \in Nat \ {0}
    OBVIOUS
  <2>2. QED
    BY <1>2, <1>5, <1>6, <2>1
<1>8. QED
  BY <1>1, <1>7 DEF q, h

\* An input is known by its bits.
LEMMA BitsTellInputs ==
  ASSUME NEW n \in Nat, NEW x \in InputsOf(n), NEW y \in InputsOf(n),
         \A i \in 1..n : InputBit(x, i, n) = InputBit(y, i, n)
  PROVE  x = y
<1> DEFINE S == {j \in Nat : j <= n => x \div Two[n - j] = y \div Two[n - j]}
<1>1. x \in Nat /\ y \in Nat /\ x < Two[n] /\ y < Two[n] /\ Two[n] \in Nat \ {0}
  BY TwoFacts DEF InputsOf
<1>2. 0 \in S
  <2>1. \A a, b \in Nat : a < b => a \div b = 0
    OBVIOUS
  <2>2. x \div Two[n] = 0 /\ y \div Two[n] = 0
    BY <1>1, <2>1
  <2>3. n - 0 = n
    OBVIOUS
  <2>4. QED
    BY <2>2, <2>3
<1>3. ASSUME NEW j \in S PROVE j + 1 \in S
  <2>1. SUFFICES ASSUME j + 1 <= n PROVE x \div Two[n - (j + 1)] = y \div Two[n - (j + 1)]
    OBVIOUS
  <2> DEFINE k == n - (j + 1)
  <2>2. k \in Nat /\ n - j = k + 1 /\ j + 1 \in 1..n
    BY <2>1
  <2>3. x \div Two[k + 1] = y \div Two[k + 1]
    BY <2>1, <2>2
  <2>4. Two[k] \in Nat \ {0} /\ Two[k + 1] = 2 * Two[k]
    BY <2>2, TwoFacts
  <2> DEFINE u == x \div Two[k]
             v == y \div Two[k]
  <2>5. u \in Nat /\ v \in Nat /\ u \div 2 = v \div 2
    <3> DEFINE p == Two[k]
    <3>1. p \in Nat \ {0} /\ x \div (2 * p) = y \div (2 * p)
      BY <2>3, <2>4
    <3> HIDE DEF p
    <3>2. /\ x \div p \in Nat /\ (x \div p) \div 2 = x \div (2 * p)
          /\ y \div p \in Nat /\ (y \div p) \div 2 = y \div (2 * p)
      BY <1>1, <3>1, HalfQuotient
    <3>3. QED
      BY <3>1, <3>2 DEF p
  <2>6. InputBit(x, j + 1, n) = InputBit(y, j + 1, n)
    BY <2>2
  <2>7. (u % 2 = 1) = (v % 2 = 1)
    BY <2>6 DEF InputBit
  <2> HIDE DEF u, v
  <2>8. u = v
    BY <2>5, <2>7
  <2>9. QED
    BY <2>8 DEF u, v
<1>4. S = Nat
  <2>1. S \in SUBSET Nat
    OBVIOUS
  <2> HIDE DEF S
  <2>2. QED
    BY <1>2, <1>3, <2>1, SetNatInduction
<1>5. x \div Two[n - n] = y \div Two[n - n]
  <2>1. n \in S
    BY <1>4
  <2>2. QED
    BY <2>1
<1>6. Two[n - n] = 1
  BY TwoFacts
<1>7. x \div 1 = x /\ y \div 1 = y
  BY <1>1
<1>8. QED
  BY <1>5, <1>6, <1>7

----------------------------------------------------------------------------
(* Parities. *)

Differ(S, T) == (S \ T) \cup (T \ S)

LEMMA OddDiffer ==
  ASSUME NEW A, IsFiniteSet(A), NEW B, IsFiniteSet(B)
  PROVE  /\ IsFiniteSet(Differ(A, B))
         /\ Cardinality(Differ(A, B)) <= Cardinality(A) + Cardinality(B)
         /\ Odd(Differ(A, B)) = (Odd(A) # Odd(B))
<1> DEFINE a == Cardinality(A)
           b == Cardinality(B)
           both == Cardinality(A \cap B)
<1>1. /\ IsFiniteSet(A \ B) /\ Cardinality(A \ B) = a - both
      /\ IsFiniteSet(B \ A) /\ Cardinality(B \ A) = b - Cardinality(B \cap A)
  BY FS_Difference
<1>2. Cardinality(B \cap A) = both
  <2>1. B \cap A = A \cap B
    OBVIOUS
  <2>2. QED
    BY <2>1
<1>3. IsFiniteSet(A \cap B)
  BY FS_Intersection
<1>4. a \in Nat /\ b \in Nat /\ both \in Nat
  BY <1>3, FS_CardinalityType
<1>5. (A \ B) \cap (B \ A) = {}
  OBVIOUS
<1>6. /\ IsFiniteSet(Differ(A, B))
      /\ Cardinality(Differ(A, B)) = Cardinality(A \ B) + Cardinality(B \ A) - Cardinality({})
  BY <1>1, <1>5, FS_Union DEF Differ
<1>7. Cardinality({}) = 0
  BY FS_EmptySet
<1> HIDE DEF a, b, both
<1>8. Cardinality(Differ(A, B)) = a + b - 2 * both
  BY <1>1, <1>2, <1>4, <1>6, <1>7
<1>9. Odd(A) = (a % 2 = 1) /\ Odd(B) = (b % 2 = 1)
  BY DEF a, b, Odd
<1>10. Odd(Differ(A, B)) = ((a + b - 2 * both) % 2 = 1)
  BY <1>8 DEF Odd
<1>11. ((a + b - 2 * both) % 2 = 1) = ((a % 2 = 1) # (b % 2 = 1))
  BY <1>4
<1>12. a + b - 2 * both <= a + b
  BY <1>4
<1>13. Cardinality(A) = a /\ Cardinality(B) = b
  BY DEF a, b
<1>14. QED
  BY <1>6, <1>8, <1>9, <1>10, <1>11, <1>12, <1>13

LEMMA OddOne ==
  /\ ~Odd({})
  /\ \A c : Odd({c})
<1>1. Cardinality({}) = 0 /\ \A c : Cardinality({c}) = 1
  BY FS_EmptySet, FS_Singleton
<1>2. 0 % 2 = 0 /\ 1 % 2 = 1
  OBVIOUS
<1>3. ~Odd({})
  BY <1>1, <1>2, SMT DEF Odd
<1>4. ASSUME NEW c PROVE Odd({c})
  <2>1. Cardinality({c}) = 1
    BY <1>1
  <2>2. QED
    BY <2>1, <1>2 DEF Odd
<1>5. QED
  BY <1>3, <1>4

\* Of two, an odd number: just one.
LEMMA OddOfTwo ==
  ASSUME NEW s, NEW t, s # t, NEW A \in SUBSET {s, t}
  PROVE  Odd(A) = ((s \in A) # (t \in A))
<1>1. A = {} \/ A = {s} \/ A = {t} \/ A = Differ({s}, {t})
  BY DEF Differ
<1>2. Odd(Differ({s}, {t})) = (Odd({s}) # Odd({t}))
  BY OddDiffer, FS_Singleton
<1>3. Odd({s}) /\ Odd({t}) /\ ~Odd({})
  BY OddOne
<1>4. CASE A = {}
  BY <1>3, <1>4 DEF Odd
<1>5. CASE A = {s}
  BY <1>3, <1>5
<1>6. CASE A = {t}
  BY <1>3, <1>6
<1>7. CASE A = Differ({s}, {t})
  <2>1. s \in A /\ t \in A
    BY <1>7 DEF Differ
  <2>2. ~Odd(A)
    BY <1>2, <1>3, <1>7
  <2>3. QED
    BY <2>1, <2>2 DEF Odd
<1>8. QED
  BY <1>1, <1>4, <1>5, <1>6, <1>7

LEMMA TwoElements ==
  /\ \A S : IsFiniteSet(S) /\ Cardinality(S) = 1 => \E x : S = {x}
  /\ \A S : IsFiniteSet(S) /\ Cardinality(S) = 2 => \E x, y : x # y /\ S = {x, y}
  /\ \A x, y : IsFiniteSet({x, y}) /\ Cardinality({x, y}) <= 2
               /\ (x # y => Cardinality({x, y}) = 2)
<1>1. ASSUME NEW S, IsFiniteSet(S), Cardinality(S) = 2
      PROVE  \E x, y : x # y /\ S = {x, y}
  <2>1. PICK x : x \in S
    BY <1>1, FS_EmptySet
  <2>2. IsFiniteSet(S \ {x}) /\ Cardinality(S \ {x}) = 1
    BY <1>1, <2>1, FS_RemoveElement
  <2>3. PICK y : S \ {x} = {y}
    BY <2>2, FS_Singleton
  <2>4. x # y /\ S = {x, y}
    BY <2>1, <2>3
  <2>5. QED
    BY <2>4
<1>2. ASSUME NEW x, NEW y
      PROVE  /\ IsFiniteSet({x, y}) /\ Cardinality({x, y}) <= 2
             /\ x # y => Cardinality({x, y}) = 2
  <2>1. IsFiniteSet({x}) /\ Cardinality({x}) = 1
    BY FS_Singleton
  <2>2. {x, y} = {x} \cup {y}
    OBVIOUS
  <2>3. /\ IsFiniteSet({x} \cup {y})
        /\ Cardinality({x} \cup {y}) = IF y \in {x} THEN 1 ELSE 1 + 1
    BY <2>1, FS_AddElement
  <2>4. QED
    BY <2>2, <2>3
<1>3. QED
  BY <1>1, <1>2, FS_Singleton

----------------------------------------------------------------------------
(* One pair of cubes. *)

LEMMA CubeFacts ==
  ASSUME NEW n \in Nat, NEW s \in CubesOf(n)
  PROVE  /\ DOMAIN s = 1..n
         /\ \A v : IsFiniteSet(Places(s, v))
         /\ Dashes(s) \in 0..n
         /\ \A t : IsFiniteSet(Differences(s, t))
<1>1. DOMAIN s = 1..n
  BY DEF CubesOf
<1>2. IsFiniteSet(1..n) /\ Cardinality(1..n) = n
  BY FS_Interval
<1>3. ASSUME NEW S \in SUBSET (1..n) PROVE IsFiniteSet(S) /\ Cardinality(S) <= n
  BY <1>2, FS_Subset
<1>4. \A v : Places(s, v) \in SUBSET (1..n)
  BY <1>1 DEF Places
<1>5. \A t : Differences(s, t) \in SUBSET (1..n)
  BY <1>1 DEF Differences
<1>6. Dashes(s) \in Nat
  BY <1>3, <1>4, FS_CardinalityType DEF Dashes
<1>7. QED
  BY <1>1, <1>3, <1>4, <1>5, <1>6 DEF Dashes

\* One dash more.
LEMMA DashedFacts ==
  ASSUME NEW n \in Nat, NEW s \in CubesOf(n), NEW i \in 1..n, s[i] # Dash
  PROVE  /\ Dashed(s, i) \in CubesOf(n)
         /\ Dashes(Dashed(s, i)) = Dashes(s) + 1
         /\ \A k \in 1..n : Dashed(s, i)[k] = IF k = i THEN Dash ELSE s[k]
<1>1. \A k \in 1..n : Dashed(s, i)[k] = IF k = i THEN Dash ELSE s[k]
  BY DEF CubesOf, Dashed
<1>2. Dashed(s, i) \in CubesOf(n)
  BY DEF CubesOf, Dashed
<1>3. Places(Dashed(s, i), Dash) = Places(s, Dash) \cup {i}
  BY <1>1, <1>2, CubeFacts DEF Places
<1>4. i \notin Places(s, Dash)
  BY DEF Places
<1>5. Cardinality(Places(s, Dash) \cup {i}) = Cardinality(Places(s, Dash)) + 1
  BY <1>4, CubeFacts, FS_AddElement
<1>6. QED
  BY <1>1, <1>2, <1>3, <1>5 DEF Dashes

\* Where two cubes of as many dashes differ in one place only, none has a dash.
LEMMA OneDifference ==
  ASSUME NEW n \in Nat, NEW s \in CubesOf(n), NEW t \in CubesOf(n), Dashes(s) = Dashes(t),
         NEW k \in 1..n, Differences(s, t) = {k}
  PROVE  s[k] # t[k] /\ s[k] # Dash /\ t[k] # Dash
<1>1. s[k] # t[k] /\ \A i \in 1..n : i # k => s[i] = t[i]
  BY CubeFacts DEF Differences
<1>2. ASSUME NEW u \in CubesOf(n), NEW v \in CubesOf(n), u[k] = Dash, v[k] # Dash,
             \A i \in 1..n : i # k => u[i] = v[i]
      PROVE  Dashes(u) = Dashes(v) + 1
  <2>1. Places(u, Dash) = Places(v, Dash) \cup {k} /\ k \notin Places(v, Dash)
    BY <1>2, CubeFacts DEF Places
  <2>2. QED
    BY <2>1, CubeFacts, FS_AddElement DEF Dashes
<1>3. s[k] # Dash
  BY <1>1, <1>2, CubeFacts
<1>4. t[k] # Dash
  BY <1>1, <1>2, CubeFacts
<1>5. QED
  BY <1>1, <1>3, <1>4

\* Off the places in D.
Agrees(x, c, n, D) == \A i \in (1..n) \ D : c[i] = Dash \/ c[i] = InputBit(x, i, n)

LEMMA OneBitParity ==
  ASSUME NEW n \in Nat, NEW s \in CubesOf(n), NEW t \in CubesOf(n), Dashes(s) = Dashes(t),
         oneBitDif(s, t), NEW x
  PROVE  /\ oneBitUnion(s, t) \in CubesOf(n)
         /\ Dashes(oneBitUnion(s, t)) = Dashes(s) + 1
         /\ Lies(x, oneBitUnion(s, t), n) = (Lies(x, s, n) # Lies(x, t, n))
<1>1. PICK k : Differences(s, t) = {k}
  BY CubeFacts, TwoElements DEF oneBitDif
<1>2. k \in 1..n
  BY <1>1, CubeFacts DEF Differences
<1>3. s[k] # t[k] /\ s[k] # Dash /\ t[k] # Dash
  BY <1>1, <1>2, OneDifference
<1>4. \A i \in 1..n : i # k => s[i] = t[i]
  BY <1>1, CubeFacts DEF Differences
<1>5. oneBitUnion(s, t) = Dashed(s, k)
  BY <1>2, <1>3, <1>4 DEF oneBitUnion, Dashed, CubesOf
<1>6. /\ Dashed(s, k) \in CubesOf(n)
      /\ Dashes(Dashed(s, k)) = Dashes(s) + 1
      /\ \A i \in 1..n : Dashed(s, k)[i] = IF i = k THEN Dash ELSE s[i]
  BY <1>2, <1>3, DashedFacts
<1>7. Lies(x, Dashed(s, k), n) = Agrees(x, s, n, {k})
  BY <1>2, <1>6 DEF Lies, Agrees
<1>8. Lies(x, s, n) = (Agrees(x, s, n, {k}) /\ s[k] = InputBit(x, k, n))
  BY <1>2, <1>3 DEF Lies, Agrees
<1>9. Lies(x, t, n) = (Agrees(x, s, n, {k}) /\ t[k] = InputBit(x, k, n))
  BY <1>2, <1>3, <1>4 DEF Lies, Agrees
<1>10. s[k] \in {0, 1} /\ t[k] \in {0, 1} /\ InputBit(x, k, n) \in {0, 1}
  BY <1>2, <1>3 DEF CubesOf, InputBit
<1>11. (t[k] = InputBit(x, k, n)) = (s[k] # InputBit(x, k, n))
  BY <1>3, <1>10
<1>12. Agrees(x, s, n, {k}) \in BOOLEAN
  BY DEF Agrees
<1>13. Lies(x, Dashed(s, k), n) = (Lies(x, s, n) # Lies(x, t, n))
  BY <1>7, <1>8, <1>9, <1>11, <1>12
<1>14. QED
  BY <1>5, <1>6, <1>13

LEMMA TwoBitParity ==
  ASSUME NEW n \in Nat, NEW s \in CubesOf(n), NEW t \in CubesOf(n),
         twoBitDif(s, t), NEW u \in twoBitUnion(s, t), NEW x
  PROVE  \E a, b \in CubesOf(n) :
           /\ u = {a, b} /\ a # b
           /\ Dashes(a) = Dashes(s) + 1 /\ Dashes(b) = Dashes(t) + 1
           /\ (Lies(x, a, n) # Lies(x, b, n)) = (Lies(x, s, n) # Lies(x, t, n))
<1>1. PICK d \in Differences(s, t) \X Differences(s, t) :
        d[1] # d[2] /\ u = {Dashed(s, d[1]), Dashed(t, d[2])}
  BY DEF twoBitUnion
<1>2. PICK i, j : i = d[1] /\ j = d[2]
  OBVIOUS
<1>3. i # j /\ i \in Differences(s, t) /\ j \in Differences(s, t) /\ u = {Dashed(s, i), Dashed(t, j)}
  BY <1>1, <1>2
<1>4. Differences(s, t) = {i, j}
  <2> DEFINE D == Differences(s, t)
  <2>1. IsFiniteSet(D) /\ Cardinality(D) = 2
    BY CubeFacts DEF twoBitDif
  <2> HIDE DEF D
  <2>2. PICK p, q : D = {p, q}
    BY <2>1, TwoElements
  <2>3. QED
    BY <1>3, <2>2 DEF D
<1>5. i \in 1..n /\ j \in 1..n /\ s[i] # t[i] /\ s[j] # t[j]
  BY <1>3, CubeFacts DEF Differences
<1>6. Places(s, Dash) = Places(t, Dash)
  BY DEF twoBitDif
<1>7. s[i] # Dash /\ t[i] # Dash /\ s[j] # Dash /\ t[j] # Dash
  BY <1>5, <1>6, CubeFacts DEF Places
<1>8. /\ Dashed(s, i) \in CubesOf(n) /\ Dashed(t, j) \in CubesOf(n)
      /\ Dashes(Dashed(s, i)) = Dashes(s) + 1 /\ Dashes(Dashed(t, j)) = Dashes(t) + 1
      /\ \A k \in 1..n : Dashed(s, i)[k] = IF k = i THEN Dash ELSE s[k]
      /\ \A k \in 1..n : Dashed(t, j)[k] = IF k = j THEN Dash ELSE t[k]
  BY <1>5, <1>7, DashedFacts
<1>9. Dashed(s, i) # Dashed(t, j)
  BY <1>3, <1>5, <1>7, <1>8
<1>10. \A k \in (1..n) \ {i, j} : s[k] = t[k]
  BY <1>4, CubeFacts DEF Differences
<1> DEFINE R == Agrees(x, s, n, {i, j})
<1>11. Agrees(x, t, n, {i, j}) = R
  BY <1>10 DEF Agrees
<1>12. Lies(x, s, n) = (R /\ s[i] = InputBit(x, i, n) /\ s[j] = InputBit(x, j, n))
  BY <1>5, <1>7 DEF Lies, Agrees
<1>13. Lies(x, t, n) = (R /\ t[i] = InputBit(x, i, n) /\ t[j] = InputBit(x, j, n))
  BY <1>5, <1>7, <1>10 DEF Lies, Agrees
<1>14. Lies(x, Dashed(s, i), n) = (R /\ s[j] = InputBit(x, j, n))
  BY ZenonT(40), <1>3, <1>5, <1>7, <1>8 DEF Lies, Agrees
<1>15. Lies(x, Dashed(t, j), n) = (R /\ t[i] = InputBit(x, i, n))
  BY ZenonT(40), <1>3, <1>5, <1>7, <1>8, <1>10 DEF Lies, Agrees
<1>16. /\ s[i] \in {0, 1} /\ t[i] \in {0, 1} /\ InputBit(x, i, n) \in {0, 1}
       /\ s[j] \in {0, 1} /\ t[j] \in {0, 1} /\ InputBit(x, j, n) \in {0, 1}
  BY <1>5, <1>7 DEF CubesOf, InputBit
<1> HIDE DEF R
<1>17. /\ (t[i] = InputBit(x, i, n)) = (s[i] # InputBit(x, i, n))
       /\ (t[j] = InputBit(x, j, n)) = (s[j] # InputBit(x, j, n))
  BY <1>5, <1>16
<1>18. R \in BOOLEAN
  BY DEF R, Agrees
<1>19. (Lies(x, Dashed(s, i), n) # Lies(x, Dashed(t, j), n)) = (Lies(x, s, n) # Lies(x, t, n))
  BY <1>12, <1>13, <1>14, <1>15, <1>17, <1>18
<1>20. QED
  BY <1>3, <1>8, <1>9, <1>19

----------------------------------------------------------------------------
(* Pair by pair. *)

LayerOf(n, i) == {c \in CubesOf(n) : Dashes(c) = i}

LEMMA LyingInTwo ==
  ASSUME NEW n, NEW x, NEW a, NEW b, a # b
  PROVE  Odd(Covering(x, {a, b}, n)) = (Lies(x, a, n) # Lies(x, b, n))
<1> DEFINE A == Covering(x, {a, b}, n)
<1>1. A \in SUBSET {a, b} /\ (a \in A <=> Lies(x, a, n)) /\ (b \in A <=> Lies(x, b, n))
  BY DEF Covering
<1>2. Lies(x, a, n) \in BOOLEAN /\ Lies(x, b, n) \in BOOLEAN
  BY DEF Lies
<1> HIDE DEF A
<1>3. Odd(A) = ((a \in A) # (b \in A))
  BY <1>1, OddOfTwo
<1>4. Odd(A) = (Lies(x, a, n) # Lies(x, b, n))
  BY <1>1, <1>2, <1>3
<1>5. QED
  BY <1>4 DEF A

LEMMA LyingInOne ==
  ASSUME NEW n, NEW x, NEW a
  PROVE  Odd(Covering(x, {a}, n)) = Lies(x, a, n)
<1>0. Lies(x, a, n) \in BOOLEAN /\ ~Odd({}) /\ Odd({a}) /\ Odd({}) \in BOOLEAN /\ Odd({a}) \in BOOLEAN
  BY OddOne DEF Lies, Odd
<1>1. CASE Lies(x, a, n)
  <2>1. Covering(x, {a}, n) = {a}
    BY <1>1 DEF Covering
  <2>2. QED
    BY <1>0, <1>1, <2>1
<1>2. CASE ~Lies(x, a, n)
  <2>1. Covering(x, {a}, n) = {}
    BY <1>2 DEF Covering
  <2>2. QED
    BY <1>0, <1>2, <2>1
<1>3. QED
  BY <1>0, <1>1, <1>2

LEMMA CoveringDiffer ==
  ASSUME NEW n, NEW x, NEW A, IsFiniteSet(A), NEW B, IsFiniteSet(B)
  PROVE  Odd(Covering(x, Differ(A, B), n)) <=> ~(Odd(Covering(x, A, n)) <=> Odd(Covering(x, B, n)))
<1>1. Covering(x, Differ(A, B), n) = Differ(Covering(x, A, n), Covering(x, B, n))
  BY DEF Covering, Differ
<1>2. Covering(x, A, n) \in SUBSET A /\ Covering(x, B, n) \in SUBSET B
  BY DEF Covering
<1>3. IsFiniteSet(Covering(x, A, n)) /\ IsFiniteSet(Covering(x, B, n))
  BY <1>2, FS_Subset
<1>4. Odd(Differ(Covering(x, A, n), Covering(x, B, n))) = (Odd(Covering(x, A, n)) # Odd(Covering(x, B, n)))
  BY <1>3, OddDiffer
<1>5. QED
  BY <1>1, <1>4 DEF Odd

LEMMA OnePair ==
  ASSUME NEW n \in Nat, NEW i, NEW layer \in SUBSET LayerOf(n, i),
         NEW chosen, IsMerge(layer, chosen), NEW p \in DOMAIN chosen
  PROVE  /\ p \in SUBSET layer /\ IsFiniteSet(p) /\ Cardinality(p) = 2
         /\ chosen[p] \in SUBSET LayerOf(n, i + 1)
         /\ IsFiniteSet(chosen[p]) /\ Cardinality(chosen[p]) <= 2
         /\ \A x : Odd(Covering(x, chosen[p], n)) <=> Odd(Covering(x, p, n))
<1>1. PICK s, t \in layer : p = {s, t} /\ Near(s, t) /\ chosen[p] \in Unions(s, t)
  BY DEF IsMerge
<1>2. s \in CubesOf(n) /\ t \in CubesOf(n) /\ Dashes(s) = i /\ Dashes(t) = i
  BY DEF LayerOf
<1>3. s # t
  <2>1. SUFFICES ASSUME s = t PROVE FALSE
    OBVIOUS
  <2>2. Differences(s, t) = {}
    BY <2>1 DEF Differences
  <2>3. QED
    BY <1>1, <2>2, FS_EmptySet DEF Near, oneBitDif, twoBitDif
<1>4. p \in SUBSET layer /\ IsFiniteSet(p) /\ Cardinality(p) = 2
  BY <1>1, <1>3, TwoElements
<1>5. \A x : Odd(Covering(x, p, n)) = (Lies(x, s, n) # Lies(x, t, n))
  BY <1>1, <1>3, LyingInTwo
<1>6. CASE oneBitDif(s, t)
  <2>1. PICK a : a = oneBitUnion(s, t)
    OBVIOUS
  <2>2. chosen[p] = {a}
    BY <1>1, <1>6, <2>1 DEF Unions
  <2>3. a \in LayerOf(n, i + 1)
    BY <1>2, <1>6, <2>1, OneBitParity DEF LayerOf
  <2>4. IsFiniteSet({a}) /\ Cardinality({a}) <= 2
    <3>1. IsFiniteSet({a}) /\ Cardinality({a}) = 1
      BY FS_Singleton
    <3>2. QED
      BY <3>1
  <2>5. \A x : Lies(x, a, n) = (Lies(x, s, n) # Lies(x, t, n))
    BY <1>2, <1>6, <2>1, OneBitParity
  <2>6. \A x : Odd(Covering(x, {a}, n)) = Lies(x, a, n)
    BY LyingInOne
  <2>7. QED
    BY <1>4, <1>5, <2>2, <2>3, <2>4, <2>5, <2>6
<1>7. CASE ~oneBitDif(s, t)
  <2>1. twoBitDif(s, t) /\ chosen[p] \in twoBitUnion(s, t)
    BY <1>1, <1>7 DEF Near, Unions
  <2>2. chosen[p] \in SUBSET LayerOf(n, i + 1) /\ IsFiniteSet(chosen[p]) /\ Cardinality(chosen[p]) <= 2
    <3>1. PICK a, b \in CubesOf(n) :
            chosen[p] = {a, b} /\ Dashes(a) = Dashes(s) + 1 /\ Dashes(b) = Dashes(t) + 1
      BY <1>2, <2>1, TwoBitParity
    <3>2. IsFiniteSet({a, b}) /\ Cardinality({a, b}) <= 2
      BY TwoElements
    <3>3. a \in LayerOf(n, i + 1) /\ b \in LayerOf(n, i + 1)
      BY <1>2, <3>1 DEF LayerOf
    <3>4. QED
      BY <3>1, <3>2, <3>3
  <2>3. ASSUME NEW x PROVE Odd(Covering(x, chosen[p], n)) = (Lies(x, s, n) # Lies(x, t, n))
    <3>1. PICK a, b \in CubesOf(n) :
            /\ chosen[p] = {a, b} /\ a # b
            /\ (Lies(x, a, n) # Lies(x, b, n)) = (Lies(x, s, n) # Lies(x, t, n))
      BY <1>2, <2>1, TwoBitParity
    <3>2. QED
      BY <3>1, LyingInTwo
  <2>4. QED
    BY <1>4, <1>5, <2>2, <2>3
<1>8. QED
  BY <1>6, <1>7

\* What some of the pairs take away, and what they put there instead.
Taken(Q)       == UNION Q
Made(chosen, Q) == {c \in UNION {chosen[p] : p \in Q} : Odd({p \in Q : c \in chosen[p]})}

LEMMA MadeMember ==
  ASSUME NEW chosen, NEW Q, NEW c
  PROVE  c \in Made(chosen, Q) <=> Odd({p \in Q : c \in chosen[p]})
<1> DEFINE With == {p \in Q : c \in chosen[p]}
<1>1. c \in Made(chosen, Q) <=> c \in UNION {chosen[p] : p \in Q} /\ Odd(With)
  BY DEF Made
<1>2. c \in UNION {chosen[p] : p \in Q} <=> With # {}
  OBVIOUS
<1> HIDE DEF With
<1>3. Odd(With) => With # {}
  BY OddOne
<1>4. c \in Made(chosen, Q) <=> Odd(With)
  BY <1>1, <1>2, <1>3
<1>5. QED
  BY <1>4 DEF With

LEMMA MadeStep ==
  ASSUME NEW chosen, NEW Q, IsFiniteSet(Q), NEW p, p \notin Q
  PROVE  Made(chosen, Q \cup {p}) = Differ(Made(chosen, Q), chosen[p])
<1> DEFINE With(R, c) == {q \in R : c \in chosen[q]}
<1>1. ASSUME NEW c PROVE c \in Made(chosen, Q) <=> Odd(With(Q, c))
  BY MadeMember
<1>2. ASSUME NEW c PROVE c \in Made(chosen, Q \cup {p}) <=> Odd(With(Q \cup {p}, c))
  BY MadeMember
<1>3. ASSUME NEW c PROVE Odd(With(Q \cup {p}, c)) <=> ~(Odd(With(Q, c)) <=> c \in chosen[p])
  <2>1. CASE c \in chosen[p]
    <3>1. With(Q \cup {p}, c) = Differ(With(Q, c), {p})
      BY <2>1 DEF Differ
    <3>2. IsFiniteSet(With(Q, c))
      <4>1. With(Q, c) \in SUBSET Q
        OBVIOUS
      <4>2. QED
        BY <4>1, FS_Subset
    <3>3. IsFiniteSet({p}) /\ Odd({p})
      BY FS_Singleton, OddOne
    <3> DEFINE W == With(Q, c)
    <3> HIDE DEF With
    <3>4. Odd(Differ(W, {p})) = (Odd(W) # Odd({p}))
      BY <3>2, <3>3, OddDiffer
    <3>5. QED
      BY <2>1, <3>1, <3>3, <3>4 DEF Odd
  <2>2. CASE c \notin chosen[p]
    <3>1. With(Q \cup {p}, c) = With(Q, c)
      BY <2>2
    <3> HIDE DEF With
    <3>2. QED
      BY <2>2, <3>1 DEF Odd
  <2>3. QED
    BY <2>1, <2>2
<1> HIDE DEF With
<1>4. ASSUME NEW c PROVE c \in Made(chosen, Q \cup {p}) <=> c \in Differ(Made(chosen, Q), chosen[p])
  BY <1>1, <1>2, <1>3 DEF Differ
<1>5. QED
  BY <1>4

LEMMA PairByPair ==
  ASSUME NEW n \in Nat, NEW i, NEW layer \in SUBSET LayerOf(n, i),
         NEW chosen, IsMerge(layer, chosen), IsFiniteSet(DOMAIN chosen)
  PROVE  LET N == Made(chosen, DOMAIN chosen)
             U == Taken(DOMAIN chosen)
         IN  /\ U \in SUBSET layer /\ N \in SUBSET LayerOf(n, i + 1)
             /\ IsFiniteSet(U) /\ IsFiniteSet(N)
             /\ Cardinality(N) <= Cardinality(U)
             /\ \A x : Odd(Covering(x, N, n)) <=> Odd(Covering(x, U, n))
<1>0. ASSUME NEW p \in DOMAIN chosen
      PROVE  /\ IsFiniteSet(p) /\ Cardinality(p) = 2
             /\ IsFiniteSet(chosen[p]) /\ Cardinality(chosen[p]) <= 2
             /\ \A x : Odd(Covering(x, chosen[p], n)) <=> Odd(Covering(x, p, n))
  <2>1. IsFiniteSet(p) /\ Cardinality(p) = 2
    BY OnePair
  <2>2. IsFiniteSet(chosen[p])
    BY OnePair
  <2>3. Cardinality(chosen[p]) <= 2
    BY OnePair
  <2>4. ASSUME NEW x PROVE Odd(Covering(x, chosen[p], n)) <=> Odd(Covering(x, p, n))
    BY OnePair
  <2>5. QED
    BY <2>1, <2>2, <2>3, <2>4
<1> DEFINE D == DOMAIN chosen
           Good(Q) ==
             /\ IsFiniteSet(Taken(Q)) /\ IsFiniteSet(Made(chosen, Q))
             /\ Cardinality(Made(chosen, Q)) <= Cardinality(Taken(Q))
             /\ \A x : Odd(Covering(x, Made(chosen, Q), n)) <=> Odd(Covering(x, Taken(Q), n))
           S == {k \in Nat : \A Q \in SUBSET D : Cardinality(Q) = k => Good(Q)}
<1>1. \A Q \in SUBSET D : IsFiniteSet(Q) /\ Cardinality(Q) \in Nat
  BY FS_Subset, FS_CardinalityType
<1>2. 0 \in S
  <2>1. Good({})
    BY FS_EmptySet DEF Taken, Made
  <2>2. QED
    BY <1>1, <2>1, FS_EmptySet
<1>3. ASSUME NEW k \in S PROVE k + 1 \in S
  <2>1. SUFFICES ASSUME NEW Q \in SUBSET D, Cardinality(Q) = k + 1 PROVE Good(Q)
    BY <1>3
  <2>2. k \in Nat
    BY <1>3
  <2>3. PICK p : p \in Q
    BY <2>1, <2>2, FS_EmptySet
  <2>4. PICK R : R = Q \ {p}
    OBVIOUS
  <2>5. R \in SUBSET D /\ p \in D /\ p \notin R /\ Q = R \cup {p}
    BY <2>1, <2>3, <2>4
  <2>6. IsFiniteSet(R) /\ Cardinality(R) = k
    BY <1>1, <2>1, <2>2, <2>3, <2>4, FS_RemoveElement
  <2>7. Good(R)
    BY <1>3, <2>5, <2>6
  <2>8. Made(chosen, Q) = Differ(Made(chosen, R), chosen[p])
    BY <2>5, <2>6, MadeStep
  <2>9. Taken(Q) = Taken(R) \cup p /\ Taken(R) \cap p = {}
    <3>1. \A q \in R : q \cap p = {}
      BY <2>5 DEF IsMerge
    <3>2. QED
      BY <2>5, <3>1 DEF Taken
  <2>10. Taken(Q) = Differ(Taken(R), p)
    BY <2>9 DEF Differ
  <2>11. /\ IsFiniteSet(p) /\ Cardinality(p) = 2
         /\ IsFiniteSet(chosen[p]) /\ Cardinality(chosen[p]) <= 2
         /\ \A x : Odd(Covering(x, chosen[p], n)) <=> Odd(Covering(x, p, n))
    BY <1>0, <2>5
  <2>12. /\ IsFiniteSet(Taken(Q)) /\ IsFiniteSet(Made(chosen, Q))
    BY <2>7, <2>8, <2>10, <2>11, OddDiffer
  <2>13. Cardinality(Made(chosen, Q)) <= Cardinality(Taken(Q))
    <3>1. Cardinality(Made(chosen, Q)) <= Cardinality(Made(chosen, R)) + Cardinality(chosen[p])
      BY <2>7, <2>8, <2>11, OddDiffer
    <3>2. Cardinality(Taken(Q)) = Cardinality(Taken(R)) + Cardinality(p) - Cardinality({})
      BY <2>7, <2>9, <2>11, FS_Union
    <3>3. /\ Cardinality(Made(chosen, Q)) \in Nat /\ Cardinality(Made(chosen, R)) \in Nat
          /\ Cardinality(chosen[p]) \in Nat /\ Cardinality(Taken(R)) \in Nat
      BY <2>7, <2>11, <2>12, FS_CardinalityType
    <3>4. Cardinality({}) = 0 /\ Cardinality(Made(chosen, R)) <= Cardinality(Taken(R))
      BY <2>7, FS_EmptySet
    <3>5. QED
      BY <2>11, <3>1, <3>2, <3>3, <3>4
  <2>14. ASSUME NEW x
         PROVE  Odd(Covering(x, Made(chosen, Q), n)) <=> Odd(Covering(x, Taken(Q), n))
    <3>1. Odd(Covering(x, Differ(Made(chosen, R), chosen[p]), n))
            <=> ~(Odd(Covering(x, Made(chosen, R), n)) <=> Odd(Covering(x, chosen[p], n)))
      BY <2>7, <2>11, CoveringDiffer
    <3>2. Odd(Covering(x, Differ(Taken(R), p), n))
            <=> ~(Odd(Covering(x, Taken(R), n)) <=> Odd(Covering(x, p, n)))
      BY <2>7, <2>11, CoveringDiffer
    <3>3. Odd(Covering(x, Made(chosen, R), n)) <=> Odd(Covering(x, Taken(R), n))
      BY <2>7
    <3>4. QED
      BY <2>8, <2>10, <2>11, <3>1, <3>2, <3>3
  <2>15. QED
    BY <2>12, <2>13, <2>14
<1>4. S \in SUBSET Nat
  OBVIOUS
<1>5. S = Nat
  <2> HIDE DEF S
  <2>1. QED
    BY <1>2, <1>3, <1>4, SetNatInduction
<1>6. Good(D)
  BY <1>1, <1>5
<1>7. Taken(D) \in SUBSET layer /\ Made(chosen, D) \in SUBSET LayerOf(n, i + 1)
  <2>1. \A p \in D : p \in SUBSET layer /\ chosen[p] \in SUBSET LayerOf(n, i + 1)
    BY OnePair
  <2>2. QED
    BY <2>1 DEF Taken, Made
<1>8. QED
  BY <1>6, <1>7

----------------------------------------------------------------------------
(* One layer. *)

InLayers(n, L) ==
  /\ L = [i \in 0..(n + 1) |-> L[i]]
  /\ \A i \in 0..(n + 1) : L[i] \in SUBSET LayerOf(n, i)
AllOf(n, L) == UNION {L[i] : i \in 0..(n + 1)}

LEMMA ByDashes ==
  ASSUME NEW n \in Nat, NEW L, InLayers(n, L), NEW c
  PROVE  c \in AllOf(n, L) <=> c \in CubesOf(n) /\ c \in L[Dashes(c)]
<1>1. ASSUME NEW i \in 0..(n + 1), c \in L[i]
      PROVE  c \in CubesOf(n) /\ c \in L[Dashes(c)]
  BY <1>1 DEF InLayers, LayerOf
<1>2. ASSUME c \in CubesOf(n) PROVE Dashes(c) \in 0..(n + 1)
  BY <1>2, CubeFacts
<1>3. QED
  BY <1>1, <1>2 DEF AllOf

LEMMA ToggledIsDiffer ==
  ASSUME NEW layer, NEW chosen
  PROVE  ToggledAll(layer, chosen) = Differ(layer, Made(chosen, DOMAIN chosen))
<1>1. ASSUME NEW c
      PROVE  c \in ToggledAll(layer, chosen) <=> c \in Differ(layer, Made(chosen, DOMAIN chosen))
  <2> DEFINE With == {p \in DOMAIN chosen : c \in chosen[p]}
             All == UNION {chosen[p] : p \in DOMAIN chosen}
  <2>1. c \in Made(chosen, DOMAIN chosen) <=> Odd(With)
    BY MadeMember
  <2>2. c \in ToggledAll(layer, chosen) <=> c \in layer \cup All /\ ~(c \in layer <=> Odd(With))
    BY DEF ToggledAll, Odd
  <2>3. c \in Made(chosen, DOMAIN chosen) => c \in All
    BY DEF Made
  <2> HIDE DEF With, All
  <2>4. QED
    BY <2>1, <2>2, <2>3 DEF Differ
<1>2. QED
  BY <1>1

LEMMA MergedKeeps ==
  ASSUME NEW n \in Nat, NEW L, InLayers(n, L), IsFiniteSet(AllOf(n, L)),
         NEW i \in 0..n, NEW chosen, IsMerge(L[i], chosen), IsFiniteSet(DOMAIN chosen)
  PROVE  LET M == Merged(L, i, chosen)
         IN  /\ InLayers(n, M)
             /\ IsFiniteSet(AllOf(n, M))
             /\ Cardinality(AllOf(n, M)) <= Cardinality(AllOf(n, L))
             /\ \A x : Odd(Covering(x, AllOf(n, M), n)) <=> Odd(Covering(x, AllOf(n, L), n))
<1> DEFINE M == Merged(L, i, chosen)
           U == Taken(DOMAIN chosen)
           N == Made(chosen, DOMAIN chosen)
           S == AllOf(n, L)
<1>1. i \in 0..(n + 1) /\ i + 1 \in 0..(n + 1) /\ i # i + 1
  OBVIOUS
<1>2. L[i] \in SUBSET LayerOf(n, i) /\ L[i + 1] \in SUBSET LayerOf(n, i + 1)
  BY <1>1 DEF InLayers
<1>3. /\ U \in SUBSET L[i] /\ N \in SUBSET LayerOf(n, i + 1)
      /\ IsFiniteSet(U) /\ IsFiniteSet(N)
      /\ Cardinality(N) <= Cardinality(U)
      /\ \A x : Odd(Covering(x, N, n)) <=> Odd(Covering(x, U, n))
  BY <1>2, PairByPair
<1>4. /\ M = [j \in 0..(n + 1) |-> M[j]]
      /\ \A j \in 0..(n + 1) :
           M[j] = IF j = i THEN L[i] \ U ELSE IF j = i + 1 THEN Differ(L[i + 1], N) ELSE L[j]
  <2>1. ToggledAll(L[i + 1], chosen) = Differ(L[i + 1], N)
    BY ToggledIsDiffer
  <2>2. M = [L EXCEPT ![i] = @ \ U, ![i + 1] = Differ(L[i + 1], N)]
    BY <1>1, <2>1 DEF Merged, Taken, InLayers
  <2> DEFINE K == Differ(L[i + 1], N)
             J == L[i] \ U
  <2>3. M = [L EXCEPT ![i] = J, ![i + 1] = K]
    BY <2>2
  <2>4. L = [j \in 0..(n + 1) |-> L[j]]
    BY DEF InLayers
  <2> HIDE DEF M, K, J
  <2>5. M = [j \in 0..(n + 1) |-> IF j = i + 1 THEN K ELSE IF j = i THEN J ELSE L[j]]
    BY <2>3, <2>4
  <2>6. QED
    BY <1>1, <2>5 DEF K, J
<1> HIDE DEF M, U, N
<1>5. InLayers(n, M)
  <2>1. ASSUME NEW j \in 0..(n + 1) PROVE M[j] \in SUBSET LayerOf(n, j)
    <3>1. CASE j = i
      BY <1>2, <1>4, <3>1
    <3>2. CASE j = i + 1
      BY <1>1, <1>2, <1>3, <1>4, <3>2 DEF Differ
    <3>3. CASE j # i /\ j # i + 1
      BY <1>4, <3>3 DEF InLayers
    <3>4. QED
      BY <3>1, <3>2, <3>3
  <2>2. QED
    BY <1>4, <2>1 DEF InLayers
<1>6. AllOf(n, M) = Differ(Differ(S, U), N)
  <2>1. ASSUME NEW c PROVE c \in AllOf(n, M) <=> c \in Differ(Differ(S, U), N)
    <3>1. c \in AllOf(n, M) <=> c \in CubesOf(n) /\ c \in M[Dashes(c)]
      BY <1>5, ByDashes
    <3>2. c \in S <=> c \in CubesOf(n) /\ c \in L[Dashes(c)]
      BY ByDashes
    <3>3. c \in U => c \in CubesOf(n) /\ Dashes(c) = i /\ c \in L[i]
      BY <1>2, <1>3 DEF LayerOf
    <3>4. c \in N => c \in CubesOf(n) /\ Dashes(c) = i + 1
      BY <1>3 DEF LayerOf
    <3>5. CASE c \in CubesOf(n) /\ Dashes(c) = i
      <4>1. M[Dashes(c)] = L[i] \ U
        BY <1>1, <1>4, <3>5
      <4>2. c \notin N
        BY <1>1, <3>4, <3>5
      <4>3. QED
        BY <3>1, <3>2, <3>3, <3>5, <4>1, <4>2 DEF Differ
    <3>6. CASE c \in CubesOf(n) /\ Dashes(c) = i + 1
      <4>1. M[Dashes(c)] = Differ(L[i + 1], N)
        BY <1>1, <1>4, <3>6
      <4>2. c \notin U
        BY <1>1, <3>3, <3>6
      <4>3. QED
        BY <3>1, <3>2, <3>6, <4>1, <4>2 DEF Differ
    <3>7. CASE c \in CubesOf(n) /\ Dashes(c) # i /\ Dashes(c) # i + 1
      <4>1. Dashes(c) \in 0..(n + 1)
        BY <3>7, CubeFacts
      <4>2. M[Dashes(c)] = L[Dashes(c)]
        BY <1>4, <3>7, <4>1
      <4>3. QED
        BY <3>1, <3>2, <3>3, <3>4, <3>7, <4>2 DEF Differ
    <3>8. CASE c \notin CubesOf(n)
      BY <3>1, <3>2, <3>3, <3>4, <3>8 DEF Differ
    <3>9. QED
      BY <3>5, <3>6, <3>7, <3>8
  <2>2. QED
    BY <2>1
<1>7. U \in SUBSET S
  BY <1>1, <1>3 DEF AllOf
<1> HIDE DEF S
<1>8. IsFiniteSet(S)
  BY DEF S
<1>9. IsFiniteSet(Differ(S, U)) /\ IsFiniteSet(Differ(Differ(S, U), N))
  BY <1>3, <1>8, OddDiffer
<1>10. Cardinality(Differ(Differ(S, U), N)) <= Cardinality(S)
  <2>1. Cardinality(Differ(Differ(S, U), N)) <= Cardinality(Differ(S, U)) + Cardinality(N)
    BY <1>3, <1>9, OddDiffer
  <2>2. Differ(S, U) = S \ U /\ S \cap U = U
    BY <1>7 DEF Differ
  <2>3. Cardinality(S \ U) = Cardinality(S) - Cardinality(S \cap U)
    BY <1>8, FS_Difference
  <2>4. /\ Cardinality(S) \in Nat /\ Cardinality(U) \in Nat /\ Cardinality(N) \in Nat
        /\ Cardinality(Differ(S, U)) \in Nat /\ Cardinality(Differ(Differ(S, U), N)) \in Nat
    BY <1>3, <1>8, <1>9, FS_CardinalityType
  <2>5. Cardinality(Differ(S, U)) = Cardinality(S) - Cardinality(U)
    BY <2>2, <2>3
  <2>6. QED
    BY <1>3, <2>1, <2>4, <2>5
<1>11. ASSUME NEW x
       PROVE  Odd(Covering(x, Differ(Differ(S, U), N), n)) <=> Odd(Covering(x, S, n))
  <2>1. Odd(Covering(x, Differ(S, U), n)) <=> ~(Odd(Covering(x, S, n)) <=> Odd(Covering(x, U, n)))
    BY <1>3, <1>8, CoveringDiffer
  <2>2. Odd(Covering(x, Differ(Differ(S, U), N), n))
          <=> ~(Odd(Covering(x, Differ(S, U), n)) <=> Odd(Covering(x, N, n)))
    BY <1>3, <1>9, CoveringDiffer
  <2>3. Odd(Covering(x, N, n)) <=> Odd(Covering(x, U, n))
    BY <1>3
  <2>4. QED
    BY <2>1, <2>2, <2>3
<1>12. QED
  BY <1>5, <1>6, <1>9, <1>10, <1>11 DEF M, S

----------------------------------------------------------------------------
(* The layers one after the other. *)

\* The parities say the same of the table as TableOf.
Covered ==
  /\ IsFiniteSet(AllOf(table.n, layers))
  /\ Cardinality(AllOf(table.n, layers)) <= Cardinality(table.on)
  /\ \A x \in InputsOf(table.n) :
       Odd(Covering(x, AllOf(table.n, layers), table.n)) <=> x \in table.on

LInv ==
  /\ table \in Tables
  /\ InLayers(table.n, layers)
  /\ pc \in {"cover", "choose", "apply", "done"}
  /\ pc = "cover" => at = 0 /\ layers = [i \in 0..Top |-> {}]
  /\ pc \in {"choose", "apply"} => at \in 0..table.n
  /\ pc # "cover" => Covered
  /\ pc = "apply" => IsMerge(layers[at], picks) /\ IsFiniteSet(DOMAIN picks)

LEMMA TableFacts ==
  ASSUME LInv
  PROVE  /\ table.n \in Nat
         /\ IsFiniteSet(table.on) /\ Cardinality(table.on) \in Nat
         /\ table.on \in SUBSET InputsOf(table.n)
         /\ Top = table.n + 1
         /\ Cubes = AllOf(table.n, layers)
<1>1. table.n \in Nat /\ table.on \in SUBSET InputsOf(table.n)
  BY TablesAssumption DEF LInv
<1>2. IsFiniteSet(InputsOf(table.n))
  <2>1. Two[table.n] - 1 \in Int
    BY <1>1, TwoFacts
  <2>2. QED
    BY <2>1, FS_Interval DEF InputsOf
<1>3. IsFiniteSet(table.on)
  BY <1>1, <1>2, FS_Subset
<1>4. QED
  BY <1>1, <1>3, FS_CardinalityType DEF Top, Cubes, AllOf

LEMMA NothingCovered ==
  ASSUME LInv, layers = [i \in 0..Top |-> {}], table.on = {}
  PROVE  Covered
<1>1. AllOf(table.n, layers) = {}
  BY TableFacts DEF AllOf
<1>2. IsFiniteSet({}) /\ Cardinality({}) = 0
  BY FS_EmptySet
<1>3. ASSUME NEW x PROVE ~Odd(Covering(x, {}, table.n))
  <2>1. Covering(x, {}, table.n) = {}
    BY DEF Covering
  <2>2. QED
    BY <2>1, OddOne
<1>4. Cardinality(table.on) = 0
  BY <1>2
<1>5. /\ IsFiniteSet(AllOf(table.n, layers)) /\ Cardinality(AllOf(table.n, layers)) = 0
      /\ Cardinality(AllOf(table.n, layers)) <= Cardinality(table.on)
  <2>1. IsFiniteSet(AllOf(table.n, layers)) /\ Cardinality(AllOf(table.n, layers)) = 0
    BY <1>1, <1>2
  <2>2. QED
    BY <1>4, <2>1
<1>6. \A x : Odd(Covering(x, AllOf(table.n, layers), table.n)) <=> x \in table.on
  BY <1>1, <1>3
<1>7. QED
  BY <1>5, <1>6 DEF Covered

LEMMA InitLayers == Init => LInv
<1> SUFFICES ASSUME Init PROVE LInv
  OBVIOUS
<1>1. InLayers(table.n, layers)
  BY DEF Init, InLayers, Top
<1>2. QED
  BY <1>1 DEF Init, LInv

LEMMA CoverCovers ==
  ASSUME LInv, NEW cubes \in SUBSET CubesOf(table.n), IsCover(cubes), Cover(cubes)
  PROVE  LInv'
<1> DEFINE n == table.n
<1>1. /\ n \in Nat /\ table' = table /\ at' = at /\ pc = "cover" /\ pc' = "choose"
      /\ layers' = [i \in 0..(n + 1) |-> {c \in cubes : Dashes(c) = i}]
  BY TableFacts DEF Cover, Sorted
<1>2. InLayers(n, layers')
  BY <1>1 DEF InLayers, LayerOf
<1>3. AllOf(n, layers') = cubes
  <2>1. \A c \in cubes : Dashes(c) \in 0..(n + 1)
    BY <1>1, CubeFacts
  <2>2. QED
    BY <1>1, <2>1 DEF AllOf
<1>4. \A x \in InputsOf(n) : Odd(Covering(x, cubes, n)) <=> x \in table.on
  BY DEF IsCover, TableOf
<1>5. Covered'
  BY <1>1, <1>3, <1>4 DEF Covered, IsCover
<1>6. at' \in 0..n
  BY <1>1 DEF LInv
<1>7. table' \in Tables
  BY <1>1 DEF LInv
<1>8. QED
  BY <1>1, <1>2, <1>5, <1>6, <1>7 DEF LInv

LEMMA ChooseKeeps ==
  ASSUME LInv, NEW chosen \in Decisions(layers[at]), IsMerge(layers[at], chosen), Choose(chosen)
  PROVE  LInv'
<1>1. /\ table' = table /\ at' = at /\ layers' = layers /\ picks' = chosen
      /\ pc = "choose" /\ pc' = "apply"
  BY DEF Choose
<1>2. Covered /\ table \in Tables /\ InLayers(table.n, layers) /\ at \in 0..table.n
  BY <1>1 DEF LInv
<1>3. IsFiniteSet(layers[at])
  <2>1. layers[at] \in SUBSET AllOf(table.n, layers)
    BY <1>2, TableFacts DEF AllOf
  <2>2. QED
    BY <1>2, <2>1, FS_Subset DEF Covered
<1>4. DOMAIN chosen \in SUBSET SUBSET layers[at]
  BY DEF Decisions
<1>5. IsFiniteSet(DOMAIN chosen)
  BY <1>3, <1>4, FS_SUBSET, FS_Subset
<1>6. Covered' /\ InLayers(table.n, layers)'
  BY <1>1, <1>2 DEF Covered
<1>7. QED
  BY <1>1, <1>2, <1>5, <1>6 DEF LInv

LEMMA ApplyKeeps ==
  ASSUME LInv, Apply
  PROVE  LInv'
<1> DEFINE n == table.n
<1>1. /\ table' = table /\ at' = at + 1 /\ layers' = Merged(layers, at, picks)
      /\ pc = "apply" /\ pc' = IF at = n THEN "done" ELSE "choose"
  BY DEF Apply
<1>2. /\ Covered /\ table \in Tables /\ InLayers(n, layers) /\ at \in 0..n
      /\ IsMerge(layers[at], picks) /\ IsFiniteSet(DOMAIN picks)
  BY <1>1 DEF LInv
<1>3. n \in Nat /\ Cardinality(table.on) \in Nat
  BY TableFacts
<1> DEFINE C == AllOf(n, layers)
           D == AllOf(n, layers')
<1>4. /\ InLayers(n, layers')
      /\ IsFiniteSet(D)
      /\ Cardinality(D) <= Cardinality(C)
      /\ \A x : Odd(Covering(x, D, n)) <=> Odd(Covering(x, C, n))
  BY <1>1, <1>2, <1>3, MergedKeeps DEF Covered
<1>5. IsFiniteSet(C) /\ Cardinality(C) <= Cardinality(table.on)
  BY <1>2 DEF Covered
<1>6. Cardinality(D) <= Cardinality(table.on)
  BY <1>3, <1>4, <1>5, FS_CardinalityType
<1>7. \A x \in InputsOf(n) : Odd(Covering(x, D, n)) <=> x \in table.on
  BY <1>2, <1>4 DEF Covered
<1>8. Covered'
  BY <1>1, <1>4, <1>6, <1>7 DEF Covered
<1>9. pc' # "cover" /\ pc' # "apply" /\ pc' \in {"cover", "choose", "apply", "done"}
  BY <1>1
<1>10. pc' \in {"choose", "apply"} => at' \in 0..n
  BY <1>1, <1>2, <1>3
<1>11. QED
  BY <1>1, <1>2, <1>4, <1>8, <1>9, <1>10 DEF LInv

LEMMA LayersNext == LInv /\ [AnyNext]_vars => LInv'
<1> SUFFICES ASSUME LInv, [AnyNext]_vars PROVE LInv'
  OBVIOUS
<1>1. ASSUME NEW cubes \in SUBSET CubesOf(table.n), IsCover(cubes), Cover(cubes) PROVE LInv'
  BY <1>1, CoverCovers
<1>2. CASE NoOnes
  <2>1. /\ table' = table /\ layers' = layers /\ at' = at /\ pc' = "done"
        /\ pc = "cover" /\ table.on = {}
    BY <1>2 DEF NoOnes
  <2>2. Covered
    BY <2>1, NothingCovered DEF LInv
  <2>3. Covered' /\ InLayers(table.n, layers)'
    BY <2>1, <2>2 DEF Covered, LInv
  <2>4. QED
    BY <2>1, <2>3 DEF LInv
<1>3. ASSUME NEW chosen \in Decisions(layers[at]), IsMerge(layers[at], chosen), Choose(chosen)
      PROVE  LInv'
  BY <1>3, ChooseKeeps
<1>4. CASE Apply
  BY <1>4, ApplyKeeps
<1>5. CASE UNCHANGED vars
  BY <1>5 DEF vars, LInv, Covered, InLayers, AllOf, Top
<1>6. QED
  BY <1>1, <1>2, <1>3, <1>4, <1>5 DEF AnyNext, Done

LEMMA LayersAreTheTable == LInv => CubesAreTheTable
<1> SUFFICES ASSUME LInv PROVE CubesAreTheTable
  OBVIOUS
<1> DEFINE n == table.n
<1>1. /\ n \in Nat /\ Top = n + 1 /\ Cubes = AllOf(n, layers)
      /\ table.on \in SUBSET InputsOf(n) /\ InLayers(n, layers)
  BY TableFacts DEF LInv
<1>2. pc = "apply" => IsMerge(layers[at], picks)
  BY DEF LInv
<1>3. ASSUME pc # "cover"
      PROVE  TableOf(Cubes, n) = table.on /\ Cardinality(Cubes) <= Cardinality(table.on)
  BY <1>1, <1>3 DEF LInv, Covered, TableOf
<1>4. \A i \in 0..Top : \A c \in layers[i] : c \in CubesOf(n) /\ Dashes(c) = i
  BY <1>1 DEF InLayers, LayerOf
<1>5. layers[Top] = {}
  <2>1. SUFFICES ASSUME NEW c \in layers[n + 1] PROVE FALSE
    BY <1>1
  <2>2. c \in CubesOf(n) /\ Dashes(c) = n + 1
    BY <1>1, <1>4
  <2>3. QED
    BY <1>1, <2>2, CubeFacts
<1>6. QED
  BY <1>2, <1>3, <1>4, <1>5 DEF CubesAreTheTable

\* For every number of inputs and every table: from any cover that the code may
\* start with, and whatever disjoint near pairs it chooses layer by layer, the cubes
\* keep the table of the oracle, never become more, and are all in the result
\* (QM::optimize, QM::optimizeLayer).
THEOREM OptimisedCubesAreTheTable == AnySpec => []CubesAreTheTable
<1>1. Init => LInv
  BY InitLayers
<1>2. LInv /\ [AnyNext]_vars => LInv'
  BY LayersNext
<1>3. LInv => CubesAreTheTable
  BY LayersAreTheTable
<1>4. QED
  BY <1>1, <1>2, <1>3, PTL DEF AnySpec

----------------------------------------------------------------------------
(* The choices of QM.cpp.  The cubes in the answer of simplify are disjoint *)
(* and not empty, and cover what has been taken out of rest; a node's       *)
(* values are the inputs its cube covers; nodes that have been chosen share *)
(* no value with each other, nor with those left in the graph.              *)

CoveredBy(cube) == {x \in InputsOf(table.n) : Lies(x, cube, table.n)}

AnsCovers ==
  /\ rest \in SUBSET table.on
  /\ ans \in SUBSET CubesOf(table.n)
  /\ IsFiniteSet(ans)
  /\ \A c \in ans : CoveredBy(c) # {} /\ CoveredBy(c) \subseteq table.on \ rest
  /\ \A c, d \in ans : c # d => CoveredBy(c) \cap CoveredBy(d) = {}
  /\ \A x \in table.on \ rest : \E c \in ans : x \in CoveredBy(c)

NodesCover ==
  /\ IsFiniteSet(DOMAIN nodes)
  /\ \A i \in DOMAIN nodes :
       /\ nodes[i].bit \in CubesOf(table.n)
       /\ nodes[i].val = CoveredBy(nodes[i].bit)
       /\ nodes[i].val # {} /\ nodes[i].val \subseteq rest

NodesArePairs ==
  \A p \in DOMAIN nodes :
    /\ nodes[p].val = p
    /\ \E s1, s2 \in layers[at] : p = {s1, s2} /\ Near(s1, s2)

ChosenAreDisjoint ==
  /\ left \subseteq DOMAIN nodes /\ choose \subseteq DOMAIN nodes
  /\ \A i \in choose : \A j \in choose \cup left : i # j => nodes[i].val \cap nodes[j].val = {}
  /\ choose \cap left = {}

EInv ==
  /\ LInv
  /\ step \in {"simplify", "merge", "point", "layer"}
  /\ step \in {"simplify", "merge"} => pc \in {"cover", "done"}
  /\ step = "layer" => pc # "cover"
  /\ step \in {"merge", "point"} => pc \in {"cover", "choose"}
  /\ pc = "cover" => AnsCovers
  /\ pc = "cover" /\ step # "simplify" => table.on # {}
  /\ pc = "cover" /\ step \in {"merge", "point"} => NodesCover
  /\ pc = "choose" /\ step = "point" => NodesArePairs
  /\ step = "point" => ChosenAreDisjoint

LEMMA EsopInitial == EsopInit => EInv
<1> SUFFICES ASSUME EsopInit PROVE EInv
  OBVIOUS
<1>1. LInv
  BY InitLayers DEF EsopInit
<1>2. AnsCovers
  BY FS_EmptySet DEF EsopInit, AnsCovers
<1>3. QED
  BY <1>1, <1>2 DEF EInv, EsopInit, Init

\* The cube of one input covers that input.
LEMMA OneInput ==
  ASSUME LInv, NEW x \in InputsOf(table.n)
  PROVE  /\ QMNode(x).bit \in CubesOf(table.n) /\ QMNode(x).val = {x}
         /\ CoveredBy(QMNode(x).bit) = {x}
<1> DEFINE n == table.n
           c == [i \in 1..n |-> InputBit(x, i, n)]
<1>1. QMNode(x).bit = c /\ QMNode(x).val = {x}
  BY DEF QMNode
<1>2. \A y, i : InputBit(y, i, n) \in {0, 1} /\ InputBit(y, i, n) # Dash
  BY DEF InputBit, Dash
<1>3. c \in CubesOf(n) /\ \A i \in 1..n : c[i] = InputBit(x, i, n)
  BY <1>2 DEF CubesOf
<1> HIDE DEF c
<1>4. Lies(x, c, n)
  BY <1>3 DEF Lies
<1>5. ASSUME NEW y \in InputsOf(n), Lies(y, c, n) PROVE y = x
  <2>1. \A i \in 1..n : InputBit(x, i, n) = InputBit(y, i, n)
    BY <1>2, <1>3, <1>5 DEF Lies
  <2>2. QED
    BY <2>1, BitsTellInputs, TableFacts
<1>6. QED
  BY <1>1, <1>3, <1>4, <1>5 DEF CoveredBy

LEMMA MintermsKeep == ASSUME EInv, Minterms PROVE EInv'
<1>1. /\ pc = "cover" /\ UNCHANGED <<vars, rest, ans, left, choose>>
      /\ nodes' = [x \in rest |-> QMNode(x)] /\ step' = "merge"
  BY DEF Minterms
<1>2. LInv /\ AnsCovers
  BY <1>1 DEF EInv
<1>3. /\ table.on \in SUBSET InputsOf(table.n) /\ rest \in SUBSET table.on
      /\ IsFiniteSet(rest)
  BY <1>2, TableFacts, FS_Subset DEF AnsCovers
<1>4. NodesCover'
  <2>1. ASSUME NEW x \in rest
        PROVE  /\ QMNode(x).bit \in CubesOf(table.n)
               /\ QMNode(x).val = CoveredBy(QMNode(x).bit)
               /\ QMNode(x).val # {} /\ QMNode(x).val \subseteq rest
    <3>1. x \in InputsOf(table.n)
      BY <1>3
    <3>2. /\ QMNode(x).bit \in CubesOf(table.n) /\ QMNode(x).val = {x}
          /\ CoveredBy(QMNode(x).bit) = {x}
      BY <1>2, <3>1, OneInput
    <3>3. QED
      BY <3>2
  <2>2. table' = table /\ rest' = rest
    BY <1>1 DEF vars
  <2>3. DOMAIN nodes' = rest /\ \A x \in rest : nodes'[x] = QMNode(x)
    BY <1>1
  <2>4. QED
    BY <1>3, <2>1, <2>2, <2>3 DEF NodesCover, CoveredBy
<1>5. LInv' /\ AnsCovers'
  BY <1>1, <1>2 DEF vars, LInv, Covered, InLayers, AllOf, Top, AnsCovers, CoveredBy
<1>6. pc' = "cover" /\ table'.on # {}
  BY <1>1, <1>3 DEF vars, Minterms
<1>7. QED
  BY <1>1, <1>4, <1>5, <1>6 DEF EInv

\* Two neighbouring cubes cover what their union covers.
LEMMA UnionCovers ==
  ASSUME NEW n \in Nat, NEW s \in CubesOf(n), NEW t \in CubesOf(n), oneBitDif(s, t), NEW x
  PROVE  /\ oneBitUnion(s, t) \in CubesOf(n)
         /\ Lies(x, oneBitUnion(s, t), n) <=> Lies(x, s, n) \/ Lies(x, t, n)
<1>1. PICK k : Differences(s, t) = {k}
  BY CubeFacts, TwoElements DEF oneBitDif
<1>2. k \in 1..n /\ s[k] # t[k] /\ \A i \in 1..n : i # k => s[i] = t[i]
  BY <1>1, CubeFacts DEF Differences
<1> DEFINE u == oneBitUnion(s, t)
<1>3. u \in CubesOf(n) /\ \A i \in 1..n : u[i] = IF i = k THEN Dash ELSE s[i]
  <2>1. DOMAIN s = 1..n
    BY CubeFacts
  <2>2. u = [i \in 1..n |-> IF s[i] # t[i] THEN Dash ELSE s[i]]
    BY <2>1 DEF oneBitUnion
  <2>3. QED
    BY <1>2, <2>2 DEF CubesOf
<1> HIDE DEF u
<1>4. Lies(x, u, n) = Agrees(x, s, n, {k})
  BY <1>2, <1>3 DEF Lies, Agrees
<1>5. Lies(x, s, n) = (Agrees(x, s, n, {k}) /\ (s[k] = Dash \/ s[k] = InputBit(x, k, n)))
  BY <1>2 DEF Lies, Agrees
<1>6. Lies(x, t, n) = (Agrees(x, s, n, {k}) /\ (t[k] = Dash \/ t[k] = InputBit(x, k, n)))
  BY <1>2 DEF Lies, Agrees
<1>7. s[k] \in {0, 1, Dash} /\ t[k] \in {0, 1, Dash} /\ InputBit(x, k, n) \in {0, 1}
  BY <1>2 DEF CubesOf, InputBit
<1>8. s[k] = Dash \/ s[k] = InputBit(x, k, n) \/ t[k] = Dash \/ t[k] = InputBit(x, k, n)
  BY <1>2, <1>7
<1>9. QED
  BY <1>3, <1>4, <1>5, <1>6, <1>8 DEF u

LEMMA MergeKeeps == ASSUME EInv, MergeGroups PROVE EInv'
<1>1. /\ step = "merge" /\ UNCHANGED <<vars, rest, ans, left, choose, step>>
      /\ nodes' = [p \in Adjacent |-> United(nodes[p[1]], nodes[p[2]])]
  BY DEF MergeGroups
<1>2. LInv /\ (pc = "cover" => AnsCovers /\ NodesCover)
  BY <1>1 DEF EInv
<1>3. ASSUME pc = "cover" PROVE NodesCover'
  <2> DEFINE n == table.n
  <2>1. n \in Nat /\ n' = n /\ rest' = rest
    BY <1>1, <1>2, TableFacts DEF vars
  <2>2. DOMAIN nodes' = Adjacent /\ IsFiniteSet(Adjacent)
    <3>1. Adjacent \in SUBSET ((DOMAIN nodes) \X (DOMAIN nodes))
      BY DEF Adjacent
    <3>2. IsFiniteSet((DOMAIN nodes) \X (DOMAIN nodes))
      BY <1>2, <1>3, FS_Product DEF NodesCover
    <3>3. QED
      BY <1>1, <3>1, <3>2, FS_Subset
  <2>3. ASSUME NEW p \in Adjacent
        PROVE  /\ nodes'[p].bit \in CubesOf(n)
               /\ nodes'[p].val = CoveredBy(nodes'[p].bit)
               /\ nodes'[p].val # {} /\ nodes'[p].val \subseteq rest
    <3>1. /\ p[1] \in DOMAIN nodes /\ p[2] \in DOMAIN nodes
          /\ oneBitDif(nodes[p[1]].bit, nodes[p[2]].bit)
      BY <2>3 DEF Adjacent
    <3> DEFINE a == nodes[p[1]]
               b == nodes[p[2]]
    <3>2. /\ a.bit \in CubesOf(n) /\ a.val = CoveredBy(a.bit) /\ a.val # {} /\ a.val \subseteq rest
          /\ b.bit \in CubesOf(n) /\ b.val = CoveredBy(b.bit) /\ b.val # {} /\ b.val \subseteq rest
      BY <1>2, <1>3, <3>1 DEF NodesCover
    <3>3. nodes'[p].bit = oneBitUnion(a.bit, b.bit) /\ nodes'[p].val = a.val \cup b.val
      BY <1>1 DEF United
    <3> HIDE DEF a, b
    <3>4. oneBitDif(a.bit, b.bit)
      BY <3>1 DEF a, b
    <3>5. CoveredBy(oneBitUnion(a.bit, b.bit)) = CoveredBy(a.bit) \cup CoveredBy(b.bit)
      BY <2>1, <3>2, <3>4, UnionCovers DEF CoveredBy
    <3>6. oneBitUnion(a.bit, b.bit) \in CubesOf(n)
      BY <2>1, <3>2, <3>4, UnionCovers
    <3>7. QED
      BY <3>2, <3>3, <3>5, <3>6
  <2>4. table' = table
    BY <1>1 DEF vars
  <2>5. QED
    BY <2>1, <2>2, <2>3, <2>4 DEF NodesCover, CoveredBy
<1>4. LInv' /\ (pc = "cover" => AnsCovers')
  BY <1>1, <1>2 DEF vars, LInv, Covered, InLayers, AllOf, Top, AnsCovers, CoveredBy
<1>5. pc' = pc /\ step' = "merge" /\ table' = table
  BY <1>1 DEF vars
<1>6. QED
  BY <1>1, <1>3, <1>4, <1>5 DEF EInv

LEMMA MergeEndsKeeps == ASSUME EInv, MergeEnds PROVE EInv'
<1>1. /\ step = "merge" /\ UNCHANGED <<vars, rest, ans, nodes>>
      /\ left' = DOMAIN nodes /\ choose' = {} /\ step' = "point"
  BY DEF MergeEnds
<1>2. ChosenAreDisjoint'
  BY <1>1 DEF ChosenAreDisjoint
<1>3. pc' = pc /\ table' = table /\ (pc = "cover" => AnsCovers' /\ NodesCover')
  BY <1>1 DEF vars, AnsCovers, NodesCover, CoveredBy, EInv
<1>4. LInv'
  BY <1>1 DEF vars, LInv, Covered, InLayers, AllOf, Top, EInv
<1>5. pc \in {"cover", "done"} /\ pc \in {"cover", "choose"}
  BY <1>1 DEF EInv
<1>6. QED
  BY <1>1, <1>2, <1>3, <1>4, <1>5 DEF EInv

LEMMA PickKeeps == ASSUME EInv, PickPoint PROVE EInv'
<1>1. PICK i \in left : /\ choose' = choose \cup {i}
                        /\ left' = left \ ({i} \cup Neighbours(i))
  BY DEF PickPoint
<1>2. step = "point" /\ UNCHANGED <<vars, rest, ans, nodes, step>>
  BY DEF PickPoint
<1>3. ChosenAreDisjoint'
  <2>1. ChosenAreDisjoint
    BY <1>2 DEF EInv
  <2>2. \A j \in left' : j # i /\ nodes[j].val \cap nodes[i].val = {}
    BY <1>1 DEF Neighbours
  <2>3. left' \subseteq left /\ left' \subseteq DOMAIN nodes /\ choose' \subseteq DOMAIN nodes
    BY <1>1, <2>1 DEF ChosenAreDisjoint
  <2>4. ASSUME NEW j \in choose', NEW k \in choose' \cup left', j # k
        PROVE  nodes[j].val \cap nodes[k].val = {}
    <3>1. CASE j = i /\ k \in choose
      BY <1>1, <2>1, <2>4, <3>1 DEF ChosenAreDisjoint
    <3>2. CASE j = i /\ k \in left'
      BY <2>2, <3>2
    <3>3. CASE j \in choose
      BY <1>1, <2>1, <2>3, <2>4, <3>3 DEF ChosenAreDisjoint
    <3>4. QED
      BY <1>1, <2>4, <3>1, <3>2, <3>3
  <2>5. choose' \cap left' = {}
    BY <1>1, <2>1, <2>2, <2>3 DEF ChosenAreDisjoint
  <2>6. nodes' = nodes
    BY <1>2
  <2>7. QED
    BY <2>3, <2>4, <2>5, <2>6 DEF ChosenAreDisjoint
<1>4. /\ pc' = pc /\ step' = step /\ table' = table
      /\ pc = "cover" => AnsCovers' /\ NodesCover'
      /\ pc = "choose" => NodesArePairs'
  BY <1>2 DEF vars, AnsCovers, NodesCover, NodesArePairs, CoveredBy, EInv
<1>5. LInv'
  BY <1>2 DEF vars, LInv, Covered, InLayers, AllOf, Top, EInv
<1>6. QED
  BY <1>2, <1>3, <1>4, <1>5 DEF EInv

LEMMA KeepKeeps == ASSUME EInv, KeepLargest PROVE EInv'
<1> DEFINE bits == {nodes[i].bit : i \in choose}
           vals == UNION {nodes[i].val : i \in choose}
<1>1. /\ pc = "cover" /\ step = "point" /\ UNCHANGED <<vars, nodes, left, choose>>
      /\ ans' = ans \cup bits /\ rest' = rest \ vals /\ step' = "simplify"
  BY DEF KeepLargest
<1>2. AnsCovers /\ NodesCover /\ ChosenAreDisjoint /\ LInv
  BY <1>1 DEF EInv
<1>3. \A i \in choose :
        /\ nodes[i].bit \in CubesOf(table.n) /\ nodes[i].val = CoveredBy(nodes[i].bit)
        /\ nodes[i].val # {} /\ nodes[i].val \subseteq rest
  BY <1>2 DEF NodesCover, ChosenAreDisjoint
<1>4. \A i, j \in choose : i # j => nodes[i].val \cap nodes[j].val = {}
  BY <1>2 DEF ChosenAreDisjoint
<1>5. IsFiniteSet(ans')
  <2>1. IsFiniteSet(choose)
    BY <1>2, FS_Subset DEF NodesCover, ChosenAreDisjoint
  <2> DEFINE f == [i \in choose |-> nodes[i].bit]
  <2>2. f \in Surjection(choose, bits)
    BY DEF Surjection
  <2>3. IsFiniteSet(bits)
    BY <2>1, <2>2, FS_Surjection
  <2>4. IsFiniteSet(ans)
    BY <1>2 DEF AnsCovers
  <2>5. QED
    BY <1>1, <2>3, <2>4, FS_Union
<1>6. /\ rest \in SUBSET table.on /\ ans \in SUBSET CubesOf(table.n)
      /\ \A c \in ans : CoveredBy(c) # {} /\ CoveredBy(c) \subseteq table.on \ rest
      /\ \A c, d \in ans : c # d => CoveredBy(c) \cap CoveredBy(d) = {}
      /\ \A x \in table.on \ rest : \E c \in ans : x \in CoveredBy(c)
  BY <1>2 DEF AnsCovers
<1>7. \A i \in choose : nodes[i].val \subseteq vals
  OBVIOUS
<1>8. \A x \in vals : \E i \in choose : x \in nodes[i].val
  OBVIOUS
<1>9. \A c \in bits : \E i \in choose : c = nodes[i].bit
  OBVIOUS
<1>10. \A i \in choose : nodes[i].bit \in bits
  OBVIOUS
<1> HIDE DEF bits, vals
<1>11. vals \subseteq rest
  BY <1>3, <1>8
<1>12. /\ rest' \in SUBSET table.on /\ ans' \in SUBSET CubesOf(table.n)
       /\ \A c \in ans' : CoveredBy(c) # {} /\ CoveredBy(c) \subseteq table.on \ rest'
  BY <1>1, <1>3, <1>6, <1>7, <1>9, <1>11
<1>13. ASSUME NEW c \in ans', NEW d \in ans', c # d
       PROVE  CoveredBy(c) \cap CoveredBy(d) = {}
  <2>1. CASE c \in ans /\ d \in ans
    BY <1>6, <1>13, <2>1
  <2>2. CASE c \in ans /\ d \in bits
    BY <1>3, <1>6, <1>9, <2>2
  <2>3. CASE c \in bits /\ d \in ans
    BY <1>3, <1>6, <1>9, <2>3
  <2>4. CASE c \in bits /\ d \in bits
    BY <1>3, <1>4, <1>9, <1>13, <2>4
  <2>5. QED
    BY <1>1, <1>13, <2>1, <2>2, <2>3, <2>4
<1>14. ASSUME NEW x \in table.on \ rest' PROVE \E c \in ans' : x \in CoveredBy(c)
  <2>1. CASE x \in rest
    <3>1. PICK i \in choose : x \in nodes[i].val
      BY <1>1, <1>8, <1>14, <2>1
    <3>2. nodes[i].bit \in ans' /\ x \in CoveredBy(nodes[i].bit)
      BY <1>1, <1>3, <1>10, <3>1
    <3>3. QED
      BY <3>2
  <2>2. CASE x \notin rest
    <3>1. PICK c \in ans : x \in CoveredBy(c)
      BY <1>6, <1>14, <2>2
    <3>2. QED
      BY <1>1, <3>1
  <2>3. QED
    BY <2>1, <2>2
<1>15. table' = table /\ pc' = pc
  BY <1>1 DEF vars
<1>16. AnsCovers'
  BY <1>5, <1>12, <1>13, <1>14, <1>15 DEF AnsCovers, CoveredBy
<1>17. LInv'
  BY <1>1, <1>2 DEF vars, LInv, Covered, InLayers, AllOf, Top
<1>18. QED
  BY <1>1, <1>15, <1>16, <1>17 DEF EInv

\* When no input is left, the answer is a cover: disjoint cubes that are not
\* empty are no more than what they cover.
LEMMA SimplifiedIsCover ==
  ASSUME EInv, Simplified
  PROVE  ans \in SUBSET CubesOf(table.n) /\ IsCover(ans) /\ Cover(ans)
<1>1. /\ step = "simplify" /\ rest = {} /\ Cover(ans) /\ pc = "cover"
  BY DEF Simplified, Cover
<1>2. /\ ans \in SUBSET CubesOf(table.n) /\ IsFiniteSet(ans)
      /\ \A c \in ans : CoveredBy(c) # {} /\ CoveredBy(c) \subseteq table.on
      /\ \A c, d \in ans : c # d => CoveredBy(c) \cap CoveredBy(d) = {}
      /\ \A x \in table.on : \E c \in ans : x \in CoveredBy(c)
  BY <1>1 DEF EInv, AnsCovers
<1>3. IsFiniteSet(table.on) /\ table.on \in SUBSET InputsOf(table.n)
  BY TableFacts DEF EInv
<1>4. Cardinality(ans) <= Cardinality(table.on)
  <2> DEFINE f == [c \in ans |-> CHOOSE x \in table.on : x \in CoveredBy(c)]
  <2>1. \A c \in ans : f[c] \in table.on /\ f[c] \in CoveredBy(c)
    BY <1>2
  <2> HIDE DEF f
  <2>2. \A c, d \in ans : f[c] = f[d] => c = d
    BY <1>2, <2>1
  <2>3. f \in Injection(ans, table.on)
    <3>1. f \in [ans -> table.on]
      BY <2>1 DEF f
    <3>2. QED
      BY <2>2, <3>1 DEF Injection, IsInjective
  <2>4. QED
    BY <1>3, <2>3, FS_Injection
<1>5. ASSUME NEW x \in InputsOf(table.n)
      PROVE  Odd(Covering(x, ans, table.n)) <=> x \in table.on
  <2>1. \A c \in ans : Lies(x, c, table.n) <=> x \in CoveredBy(c)
    BY <1>5 DEF CoveredBy
  <2>2. CASE x \in table.on
    <3>1. PICK c \in ans : x \in CoveredBy(c)
      BY <1>2, <2>2
    <3>2. Covering(x, ans, table.n) = {c}
      BY <1>2, <2>1, <3>1 DEF Covering
    <3>3. QED
      BY <2>2, <3>2, OddOne
  <2>3. CASE x \notin table.on
    <3>1. Covering(x, ans, table.n) = {}
      BY <1>2, <2>1, <2>3 DEF Covering
    <3>2. QED
      BY <2>3, <3>1, OddOne
  <2>4. QED
    BY <2>2, <2>3
<1>6. TableOf(ans, table.n) = table.on
  BY <1>3, <1>5 DEF TableOf
<1>7. QED
  BY <1>1, <1>2, <1>4, <1>6 DEF IsCover

LEMMA CandidatesKeep == ASSUME EInv, Candidates PROVE EInv'
<1> DEFINE near == {q \in layers[at] \X layers[at] : Near(q[1], q[2])}
           pairs == {{p[1], p[2]} : p \in near}
<1>1. /\ pc = "choose" /\ UNCHANGED <<vars, rest, ans>>
      /\ nodes' = [p \in pairs |-> [bit |-> <<>>, val |-> p]]
      /\ left' = pairs /\ choose' = {} /\ step' = "point"
  BY DEF Candidates
<1>2. NodesArePairs'
  <2>1. ASSUME NEW p \in pairs
        PROVE  /\ nodes'[p].val = p
               /\ \E s1, s2 \in layers[at] : p = {s1, s2} /\ Near(s1, s2)
    <3>1. nodes'[p].val = p
      BY <1>1
    <3>2. PICK q \in near : p = {q[1], q[2]}
      OBVIOUS
    <3>3. q[1] \in layers[at] /\ q[2] \in layers[at] /\ Near(q[1], q[2])
      OBVIOUS
    <3>4. QED
      BY <3>1, <3>2, <3>3
  <2>2. DOMAIN nodes' = pairs /\ layers' = layers /\ at' = at
    BY <1>1 DEF vars
  <2> HIDE DEF pairs
  <2>3. QED
    BY <2>1, <2>2 DEF NodesArePairs
<1>3. ChosenAreDisjoint'
  BY <1>1 DEF ChosenAreDisjoint
<1>4. LInv' /\ pc' = pc
  BY <1>1 DEF vars, LInv, Covered, InLayers, AllOf, Top, EInv
<1>5. QED
  BY <1>1, <1>2, <1>3, <1>4 DEF EInv

\* Near cubes are two, whichever comes first; their unions are cubes.
LEMMA NearFacts ==
  ASSUME NEW n \in Nat, NEW s \in CubesOf(n), NEW t \in CubesOf(n), Near(s, t)
  PROVE  s # t /\ Near(t, s)
<1>1. DOMAIN s = 1..n /\ DOMAIN t = 1..n
  BY CubeFacts
<1>2. Differences(s, t) = Differences(t, s)
  BY <1>1 DEF Differences
<1>3. Differences(s, s) = {}
  BY DEF Differences
<1>4. s # t
  BY <1>3, FS_EmptySet DEF Near, oneBitDif, twoBitDif
<1>5. QED
  BY <1>2, <1>4 DEF Near, oneBitDif, twoBitDif

LEMMA UnionsAreCubes ==
  ASSUME NEW n \in Nat, NEW s \in CubesOf(n), NEW t \in CubesOf(n), NEW u \in Unions(s, t)
  PROVE  u \in SUBSET CubesOf(n)
<1>1. \A v \in CubesOf(n) : \A i : Dashed(v, i) \in CubesOf(n)
  BY DEF Dashed, CubesOf
<1>2. oneBitUnion(s, t) \in CubesOf(n)
  BY CubeFacts DEF oneBitUnion, CubesOf
<1>3. CASE oneBitDif(s, t)
  BY <1>2, <1>3 DEF Unions
<1>4. CASE ~oneBitDif(s, t)
  <2>1. u \in twoBitUnion(s, t)
    BY <1>4 DEF Unions
  <2>2. PICK d \in Differences(s, t) \X Differences(s, t) : u = {Dashed(s, d[1]), Dashed(t, d[2])}
    BY <2>1 DEF twoBitUnion
  <2>3. QED
    BY <1>1, <2>2
<1>5. QED
  BY <1>3, <1>4

LEMMA OptimizeIsMerge ==
  ASSUME EInv, OptimizeLayer
  PROVE  \E m \in Decisions(layers[at]) : IsMerge(layers[at], m) /\ Choose(m)
<1> DEFINE best == [p \in choose |-> BestUnions(p, layers[at + 1])]
           made == {m \in [choose -> UNION {best[p] : p \in choose}] : \A p \in choose : m[p] \in best[p]}
           tied == {p \in choose : Cardinality(best[p]) > 1}
<1>1. pc = "choose" /\ step = "point"
  BY DEF OptimizeLayer
<1>2. PICK m \in getMaxPair(made, tied) : Choose(m)
  BY DEF OptimizeLayer
<1>3. getMaxPair(made, tied) \subseteq made
  <2> HIDE DEF made, tied
  <2>1. QED
    BY DEF getMaxPair
<1>4. /\ DOMAIN m = choose
      /\ m \in [choose -> UNION {best[p] : p \in choose}]
      /\ \A p \in choose : m[p] \in BestUnions(p, layers[at + 1])
  BY <1>2, <1>3
<1> HIDE DEF made, tied, best
<1>5. /\ NodesArePairs /\ ChosenAreDisjoint /\ LInv
      /\ table.n \in Nat
  BY <1>1, TableFacts DEF EInv
<1>6. layers[at] \subseteq CubesOf(table.n)
  <2>1. at \in 0..(table.n + 1)
    BY <1>1, <1>5 DEF LInv
  <2>2. QED
    BY <1>5, <2>1 DEF LInv, InLayers, LayerOf
<1>7. ASSUME NEW p \in choose
      PROVE  /\ \E s1, s2 \in layers[at] : p = {s1, s2} /\ Near(s1, s2) /\ m[p] \in Unions(s1, s2)
             /\ p \in SUBSET layers[at] /\ m[p] \in SUBSET CubesOf(table.n)
             /\ nodes[p].val = p
  <2>1. PICK s1 \in layers[at], s2 \in layers[at] : p = {s1, s2} /\ Near(s1, s2)
    BY <1>5 DEF NodesArePairs, ChosenAreDisjoint
  <2>2. m[p] \in BestUnions(p, layers[at + 1])
    BY <1>4
  <2>3. PICK q \in p \X p : q[1] # q[2] /\ m[p] \in Better(Unions(q[1], q[2]), layers[at + 1])
    BY <2>2 DEF BestUnions
  <2>4. m[p] \in Unions(q[1], q[2])
    BY <2>3 DEF Better
  <2>5. /\ q[1] \in layers[at] /\ q[2] \in layers[at] /\ p = {q[1], q[2]}
        /\ (q[1] = s1 /\ q[2] = s2) \/ (q[1] = s2 /\ q[2] = s1)
    BY <2>1, <2>3
  <2>6. Near(q[1], q[2])
    BY <1>5, <1>6, <2>1, <2>5, NearFacts
  <2>7. m[p] \in SUBSET CubesOf(table.n)
    <3>1. q[1] \in CubesOf(table.n) /\ q[2] \in CubesOf(table.n)
      BY <1>6, <2>5
    <3>2. QED
      BY <1>5, <2>4, <3>1, UnionsAreCubes
  <2>8. nodes[p].val = p
    BY <1>5 DEF NodesArePairs, ChosenAreDisjoint
  <2>9. QED
    BY <2>4, <2>5, <2>6, <2>7, <2>8
<1>8. \A p, q \in choose : p # q => p \cap q = {}
  BY <1>5, <1>7 DEF ChosenAreDisjoint
<1>9. IsMerge(layers[at], m)
  BY <1>4, <1>7, <1>8 DEF IsMerge
<1>10. m \in Decisions(layers[at])
  <2>1. choose \in SUBSET SUBSET layers[at] /\ m \in [choose -> SUBSET CubesOf(table.n)]
    BY <1>4, <1>7
  <2>2. QED
    BY <2>1 DEF Decisions
<1>11. QED
  BY <1>2, <1>9, <1>10

LEMMA EsopStep ==
  ASSUME EInv, [Next]_evars
  PROVE  EInv' /\ [AnyNext]_vars
<1>1. CASE Minterms
  BY <1>1, MintermsKeep DEF Minterms
<1>2. CASE MergeGroups
  BY <1>2, MergeKeeps DEF MergeGroups
<1>3. CASE MergeEnds
  BY <1>3, MergeEndsKeeps DEF MergeEnds
<1>4. CASE PickPoint
  BY <1>4, PickKeeps DEF PickPoint
<1>5. CASE KeepLargest
  BY <1>5, KeepKeeps DEF KeepLargest
<1>6. CASE Simplified
  <2>1. AnyNext
    BY <1>6, SimplifiedIsCover DEF AnyNext
  <2>2. LInv'
    BY <2>1, LayersNext DEF EInv
  <2>3. pc' = "choose" /\ step' = "layer"
    BY <1>6 DEF Simplified, Cover
  <2>4. QED
    BY <2>1, <2>2, <2>3 DEF EInv
<1>7. CASE Candidates
  BY <1>7, CandidatesKeep DEF Candidates
<1>8. CASE OptimizeLayer
  <2>1. AnyNext
    BY <1>8, OptimizeIsMerge DEF AnyNext
  <2>2. LInv'
    BY <2>1, LayersNext DEF EInv
  <2>3. pc' = "apply" /\ step' = "layer"
    BY <1>8 DEF OptimizeLayer, Choose
  <2>4. QED
    BY <2>1, <2>2, <2>3 DEF EInv
<1>9. CASE (NoOnes \/ Apply \/ Done) /\ UNCHANGED choices
  <2>1. AnyNext
    BY <1>9 DEF AnyNext
  <2>2. LInv'
    BY <2>1, LayersNext DEF EInv
  <2>3. UNCHANGED choices
    BY <1>9
  <2>4. CASE NoOnes
    <3>1. pc = "cover" /\ pc' = "done" /\ table.on = {}
      BY <2>4 DEF NoOnes
    <3>2. step' = "simplify"
      BY <2>3, <3>1 DEF EInv, choices
    <3>3. QED
      BY <2>1, <2>2, <3>1, <3>2 DEF EInv
  <2>5. CASE Apply
    <3>1. pc = "apply" /\ pc' \in {"choose", "done"}
      BY <2>5 DEF Apply
    <3>2. step = "layer" /\ step' = "layer"
      BY <2>3, <3>1 DEF EInv, choices
    <3>3. pc' # "cover"
      BY <3>1
    <3>4. QED
      BY <2>1, <2>2, <3>2, <3>3 DEF EInv
  <2>6. CASE Done
    <3>1. pc = "done" /\ pc' = "done"
      BY <2>6 DEF Done, vars
    <3>2. QED
      BY <2>1, <2>2, <2>3, <3>1 DEF EInv, choices
  <2>7. QED
    BY <1>9, <2>4, <2>5, <2>6
<1>10. CASE UNCHANGED evars
  <2>1. UNCHANGED vars /\ UNCHANGED choices
    BY <1>10 DEF evars
  <2>2. LInv'
    BY <2>1, LayersNext DEF EInv
  <2>3. QED
    BY <2>1, <2>2 DEF EInv, vars, choices, AnsCovers, NodesCover, NodesArePairs, ChosenAreDisjoint, CoveredBy
<1>11. QED
  BY <1>1, <1>2, <1>3, <1>4, <1>5, <1>6, <1>7, <1>8, <1>9, <1>10 DEF Next

\* The loops of QM.cpp do what the layers rely on: what simplify returns is a
\* cover, and optimizeLayer chooses disjoint near pairs and unions of theirs,
\* whatever its random picks are.
THEOREM EsopChoosesWell == Spec => AnySpec
<1>1. EsopInit => EInv /\ Init
  BY EsopInitial DEF EsopInit
<1>2. EInv /\ [Next]_evars => EInv' /\ [AnyNext]_vars
  BY EsopStep
<1>3. QED
  BY <1>1, <1>2, PTL DEF Spec, AnySpec

\* For every number of inputs, every table and every sequence of random picks: from
\* the cover on the cubes keep the table of the oracle, never become more, and are
\* all in the result (QM::simplify, QM::optimize, QM::optimizeLayer).
THEOREM EsopIsTheTable == Spec => []CubesAreTheTable
BY EsopChoosesWell, OptimisedCubesAreTheTable, PTL
=============================================================================
