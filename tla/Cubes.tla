------------------------------- MODULE Cubes --------------------------------
(***************************************************************************)
(* Cubes over the inputs of an oracle, and the layers QM::optimize keeps   *)
(* them in (lib/oracle/QM.cpp).  A table is the set of inputs with value   *)
(* 1.  A cube says for each input bit whether it must be 0, be 1 or does   *)
(* not matter (Dash), and the value of an input is the parity of the cubes *)
(* it lies in.                                                             *)
(***************************************************************************)
EXTENDS Integers, FiniteSets

Dash == 2
CubesOf(n) == [1..n -> {0, 1, Dash}]

\* The inputs of n bits are the numbers below Two[n], two to the n.
Two[k \in Nat] == IF k = 0 THEN 1 ELSE 2 * Two[k - 1]
InputsOf(n)    == 0..(Two[n] - 1)
\* Bit 1 of an input is the most significant one.
InputBit(x, i, n)     == IF (x \div Two[n - i]) % 2 = 1 THEN 1 ELSE 0
Lies(x, cube, n)      == \A i \in 1..n : cube[i] = Dash \/ cube[i] = InputBit(x, i, n)
Covering(x, cubes, n) == {c \in cubes : Lies(x, c, n)}

Odd(S) == Cardinality(S) % 2 = 1
\* The inputs a set of cubes gives the value 1.
TableOf(cubes, n) == {x \in InputsOf(n) : Odd(Covering(x, cubes, n))}

Places(s, value)    == {i \in DOMAIN s : s[i] = value}
Dashes(s)           == Cardinality(Places(s, Dash))
Differences(s1, s2) == {i \in DOMAIN s1 : s1[i] # s2[i]}
oneBitDif(s1, s2)   == Cardinality(Differences(s1, s2)) = 1
twoBitDif(s1, s2)   == Places(s1, Dash) = Places(s2, Dash) /\ Cardinality(Differences(s1, s2)) = 2

Dashed(s, i)          == [s EXCEPT ![i] = Dash]
oneBitUnion(s1, s2)   == [i \in DOMAIN s1 |-> IF s1[i] # s2[i] THEN Dash ELSE s1[i]]
\* The two pairs of larger cubes with the same parity as s1 and s2.
twoBitUnion(s1, s2) ==
  {{Dashed(s1, d[1]), Dashed(s2, d[2])} :
     d \in {e \in Differences(s1, s2) \X Differences(s1, s2) : e[1] # e[2]}}

\* What two cubes of a layer may become.
Near(s1, s2)   == oneBitDif(s1, s2) \/ twoBitDif(s1, s2)
Unions(s1, s2) == IF oneBitDif(s1, s2) THEN {{oneBitUnion(s1, s2)}} ELSE twoBitUnion(s1, s2)

---------------------------------------------------------------------------
\* picks maps pairs of cubes to the larger cubes they become.  A cube of the
\* next layer appears and vanishes with each pair that becomes it.

\* Mutant: a cube that is there already is kept.
ToggledAll_Added(layer, picks) == layer \cup UNION {picks[p] : p \in DOMAIN picks}
ToggledAll(layer, picks) ==
  {c \in layer \cup UNION {picks[p] : p \in DOMAIN picks} :
     (c \in layer) # Odd({p \in DOMAIN picks : c \in picks[p]})}

Merged(layers, i, picks) ==
  [layers EXCEPT ![i] = @ \ UNION (DOMAIN picks), ![i + 1] = ToggledAll(@, picks)]

\* Disjoint pairs of near cubes of a layer, and what they become.
IsMerge(layer, picks) ==
  /\ \A p \in DOMAIN picks :
       \E s1, s2 \in layer : p = {s1, s2} /\ Near(s1, s2) /\ picks[p] \in Unions(s1, s2)
  /\ \A p, q \in DOMAIN picks : p # q => p \cap q = {}

Sorted(cubes, n) == [i \in 0..(n + 1) |-> {c \in cubes : Dashes(c) = i}]
=============================================================================
