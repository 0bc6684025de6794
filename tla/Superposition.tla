--------------------------- MODULE Superposition ---------------------------
(***************************************************************************)
(* Superpositions of named qubits.  An assignment is the set of the names  *)
(* whose bit is 1; a superposition is a set of terms, each an assignment   *)
(* and an amplitude other than 0.  A name that occurs nowhere is a qubit   *)
(* in |0>.  Amplitudes are integers, up to a positive factor that          *)
(* normalisation fixes; X, Z, H and the two-qubit gates keep them so.      *)
(***************************************************************************)
EXTENDS Integers

Bit(t, q) == IF q \in t[1] THEN 1 ELSE 0
Other(a, q) == IF q \in a THEN a \ {q} ELSE a \cup {q}

\* Factors common to all amplitudes say nothing: drop those of two.
RECURSIVE Reduced(_)
Reduced(s) ==
  IF s # {} /\ \A t \in s : t[2] % 2 = 0 THEN Reduced({<<t[1], t[2] \div 2>> : t \in s}) ELSE s

\* What a measurement of q leaves when it gives b.
Given(s, q, b) == Reduced({t \in s : Bit(t, q) = b})

\* The qubits of Q are put in |0>; each has the same bit in all terms of s.
Cleared(s, Q) == {<<t[1] \ Q, t[2]>> : t \in s}

\* A gate with control qubits C acts where all of them are 1.
Flip(s, C, q) ==
  {<<IF C \subseteq t[1] THEN Other(t[1], q) ELSE t[1], t[2]>> : t \in s}

Negate(s, C) == {<<t[1], IF C \subseteq t[1] THEN - t[2] ELSE t[2]>> : t \in s}

Exchange(a, p, q) == IF p \in a <=> q \in a THEN a ELSE Other(Other(a, p), q)

Swapped(s, C, p, q) ==
  {<<IF C \subseteq t[1] THEN Exchange(t[1], p, q) ELSE t[1], t[2]>> : t \in s}

Amplitude(s, a) ==
  LET Here == {t \in s : t[1] = a}
  IN  IF Here = {} THEN 0 ELSE (CHOOSE t \in Here : TRUE)[2]

\* The Hadamard gate: terms that differ in q alone interfere.
Hadamard(s, q) ==
  LET Sum(a) == Amplitude(s, a \ {q}) + (IF q \in a THEN -1 ELSE 1) * Amplitude(s, a \cup {q})
      Reach == {t[1] : t \in s} \cup {Other(t[1], q) : t \in s}
  IN  Reduced({<<a, Sum(a)>> : a \in {r \in Reach : Sum(r) # 0}})

\* What leaving p and q in a Bell pair makes of s, where they measured to b and c.
Bell(s, p, q, b, c) ==
  LET Was == Cleared(Given(s, p, b) \cap Given(s, q, c), {p, q})
  IN  Was \cup {<<t[1] \cup {p, q}, t[2]>> : t \in Was}
=============================================================================
