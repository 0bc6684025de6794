-------------------------- MODULE QuantumRegister --------------------------
(***************************************************************************)
(* What a quantum device promises to the programs that use it, without     *)
(* saying where a qubit is kept: qubits have names, the state is a         *)
(* superposition of assignments of bits to the names in use, and every     *)
(* operation acts on the qubits it names and on nothing else.              *)
(***************************************************************************)
EXTENDS Superposition

VARIABLES
  live,   \* names in use
  next,   \* the name the next allocation returns
  psi,    \* the superposition
  last    \* the call just completed: operation, controls, qubits, bit returned

vars == <<live, next, psi, last>>

Call(op, C, qs, b) == [op |-> op, controls |-> C, qubits |-> qs, bit |-> b]

Init ==
  live = {} /\ next = 0 /\ psi = {<<{}, 1>>} /\ last = Call("none", {}, <<>>, 0)

Becomes(terms) == UNCHANGED <<live, next>> /\ psi' = terms

Alloc ==
  /\ last' = Call("alloc", {}, <<next>>, 0)
  /\ live' = live \cup {next}
  /\ next' = next + 1
  /\ UNCHANGED psi

\* Whatever is left in a qubit that is freed is measured away.
Free(q) ==
  /\ last' = Call("free", {}, <<q>>, 0)
  /\ live' = live \ {q}
  /\ UNCHANGED next
  /\ \E b \in 0 .. 1 : Given(psi, q, b) # {} /\ psi' = Cleared(Given(psi, q, b), {q})

Measure(q, b) ==
  /\ last' = Call("measure", {}, <<q>>, b)
  /\ Given(psi, q, b) # {}
  /\ Becomes(Given(psi, q, b))

Reset(q) ==
  /\ last' = Call("Reset", {}, <<q>>, 0)
  /\ \E b \in 0 .. 1 : Given(psi, q, b) # {} /\ Becomes(Cleared(Given(psi, q, b), {q}))

\* An X may have control qubits C.
X(C, q) == last' = Call("X", C, <<q>>, 0) /\ Becomes(Flip(psi, C, q))
Z(q) == last' = Call("Z", {}, <<q>>, 0) /\ Becomes(Negate(psi, {q}))

CNOT(p, q) == last' = Call("CNOT", {}, <<p, q>>, 0) /\ Becomes(Flip(psi, {p}, q))
CZ(p, q) == last' = Call("CZ", {}, <<p, q>>, 0) /\ Becomes(Negate(psi, {p, q}))
Swap(p, q) == last' = Call("Swap", {}, <<p, q>>, 0) /\ Becomes(Swapped(psi, {}, p, q))

H(q) == last' = Call("H", {}, <<q>>, 0) /\ Becomes(Hadamard(psi, q))

\* Both qubits are measured and left in a Bell pair.
Epr(p, q) ==
  /\ last' = Call("EPR", {}, <<p, q>>, 0)
  /\ \E b, c \in 0 .. 1 : Bell(psi, p, q, b, c) # {} /\ Becomes(Bell(psi, p, q, b, c))

Next ==
  \/ Alloc
  \/ \E q \in live :
       \/ Free(q)
       \/ H(q)
       \/ Z(q)
       \/ Reset(q)
       \/ \E b \in 0 .. 1 : Measure(q, b)
       \/ \E C \in SUBSET (live \ {q}) : X(C, q)
       \/ \E p \in live \ {q} : Epr(p, q) \/ Swap(p, q) \/ CNOT(p, q) \/ CZ(p, q)

Spec == Init /\ [][Next]_vars
=============================================================================
