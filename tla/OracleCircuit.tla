--------------------------- MODULE OracleCircuit ----------------------------
(***************************************************************************)
(* From a pebbling of a network to a circuit of X, CNOT and Toffoli gates  *)
(* (isq/passes/LHRSOracle.hpp, Logic2ISQ.cpp), whatever strategy the       *)
(* pebbling comes from.  The gates act as soon as they are emitted:        *)
(* content[q] is the set of assignments, to the input bits and to what the *)
(* caller has put into the output qubits, under which qubit q is 1.        *)
(***************************************************************************)
EXTENDS Xag

VARIABLES
  phase,     \* "pebble", "emit", "done"
  at,        \* the next step
  content,   \* the qubits
  top,       \* node_to_qubit: the qubit pushed last for a node
  free,      \* free_ancillae
  outs,      \* o_indexes
  seen       \* node_to_signals: whether the first output of a node is turned
qvars == <<phase, at, content, top, free, outs, seen>>

QubitsInit ==
  /\ phase = "pebble" /\ at = 1
  /\ content = <<>> /\ top = <<>> /\ free = <<>> /\ outs = <<>> /\ seen = <<>>

---------------------------------------------------------------------------
\* An assignment is a number: first the input bits, then one bit for each output.

Assignments == 0..(2^(xag.pis + Len(xag.pos)) - 1)
Bit(k)      == {v \in Assignments : (v \div 2^(k - 1)) % 2 = 1}
\* What the caller has in the output qubit of a node: that of its first output.
First(n)    == Min({j \in 1..Len(xag.pos) : xag.pos[j].node = n})
Given(j)    == Bit(xag.pis + j)

Differ(S, T)  == (S \ T) \cup (T \ S)
apply_x(c, q) == [c EXCEPT ![q] = Assignments \ @]
apply_cnot(c, q, t) == [c EXCEPT ![t] = Differ(@, c[q])]
\* A complemented control has an X on both sides.
apply_toffoli(c, q1, neg1, q2, neg2, t) ==
  LET flip(d) == [q \in DOMAIN d |-> IF (q = q1 /\ neg1) \/ (q = q2 /\ neg2) THEN Assignments \ d[q] ELSE d[q]]
      flipped == flip(c)
  IN  flip([flipped EXCEPT ![t] = Differ(@, flipped[q1] \cap flipped[q2])])

\* compute_node: the node's function is added to qubit t.
AddNode(c, n, t) ==
  LET a == Kids(xag, n)[1]
      b == Kids(xag, n)[2]
      xored == apply_cnot(apply_cnot(c, top[a.node], t), top[b.node], t)
  IN  IF xag.gates[n - xag.pis].kind = "and" THEN apply_toffoli(c, top[a.node], a.neg, top[b.node], b.neg, t)
      ELSE IF a.neg # b.neg THEN apply_x(xored, t) ELSE xored

---------------------------------------------------------------------------
\* prepare_inputs and prepare_constant: a qubit for each input, and one for the
\* constant if an output refers to it.
HasConstant == \E j \in 1..Len(xag.pos) : xag.pos[j].node = 0
Prepare ==
  /\ phase = "pebble"
  /\ LET inputs == [k \in 1..xag.pis |-> Bit(k)]
     IN  /\ content' = IF HasConstant THEN Append(inputs, Given(First(0))) ELSE inputs
         /\ top' = [n \in (IF HasConstant THEN Inputs ELSE Inputs \ {0}) |-> IF n = 0 THEN xag.pis + 1 ELSE n]
  /\ phase' = "emit"
  /\ UNCHANGED <<xag, steps, at, free, outs, seen>>

Step == steps[at]
\* Mutant: an output is computed on a qubit that has been used before.
NodeQubit_Reused(n) ==
  IF free # <<>> THEN [qubit |-> Head(free), content |-> content, free |-> Tail(free)]
  ELSE [qubit |-> Len(content) + 1, content |-> Append(content, IF n \in Outputs THEN Given(First(n)) ELSE {}), free |-> free]
\* request_clean_ancilla for an output, request_ancilla for any other node.
NodeQubit(n) ==
  IF n \in Outputs THEN [qubit |-> Len(content) + 1, content |-> Append(content, Given(First(n))), free |-> free]
  ELSE IF free = <<>> THEN [qubit |-> Len(content) + 1, content |-> Append(content, {}), free |-> free]
  ELSE [qubit |-> Head(free), content |-> content, free |-> Tail(free)]

\* Mutant: a node that is computed again keeps its old qubit in the table.
Compute_OldQubit ==
  /\ phase = "emit" /\ at <= Len(steps) /\ Step.compute
  /\ \E new \in {NodeQubit(Step.node)} :
       /\ content' = AddNode(new.content, Step.node, new.qubit)
       /\ free' = new.free
       /\ top' = IF Step.node \in DOMAIN top THEN top ELSE With(top, Step.node, new.qubit)
  /\ at' = at + 1
  /\ UNCHANGED <<xag, steps, phase, outs, seen>>
Compute ==
  /\ phase = "emit" /\ at <= Len(steps) /\ Step.compute
  /\ \E new \in {NodeQubit(Step.node)} :
       /\ content' = AddNode(new.content, Step.node, new.qubit)
       /\ free' = new.free
       /\ top' = With(top, Step.node, new.qubit)
  /\ at' = at + 1
  /\ UNCHANGED <<xag, steps, phase, outs, seen>>

Uncompute ==
  /\ phase = "emit" /\ at <= Len(steps) /\ ~Step.compute
  /\ content' = AddNode(content, Step.node, top[Step.node])
  /\ free' = <<top[Step.node]>> \o free
  /\ at' = at + 1
  /\ UNCHANGED <<xag, steps, phase, top, outs, seen>>

\* prepare_outputs goes through the outputs.
Output     == xag.pos[Len(outs) + 1]
Outputting == phase = "emit" /\ at > Len(steps) /\ Len(outs) < Len(xag.pos)
Referred   == Output.node \in DOMAIN seen \cup (Inputs \ {0})

\* An input, or a node that is an output already: it is copied to a new qubit.
CopyOutput ==
  /\ Outputting /\ Referred
  /\ LET known  == Output.node \in DOMAIN seen
         new    == Len(content) + 1
         copied == apply_cnot(Append(content, Given(Len(outs) + 1)), top[Output.node], new)
     IN  /\ content' = IF Output.neg # (known /\ seen[Output.node]) THEN apply_x(copied, new) ELSE copied
         /\ outs' = Append(outs, new)
         /\ seen' = IF known THEN seen ELSE With(seen, Output.node, FALSE)
  /\ UNCHANGED <<xag, steps, phase, at, top, free>>

\* A node that has not been an output: its qubit is the output.
NameOutput ==
  /\ Outputting /\ ~Referred
  /\ content' = IF Output.neg THEN apply_x(content, top[Output.node]) ELSE content
  /\ outs' = Append(outs, top[Output.node])
  /\ seen' = With(seen, Output.node, Output.neg)
  /\ UNCHANGED <<xag, steps, phase, at, top, free>>

Finish ==
  /\ phase = "emit" /\ at > Len(steps) /\ Len(outs) = Len(xag.pos)
  /\ phase' = "done"
  /\ UNCHANGED <<xag, steps, at, content, top, free, outs, seen>>

Emit == Compute \/ Uncompute \/ CopyOutput \/ NameOutput \/ Finish

---------------------------------------------------------------------------
(***************************************************************************)
(* What a strategy owes the synthesis: any network as mockturtle builds    *)
(* them, and any pebbling of it.                                           *)
(***************************************************************************)
Signals == [node : Nat, neg : BOOLEAN]

IsNetwork(x) ==
  /\ x = [pis |-> x.pis, gates |-> x.gates, pos |-> x.pos]
  /\ x.pis \in Nat
  /\ x.gates \in Seq([kind : {"and", "xor"}, kids : Signals \X Signals])
  /\ x.pos \in Seq([node : InputNodes(x) \cup GateNodes(x), neg : BOOLEAN])
  /\ \A n \in GateNodes(x) :
       /\ Kids(x, n)[1].node \in 1..(n - 1)
       /\ Kids(x, n)[2].node \in 1..(n - 1)
       /\ Kids(x, n)[1].node # Kids(x, n)[2].node

\* The nodes that are computed after the first i steps.
Held(s, i) ==
  {n \in {s[k].node : k \in 1..i} :
     \E k \in 1..i : /\ s[k].node = n /\ s[k].compute
                     /\ \A l \in (k + 1)..i : s[l].node # n}

\* A node is computed and uncomputed only while what it builds on is there, an
\* output is never uncomputed, and in the end just the outputs are left.
IsPebbling(x, s) ==
  /\ s \in Seq([node : GateNodes(x), compute : BOOLEAN])
  /\ \A i \in 1..Len(s) :
       LET n == s[i].node
           held == Held(s, i - 1)
       IN  /\ {Kids(x, n)[1].node, Kids(x, n)[2].node} \subseteq InputNodes(x) \cup held
           /\ IF s[i].compute THEN n \notin held ELSE n \in held \ OutputNodes(x)
  /\ Held(s, Len(s)) = OutputNodes(x)

Pebbled == IsNetwork(xag) /\ IsPebbling(xag, steps)

\* The strategy hands over a network and its steps; what follows is the synthesis.
Strategy == phase = "pebble" /\ UNCHANGED qvars

CircuitNext == Strategy \/ (Pebbled /\ Prepare) \/ Emit
CircuitSpec == QubitsInit /\ [][CircuitNext]_<<xag, steps, qvars>>

---------------------------------------------------------------------------
\* Whatever the caller has in the output qubits: when the circuit ends, every
\* qubit that Logic2ISQ.cpp allocates and gives back is 0 again and the inputs
\* are what they were; and whenever an ancilla is free it is 0, so that the
\* next node may be computed on it.
AncillasComeBackClean ==
  /\ \A q \in ToSet(free) : content[q] = {}
  /\ phase = "done" =>
       \A q \in DOMAIN content :
         IF q <= xag.pis THEN content[q] = Bit(q) ELSE q \notin ToSet(outs) => content[q] = {}

\* The value of a node, as a set of assignments: of an input, and of a gate built
\* on nodes whose values are A and B.
Turned(S, neg) == IF neg THEN Assignments \ S ELSE S
GateValue(n, A, B) ==
  LET a == Turned(A, Kids(xag, n)[1].neg)
      b == Turned(B, Kids(xag, n)[2].neg)
  IN  IF xag.gates[n - xag.pis].kind = "and" THEN a \cap b ELSE Differ(a, b)
NodeValue[n \in Inputs \cup GateNodes(xag)] ==
  IF n = 0 THEN {}
  ELSE IF n \in Inputs THEN Bit(n)
  ELSE GateValue(n, NodeValue[Kids(xag, n)[1].node], NodeValue[Kids(xag, n)[2].node])

\* When the circuit ends, every output is what the network says, added to what the
\* caller had there: whatever that is if there is one output, and for output qubits
\* that are 0 if there are several.
Asked == IF Len(xag.pos) = 1 THEN Assignments
         ELSE {v \in Assignments : \A j \in 1..Len(xag.pos) : v \notin Given(j)}
OutputsAreTheNetwork ==
  phase = "done" =>
    \A j \in DOMAIN outs :
      LET value == Turned(NodeValue[xag.pos[j].node], xag.pos[j].neg)
      IN  content[outs[j]] \cap Asked = Differ(Given(j), value) \cap Asked
=============================================================================
