--------------------------- MODULE MCLogicOracle ----------------------------
(***************************************************************************)
(* Oracle functions of three input bits in two arguments.  A chain of      *)
(* gates takes the gate before and, as the pattern says, the one before    *)
(* that or an input; its outputs are the last gate, or several gates, one  *)
(* twice, an input and a constant.                                         *)
(***************************************************************************)
EXTENDS LogicOracle

\* The gates mockturtle's view reaches from the outputs; the network numbers a
\* gate after those it takes.
RECURSIVE Searched(_, _)
Searched(x, n) == IF n <= x.pis THEN {} ELSE {n} \cup UNION {Searched(x, s.node) : s \in ToSet(Kids(x, n))}
MCtopo_view(x) ==
  LET found == UNION {Searched(x, s.node) : s \in ToSet(x.pos)}
  IN  SelectSeq([n \in 1..(x.pis + Len(x.gates)) |-> n], LAMBDA n : n \in found)

\* Values: 1 and 2 the arguments, 3 the result, 4 a constant, 5 a truth value that
\* is turned, 11.. the loaded inputs, 20 + i the i-th gate.
Gate(i) == 20 + i
Prologue ==
  <<LoadOp(11, 1, 0), LoadOp(12, 1, 1), LoadOp(13, 2, 0), ConstantOp(4, TRUE)>>
Input(i) == 11 + (i % 3)
Kinds == <<"and", "or", "and", "xor", "xnor">>
Chain(n, pattern) ==
  [i \in 1..n |->
     Binary(Kinds[(i % 5) + 1], Gate(i), IF i = 1 THEN Input(0) ELSE Gate(i - 1),
            IF i > 2 /\ i \in pattern THEN Gate(i - 2) ELSE Input(i))]
\* Two results, of which one is the other turned.
Returns(values) ==
  FlattenSeq([j \in 1..Len(values) |-> <<StoreOp(values[j], 3, j - 1)>>]) \o <<ReturnOp(3, Len(values))>>

Oracle(body, values) == [args |-> <<2, 1>>, body |-> Prologue \o body \o Returns(values)]
Inverted(n) == <<NotOp(5, Gate(n))>>

Chains ==
  {Oracle(Chain(8, p), <<Gate(8)>>) : p \in SUBSET {3, 4, 5, 6, 8}}
    \cup {Oracle(Chain(9, p) \o Inverted(5), <<Gate(9), Gate(5), 5, 12>>) : p \in SUBSET {3, 5, 6, 8, 9}}
    \cup {Oracle(Chain(14, p), <<Gate(14), Gate(7)>>) : p \in SUBSET {5, 9, 13}}
    \cup {Oracle(Chain(15, p), <<Gate(15)>>) : p \in SUBSET {4, 7, 8, 15}}
\* Gates in pairs that take the pair before, so that a cut has two nodes at least.
Ladder(n) ==
  [i \in 1..n |->
     LET pair == (i - 1) \div 2
         below(k) == IF pair = 0 THEN Input(k) ELSE Gate(2 * pair - 1 + k)
     IN  Binary(Kinds[((i + pair) % 5) + 1], Gate(i), below(0), IF i % 3 = 0 THEN Input(i) ELSE below(1))]
Ladders ==
  {Oracle(Ladder(n), values) : n \in {12, 13, 14}, values \in {<<Gate(12)>>, <<Gate(12), Gate(11)>>, <<Gate(11), Gate(6), Gate(6)>>}}
\* Two cones that share inputs only, and a constant.
Apart ==
  {Oracle(Chain(6, {4}) \o <<Binary("xor", 40, 11, 13), Binary("and", 41, 40, 12), Binary("or", 42, 41, 40)>>,
          <<42, Gate(6), 4>>)}
\* Bit by bit on whole arrays.
Vectors ==
  {[args |-> <<2, 2>>,
    body |-> <<NotvOp(10, 1, 2), VecBinary("and", 11, 10, 2, 2), VecBinary("xor", 12, 11, 1, 2),
               VecBinary("or", 13, 12, 10, 2), ReturnOp(13, 2)>>]}
MCFunctions == Chains \cup Ladders \cup Apart \cup Vectors
=============================================================================
