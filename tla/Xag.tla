-------------------------------- MODULE Xag ---------------------------------
(***************************************************************************)
(* An oracle function as the logic dialect has it and the XAG that         *)
(* Logic2ISQ.cpp builds of it: a network of And and Xor nodes with         *)
(* complemented edges.  The network itself is mockturtle's.                *)
(*                                                                         *)
(* A function is [args, body]: the widths of its arguments, which are the  *)
(* values 1..Len(args), and its statements.  Signals are kept for pairs of *)
(* a value and a bit; a single truth value has the bit Scalar.             *)
(***************************************************************************)
EXTENDS Integers, Sequences, SequencesExt, FiniteSets, FiniteSetsExt

VARIABLES
  xag,       \* the network
  steps      \* what the pebbling hands to the synthesis: its nodes in the order
             \* in which they are computed and uncomputed, each [node, compute]

Scalar == -1
Result == <<0, Scalar>>   \* not a value of any function

---------------------------------------------------------------------------
\* mockturtle's network: node 0 is the constant, then come the inputs, then
\* the gates; equal gates are the same node.

Signal(node, neg) == [node |-> node, neg |-> neg]
Negated(s)        == Signal(s.node, ~s.neg)
Constant(value)   == Signal(0, value)

NewGate(x, kind, a, b) ==
  LET gate == [kind |-> kind, kids |-> <<a, b>>]
      same == {k \in DOMAIN x.gates : x.gates[k] = gate}
  IN  IF same # {} THEN [xag |-> x, signal |-> Signal(x.pis + Min(same), FALSE)]
      ELSE [xag |-> [x EXCEPT !.gates = Append(@, gate)], signal |-> Signal(x.pis + Len(x.gates) + 1, FALSE)]

create_and(x, s, t) ==
  LET a == IF s.node > t.node THEN t ELSE s
      b == IF s.node > t.node THEN s ELSE t
      same(signal) == [xag |-> x, signal |-> signal]
  IN  CASE a = b             -> same(a)
        [] a = Negated(b)    -> same(Constant(FALSE))
        [] a # b /\ a.node = 0 /\ b.node # 0 -> same(IF a.neg THEN b ELSE Constant(FALSE))
        [] OTHER             -> NewGate(x, "and", a, b)
create_xor(x, s, t) ==
  LET a == IF s.node < t.node THEN t ELSE s
      b == IF s.node < t.node THEN s ELSE t
      neg == s.neg # t.neg
      gate == NewGate(x, "xor", Signal(a.node, FALSE), Signal(b.node, FALSE))
  IN  CASE a.node = b.node -> [xag |-> x, signal |-> Constant(neg)]
        [] a.node # 0 /\ b.node = 0 -> [xag |-> x, signal |-> Signal(a.node, neg)]
        [] OTHER           -> [gate EXCEPT !.signal = Signal(@.node, neg)]
Complement(made)   == [made EXCEPT !.signal = Negated(@)]
create_or(x, s, t) == Complement(create_and(x, Negated(s), Negated(t)))
Create(x, op, s, t) ==
  CASE op = "and"  -> create_and(x, s, t)
    [] op = "or"   -> create_or(x, s, t)
    [] op = "xor"  -> create_xor(x, s, t)
    [] op = "xnor" -> Complement(create_xor(x, s, t))

\* What the pebbling and the synthesis ask of it.
InputNodes(x)  == 0..x.pis
GateNodes(x)   == (x.pis + 1)..(x.pis + Len(x.gates))
Kids(x, n)     == IF n <= x.pis THEN <<>> ELSE x.gates[n - x.pis].kids
OutputNodes(x) == {x.pos[j].node : j \in 1..Len(x.pos)} \ InputNodes(x)

Inputs  == InputNodes(xag)
Outputs == OutputNodes(xag)

---------------------------------------------------------------------------
\* The statements of a function.

Bits(width) == [j \in 1..width |-> j - 1]
Binary(op, res, lhs, rhs)           == [st |-> "binary", op |-> op, res |-> res, of |-> <<lhs, rhs>>, bits |-> <<Scalar>>]
VecBinary(op, res, lhs, rhs, width) == [Binary(op, res, lhs, rhs) EXCEPT !.bits = Bits(width)]
NotOp(res, v)            == [st |-> "not", res |-> res, of |-> <<v>>, bits |-> <<Scalar>>]
NotvOp(res, v, width)    == [NotOp(res, v) EXCEPT !.bits = Bits(width)]
ConstantOp(res, value)   == [st |-> "constant", res |-> res, value |-> value]
LoadOp(res, array, i)    == [st |-> "load", res |-> res, array |-> array, at |-> i]
StoreOp(v, array, i)     == [st |-> "store", v |-> v, array |-> array, at |-> i]
ReturnOp(array, width)   == [st |-> "return", array |-> array, width |-> width]

\* The bits of the arguments in their order.
InputBits(func) ==
  FlattenSeq([i \in 1..Len(func.args) |-> [j \in 1..func.args[i] |-> <<i, j - 1>>]])

With(table, at, signal) == [k \in DOMAIN table \cup {at} |-> IF k = at THEN signal ELSE table[k]]

Places(s) == {<<s.res, bit>> : bit \in ToSet(s.bits)}

\* A gate for each bit of a binary statement: b holds the network and the symbol table.
BitByBit(b, s) ==
  LET one(acc, bit) ==
        LET made == Create(acc.xag, s.op, acc.table[<<s.of[1], bit>>], acc.table[<<s.of[2], bit>>])
        IN  [xag |-> made.xag, table |-> With(acc.table, <<s.res, bit>>, made.signal)]
      after[i \in 0..Len(s.bits)] == IF i = 0 THEN b ELSE one(after[i - 1], s.bits[i])
  IN  after
\* One statement.
Built(b, s) ==
  CASE s.st = "binary"   -> BitByBit(b, s)[Len(s.bits)]
    [] s.st = "not"      -> [b EXCEPT !.table =
                               [k \in DOMAIN @ \cup Places(s) |-> IF k[1] = s.res THEN Negated(@[<<s.of[1], k[2]>>]) ELSE @[k]]]
    [] s.st = "constant" -> [b EXCEPT !.table = With(@, <<s.res, Scalar>>, Constant(s.value))]
    [] s.st = "load"     -> [b EXCEPT !.table = With(@, <<s.res, Scalar>>, @[<<s.array, s.at>>])]
    [] s.st = "store"    -> [b EXCEPT !.table = With(@, <<s.array, s.at>>, @[<<s.v, Scalar>>])]
    [] s.st = "return"   -> [b EXCEPT !.xag.pos = @ \o [j \in 1..s.width |-> b.table[<<s.array, j - 1>>]]]

\* The network and the symbol table after each statement.
Translation(func) ==
  LET bits == InputBits(func)
      place(at) == CHOOSE k \in 1..Len(bits) : bits[k] = at
      inputs == [xag |-> [pis |-> Len(bits), gates |-> <<>>, pos |-> <<>>],
                 table |-> [at \in ToSet(bits) |-> Signal(place(at), FALSE)]]
      after[i \in 0..Len(func.body)] == IF i = 0 THEN inputs ELSE Built(after[i - 1], func.body[i])
  IN  after
XagOf(func) == Translation(func)[Len(func.body)].xag

---------------------------------------------------------------------------
\* What the function returns for an input: the values of its statements.

Applied(op, p, q) ==
  CASE op = "and" -> p /\ q [] op = "or" -> p \/ q [] op = "xor" -> p # q [] op = "xnor" -> p = q
Executed(env, s) ==
  CASE s.st = "binary" ->
         [k \in DOMAIN env \cup Places(s) |->
            IF k[1] = s.res THEN Applied(s.op, env[<<s.of[1], k[2]>>], env[<<s.of[2], k[2]>>]) ELSE env[k]]
    [] s.st = "not" ->
         [k \in DOMAIN env \cup Places(s) |-> IF k[1] = s.res THEN ~env[<<s.of[1], k[2]>>] ELSE env[k]]
    [] s.st = "constant" -> With(env, <<s.res, Scalar>>, s.value)
    [] s.st = "load"     -> With(env, <<s.res, Scalar>>, env[<<s.array, s.at>>])
    [] s.st = "store"    -> With(env, <<s.array, s.at>>, env[<<s.v, Scalar>>])
    [] s.st = "return"   -> With(env, Result, [j \in 1..s.width |-> env[<<s.array, j - 1>>]])
\* The values after each statement; input[k] is that of the k-th input bit.
Execution(func, input) ==
  LET bits == InputBits(func)
      place(at) == CHOOSE k \in 1..Len(bits) : bits[k] = at
      given == [at \in ToSet(bits) |-> input[place(at)]]
      after[i \in 0..Len(func.body)] == IF i = 0 THEN given ELSE Executed(after[i - 1], func.body[i])
  IN  after
Returned(func, input) == Execution(func, input)[Len(func.body)][Result]

---------------------------------------------------------------------------
\* The functions the code lowers: MLIR has checked that a statement reads what one
\* before it gives, that the result of an operator is a new value and that the last
\* statement, and no other, returns; and what is read of an array has been stored, as
\* symbol_table.at throws otherwise.  No statement stores into an argument: the code
\* would look the argument's qubits up under the gate stored there.
Reads(s) ==
  CASE s.st = "binary"   -> {<<s.of[i], bit>> : i \in 1..2, bit \in ToSet(s.bits)}
    [] s.st = "not"      -> {<<s.of[1], bit>> : bit \in ToSet(s.bits)}
    [] s.st = "constant" -> {}
    [] s.st = "load"     -> {<<s.array, s.at>>}
    [] s.st = "store"    -> {<<s.v, Scalar>>}
    [] s.st = "return"   -> {<<s.array, j - 1>> : j \in 1..s.width}
Gives(s) ==
  CASE s.st \in {"binary", "not"}    -> Places(s)
    [] s.st \in {"constant", "load"} -> {<<s.res, Scalar>>}
    [] s.st = "store"                -> {<<s.array, s.at>>}
    [] s.st = "return"               -> {}
Known(func, i) == ToSet(InputBits(func)) \cup UNION {Gives(func.body[l]) : l \in 1..i}

IsStatement(s) ==
  \/ s.st = "binary" /\ s.op \in {"and", "or", "xor", "xnor"} /\ s.bits \in Seq(Int)
  \/ s.st = "not" /\ s.bits \in Seq(Int)
  \/ s.st = "constant" /\ s.value \in BOOLEAN
  \/ s.st \in {"load", "store"}
  \/ s.st = "return" /\ s.width \in Nat
IsFunction(func) ==
  LET last == Len(func.body)
  IN  /\ func.args \in Seq(Nat)
      /\ last \in Nat \ {0}
      /\ \A i \in 1..last :
           LET s == func.body[i]
           IN  /\ IsStatement(s)
               /\ Reads(s) \subseteq Known(func, i - 1)
               /\ s.st = "return" <=> i = last
               /\ s.st = "store" => s.array \notin 1..Len(func.args)
               /\ s.st \in {"binary", "not"} => \A k \in Known(func, i - 1) : k[1] # s.res
=============================================================================
