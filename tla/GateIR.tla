------------------------------- MODULE GateIR -------------------------------
(***************************************************************************)
(* Gates and their applications in the isq dialect, and what a sequence of *)
(* applications does to the amplitudes of its wires.                       *)
(*                                                                         *)
(* An application of a gate uses a definition g with the parameters par,   *)
(* decorated (outermost decoration first) with controls and adjoints, on   *)
(* the wires qs: those of the controls first, then those of the gate.      *)
(* mark is the mark of the decorate folding, and fresh says that the value *)
(* of the gate is shared with no other application (it is newer than the   *)
(* last common subexpression elimination).                                 *)
(***************************************************************************)
EXTENDS MultiControl, TLC

Dec(ctrl, adj) == [ctrl |-> ctrl, adj |-> adj]
Op(k, g, par, dec, qs) ==
  [k |-> k, g |-> g, par |-> par, dec |-> dec, qs |-> qs, mark |-> FALSE, fresh |-> TRUE]
Apply(g, par, dec, qs) == Op("apply", g, par, dec, qs)
\* Between two statements the qubits are in memory: stores, then loads.
Memory  == Op("memory", "", <<>>, <<>>, <<>>)
GPhase(theta) == Op("gphase", "gphase", <<theta>>, <<>>, <<>>)
Call(f, qs)   == Op("call", f, <<>>, <<>>, qs)
\* cases: pairs of a value of the wires qs (the first the least significant) and operations.
Switch(qs, cases, default) ==
  Op("switch", "", <<>>, <<>>, qs) @@ [cases |-> cases, default |-> default]

\* A gate definition: its wires, its QIR function ("" if none), its matrix
\* (<<>> if none), its hints, and the function that decomposes it ("" if none).
\* An oracle also has the list of its values, one for each number its inputs
\* stand for (the first input is the most significant bit).
Gate(n, qir, mat, hints, body) ==
  [n |-> n, qir |-> qir, mat |-> mat, hints |-> hints, body |-> body, values |-> <<>>]
Oracle(n, values, body) == [Gate(n, "", <<>>, {}, body) EXCEPT !.values = values]

\* A function: pending is <<>> or the controls and the adjoint it still has to get.
Function(name, n, ops) ==
  [name |-> name, n |-> n, ops |-> ops, ret |-> [i \in 1..n |-> i], pending |-> <<>>]

Diagonal(d)  == [r \in {i - 1 : i \in 1..Len(d)} |->
                  [c \in {i - 1 : i \in 1..Len(d)} |-> IF r = c THEN d[r + 1] ELSE 0]]
Exchange(n, a, b) ==
  LET image(r) == CASE r = a -> b [] r = b -> a [] OTHER -> r
  IN  [r \in {i : i \in 0..(n - 1)} |->
        [c \in {i : i \in 0..(n - 1)} |-> IF c = image(r) THEN 1 ELSE 0]]

\* The gates the compiler knows, by their names without the prefix.
FAMOUS_GATES ==
  LET i == Imag
      gate(n, q, mat, hints) == Gate(n, q, <<mat>>, hints, "")
      rot(q, n, hints) == Gate(n, q, <<>>, hints, "")
      root(a, b, c, d) == Scaled(Root, Matrix2(a, b, c, d))
      phases == {"Symmetric", "Phase", "Diagonal"}
  IN  "cnot"    :> gate(2, "qis_cnot", Exchange(4, 2, 3), {"Hermitian"})
   @@ "swap"    :> gate(2, "qis_swap", Exchange(4, 1, 2), {"Hermitian", "Symmetric"})
   @@ "cz"      :> gate(2, "qis_cz", Diagonal(<<1, 1, 1, P - 1>>), phases \cup {"Hermitian"})
   @@ "toffoli" :> [gate(3, "qis_toffoli", Exchange(8, 6, 7), {"Hermitian"})
                      EXCEPT !.body = "toffoli_decomposition"]
   @@ "h"    :> gate(1, "qis_h", root(1, 1, 1, Minus(1)), {"Hermitian", "Symmetric"})
   @@ "s"    :> gate(1, "qis_s", Diagonal(<<1, i>>), phases)
   @@ "t"    :> gate(1, "qis_t", Diagonal(<<1, Phase(64)>>), phases)
   @@ "sinv" :> gate(1, "qis_s_adj", Diagonal(<<1, Minus(i)>>), phases)
   @@ "tinv" :> gate(1, "qis_t_adj", Diagonal(<<1, Phase(-64)>>), phases)
   @@ "x"    :> gate(1, "qis_x", PauliX, {"Hermitian", "Antidiagonal", "Symmetric"})
   @@ "y"    :> gate(1, "qis_y", Matrix2(0, Minus(i), i, 0), {"Hermitian", "Antidiagonal", "Symmetric"})
   @@ "z"    :> gate(1, "qis_z", Diagonal(<<1, P - 1>>), phases \cup {"Hermitian"})
   @@ "x2p"  :> gate(1, "qis_x2p", root(1, Minus(i), Minus(i), 1), {"Symmetric"})
   @@ "x2m"  :> gate(1, "qis_x2m", root(1, i, i, 1), {"Symmetric"})
   @@ "y2p"  :> gate(1, "qis_y2p", root(1, Minus(1), 1, 1), {"Symmetric"})
   @@ "y2m"  :> gate(1, "qis_y2m", root(1, 1, Minus(1), 1), {"Symmetric"})
   @@ "rx"   :> rot("qis_rx", 1, {"Symmetric"})
   @@ "ry"   :> rot("qis_ry", 1, {"Symmetric"})
   @@ "rz"   :> rot("qis_rz", 1, {"Diagonal", "Symmetric"})
   @@ "gphase" :> rot("qis_gphase", 0, phases)
   @@ "u3"   :> rot("qis_u3", 1, {"Symmetric"})

FamousNames == {"cnot", "swap", "cz", "toffoli", "h", "s", "t", "sinv", "tinv", "x", "y", "z",
                "x2p", "x2m", "y2p", "y2m", "rx", "ry", "rz", "gphase", "u3"}
isFamousGate(g) == g \in FamousNames
Definition(gates, g) == IF isFamousGate(g) THEN FAMOUS_GATES[g] ELSE gates[g]

---------------------------------------------------------------------------
(***************************************************************************)
(* The meaning of operations.  prog has the functions by name and the gate *)
(* definitions; ctl is the controls around, wires the wires the function's *)
(* own stand for, and inv says that the inverse is meant.                  *)
(***************************************************************************)

Controls(dec)  == FlattenSeq([k \in 1..Len(dec) |-> dec[k].ctrl])
Inverted(dec)  == Cardinality({k \in 1..Len(dec) : dec[k].adj}) % 2 = 1
Ones(qs)       == {<<w, 1>> : w \in ToSet(qs)}

Rotation(g, par, inv) ==
  LET sign == IF inv THEN -1 ELSE 1
  IN  CASE g = "rx" -> Rx(sign * par[1])
        [] g = "ry" -> Ry(sign * par[1])
        [] g = "rz" -> Rz(sign * par[1])
        [] OTHER    -> IF inv THEN U3(-par[1], -par[3], -par[2]) ELSE U3(par[1], par[2], par[3])

\* The famous gate a definition by a QIR function stands for.
KnownByQir(def) == CHOOSE g \in FamousNames : FAMOUS_GATES[g].qir = def.qir

\* |x, y> becomes |x, y + f(x)>, the sum bit by bit.
ActOracle(values, ctl, qs, v) ==
  LET n == CHOOSE k \in 0..Len(qs) : 2^k = Len(values)
      m == Len(qs) - n
      flips(x) == {i \in 1..m : Bit(values[IndexOn(x, First(qs, n)) + 1], m - i + 1) = 1}
      image(x) == x + MapThenFoldSet(LAMBDA a, b : a + b, 0, LAMBDA i : (1 - 2 * Bit(x, qs[n + i])) * 2^(qs[n + i] - 1),
                                    LAMBDA S : CHOOSE i \in S : TRUE, flips(x))
  IN  Computed([j \in 1..Len(v) |-> IF Holds(j - 1, ctl) THEN v[image(j - 1) + 1] ELSE v[j]])

RECURSIVE Run(_, _, _, _, _, _), RunCases(_, _, _, _, _, _)

\* def is the definition of the gate, name that of the famous gate it is.
RunGate(prog, def, name, par, ctl, qs, inv, v) ==
  CASE def.values # <<>> -> ActOracle(def.values, ctl, qs, v)
    [] def.mat # <<>> -> Act(IF inv THEN Dagger(def.mat[1]) ELSE def.mat[1], ctl, qs, v)
    [] def.mat = <<>> /\ def.qir = "" /\ def.values = <<>> -> Run(prog, prog.funcs[def.body].ops, ctl, qs, inv, v)
    [] def.qir = "qis_gphase" -> ActScalar(Phase(IF inv THEN -par[1] ELSE par[1]), ctl, v)
    [] OTHER -> Act(Rotation(name, par, inv), ctl, qs, v)
Meant(gates, g) ==
  IF isFamousGate(g) THEN g ELSE IF gates[g].qir # "" THEN KnownByQir(gates[g]) ELSE ""

RunOp(prog, op, ctl, wires, inv, v) ==
  LET qs   == [i \in 1..Len(op.qs) |-> wires[op.qs[i]]]
      m    == Len(qs)
      c    == Controls(op.dec)
      held == {<<qs[i], IF c[i] THEN 1 ELSE 0>> : i \in 1..Len(c)}
      signed == IF inv THEN -op.par[1] ELSE op.par[1]
  IN  CASE op.k = "apply"    -> RunGate(prog, Definition(prog.gates, op.g), Meant(prog.gates, op.g),
                                        op.par, ctl \cup held, From(qs, Len(c)),
                                        inv # Inverted(op.dec), v)
        [] op.k = "memory"   -> v
        [] op.k = "gphase"   -> ActScalar(Phase(IF inv # Inverted(op.dec) THEN -op.par[1]
                                                 ELSE op.par[1]), ctl, v)
        [] op.k = "call"     -> Run(prog, prog.funcs[op.g].ops, ctl, qs, inv, v)
        [] op.k = "matrix"   -> Act(IF inv THEN Dagger(op.mat) ELSE op.mat, ctl, qs, v)
        [] op.k = "multi_rz" -> ActScalar(Phase(signed), ctl \cup Ones(qs), v)
        [] op.k = "multi_rz_ancilla" ->
             ActScalar(Phase(signed), ctl \cup Ones(First(qs, m - 1)), v)
        [] op.k = "multi_rx" -> Act(PauliX, ctl \cup Ones(First(qs, m - 1)), <<qs[m]>>, v)
        [] op.k = "switch"   -> RunCases(prog, op, 0, ctl, wires, v)

\* Halving the sequence keeps the evaluation shallow; a bound variable is computed once.
Run(prog, ops, ctl, wires, inv, v) ==
  LET half == Len(ops) \div 2
      a == IF inv THEN From(ops, half) ELSE First(ops, half)
      b == IF inv THEN First(ops, half) ELSE From(ops, half)
  IN  CASE Len(ops) = 0 -> v
        [] Len(ops) = 1 -> RunOp(prog, ops[1], ctl, wires, inv, v)
        [] OTHER -> CHOOSE r \in {Run(prog, b, ctl, wires, inv, w) :
                                    w \in {Run(prog, a, ctl, wires, inv, v)}} : TRUE

\* The operations of a switch for the value x of its wires.
CaseOps(op, x) ==
  IF \E k \in 1..Len(op.cases) : op.cases[k].value = x
  THEN op.cases[CHOOSE k \in 1..Len(op.cases) : op.cases[k].value = x].ops ELSE op.default

RunCases(prog, op, x, ctl, wires, v) ==
  LET bits == {<<wires[op.qs[k]], (x \div 2^(k - 1)) % 2>> : k \in 1..Len(op.qs)}
  IN  IF x = 2^Len(op.qs) THEN v
      ELSE CHOOSE r \in {RunCases(prog, op, x + 1, ctl, wires, w) :
                            w \in {Run(prog, CaseOps(op, x), ctl \cup bits, wires, FALSE, v)}} : TRUE
=============================================================================
