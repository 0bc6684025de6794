----------------------------- MODULE GateRules ------------------------------
(***************************************************************************)
(* The rewriting rules of the gate passes (lib/passes): each says what an  *)
(* operation is replaced by, as a set that is empty when the rule does not *)
(* apply to it.                                                            *)
(***************************************************************************)
EXTENDS GateIR, Cubes

---------------------------------------------------------------------------
\* Emitting gates (RecognizeFamousGates.cpp).

\* The applications of a gphase that is not controlled have no result, so
\* they are removed as dead.
emitBuiltinGate(g, qs, par, ctrl, adj) ==
  IF qs = <<>> THEN <<>>
  ELSE <<Apply(g, par, IF ctrl # <<>> \/ adj THEN <<Dec(ctrl, adj)>> ELSE <<>>, qs)>>
Emit(g, qs)           == emitBuiltinGate(g, qs, <<>>, <<>>, FALSE)
EmitTurn(g, q, theta) == emitBuiltinGate(g, <<q>>, <<theta>>, <<>>, FALSE)

\* What a gate synthesis returns, on the wires qs.
emitDecomposedGateSequence(elements, qs) ==
  LET on(e) == [k \in 1..Len(e.q) |-> qs[e.q[k] + 1]]
      gate(e) == CASE e.type = "NONE"    -> Apply("u3", e.par, <<>>, on(e))
                   [] e.type = "CPHASE"  -> Apply("rz", e.par, <<>>, on(e))
                   [] e.type = "H"       -> Apply("h", <<>>, <<>>, on(e))
                   [] e.type = "X"       -> Apply("x", <<>>, <<>>, on(e))
                   [] e.type = "CNOT"    -> Apply("cnot", <<>>, <<>>, on(e))
                   [] e.type = "TOFFOLI" -> Apply("toffoli", <<>>, <<>>, on(e))
                   [] e.type = "RX"      -> Apply("rx", e.par, <<>>, on(e))
                   [] e.type = "RY"      -> Apply("ry", e.par, <<>>, on(e))
                   [] e.type = "RZ"      -> Apply("rz", e.par, <<>>, on(e))
  IN  [k \in 1..Len(elements) |-> gate(elements[k])]

\* The decomposition of the Toffoli gate the pass adds to the module.
emitToffoliConstruction ==
  LET tdg(w) == emitBuiltinGate("t", <<w>>, <<>>, <<>>, TRUE)
  IN  Function("toffoli_decomposition", 3,
        Emit("h", <<3>>) \o Emit("cnot", <<2, 3>>) \o tdg(3) \o Emit("cnot", <<1, 3>>)
          \o Emit("t", <<3>>) \o Emit("cnot", <<2, 3>>) \o tdg(3) \o Emit("cnot", <<1, 3>>)
          \o Emit("t", <<3>>) \o tdg(2) \o Emit("h", <<3>>) \o Emit("cnot", <<1, 2>>)
          \o tdg(2) \o Emit("cnot", <<1, 2>>) \o Emit("t", <<1>>) \o Emit("s", <<2>>))

---------------------------------------------------------------------------
\* Oracles (OracleDecompose.cpp): the front end turns the list of values into the
\* inputs where each output is one; each cube of an output is one controlled X.

getOracleVale(values, m) ==
  [y \in 1..m |-> {x \in 0..(Len(values) - 1) : Bit(values[x + 1], m - y + 1) = 1}]

\* X on wire t where the inputs lie in the cube.
CubeX(cube, t) ==
  LET qidx == SelectSeq([i \in 1..Len(cube) |-> i], LAMBDA i : cube[i] # Dash)
      flags == [k \in 1..Len(qidx) |-> cube[qidx[k]] = 1]
  IN  <<Apply("X", <<>>, IF qidx = <<>> THEN <<>> ELSE <<Dec(flags, FALSE)>>, Append(qidx, t)), Memory>>

\* The cubes of one output: any that have its values as their parity and are no
\* more than its ones, as CubesAreTheTable says of QM::optimize (OracleCover).
Optimized(row, n) ==
  LET upto[k \in Nat] ==
        IF k = 0 THEN {{}} ELSE upto[k - 1] \cup {cubes \cup {c} : cubes \in upto[k - 1], c \in CubesOf(n)}
  IN  {cubes \in upto[Cardinality(row)] : TableOf(cubes, n) = row}

\* All the bodies it may come to.
decomposeOracle(values, size) ==
  LET n == CHOOSE k \in 0..size : 2^k = Len(values)
      rows == getOracleVale(values, size - n)
      xs(cubes, t) == LET s == SetToSeq(cubes) IN FlattenSeq([k \in 1..Len(s) |-> CubeX(s[k], t)])
  IN  FoldLeft(LAMBDA bodies, y : {b \o xs(cubes, n + y) : b \in bodies, cubes \in Optimized(rows[y], n)},
               {<<>>}, [y \in 1..(size - n) |-> y])

---------------------------------------------------------------------------
\* Hints, from the definition outwards.

computePostDecorateTrait(hints, d) ==
  LET allone == \A i \in 1..Len(d.ctrl) : d.ctrl[i]
  IN  (hints \cap {"Diagonal", "Hermitian"})
        \cup (IF d.ctrl = <<>> THEN hints \cap {"Antidiagonal", "Symmetric"} ELSE {})
        \cup (IF allone /\ "Phase" \in hints THEN {"Phase", "Symmetric"} ELSE {})

\* Those of the gate of an application, inside its first k decorations.
HintsInside(gates, op, k) ==
  FoldRight(LAMBDA d, hints : computePostDecorateTrait(hints, d),
            From(op.dec, k), Definition(gates, op.g).hints)

---------------------------------------------------------------------------
\* Switches, negative controls, famous gates and rotations.

\* The operations of a case, each application controlled by the value x.
processRegion(qs, ops, x) ==
  LET n == Len(qs)
      bits == [k \in 1..n |-> (x \div 2^(n - k)) % 2 = 1]
      controlled(o) == IF o.k # "apply" THEN o
                       ELSE [o EXCEPT !.dec = <<Dec(bits, FALSE)>> \o @,
                                      !.qs = Rev(qs) \o @, !.fresh = TRUE]
  IN  [k \in 1..Len(ops) |-> controlled(ops[k])]

LowerSwitch(op) ==
  LET shown == {op.cases[k].value : k \in 1..Len(op.cases)}
      rest  == SetToSortSeq((0..(2^Len(op.qs) - 1)) \ shown, <)
  IN  IF op.k # "switch" THEN {}
      ELSE {FlattenSeq([k \in 1..Len(op.cases) |->
                          processRegion(op.qs, op.cases[k].ops, op.cases[k].value)])
              \o FlattenSeq([k \in 1..Len(rest) |-> processRegion(op.qs, op.default, rest[k])])}

RewritePreferFamousGate(gates, op) ==
  LET def == Definition(gates, op.g)
  IN  IF op.k \in {"apply", "gphase"} /\ ~isFamousGate(op.g) /\ def.qir # ""
      THEN {<<[op EXCEPT !.g = KnownByQir(def)]>>} ELSE {}

\* Only the outermost decoration is looked at.
EliminateNegCtrl(op) ==
  LET flags == op.dec[1].ctrl
      xs == FlattenSeq([i \in 1..Len(flags) |->
                          IF flags[i] THEN <<>> ELSE Emit("x", <<op.qs[i]>>)])
      true == [op EXCEPT !.dec[1].ctrl = [i \in 1..Len(flags) |-> TRUE], !.fresh = TRUE]
  IN  IF op.k # "apply" \/ op.dec = <<>> THEN {}
      ELSE IF \A i \in 1..Len(flags) : flags[i] THEN {}
      ELSE {xs \o <<true>> \o xs}

\* Rotations under so many controls that the Gray code is too long.
ConvertFamousParamSQIntoU3(op) ==
  LET u3(par) == {<<[op EXCEPT !.g = "u3", !.par = par]>>}
  IN  IF op.k # "apply" \/ op.dec = <<>> THEN {}
      ELSE IF Len(Last(op.dec).ctrl) <= MaxGray THEN {}
      ELSE CASE op.g = "rx" -> u3(<<op.par[1], -(Turn \div 4), Turn \div 4>>)
             [] op.g = "ry" -> u3(<<op.par[1], 0, 0>>)
             [] op.g = "rz" -> u3(<<0, 0, op.par[1]>>)
             [] OTHER -> {}

---------------------------------------------------------------------------
\* Canonicalization of decorations, and of applications that follow each other.

MergeDecorate(op) ==
  LET d == [ctrl |-> op.dec[1].ctrl \o op.dec[2].ctrl, adj |-> op.dec[1].adj # op.dec[2].adj]
  IN  IF Len(op.dec) >= 2 THEN {<<[op EXCEPT !.dec = <<d>> \o From(@, 2)]>>} ELSE {}

EliminateUselessDecorate(op) ==
  IF op.dec # <<>> /\ op.dec[1] = Dec(<<>>, FALSE)
  THEN {<<[op EXCEPT !.dec = Tail(@)]>>} ELSE {}

AdjointHermitian(gates, op) ==
  IF op.dec # <<>> /\ op.dec[1].adj /\ "Hermitian" \in HintsInside(gates, op, 1)
  THEN {<<[op EXCEPT !.dec[1].adj = FALSE]>>} ELSE {}

\* The last operation up to position j that has the wire w; a load ends the search.
RECURSIVE DefiningOp(_, _, _)
DefiningOp(ops, j, w) ==
  CASE j = 0 -> 0
    [] j > 0 -> IF ops[j].k = "memory" \/ w \in ToSet(ops[j].qs) THEN j ELSE DefiningOp(ops, j - 1, w)
\* The application all the arguments of operation i come from, 0 if none.
PreviousApply(ops, i) ==
  LET j == DefiningOp(ops, i - 1, ops[i].qs[1])
  IN  IF j # 0 /\ (\A w \in ToSet(ops[i].qs) : DefiningOp(ops, i - 1, w) = j) /\ ops[j].k = "apply"
      THEN j ELSE 0

Without(ops, i)       == First(ops, i - 1) \o From(ops, i)
Spliced(ops, i, new)  == First(ops, i - 1) \o new \o From(ops, i)

\* A symmetric gate takes its wires in the order the previous gate returns them.
CorrectSymmetryApplyOrder(gates, ops, i, j) ==
  LET sorted == SelectSeq(ops[j].qs, LAMBDA w : w \in ToSet(ops[i].qs))
  IN  IF sorted # ops[i].qs /\ "Symmetric" \in HintsInside(gates, ops[i], 0)
      THEN {[ops EXCEPT ![i].qs = sorted]} ELSE {}

SameGate(op, prev, dec) ==
  op.g = prev.g /\ op.par = prev.par /\ dec = prev.dec /\ ~op.fresh /\ ~prev.fresh

CancelUUAdj(op, prev) ==
  \/ op.dec # <<>> /\ op.dec[1].adj /\ SameGate(op, prev, Tail(op.dec))
  \/ op.dec = <<>> /\ prev.dec # <<>> /\ prev.dec[1].adj /\ SameGate(prev, op, Tail(prev.dec))
CancelHermitianUU(gates, op, prev) ==
  SameGate(op, prev, op.dec) /\ "Hermitian" \in HintsInside(gates, op, 0)

CancelUV(gates, ops, i, j) ==
  IF /\ ops[j].qs = ops[i].qs
     /\ CancelUUAdj(ops[i], ops[j]) \/ CancelHermitianUU(gates, ops[i], ops[j])
  THEN {Without(Without(ops, i), j)} ELSE {}

---------------------------------------------------------------------------
\* Decorated gates become controlled X, or gates of their own (DecorateFolding.cpp).

\* The matrix with its controls, which are the most significant bits.
appendMatrix(M, ctrl, adj) ==
  LET n == Size(M)
      mask == n * FoldLeft(LAMBDA acc, c : 2 * acc + (IF c THEN 1 ELSE 0), 0, ctrl)
      dom == {i : i \in 0..(n * 2^Len(ctrl) - 1)}
      inner == IF adj THEN Dagger(M) ELSE M
      in(r) == r \in mask..(mask + n - 1)
  IN  [r \in dom |-> [c \in dom |->
         IF in(r) /\ in(c) THEN inner[r - mask][c - mask] ELSE IF r = c THEN 1 ELSE 0]]

FoldControlledX(op) ==
  LET extra == IF op.g = "toffoli" THEN <<TRUE, TRUE>> ELSE <<TRUE>>
  IN  emitBuiltinGate("x", op.qs, <<>>, extra \o op.dec[1].ctrl, FALSE)

FoldedName(op) ==
  op.g \o (IF op.dec[1].adj THEN "_adj" ELSE "")
       \o (IF op.dec[1].ctrl = <<>> THEN ""
           ELSE FoldLeft(LAMBDA acc, c : acc \o (IF c THEN "1" ELSE "0"), "_ctrl_", op.dec[1].ctrl))

\* A copy of the decomposition f, with the wires of the controls before its
\* own, all its operations marked.
CloneDecomposition(f, d, name) ==
  LET m == Len(d.ctrl)
      shifted(o) == [o EXCEPT !.qs = [k \in 1..Len(@) |-> @[k] + m],
                              !.mark = o.k \in {"apply", "gphase"}]
  IN  [name |-> name, n |-> f.n + m, ops |-> [k \in 1..Len(f.ops) |-> shifted(f.ops[k])],
       ret |-> [k \in 1..f.n |-> m + k], pending |-> <<d>>]

createControlledDefgate(def, d, name) ==
  Gate(def.n + Len(d.ctrl), "",
       IF def.mat = <<>> \/ (def.n = 1 /\ d.ctrl # <<>>) THEN <<>>
       ELSE <<appendMatrix(def.mat[1], d.ctrl, d.adj)>>,
       {}, IF def.body = "" THEN "" ELSE name \o "_decomposition")

Foldable(gates, op) ==
  LET def == Definition(gates, op.g)
  IN  /\ op.k = "apply" /\ Len(op.dec) = 1
      /\ op.par = <<>> \/ def.body # ""
      /\ \/ op.g \in {"cnot", "toffoli"}
         \/ FoldedName(op) \in DOMAIN gates
         \/ def.body # ""
         \/ def.mat # <<>> /\ ~(def.n = 1 /\ op.dec[1].ctrl # <<>>)

\* Mutant: the applications keep their order.
GenerateInvertedGateInOrder(f) ==
  [f EXCEPT !.ops = [k \in 1..Len(@) |-> [@[k] EXCEPT !.dec = <<Dec(<<>>, TRUE)>> \o @, !.fresh = TRUE]],
            !.pending = <<Dec(f.pending[1].ctrl, FALSE)>>]

\* The inverse of a copy: its applications in the reverse order, each adjoint.
GenerateInvertedGate(f) ==
  LET adjoint(o) == [o EXCEPT !.dec = <<Dec(<<>>, TRUE)>> \o @, !.fresh = TRUE]
      phases  == SelectSeq(f.ops, LAMBDA o : o.k = "gphase")
      applies == SelectSeq(f.ops, LAMBDA o : o.k # "gphase")
      turned  == phases \o Rev(applies)
  IN  [f EXCEPT !.ops = [k \in 1..Len(turned) |-> adjoint(turned[k])],
                !.pending = <<Dec(f.pending[1].ctrl, FALSE)>>]

\* Every marked operation gets the controls; an uncontrolled phase is dead.
InsertControllerBits(f) ==
  LET ctrl == f.pending[1].ctrl
      lines == [k \in 1..Len(ctrl) |-> k]
      controlled(o) ==
        IF ~o.mark THEN <<o>>
        ELSE IF lines \o o.qs = <<>> THEN <<>>
        ELSE <<[o EXCEPT !.k = "apply", !.dec = <<Dec(ctrl, FALSE)>> \o @,
                         !.qs = lines \o @, !.mark = FALSE, !.fresh = TRUE]>>
  IN  [f EXCEPT !.ops = FlattenSeq([k \in 1..Len(f.ops) |-> controlled(f.ops[k])]),
                !.ret = @ \o lines]

\* The controls are returned first again.
FakeMem2Reg(f) ==
  LET m == Len(f.pending[1].ctrl)
  IN  [f EXCEPT !.ret = From(@, f.n - m) \o First(@, f.n - m), !.pending = <<>>]

---------------------------------------------------------------------------
\* Controlled gates on one qubit (DecomposeCtrlSQ.cpp).

\* The rotation or phase g under all controls but the last wire, along a Gray code.
addMultiR(g, theta, qs) ==
  LET n == Len(qs) - 1
      elements == mcr_graycode(g, theta \div 2^(n - 1), [i \in 1..n |-> i - 1], n)
  IN  emitDecomposedGateSequence(elements, qs)

addMultiRx(qs) == <<Op("multi_rx", "", <<>>, <<>>, qs)>>
addMultiRz(theta, qs, ancilla) ==
  <<Op(IF ancilla THEN "multi_rz_ancilla" ELSE "multi_rz", "", <<theta>>, <<>>, qs)>>

\* The phase theta where all of qs are one; the last wire is borrowed, if it may be.
DecomposeMultiRz(op) ==
  LET ancilla == op.k = "multi_rz_ancilla"
      qs    == op.qs
      total == Len(qs)
      size  == IF ancilla THEN total - 1 ELSE total
      theta == op.par[1]
      add   == mcdecompose_addone(total)
      \* the k-th of them is on wire total-1-k counted from 0
      turns(sign) == FlattenSeq([k \in 1..(total - 2) |->
                       EmitTurn("rz", qs[total - k], sign * (theta \div 2^k))])
      angle == theta \div 2^(total - 1)
      half  == theta \div 2
      rest  == First(qs, total - 1)
  IN  IF op.k \notin {"multi_rz", "multi_rz_ancilla"} THEN {}
      ELSE {CASE size = 1 -> EmitTurn("rz", qs[1], theta)
              [] size > 1 /\ ancilla ->
                   emitDecomposedGateSequence(add, qs) \o turns(-1)
                     \o emitDecomposedGateSequence(Rev(add), qs) \o turns(1)
                     \o EmitTurn("rz", qs[1], angle)
              [] OTHER ->
                   addMultiRx(qs) \o EmitTurn("rz", qs[total], -half)
                     \o addMultiRx(qs) \o EmitTurn("rz", qs[total], half)
                     \o addMultiRz(half, rest, FALSE)}

DecomposeMultiRx(op) ==
  IF op.k # "multi_rx" THEN {}
  ELSE IF Len(op.qs) = 2 THEN {Emit("cnot", op.qs)}
  ELSE {emitDecomposedGateSequence(
          mcdecompose_u(PauliX, [i \in 1..(Len(op.qs) - 1) |-> TRUE]), op.qs)}

\* The inverse of a rotation or a phase turns the other way.
MergeAdjoint(op) ==
  LET p == op.par
      d == Last(op.dec)
      outer == First(op.dec, Len(op.dec) - 1)
      kept  == IF d.ctrl = <<>> THEN outer ELSE Append(outer, Dec(d.ctrl, FALSE))
      turned(par) == {<<[op EXCEPT !.par = par, !.dec = kept]>>}
  IN  IF op.dec = <<>> THEN {}
      ELSE IF ~d.adj THEN {}
      ELSE CASE op.g = "u3" -> turned(<<-p[1], -p[3], -p[2]>>)
             [] op.g \in {"rx", "ry", "rz", "gphase"} -> turned(<<-p[1]>>)
             [] OTHER -> {}

AllOn(op) ==
  /\ op.k = "apply" /\ Len(op.dec) = 1
  /\ ~op.dec[1].adj /\ op.dec[1].ctrl # <<>>
  /\ \A i \in 1..Len(op.dec[1].ctrl) : op.dec[1].ctrl[i]

DecomposeCtrlU3(op) ==
  LET p == op.par
      qs == op.qs
      t  == Last(qs)
      abc == EmitTurn("rz", t, (p[3] - p[2]) \div 2) \o addMultiRx(qs)
               \o EmitTurn("rz", t, -((p[2] + p[3]) \div 2)) \o EmitTurn("ry", t, -(p[1] \div 2))
               \o addMultiRx(qs)
               \o EmitTurn("ry", t, p[1] \div 2) \o EmitTurn("rz", t, p[2])
               \o addMultiRz(p[2] + p[3], qs, TRUE)
  IN  IF ~AllOn(op) THEN {}
      ELSE CASE op.g = "u3"     -> {abc}
             [] op.g = "gphase" -> {addMultiRz(p[1], qs, FALSE)}
             [] op.g = "rx"     -> {addMultiR("RX", p[1], qs)}
             [] op.g = "ry"     -> {addMultiR("RY", p[1], qs)}
             [] op.g = "rz"     -> {addMultiR("RZ", p[1], qs)}
             [] OTHER -> {}

DecomposeCtrlKnownSQ(gates, op) ==
  LET def == Definition(gates, op.g)
      d   == op.dec[1]
  IN  IF op.k # "apply" \/ Len(op.dec) # 1 THEN {}
      ELSE IF def.n # 1 \/ d.ctrl = <<>> \/ def.mat = <<>> THEN {}
      ELSE {emitDecomposedGateSequence(
              mcdecompose_u(IF d.adj THEN Dagger(def.mat[1]) ELSE def.mat[1], d.ctrl), op.qs)}

---------------------------------------------------------------------------
\* Known matrices, trivial gates, the gates of QCIS, and decompositions.

\* One qubit: one u3.  More: gates of one and two qubits that the numerics of
\* the quantum Shannon decomposition find, kept here as the matrix they make.
DecomposeKnownGateDef(name, def) ==
  LET z == ZYDecompose(def.mat[1])
  IN  Function(name \o "__qsd__decomposition", def.n,
        IF def.n = 1 THEN <<Apply("u3", <<z[3], z[2], z[4]>>, <<>>, <<1>>)>>
        ELSE <<Op("matrix", "", <<>>, <<>>, [i \in 1..def.n |-> i]) @@ [mat |-> def.mat[1]]>>)

RemoveTrivial(gates, op) ==
  LET def == Definition(gates, op.g)
  IN  IF op.k # "apply" \/ Len(op.dec) > 1 THEN {}
      ELSE IF op.g = "u3" /\ op.par = <<0, 0, 0>> THEN {<<>>}
      ELSE IF Len(op.dec) = 0 \/ def.mat = <<>> THEN {}
      ELSE IF def.mat[1] = Identity(DOMAIN def.mat[1]) THEN {<<>>} ELSE {}

\* A rotation by a multiple of an eighth of a turn; theta was made positive.
RZRecog(op) ==
  LET q == op.qs
      theta == op.par[1] % Turn
      tdg(g) == emitBuiltinGate(g, q, <<>>, <<>>, TRUE)
  IN  CASE op.par[1] > Turn -> {}
        [] theta = 0   -> {<<>>}
        [] theta = 64  -> {Emit("t", q)}
        [] theta = 128 -> {Emit("s", q)}
        [] theta = 192 -> {Emit("s", q) \o Emit("t", q)}
        [] theta = 256 -> {Emit("z", q)}
        [] theta = 320 -> {Emit("z", q) \o Emit("t", q)}
        [] theta = 384 -> {tdg("s")}
        [] theta = 448 -> {tdg("t")}
        [] OTHER -> {}

InvTSRecog(op) ==
  IF Len(op.dec) = 1 /\ op.dec[1] = Dec(<<>>, TRUE) /\ op.g \in {"t", "s"}
  THEN {Emit(IF op.g = "t" THEN "tinv" ELSE "sinv", op.qs)} ELSE {}

TargetQCIS(op) ==
  LET v == op.qs
      p == op.par
  IN  CASE op.k # "apply"  -> {}
        [] op.dec # <<>>   -> InvTSRecog(op)
        [] op.g = "swap" -> {Emit("cnot", v) \o Emit("cnot", Rev(v)) \o Emit("cnot", v)}
        [] op.g = "cnot" -> {Emit("h", <<v[2]>>) \o Emit("cz", v) \o Emit("h", <<v[2]>>)}
        [] op.g = "rz"   -> RZRecog(op)
        [] op.g = "u3"   -> {EmitTurn("rz", v[1], p[3]) \o Emit("x2p", v) \o EmitTurn("rz", v[1], p[1])
                               \o Emit("x2m", v) \o EmitTurn("rz", v[1], p[2])}
        [] OTHER -> {}

\* Mutant: the Toffoli gate has a QIR function and is left.
ExpandDecompositionByQir(gates, op) ==
  LET def == Definition(gates, op.g)
  IN  IF op.k = "apply" /\ op.dec = <<>> /\ def.qir = "" /\ def.body # ""
      THEN {<<Call(def.body, op.qs)>>} ELSE {}

\* A QIR function is good enough, except for the Toffoli gate.
ExpandDecomposition(gates, op) ==
  LET def == Definition(gates, op.g)
  IN  IF op.k = "apply" /\ op.dec = <<>> /\ (def.qir = "" \/ op.g = "toffoli") /\ def.body # ""
      THEN {<<Call(def.body, op.qs)>>} ELSE {}
=============================================================================
