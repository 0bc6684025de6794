------------------------------ MODULE MCGates -------------------------------
(***************************************************************************)
(* Small programs that use every rule of the gate passes.                  *)
(***************************************************************************)
EXTENDS GatePipeline

Plain(g, qs)       == Apply(g, <<>>, <<>>, qs)
Rotated(g, p, qs)  == Apply(g, p, <<>>, qs)
\* The front end makes one decoration of all the modifiers of a statement.
Modified(d, op)    == [op EXCEPT !.dec = IF @ = <<>> THEN <<d>>
                         ELSE <<Dec(d.ctrl \o @[1].ctrl, d.adj # @[1].adj)>>]
Ctrl(flags, op)    == Modified(Dec(flags, FALSE), op)
Inv(op)            == Modified(Dec(<<>>, TRUE), op)
On == <<TRUE>>
Off == <<FALSE>>
\* One statement after the other.
Statements(ops) == FlattenSeq([i \in 1..Len(ops) |-> <<ops[i], Memory>>])

Source(for, n, ops, fs, gs) ==
  [for |-> for, gates |-> gs, funcs |-> "main" :> Function("main", n, Statements(ops)) @@ fs]
All == {"qir", "qcis", "qasm"}
NoGates == [g \in {} |-> <<>>]
NoFuncs == NoGates
Derived(g, n) == g :> Gate(n, "", <<>>, {}, g \o "_body")
Body(g, n, ops)    == (g \o "_body") :> Function(g \o "_body", n, Statements(ops))

\* Known gates under controls of both kinds, inverted, repeated.
Controlled ==
  Source(All, 4,
    <<Plain("h", <<1>>), Plain("t", <<2>>), Inv(Plain("t", <<1>>)),
      Ctrl(On, Plain("h", <<1, 2>>)), Ctrl(Off, Plain("s", <<2, 1>>)),
      Ctrl(<<TRUE, FALSE>>, Plain("x", <<1, 2, 3>>)), Plain("swap", <<2, 3>>),
      Ctrl(On, Inv(Plain("t", <<3, 1>>))),
      Ctrl(<<TRUE, TRUE, FALSE>>, Plain("x", <<3, 1, 4, 2>>))>>, NoFuncs, NoGates)

\* Rotations and phases, with as many controls as the Gray code takes and one more.
Rotations ==
  Source(All, 4,
    <<Ctrl(On, Rotated("rz", <<64>>, <<1, 2>>)), Ctrl(<<TRUE, FALSE>>, Rotated("ry", <<64>>, <<2, 1, 3>>)),
      Ctrl(<<TRUE, TRUE, TRUE>>, Rotated("ry", <<128>>, <<2, 1, 3, 4>>)),
      Ctrl(On, Inv(Rotated("u3", <<64, 128, -128>>, <<4, 1>>))), GPhase(64),
      Ctrl(<<TRUE, TRUE, FALSE>>, Rotated("u3", <<128, -64, 64>>, <<1, 2, 4, 3>>)),
      Ctrl(<<TRUE, TRUE>>, Rotated("gphase", <<128>>, <<3, 2>>)), Inv(Rotated("rx", <<64>>, <<1>>))>>,
    NoFuncs, NoGates)

\* Too many controls for the Gray code.
LongControls ==
  Source({"qir", "qcis"}, 4,
    <<Ctrl(<<TRUE, TRUE, TRUE>>, Rotated("rx", <<192>>, <<4, 3, 1, 2>>)),
      Ctrl(<<TRUE, FALSE, TRUE>>, Plain("s", <<1, 4, 3, 2>>))>>, NoFuncs, NoGates)
BorrowedQubits ==
  Source({"qir"}, 6,
    <<Ctrl(<<TRUE, TRUE, FALSE, TRUE, TRUE>>, Plain("x", <<2, 1, 6, 3, 4, 5>>)),
      Ctrl(<<TRUE, TRUE, TRUE>>, Plain("h", <<5, 2, 1, 6>>))>>, NoFuncs, NoGates)

\* Gates with a matrix: on one qubit, and with a QIR function of their own.
Root8 == Matrix2(Root, Times(Root, Phase(64)), Times(Root, Phase(128)), Minus(Times(Root, Phase(192))))
Matrices ==
  Source(All, 3,
    <<Plain("m", <<1>>), Inv(Plain("m", <<2>>)), Ctrl(On, Plain("m", <<1, 3>>)),
      Ctrl(<<FALSE, TRUE>>, Inv(Plain("m", <<3, 2, 1>>))), Plain("flip", <<1>>),
      Ctrl(On, Plain("flip", <<3, 1>>)), Rotated("spin", <<96>>, <<2>>)>>, NoFuncs,
    "m" :> Gate(1, "", <<Root8>>, {}, "") @@ "flip" :> Gate(1, "qis_x", <<PauliX>>, {}, "")
      @@ "spin" :> Gate(1, "qis_rz", <<>>, {}, ""))

\* Gates on two qubits: the Shannon decomposition is not for QCIS.
TwoQubits ==
  Source({"qir", "qasm"}, 4,
    <<Plain("w", <<1, 2>>), Inv(Plain("w", <<2, 3>>)), Ctrl(On, Plain("w", <<3, 1, 2>>)),
      Ctrl(<<TRUE, FALSE>>, Inv(Plain("w", <<4, 2, 1, 3>>))), Ctrl(On, Plain("swap", <<1, 3, 2>>)),
      Ctrl(On, Plain("w", <<1, 3, 4>>))>>, NoFuncs,
    "w" :> Gate(2, "", <<[r \in {0, 1, 2, 3} |-> [c \in {0, 1, 2, 3} |->
                            IF c = (3 * r + 1) % 4 THEN Phase(64 * r) ELSE 0]]>>, {}, ""))

\* A switch on two qubits, with a default.
Switches ==
  Source(All, 4,
    <<Plain("h", <<1>>),
      Switch(<<1, 2>>, <<[value |-> 2, ops |-> <<Plain("x", <<3>>), Ctrl(On, Plain("z", <<3, 4>>))>>],
                         [value |-> 1, ops |-> <<Rotated("rz", <<64>>, <<4>>)>>]>>,
             <<Plain("h", <<4>>)>>)>>, NoFuncs, NoGates)

\* Derived gates under controls, one inside the other.
DerivedGates ==
  Source(All, 4,
    <<Plain("d", <<1, 2>>), Ctrl(On, Plain("d", <<3, 1, 2>>)),
      Ctrl(On, Ctrl(Off, Plain("e", <<1, 2, 4>>))), Ctrl(Off, Plain("d", <<2, 3, 4>>))>>,
    Body("d", 2, <<Plain("h", <<1>>), Plain("cnot", <<1, 2>>), Plain("e", <<2>>), GPhase(128)>>)
      @@ Body("e", 1, <<Plain("t", <<1>>), Rotated("ry", <<64>>, <<1>>)>>),
    Derived("d", 2) @@ Derived("e", 1))

\* The inverse of a derived gate, and one with gates that cancel each other.
Inverses ==
  Source(All, 3,
    <<Inv(Plain("i", <<1, 2>>)), Ctrl(On, Inv(Plain("j", <<1, 3>>))), Plain("c", <<2, 3>>)>>,
    Body("i", 2, <<Plain("h", <<1>>), Plain("cnot", <<1, 2>>), Rotated("rz", <<64>>, <<2>>),
                   Plain("x", <<2>>), Plain("cnot", <<2, 1>>)>>)
      @@ Body("j", 1, <<Plain("h", <<1>>), Rotated("u3", <<64, 128, -128>>, <<1>>)>>)
      @@ Body("c", 2, <<Plain("cz", <<1, 2>>), Plain("t", <<1>>), Inv(Plain("t", <<1>>)),
                        Plain("cz", <<2, 1>>), Plain("swap", <<1, 2>>), Inv(Plain("s", <<2>>)),
                        Plain("s", <<2>>), Plain("h", <<1>>), Plain("x", <<1>>), Plain("x", <<1>>),
                        Plain("h", <<1>>), Plain("y", <<2>>)>>),
    Derived("i", 2) @@ Derived("j", 1) @@ Derived("c", 2))

\* Oracles of one output, plain, inverted and controlled, of two, and of three inputs.
OracleX == "X" :> Gate(1, "qis_x", <<PauliX>>, {}, "")
OneOutput ==
  Source(All, 4,
    <<Plain("f", <<2, 3, 1>>), Inv(Plain("f", <<1, 2, 4>>)), Ctrl(On, Plain("f", <<4, 1, 3, 2>>))>>,
    Body("f", 3, <<>>), "f" :> Oracle(3, <<0, 1, 1, 1>>, "f_body") @@ OracleX)
TwoOutputs ==
  Source(All, 4, <<Inv(Plain("p", <<1, 2, 3, 4>>))>>,
    Body("p", 4, <<>>), "p" :> Oracle(4, <<1, 2, 3, 0>>, "p_body") @@ OracleX)
ThreeInputs ==
  Source(All, 4, <<Plain("g", <<3, 2, 4, 1>>)>>,
    Body("g", 4, <<>>), "g" :> Oracle(4, <<1, 1, 0, 0, 0, 0, 0, 1>>, "g_body") @@ OracleX)

\* An rx under one control.
ControlledRx ==
  Source({"qir"}, 2, <<Ctrl(On, Rotated("rx", <<64>>, <<1, 2>>)), Plain("h", <<1>>)>>, NoFuncs, NoGates)
MCTargets == {"qir", "qcis", "qasm"}
MCPrograms == {Controlled, Rotations, LongControls, BorrowedQubits, Matrices, TwoQubits,
               Switches, DerivedGates, Inverses, OneOutput, TwoOutputs, ThreeInputs}
MCControlledRx == {ControlledRx}
=============================================================================
