----------------------------- MODULE MCCodegen ------------------------------
(***************************************************************************)
(* The passes and GenQCIS and GenOpenQASM3 on the same programs: main      *)
(* applies two pieces to the global qubits q and the global number n, and  *)
(* f, h, t and r are there to be called.  A behaviour picks a program and  *)
(* the outcomes of its measurements, then compiles it in three ways:       *)
(* isq-opt --target=qcis, the passes of isqc --target qcis that touch      *)
(* measurements and resets, and isqc --target open-qasm3.                  *)
(***************************************************************************)
EXTENDS QcisGen, FiniteSets

Q3 == INSTANCE Qasm3Gen

CONSTANT MaxOutcomes

GlobalVars == <<[name |-> "n", elt |-> "i", size |-> 1], [name |-> "q", elt |-> "q", size |-> 2]>>

G(v) == <<0, v>>
Prologue ==
    <<GetGlobal(G("q"), "q", "q"), GetGlobal(G("n"), "n", "i"), Constant(G("0"), 0),
      Constant(G("1"), 1), Constant(G("2"), 2), Constant(G("-1"), -1), Boolean(G("t"), TRUE),
      SubView(G("q0"), G("q"), G("0"), "q"), SubView(G("q1"), G("q"), G("1"), "q"),
      UseGate(G("H"), "H"), UseGate(G("X"), "X"), UseGate(G("T"), "T"), UseGate(G("CNOT"), "CNOT"),
      UseGate(G("D"), "D"), UseRotation(G("Rx"), "Rx", G("-1")), Adjoint(G("Ti"), G("T"))>>

Last(s) == s[Len(s)]

\* Gates on a qubit, each on the result of the one before it.
On(name, gates, p) ==
    LET v(x, k) == Append(name, <<x, ToString(k)>>)
        qubit[k \in 0..Len(gates)] == IF k = 0 THEN v("l", 0) ELSE v("m", k)
    IN <<Load(qubit[0], p, "q")>>
       \o [k \in 1..Len(gates) |-> Apply(<<qubit[k]>>, gates[k], <<qubit[k - 1]>>)]
       \o <<Store(qubit[Len(gates)], p, "q")>>

Both(name, gate, p, r) ==
    LET v(x) == Append(name, <<x, "">>)
    IN <<Load(v("lp"), p, "q"), Load(v("lr"), r, "q"),
         Apply(<<v("mp"), v("mr")>>, gate, <<v("lp"), v("lr")>>),
         Store(v("mp"), p, "q"), Store(v("mr"), r, "q")>>

\* H q[0]; inv T q[0]; CNOT q[0], q[1]; Rx(-pi/2) q[1];
Gates(i) == On(<<i, "a">>, <<G("H"), G("Ti")>>, G("q0")) \o Both(<<i, "b">>, G("CNOT"), G("q0"), G("q1"))
            \o On(<<i, "c">>, <<G("Rx")>>, G("q1"))

\* n = n + 2; f(n / 2, q[1]); f(n - 2, q[0]);
Calls(i) ==
    LET v(x) == <<i, x>>
    IN <<Load(v("n"), G("n"), "i"), Binary(v("s"), "+", v("n"), G("2")), Store(v("s"), G("n"), "i"),
         Load(v("m"), G("n"), "i"), Binary(v("h"), "/", v("m"), G("2")), Call(<<>>, "f", <<v("h"), G("q1")>>),
         Binary(v("d"), "-", v("m"), G("2")), Call(<<>>, "f", <<v("d"), G("q0")>>)>>

\* for j in n / 2 : 2 { f(j, q[1 - j]); }
ForLoop(i) ==
    LET v(x) == <<i, x>>
    IN <<Load(v("m"), G("n"), "i"), Binary(v("lo"), "/", v("m"), G("2")),
         For(v("j"), v("lo"), G("2"), G("1"),
             <<Binary(v("k"), "-", G("1"), v("j")), SubView(v("e"), G("q"), v("k"), "q"),
               Call(<<>>, "f", <<v("j"), v("e")>>)>>)>>

\* int a[2]; a[1] = 1; bool b = a[1] == 1; if (b) X q[0];
Locals(i) ==
    LET v(x) == <<i, x>>
    IN <<Alloc(v("a"), "i", 2), SubView(v("e"), v("a"), G("1"), "i"), Store(G("1"), v("e"), "i"),
         Alloc(v("b"), "b", 1), Load(v("x"), v("e"), "i"), Cmp(v("c"), "eq", v("x"), G("1")),
         Store(v("c"), v("b"), "b"), Load(v("y"), v("b"), "b"),
         If(v("y"), On(<<i, "x">>, <<G("X")>>, G("q0")), <<>>)>>

\* if (true) H q[0]; else X q[0];
Truth(i) == <<If(G("t"), On(<<i, "h">>, <<G("H")>>, G("q0")), On(<<i, "x">>, <<G("X")>>, G("q0")))>>

\* int c = h(n, q[1]);  if (c == 1) X q[0];
Function(i) ==
    LET v(x) == <<i, x>>
    IN <<Load(v("n"), G("n"), "i"), Call(<<v("r")>>, "h", <<v("n"), G("q1")>>), Alloc(v("c"), "i", 1),
         Store(v("r"), v("c"), "i"), Load(v("d"), v("c"), "i"), Cmp(v("e"), "eq", v("d"), G("1")),
         If(v("e"), On(<<i, "x">>, <<G("X")>>, G("q0")), On(<<i, "y">>, <<G("H")>>, G("q0")))>>

\* A gate that is defined by a decomposition.
Derived(i) == Both(<<i, "d">>, G("D"), G("q1"), G("q0"))

\* M(q[1]);
MeasureQ1(i) ==
    LET v(x) == <<i, x>>
    IN <<Load(v("l"), G("q1"), "q"), Measure(v("m"), v("o"), v("l")), Store(v("m"), G("q1"), "q")>>

\* bool b = M(q[1]);
Assign(i) ==
    MeasureQ1(i) \o <<Alloc(<<i, "b">>, "b", 1), Store(<<i, "o">>, <<i, "b">>, "b")>>

\* if (M(q[1])) X q[0]; else H q[0];
Feedback(i) ==
    MeasureQ1(i) \o <<If(<<i, "o">>, On(<<i, "x">>, <<G("X")>>, G("q0")), On(<<i, "y">>, <<G("H")>>, G("q0")))>>

\* while (n < 2) { H q[0]; n = n + 1; }
WhileLoop(i) ==
    LET v(x) == <<i, x>>
    IN <<While(<<Load(v("n"), G("n"), "i"), Cmp(v("c"), "slt", v("n"), G("2"))>>, v("c"),
               On(<<i, "h">>, <<G("H")>>, G("q0"))
               \o <<Load(v("m"), G("n"), "i"), Binary(v("s"), "+", v("m"), G("1")), Store(v("s"), G("n"), "i")>>)>>

\* qbit p; reset p; CNOT p, q[0];
LocalQubit(i) ==
    LET v(x) == <<i, x>>
    IN <<Alloc(v("p"), "q", 1), Cast(v("pc"), v("p")), Load(v("l"), v("pc"), "q"), Reset(v("m"), v("l")),
         Store(v("m"), v("pc"), "q")>> \o Both(<<i, "b">>, G("CNOT"), v("pc"), G("q0"))

Recursion(i) == <<Call(<<>>, "r", <<G("2"), G("q0")>>)>>

Pieces(i) ==
    [gates |-> Gates(i), calls |-> Calls(i), loop |-> ForLoop(i), locals |-> Locals(i), truth |-> Truth(i),
     function |-> Function(i), derived |-> Derived(i), measure |-> MeasureQ1(i), assign |-> Assign(i),
     feedback |-> Feedback(i), while |-> WhileLoop(i), qubit |-> LocalQubit(i), recursion |-> Recursion(i)]

IntArg(v) == [v |-> v, elt |-> "i", mem |-> FALSE]
QubitArg(v) == [v |-> v, elt |-> "q", mem |-> TRUE]

\* f(a, p) { int v = a; v = v * 2; if (v == 2) { X p; t(p); } else H p; }
Ff == LET v(x) == <<10, x>>
      IN [args |-> <<IntArg(v("a")), QubitArg(v("p"))>>,
          body |-> <<Alloc(v("v"), "i", 1), Store(v("a"), v("v"), "i"), Constant(v("2"), 2),
                     UseGate(v("X"), "X"), UseGate(v("H"), "H"), Load(v("l"), v("v"), "i"),
                     Binary(v("d"), "*", v("l"), v("2")), Store(v("d"), v("v"), "i"),
                     Load(v("k"), v("v"), "i"), Cmp(v("c"), "eq", v("k"), v("2")),
                     If(v("c"), On(<<10, "x">>, <<v("X")>>, v("p")) \o <<Call(<<>>, "t", <<v("p")>>)>>,
                                On(<<10, "h">>, <<v("H")>>, v("p"))), Return(<<>>)>>]

\* t(p) { T p; }
Ft == LET v(x) == <<20, x>>
      IN [args |-> <<QubitArg(v("p"))>>,
          body |-> <<UseGate(v("T"), "T")>> \o On(<<20, "t">>, <<v("T")>>, v("p")) \o <<Return(<<>>)>>]

\* h(a, p) { int v; v = a / 2; H p; return v; }
Fh == LET v(x) == <<30, x>>
      IN [args |-> <<IntArg(v("a")), QubitArg(v("p"))>>,
          body |-> <<Alloc(v("v"), "i", 1), Constant(v("2"), 2), Binary(v("d"), "/", v("a"), v("2")),
                     Store(v("d"), v("v"), "i"), UseGate(v("H"), "H")>>
                   \o On(<<30, "h">>, <<v("H")>>, v("p"))
                   \o <<Load(v("r"), v("v"), "i"), Return(<<v("r")>>)>>]

\* r(a, p) { if (a > 0) { H p; r(a - 1, p); } }
Fr == LET v(x) == <<40, x>>
      IN [args |-> <<IntArg(v("a")), QubitArg(v("p"))>>,
          body |-> <<Constant(v("0"), 0), Constant(v("1"), 1), UseGate(v("H"), "H"),
                     Cmp(v("c"), "sgt", v("a"), v("0")),
                     If(v("c"), On(<<40, "h">>, <<v("H")>>, v("p"))
                                \o <<Binary(v("d"), "-", v("a"), v("1")), Call(<<>>, "r", <<v("d"), v("p")>>)>>,
                        <<>>), Return(<<>>)>>]

\* D a, b: CNOT b, a; T a;
Fd == LET v(x) == <<50, x>>
      IN [args |-> <<[v |-> v("a"), elt |-> "q", mem |-> FALSE], [v |-> v("b"), elt |-> "q", mem |-> FALSE]>>,
          body |-> <<UseGate(v("C"), "CNOT"), UseGate(v("T"), "T"),
                     Apply(<<v("b2"), v("a2")>>, v("C"), <<v("b"), v("a")>>),
                     Apply(<<v("a3")>>, v("T"), <<v("a2")>>), Return(<<v("a3"), v("b2")>>)>>]

Program(body) ==
    [globals |-> GlobalVars, gates |-> [D |-> "d"],
     funcs |-> [main |-> [args |-> <<>>, body |-> Prologue \o body],
                f |-> Ff, t |-> Ft, h |-> Fh, r |-> Fr, d |-> Fd]]

Order == <<"d", "f", "h", "r", "t">>

Programs == [p \in {<<a, b>> : a \in DOMAIN Pieces(1), b \in DOMAIN Pieces(2)} |->
                Program(Pieces(1)[p[1]] \o Pieces(2)[p[2]])]

Outcomes == UNION {[1..n -> {0, 1}] : n \in 0..MaxOutcomes}

\* What the compiler makes of each program in its three ways.
QcisOutput == [name \in DOMAIN Programs |-> GenerateQcis(Programs[name])]
TargetInput == [name \in DOMAIN Programs |-> RemoveReset(Programs[name])]
TargetOutput == [name \in DOMAIN Programs |-> ExpandDecomposition(TargetInput[name])]
QasmInput == [name \in DOMAIN Programs |-> CancelRedundant(ExpandDecomposition(Programs[name]))]
QasmOutput == [name \in DOMAIN Programs |-> Q3!GenerateOpenQASM3(QasmInput[name], Order)]

VARIABLES prog, outs, qcis, checked, qasm

vars == <<prog, outs, qcis, checked, qasm>>

NotYet == [ok |-> FALSE, done |-> FALSE]

Init == /\ prog \in DOMAIN Programs
        /\ outs \in Outcomes
        /\ qcis = NotYet
        /\ checked = NotYet
        /\ qasm = NotYet

ToQcis == /\ qcis = NotYet
          /\ qcis' = [ok |-> QcisOutput[prog].ok, done |-> TRUE, out |-> QcisOutput[prog].out]
          /\ UNCHANGED <<prog, outs, checked, qasm>>

\* isq-remove-reset, the check of isq-target-qcis, isq-expand-decomposition.
ToTargetQcis == /\ checked = NotYet
                /\ checked' = [ok |-> TargetQcisAccepts(TargetInput[prog]), done |-> TRUE,
                               log |-> RunProgram(TargetOutput[prog], outs).log]
                /\ UNCHANGED <<prog, outs, qcis, qasm>>

\* isq-expand-decomposition, isq-cancel-redundant, GenOpenQASM3.
ToOpenQASM3 == /\ qasm = NotYet
               /\ LET end == Q3!RunQasm(QasmInput[prog], QasmOutput[prog], outs)
                  IN qasm' = [ok |-> QasmOutput[prog].ok, done |-> TRUE, log |-> end.log,
                              stuck |-> end.stuck]
               /\ UNCHANGED <<prog, outs, qcis, checked>>

Next == ToQcis \/ ToTargetQcis \/ ToOpenQASM3

Spec == Init /\ [][Next]_vars

----------------------------------------------------------------------------

Reference == RunProgram(Programs[prog], outs)
UsesAnOutcome == "feedback" \in {prog[1], prog[2]}
TestsTheConstantTrue == "truth" \in {prog[1], prog[2]}
UsesAForLoop == "loop" \in {prog[1], prog[2]}
IsReset(entry) == entry[1] = <<"R">>

\* What GenQCIS accepts, and does not depend on an outcome, it prints as the circuit the program
\* is: every gate, measurement and qubit, in order, with the loops, the branches, the calls and the
\* decompositions gone.  This is not so of a program that tests the constant true: the generator
\* enters it as -1 (GenQCIS.cpp:397), tests for 1 (GenQCIS.cpp:905) and prints the else branch.
QcisIsTheCircuit ==
    qcis.done /\ qcis.ok /\ ~UsesAnOutcome /\ ~TestsTheConstantTrue /\ ~Reference.stuck =>
        qcis.out = LoweredLog(Reference.log)

\* A measured qubit is left alone: the hardware measures it once, at the end.
MeasuredQubitsAreDone ==
    qcis.done /\ qcis.ok =>
        \A i, j \in DOMAIN qcis.out : qcis.out[i][1] = "M" /\ i < j =>
            \A a \in DOMAIN qcis.out[j][2] : qcis.out[j][2][a] # qcis.out[i][2][1]

\* Removing resets and expanding decompositions change nothing else a run shows, and a program
\* isq-target-qcis accepts applies the same gates whatever it measures.
PassesKeepTheRun ==
    checked.done =>
        /\ checked.log = SelectSeq(Reference.log, LAMBDA entry : ~IsReset(entry))
        /\ checked.ok =>
             \A other \in Outcomes :
                 Len(other) = Len(outs) => RunProgram(Programs[prog], other).log = Reference.log

\* The OpenQASM program does what the program it was compiled from does, whatever the outcomes.
\* This is not so of a program with a for loop: isQ's bound is excluded and is written as it is
\* where OpenQASM includes it, and a step is written last and not between the bounds
\* (GenOpenQASM3.cpp:1176-1181).
SameRunInOpenQASM3 ==
    qasm.done /\ qasm.ok /\ ~UsesAForLoop /\ ~Reference.stuck =>
        ~qasm.stuck /\ qasm.log = Reference.log
=============================================================================
