------------------------------ MODULE MCEqasm -------------------------------
(***************************************************************************)
(* Programs for the code generators: main applies two pieces one after the *)
(* other to two global qubits and a global number; the functions f, g and  *)
(* r are there to be called.  The value v of piece i is <<i, v>>.          *)
(***************************************************************************)
EXTENDS EqasmMachine

GlobalVars == <<[name |-> "n", elt |-> "i", size |-> 1], [name |-> "q", elt |-> "q", size |-> 2]>>

G(v) == <<0, v>>
Prologue ==
    <<GetGlobal(G("q"), "q", "q"), GetGlobal(G("n"), "n", "i"), Constant(G("0"), 0),
      Constant(G("1"), 1), Constant(G("2"), 2), UseGate(G("H"), "H"), UseGate(G("X"), "X"),
      UseGate(G("CNOT"), "CNOT")>>

\* One gate on element k of an array of qubits: the names are made from s.
On(s, gate, array, k, dyn) ==
    LET v(x) == <<s[1], s[2], x>>
    IN <<IF dyn THEN SubView(v("e"), array, k, "q") ELSE SubViewAt(v("e"), array, k, "q"),
         Load(v("l"), v("e"), "q"), Apply(<<v("m")>>, gate, <<v("l")>>),
         Store(v("m"), v("e"), "q")>>

\* One gate on a qubit.
OnQubit(s, gate, p) ==
    LET v(x) == <<s[1], s[2], x>>
    IN <<Load(v("l"), p, "q"), Apply(<<v("m")>>, gate, <<v("l")>>), Store(v("m"), p, "q")>>

Both(s, gate, a, b) ==
    LET v(x) == <<s[1], s[2], x>>
    IN <<Load(v("la"), a, "q"), Load(v("lb"), b, "q"),
         Apply(<<v("ma"), v("mb")>>, gate, <<v("la"), v("lb")>>),
         Store(v("ma"), a, "q"), Store(v("mb"), b, "q")>>

GateAt(i) == On(<<i, "a">>, G("H"), G("q"), 1, FALSE)

Entangle(i) ==
    <<SubViewAt(<<i, "s">>, G("q"), 0, "q"), SubViewAt(<<i, "t">>, G("q"), 1, "q")>>
    \o Both(<<i, "b">>, G("CNOT"), <<i, "s">>, <<i, "t">>)

\* A qubit of the procedure, entangled with a global one.
LocalQubit(i) ==
    <<Alloc(<<i, "p">>, "q", 1), Cast(<<i, "pc">>, <<i, "p">>),
      SubViewAt(<<i, "s">>, G("q"), 0, "q")>>
    \o Both(<<i, "b">>, G("CNOT"), <<i, "pc">>, <<i, "s">>)

\* bool b = M(q[0]); if (b) X(q[1]); else H(q[0]);
Feedback(i) ==
    <<Alloc(<<i, "v">>, "b", 1), SubViewAt(<<i, "s">>, G("q"), 0, "q"), Load(<<i, "l">>, <<i, "s">>, "q"),
      Measure(<<i, "m">>, <<i, "o">>, <<i, "l">>), Store(<<i, "m">>, <<i, "s">>, "q"),
      Store(<<i, "o">>, <<i, "v">>, "b"), Load(<<i, "c">>, <<i, "v">>, "b"),
      If(<<i, "c">>, On(<<i, "x">>, G("X"), G("q"), 1, FALSE), On(<<i, "y">>, G("H"), G("q"), 0, FALSE))>>

\* for j in 0:2 { H(q[j]); }
Loop(i) == <<For(<<i, "j">>, G("0"), G("2"), G("1"), On(<<i, "b">>, G("H"), G("q"), <<i, "j">>, TRUE))>>

\* n = n + 1; if (n < 2) X(q[n]);
Count(i) ==
    <<Load(<<i, "n">>, G("n"), "i"), Binary(<<i, "s">>, "+", <<i, "n">>, G("1")),
      Store(<<i, "s">>, G("n"), "i"), Load(<<i, "k">>, G("n"), "i"),
      Cmp(<<i, "c">>, "slt", <<i, "k">>, G("2")),
      If(<<i, "c">>, On(<<i, "b">>, G("X"), G("q"), <<i, "k">>, TRUE), <<>>)>>

\* for j in 0:2 { f(j, q[1 - j]); }
Calls(i) ==
    <<For(<<i, "j">>, G("0"), G("2"), G("1"),
          <<Binary(<<i, "k">>, "-", G("1"), <<i, "j">>), SubView(<<i, "s">>, G("q"), <<i, "k">>, "q"),
            Call(<<>>, "f", <<<<i, "j">>, <<i, "s">>>>)>>)>>

\* r(2, q[0]);
Recursion(i) ==
    <<SubViewAt(<<i, "s">>, G("q"), 0, "q"), Call(<<>>, "r", <<G("2"), <<i, "s">>>>)>>

Pieces(i) == [gate |-> GateAt(i), entangle |-> Entangle(i), local |-> LocalQubit(i),
              feedback |-> Feedback(i), loop |-> Loop(i), count |-> Count(i), calls |-> Calls(i),
              recursion |-> Recursion(i)]

\* f(a, p) { int v = a; g(v * 2, p); if (v == 1) X(p); else H(p); }
F == LET v(x) == <<10, x>>
     IN [args |-> <<[v |-> v("a"), elt |-> "i", mem |-> FALSE], [v |-> v("p"), elt |-> "q", mem |-> TRUE]>>,
         body |-> <<Alloc(v("v"), "i", 1), Store(v("a"), v("v"), "i"), Constant(v("1"), 1), Constant(v("2"), 2),
                    UseGate(v("X"), "X"), UseGate(v("H"), "H"), Load(v("l"), v("v"), "i"),
                    Binary(v("d"), "*", v("l"), v("2")), Call(<<>>, "g", <<v("d"), v("p")>>),
                    Load(v("k"), v("v"), "i"), Cmp(v("c"), "eq", v("k"), v("1")),
                    If(v("c"), OnQubit(<<10, "x">>, v("X"), v("p")),
                               OnQubit(<<10, "h">>, v("H"), v("p")))>>]

\* g(a, p) { if (a >= 2) Z(p); }
Gf == LET v(x) == <<20, x>>
     IN [args |-> <<[v |-> v("a"), elt |-> "i", mem |-> FALSE], [v |-> v("p"), elt |-> "q", mem |-> TRUE]>>,
         body |-> <<UseGate(v("Z"), "Z"), Constant(v("2"), 2), Cmp(v("c"), "sge", v("a"), v("2")),
                    If(v("c"), OnQubit(<<20, "z">>, v("Z"), v("p")), <<>>)>>]

\* r(a, p) { int w = a; if (a > 0) { H(p); r(a - 1, p); } g(w, p); }
R == LET v(x) == <<30, x>>
     IN [args |-> <<[v |-> v("a"), elt |-> "i", mem |-> FALSE], [v |-> v("p"), elt |-> "q", mem |-> TRUE]>>,
         body |-> <<Alloc(v("w"), "i", 1), Store(v("a"), v("w"), "i"), Constant(v("0"), 0), Constant(v("1"), 1),
                    UseGate(v("H"), "H"), Cmp(v("c"), "sgt", v("a"), v("0")),
                    If(v("c"), OnQubit(<<30, "h">>, v("H"), v("p")) \o
                               <<Binary(v("d"), "-", v("a"), v("1")),
                                 Call(<<>>, "r", <<v("d"), v("p")>>)>>, <<>>),
                    Load(v("k"), v("w"), "i"), Call(<<>>, "g", <<v("k"), v("p")>>)>>]

Program(body) ==
    [globals |-> GlobalVars, gates |-> <<>>,
     funcs |-> [main |-> [args |-> <<>>, body |-> Prologue \o body], f |-> F, g |-> Gf, r |-> R]]

MCPrograms == [p \in {<<a, b>> : a \in DOMAIN Pieces(1), b \in DOMAIN Pieces(2)} |->
                    Program(Pieces(1)[p[1]] \o Pieces(2)[p[2]])]
MCOrder == <<"f", "g", "main", "r">>
=============================================================================
