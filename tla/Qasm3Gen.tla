------------------------------ MODULE Qasm3Gen ------------------------------
(***************************************************************************)
(* GenOpenQASM3.cpp: every SSA value stands for a text, which is written   *)
(* again wherever the value is used.  A text is a tree here; a statement   *)
(* of the output is a record with a field s.                               *)
(*                                                                         *)
(* The state of the generator is a record: the texts of the SSA values     *)
(* with the sizes of the arrays they name (symbolTable), the arguments of  *)
(* the function (argSet), the counters of its names, the condition of the  *)
(* last while-loop (whileCond) and the last value yielded (yieldRes), the  *)
(* statements so far, and whether no handler has failed.                   *)
(***************************************************************************)
EXTENDS IsqIR

Num(n) == <<"num", n>>
Var(name) == <<"var", name>>
At(a, e) == <<"at", a, e>>
Bin(f, a, b) == <<"bin", f, a, b>>
Rel(p, a, b) == <<"rel", p, a, b>>
CallText(f, args) == <<"call", f, args>>
GateText(mods, name, angles) == <<"gate", mods, name, angles>>
Empty == <<"empty">>

OpenQasmVarDefine(name, elt, size) == [s |-> "decl", name |-> name, elt |-> elt, size |-> size]
OpenQasmAssign(l, e) == [s |-> "assign", l |-> l, e |-> e]
OpenQasmMeasure(name, q) == [s |-> "measure", name |-> name, q |-> q]
OpenQasmReset(q) == [s |-> "reset", q |-> q]
OpenQasmUnitary(g, qs) == [s |-> "gate", g |-> g, qs |-> qs]
OpenQasmIf(c, then, else) == [s |-> "if", c |-> c, then |-> then, else |-> else]
OpenQasmWhile(c, body) == [s |-> "while", c |-> c, body |-> body]
\* The range is written [lo:hi], or [lo:hi:step] with a step other than 1.
OpenQasmFor(i, lo, hi, step, body) ==
    [s |-> "for", i |-> i, range |-> IF step = Num(1) THEN <<lo, hi>> ELSE <<lo, hi, step>>, body |-> body]
OpenQasmCall(e) == [s |-> "call", e |-> e]
OpenQasmReturn(e) == [s |-> "return", e |-> e]

FailQ(g) == [g EXCEPT !.ok = FALSE]
Write(g, stmt) == [g EXCEPT !.out = Append(@, stmt)]

GetSymbol(g, v) == IF v \in DOMAIN g.sym THEN g.sym[v] ELSE [size |-> 0, text |-> Empty]
Text(g, v) == GetSymbol(g, v).text

SymbolInsert(g, v, size, text) ==
    IF v \in DOMAIN g.sym THEN FailQ(g)
    ELSE [g EXCEPT !.sym = (v :> [size |-> size, text |-> text]) @@ @]

----------------------------------------------------------------------------

RECURSIVE FirstUse(_, _), SizeOfGlobal(_, _)

\* The first operation that uses v, or the empty sequence.
FirstUse(ops, v) ==
    IF ops = <<>> THEN <<>>
    ELSE IF Uses(<<Head(ops)>>, v) THEN <<Head(ops)>> ELSE FirstUse(Tail(ops), v)

SizeOfGlobal(gs, name) ==
    IF Head(gs).name = name THEN Head(gs).size ELSE SizeOfGlobal(Tail(gs), name)

TmpName(g, elt) == IF elt = "q" THEN <<"tmp_q", g.qcnt>> ELSE <<"tmp_c", g.ccnt>>

\* A variable whose first use is to store an argument is the argument.
OVisitAlloc(g, o, rest) ==
    LET first == FirstUse(rest, o.r)
        isArg == /\ o.size = 1 /\ first # <<>>
                 /\ first[1].op = "store" /\ first[1].v \in g.args
        name == TmpName(g, o.elt)
        defined == [Write(g, OpenQasmVarDefine(name, o.elt, o.size))
                      EXCEPT !.qcnt = IF o.elt = "q" THEN @ + 1 ELSE @,
                             !.ccnt = IF o.elt = "q" THEN @ ELSE @ + 1]
    IN IF first = <<>> THEN g
       ELSE IF isArg THEN SymbolInsert(g, o.r, o.size, Text(g, first[1].v))
       ELSE SymbolInsert(defined, o.r, o.size, Var(name))

\* A qubit is not assigned, nor is anything to itself.
OVisitStore(g, o) ==
    IF o.elt = "q" \/ Text(g, o.a) = Text(g, o.v) THEN g
    ELSE Write(g, OpenQasmAssign(Text(g, o.a), Text(g, o.v)))

OVisitSubView(g, o) ==
    LET array == GetSymbol(g, o.a)
        offset == IF o.dyn THEN Text(g, o.off) ELSE Num(o.at)
    IN SymbolInsert(g, o.r, 1, IF array.size = 1 THEN array.text ELSE At(array.text, offset))

\* AndIOp and RemSIOp have no handler: their results have no text.
OVisitBinary(g, o) ==
    IF o.f \in {"+", "-", "*", "/"}
    THEN SymbolInsert(g, o.r, 1, Bin(o.f, Text(g, o.a), Text(g, o.b)))
    ELSE g

OVisitUse(g, o) ==
    SymbolInsert(g, o.r, 0, GateText(<<>>, o.gate, [i \in DOMAIN o.angles |-> Text(g, o.angles[i])]))

OVisitAdjoint(g, o) ==
    LET t == Text(g, o.a) IN SymbolInsert(g, o.r, 1, GateText(<<"inv">> \o t[2], t[3], t[4]))

OVisitApply(g, o) ==
    LET bound[i \in 0..Len(o.rs)] ==
            IF i = 0 THEN g ELSE SymbolInsert(bound[i - 1], o.rs[i], 1, Text(g, o.args[i]))
    IN Write(bound[Len(o.rs)], OpenQasmUnitary(Text(g, o.g), [i \in DOMAIN o.args |-> Text(g, o.args[i])]))

OVisitMeasure(g, o) ==
    LET name == TmpName(g, "b")
        written == [Write(SymbolInsert(g, o.rq, 1, Text(g, o.a)), OpenQasmMeasure(name, Text(g, o.a)))
                      EXCEPT !.ccnt = @ + 1]
    IN SymbolInsert(written, o.r, 1, Var(name))

OVisitReset(g, o) ==
    Write(SymbolInsert(g, o.rq, 1, Text(g, o.a)), OpenQasmReset(Text(g, o.a)))

\* A function whose results are qubits: the decomposition of a gate.
ReturnsQubits(P, f) == \E name \in DOMAIN P.gates : P.gates[name] = f

\* A result that is used is the call itself, written where it is used; a qubit gets no text.
OVisitCall(g, P, o, used) ==
    LET text == CallText(o.f, [i \in DOMAIN o.args |-> Text(g, o.args[i])])
    IN IF o.rs # <<>> /\ ~ReturnsQubits(P, o.f) /\ used THEN SymbolInsert(g, o.rs[1], 1, text)
       ELSE Write(g, OpenQasmCall(text))

OVisitReturn(g, o) == IF g.hasRes THEN Write(g, OpenQasmReturn(Text(g, o.vs[1]))) ELSE g

----------------------------------------------------------------------------

RECURSIVE OVisitOps(_, _, _)

\* The statements of a block of their own.
Inner(g, P, ops) == OVisitOps([g EXCEPT !.out = <<>>], P, ops)

\* Mutant: the else block is written behind the then block.
OVisitIf_OneBuffer(g, P, o) ==
    LET then == Inner(g, P, o.then)
        else == OVisitOps(then, P, o.else)
    IN [else EXCEPT !.out = Append(g.out, OpenQasmIf(Text(g, o.c), then.out, else.out))]

OVisitIf(g, P, o) ==
    LET then == Inner(g, P, o.then)
        else == Inner(then, P, o.else)
    IN [else EXCEPT !.out = Append(g.out, OpenQasmIf(Text(g, o.c), then.out, else.out))]

OVisitFor(g, P, o) ==
    LET name == <<"arg", g.acnt>>
        body == Inner([SymbolInsert(g, o.i, 1, Var(name)) EXCEPT !.acnt = @ + 1], P, o.body)
    IN [body EXCEPT !.out = Append(g.out, OpenQasmFor(name, Text(g, o.lo), Text(g, o.hi),
                                                      Text(g, o.step), body.out))]

\* The block of the condition comes before the loop, and its text is the condition.
OVisitWhile(g, P, o) ==
    LET before == OVisitOps(g, P, o.before)
        cond == Text(before, o.c)
        body == Inner(before, P, o.body)
    IN [body EXCEPT !.out = Append(before.out, OpenQasmWhile(cond, body.out))]

\* Block 1 only: the block that asks whether to break is block 0.
OVisitRegion(g, P, o) ==
    LET cond == OVisitOps(g, P, o.cond) IN SymbolInsert(cond, o.r, 1, Text(cond, o.y))

\* rest: what follows o in its block.
OVisitOp(g, P, o, rest) ==
    CASE o.op = "constant" -> SymbolInsert(g, o.r, 1, Num(IF o.elt = "b" THEN -o.n ELSE o.n))
      [] o.op = "alloc" -> OVisitAlloc(g, o, rest)
      [] o.op = "get_global" ->
            SymbolInsert(g, o.r, SizeOfGlobal(P.globals, o.name), Var(<<"global", o.name>>))
      [] o.op = "cast" -> SymbolInsert(g, o.r, GetSymbol(g, o.a).size, Text(g, o.a))
      [] o.op \in {"load", "copy"} -> SymbolInsert(g, o.r, 1, Text(g, o.a))
      [] o.op = "store" -> OVisitStore(g, o)
      [] o.op = "subview" -> OVisitSubView(g, o)
      [] o.op = "binary" -> OVisitBinary(g, o)
      [] o.op = "cmp" -> SymbolInsert(g, o.r, 1, Rel(o.p, Text(g, o.a), Text(g, o.b)))
      [] o.op = "if" -> OVisitIf(g, P, o)
      [] o.op = "for" -> OVisitFor(g, P, o)
      [] o.op = "while" -> OVisitWhile(g, P, o)
      [] o.op = "region" -> OVisitRegion(g, P, o)
      [] o.op = "use" -> OVisitUse(g, o)
      [] o.op = "adjoint" -> OVisitAdjoint(g, o)
      [] o.op = "apply" -> OVisitApply(g, o)
      [] o.op = "measure" -> OVisitMeasure(g, o)
      [] o.op = "reset" -> OVisitReset(g, o)
      [] o.op = "call" -> OVisitCall(g, P, o, o.rs # <<>> /\ Uses(rest, o.rs[1]))
      [] o.op = "return" -> OVisitReturn(g, o)
      \* A branch leaves nothing; the blocks of a function follow one another.
      [] o.op = "cond_br" -> OVisitOps(g, P, o.next)

OVisitOps(g, P, ops) ==
    IF ops = <<>> \/ ~g.ok THEN g
    ELSE OVisitOps(OVisitOp(g, P, Head(ops), Tail(ops)), P, Tail(ops))

----------------------------------------------------------------------------

RECURSIVE ReturnsValue(_)
ReturnsValue(ops) ==
    \E k \in DOMAIN ops : \/ ops[k].op = "return" /\ ops[k].vs # <<>>
                          \/ ops[k].op = "cond_br" /\ ReturnsValue(ops[k].next)

\* FuncOp: the counters start again, an argument is arg1, arg2, ...
OVisitFunc(g, P, f) ==
    LET F == P.funcs[f]
        start == [g EXCEPT !.out = <<>>, !.ccnt = 1, !.qcnt = 1, !.acnt = Len(F.args) + 1,
                           !.hasRes = ReturnsValue(F.body) /\ ~ReturnsQubits(P, f), !.args = {F.args[i].v : i \in DOMAIN F.args}]
        bound[i \in 0..Len(F.args)] ==
            IF i = 0 THEN start
            ELSE SymbolInsert(bound[i - 1], F.args[i].v, 1, Var(<<"arg", i>>))
        end == OVisitOps(bound[Len(F.args)], P, F.body)
    IN [end EXCEPT !.out = g.out, !.defs = (f :> [params |-> [i \in DOMAIN F.args |-> F.args[i].elt],
                                                 body |-> end.out]) @@ @]

\* mlirPass: the functions main reaches in the order of their names, then main.
GenerateOpenQASM3(P, order) ==
    LET start == [sym |-> <<>>, args |-> {}, ccnt |-> 1, qcnt |-> 1, acnt |-> 1, hasRes |-> FALSE,
                  out |-> <<>>, defs |-> <<>>, ok |-> TRUE]
        others == SelectSeq(order, LAMBDA f : f \in Reached(P) \ {"main"})
        visited[i \in 0..Len(others)] ==
            IF i = 0 THEN start ELSE OVisitFunc(visited[i - 1], P, others[i])
    IN OVisitFunc(visited[Len(others)], P, "main")

---------------------------------------------------------------------------
(***************************************************************************)
(* What a program of the generator does: the semantics of OpenQASM 3 for   *)
(* the statements it writes, which is not in the repository.  A qubit is   *)
(* passed by reference and a number by value.  A range is [start:stop] or  *)
(* [start:step:stop], and its stop is included; steps are positive here.   *)
(***************************************************************************)

Compute(f, a, b) ==
    CASE f = "+" -> a + b
      [] f = "-" -> a - b
      [] f = "*" -> a * b
      [] f = "/" -> a \div b

RECURSIVE Eval(_, _, _), EvalAll(_, _, _), Exec(_, _, _), ExecAll(_, _, _), Invoke(_, _, _, _)

\* The state after an expression and its value, in x.
Give(m, x) == [m EXCEPT !.x = x]

\* The address an expression names, in x.
AddressOf(D, m, e) ==
    CASE e[1] = "var" /\ e[2] \in DOMAIN m.env -> Give(m, m.env[e[2]])
      [] e[1] = "at" /\ e[2][2] \in DOMAIN m.env ->
            LET i == Eval(D, m, e[3]) IN Give(i, m.env[e[2][2]] + i.x)
      [] OTHER -> [m EXCEPT !.stuck = TRUE, !.x = 1]

Eval(D, m, e) ==
    CASE e[1] = "num" -> Give(m, e[2])
      [] e[1] \in {"var", "at"} -> LET a == AddressOf(D, m, e) IN Give(a, a.mem[a.x])
      [] e[1] = "bin" ->
            LET a == Eval(D, m, e[3])  b == Eval(D, a, e[4]) IN Give(b, Compute(e[2], a.x, b.x))
      [] e[1] = "rel" ->
            LET a == Eval(D, m, e[3])  b == Eval(D, a, e[4]) IN Give(b, Bool01(Holds(e[2], a.x, b.x)))
      [] e[1] = "call" -> Invoke(D, m, e[2], e[3])
      [] OTHER -> [m EXCEPT !.stuck = TRUE, !.x = 0]

EvalAll(D, m, es) ==
    IF es = <<>> THEN Give(m, <<>>)
    ELSE LET h == Eval(D, m, Head(es))  t == EvalAll(D, h, Tail(es)) IN Give(t, <<h.x>> \o t.x)

\* A call: the arguments of a number are copied, those of a qubit are addresses.
Invoke(D, m, f, args) ==
    LET F == D[f]
        passed[i \in 0..Len(args)] ==
            IF i = 0 THEN [m |-> m, env |-> <<>>]
            ELSE LET p == passed[i - 1]
                     a == IF F.params[i] = "q" THEN AddressOf(D, p.m, args[i]) ELSE Eval(D, p.m, args[i])
                 IN IF F.params[i] = "q"
                    THEN [m |-> a, env |-> (<<"arg", i>> :> a.x) @@ p.env]
                    ELSE [m |-> [a EXCEPT !.mem = Append(@, a.x)],
                          env |-> (<<"arg", i>> :> Len(a.mem) + 1) @@ p.env]
        p == passed[Len(args)]
        end == ExecAll(D, [p.m EXCEPT !.env = p.env @@ m.globals, !.ret = 0], F.body)
    IN IF p.m.stuck THEN p.m ELSE [end EXCEPT !.env = m.env, !.x = end.ret, !.returned = FALSE]

RECURSIVE ForLoop(_, _, _, _, _, _), WhileLoop(_, _, _, _)

ForLoop(D, m, stmt, x, step, stop) ==
    IF x > stop \/ m.stuck \/ m.returned THEN m
    ELSE ForLoop(D, ExecAll(D, [m EXCEPT !.mem = Append(@, x), !.env = (stmt.i :> Len(m.mem) + 1) @@ @],
                            stmt.body),
                 stmt, x + step, step, stop)

WhileLoop(D, m, stmt, n) ==
    LET c == Eval(D, m, stmt.c)
    IN IF c.stuck \/ c.x = 0 \/ m.returned THEN c
       ELSE IF n = 0 THEN [c EXCEPT !.stuck = TRUE]
       ELSE WhileLoop(D, ExecAll(D, c, stmt.body), stmt, n - 1)

Declare(m, name, elt, size) ==
    [m EXCEPT !.env = (name :> Len(m.mem) + 1) @@ @,
              !.mem = @ \o [i \in 1..size |-> IF elt = "q" THEN m.qubits + i - 1 ELSE 0],
              !.qubits = IF elt = "q" THEN @ + size ELSE @]

Exec(D, m, stmt) ==
    CASE stmt.s = "decl" -> Declare(m, stmt.name, stmt.elt, stmt.size)
      [] stmt.s = "assign" ->
            LET v == Eval(D, m, stmt.e)
                a == AddressOf(D, v, stmt.l)
            IN [a EXCEPT !.mem[a.x] = v.x]
      [] stmt.s = "measure" ->
            LET a == Eval(D, m, stmt.q)
            IN IF a.outs = <<>> THEN [a EXCEPT !.stuck = TRUE]
               ELSE [a EXCEPT !.log = Append(@, <<<<"M">>, <<a.x>>>>), !.outs = Tail(@),
                              !.env = (stmt.name :> Len(a.mem) + 1) @@ @, !.mem = Append(@, Head(a.outs))]
      [] stmt.s = "reset" ->
            LET a == Eval(D, m, stmt.q) IN [a EXCEPT !.log = Append(@, <<<<"R">>, <<a.x>>>>)]
      [] stmt.s = "gate" ->
            LET angles == EvalAll(D, m, stmt.g[4])
                qs == EvalAll(D, angles, stmt.qs)
            IN [qs EXCEPT !.log = Append(@, <<stmt.g[2] \o <<stmt.g[3]>> \o angles.x, qs.x>>)]
      [] stmt.s = "if" ->
            LET c == Eval(D, m, stmt.c)
            IN IF c.stuck THEN c ELSE ExecAll(D, c, IF c.x # 0 THEN stmt.then ELSE stmt.else)
      [] stmt.s = "for" ->
            LET r == EvalAll(D, m, stmt.range)
                step == IF Len(r.x) = 3 THEN r.x[2] ELSE 1
            IN ForLoop(D, r, stmt, Head(r.x), step, r.x[Len(r.x)])
      [] stmt.s = "while" -> WhileLoop(D, m, stmt, Fuel)
      [] stmt.s = "call" -> Eval(D, m, stmt.e)
      [] stmt.s = "return" ->
            LET v == Eval(D, m, stmt.e) IN [v EXCEPT !.ret = v.x, !.returned = TRUE]

ExecAll(D, m, stmts) ==
    IF stmts = <<>> \/ m.stuck \/ m.returned THEN m
    ELSE ExecAll(D, Exec(D, m, Head(stmts)), Tail(stmts))

RECURSIVE DeclareAll(_, _)
DeclareAll(gs, m) ==
    IF gs = <<>> THEN m
    ELSE DeclareAll(Tail(gs), Declare(m, <<"global", Head(gs).name>>, Head(gs).elt, Head(gs).size))

\* The generated program g of P, when its measurements give these outcomes.
RunQasm(P, g, outcomes) ==
    LET start == DeclareAll(P.globals,
                     [env |-> <<>>, globals |-> <<>>, mem |-> <<>>, qubits |-> 0, outs |-> outcomes,
                      log |-> <<>>, ret |-> 0, returned |-> FALSE, stuck |-> FALSE, x |-> 0])
    IN ExecAll(g.defs, [start EXCEPT !.globals = start.env], g.defs["main"].body)
=============================================================================
