------------------------------ MODULE QcisGen -------------------------------
(***************************************************************************)
(* GenQCIS.cpp: there is no control at run time on the target, so the      *)
(* generator runs the program itself and prints the gates it comes to.     *)
(*                                                                         *)
(* Its state is a record: the variables (symbolTable), the values and the  *)
(* places of the SSA names (valueTable, indexTable), the gates they name   *)
(* (gateTable), the qubits measured, the functions being visited           *)
(* (visitFunc), the last result of a function (func_res), the number of    *)
(* qubits and of temporary names, the gates printed, and whether nothing   *)
(* has been refused.                                                       *)
(***************************************************************************)
EXTENDS IsqIR

Refuse(s) == [s EXCEPT !.ok = FALSE]

Known(s, v) == v \in DOMAIN s.val
Placed(s, v) == v \in DOMAIN s.idx

SetVal(s, v, x) == [s EXCEPT !.val = (v :> x) @@ @]
SetIdx(s, v, name, i) == [s EXCEPT !.idx = (v :> <<name, i>>) @@ @]

OutOfBorder(s, place) == place[2] \notin DOMAIN s.vars[place[1]]
VarAt(s, place) == s.vars[place[1]][place[2]]

\* getTmpName, with the variable it is the name of.
NewVar(s, v, cells) ==
    LET name == <<"tmp", s.tmp>>
    IN SetIdx([s EXCEPT !.vars = (name :> cells) @@ @, !.tmp = @ + 1], v, name, 0)

BaseGate == {"H", "X", "Y", "Z", "S", "SD", "T", "TD", "CZ", "X2P", "X2M", "Y2P", "Y2M", "CNOT"}

QcisPrint(s, gate, qs) ==
    [s EXCEPT !.out = @ \o (IF gate = "CNOT"
                            THEN <<<<"H", <<qs[2]>>>>, <<"CZ", qs>>, <<"H", <<qs[2]>>>>>>
                            ELSE <<<<gate, qs>>>>)]

VisitGlobal(s, d) ==
    LET cells == [i \in 0..(d.size - 1) |-> IF d.elt = "q" THEN s.nq + 1 + i ELSE 0]
    IN IF d.elt = "b" THEN Refuse(s)
       ELSE [s EXCEPT !.vars = (<<"global", d.name>> :> cells) @@ @,
                      !.nq = IF d.elt = "q" THEN @ + d.size ELSE @]

\* A true of one bit is -1.
QVisitConstant(s, o) == SetVal(s, o.r, IF o.elt = "b" THEN -o.n ELSE o.n)

\* ExtUIOp and IndexCastOp: an unknown value is entered as 0.
QVisitCopy(s, o) == SetVal(s, o.r, IF Known(s, o.a) THEN s.val[o.a] ELSE 0)

QVisitAlloc(s, o) ==
    IF o.elt = "q" THEN Refuse(s) ELSE NewVar(s, o.r, [i \in 0..(o.size - 1) |-> 0])

QVisitSubView(s, o) ==
    IF ~Placed(s, o.a) \/ ~Known(s, o.off) THEN Refuse(s)
    ELSE LET place == <<s.idx[o.a][1], s.idx[o.a][2] + s.val[o.off]>>
         IN IF OutOfBorder(s, place) THEN Refuse(s) ELSE SetIdx(s, o.r, place[1], place[2])

QVisitLoad(s, o) ==
    IF ~Placed(s, o.a) \/ OutOfBorder(s, s.idx[o.a]) THEN Refuse(s)
    ELSE SetVal(s, o.r, VarAt(s, s.idx[o.a]))

\* Mutant: the index of the place is forgotten.
QVisitStore_FirstCell(s, o) ==
    IF o.elt = "q" THEN s
    ELSE IF ~Known(s, o.v) \/ ~Placed(s, o.a) \/ OutOfBorder(s, s.idx[o.a]) THEN Refuse(s)
    ELSE [s EXCEPT !.vars[s.idx[o.a][1]][0] = s.val[o.v]]

QVisitStore(s, o) ==
    IF o.elt = "q" THEN s
    ELSE IF ~Known(s, o.v) \/ ~Placed(s, o.a) \/ OutOfBorder(s, s.idx[o.a]) THEN Refuse(s)
    ELSE [s EXCEPT !.vars[s.idx[o.a][1]][s.idx[o.a][2]] = s.val[o.v]]

\* The operators of varValue: a division by zero gives 0, a quotient is rounded towards zero and a
\* remainder has the sign of the dividend.
VarValue(f, x, y) ==
    LET Mag(n) == IF n < 0 THEN -n ELSE n
        quotient == IF y = 0 THEN 0
                    ELSE LET q == Mag(x) \div Mag(y) IN IF (x < 0) = (y < 0) THEN q ELSE -q
    IN CASE f = "+" -> x + y
         [] f = "-" -> x - y
         [] f = "*" -> x * y
         [] f = "/" -> quotient
         [] f = "%" -> x - quotient * y

\* An operand that is not known counts as -1; a remainder by zero ends the compiler.  AndIOp has no
\* handler.
QVisitBinary(s, o) ==
    LET x == IF Known(s, o.a) THEN s.val[o.a] ELSE -1
        y == IF Known(s, o.b) THEN s.val[o.b] ELSE -1
    IN IF o.f \notin {"+", "-", "*", "/", "%"} THEN s
       ELSE IF o.f = "%" /\ y = 0 THEN Refuse(s)
       ELSE SetVal(s, o.r, VarValue(o.f, x, y))

QVisitCmp(s, o) ==
    IF ~Known(s, o.a) \/ ~Known(s, o.b) THEN Refuse(s)
    ELSE SetVal(s, o.r, Bool01(Holds(o.p, s.val[o.a], s.val[o.b])))

QVisitUse(s, o) ==
    IF \E i \in DOMAIN o.angles : ~Known(s, o.angles[i]) THEN Refuse(s)
    ELSE [s EXCEPT !.gate = (o.r :> <<o.gate, [i \in DOMAIN o.angles |-> s.val[o.angles[i]]]>>) @@ @]

QVisitAdjoint(s, o) ==
    LET g == s.gate[o.a][1]
        dagger == [x \in {"T", "S"} |-> IF x = "T" THEN "TD" ELSE "SD"]
    IN IF g \notin DOMAIN dagger THEN Refuse(s)
       ELSE [s EXCEPT !.gate = (o.r :> <<dagger[g], <<>>>>) @@ @]

\* Mutant: the measured qubit is not recorded.
QVisitMeasure_NotRecorded(s, o) ==
    IF ~Known(s, o.a) \/ s.val[o.a] \in s.measured THEN Refuse(s)
    ELSE SetVal(QcisPrint(s, "M", <<s.val[o.a]>>), o.r, 0)

\* The outcome is entered as a determined 0.
QVisitMeasure(s, o) ==
    IF ~Known(s, o.a) \/ s.val[o.a] \in s.measured THEN Refuse(s)
    ELSE SetVal([QcisPrint(s, "M", <<s.val[o.a]>>) EXCEPT !.measured = @ \cup {s.val[o.a]}], o.r, 0)

\* updateArgs: a qubit passed by reference becomes a variable that holds it.
UpdateArgs(s, F, xs) ==
    LET done[i \in 0..Len(F.args)] ==
            IF i = 0 THEN s
            ELSE LET a == F.args[i]
                 IN IF ~Uses(F.body, a.v) THEN done[i - 1]
                    ELSE IF a.mem THEN NewVar(done[i - 1], a.v, [k \in {0} |-> xs[i]])
                    ELSE SetVal(done[i - 1], a.v, xs[i])
    IN done[Len(F.args)]

RECURSIVE QVisitOps(_, _, _)

\* The body of f with the arguments xs, unless f is being visited: the tables hold one value for
\* each name.
VisitBody(s, P, f, xs) ==
    IF f \in s.visiting THEN Refuse(s)
    ELSE [QVisitOps([UpdateArgs(s, P.funcs[f], xs) EXCEPT !.visiting = @ \cup {f}], P, P.funcs[f].body)
            EXCEPT !.visiting = @ \ {f}]

\* Results are the arguments.
SetResults(s, rs, xs) ==
    [s EXCEPT !.val = [r \in {rs[i] : i \in DOMAIN rs} |-> xs[CHOOSE i \in DOMAIN rs : rs[i] = r]] @@ @]

QuarterTurn == [g \in {"Rx", "Ry"} |-> IF g = "Rx" THEN <<"X2P", "X2M">> ELSE <<"Y2P", "Y2M">>]

\* A rotation leaves its results undefined.
QVisitApply(s, P, o) ==
    LET g == s.gate[o.g][1]
        angle == s.gate[o.g][2][1]
        xs == [i \in DOMAIN o.args |-> s.val[o.args[i]]]
    IN IF \E i \in DOMAIN o.args : ~Known(s, o.args[i]) \/ s.val[o.args[i]] \in s.measured
       THEN Refuse(s)
       ELSE IF g \in BaseGate THEN SetResults(QcisPrint(s, g, xs), o.rs, xs)
       ELSE IF g \in DOMAIN P.gates THEN SetResults(VisitBody(s, P, P.gates[g], xs), o.rs, xs)
       ELSE IF g \in DOMAIN QuarterTurn /\ angle \in {1, -1}
       THEN QcisPrint(s, QuarterTurn[g][IF angle = 1 THEN 1 ELSE 2], xs)
       ELSE Refuse(s)

\* Numbers are passed by value and qubits by reference; nothing else is.
QVisitCall(s, P, o) ==
    LET F == P.funcs[o.f]
        Passed(i) == IF F.args[i].mem THEN VarAt(s, s.idx[o.args[i]]) ELSE s.val[o.args[i]]
        Refused(i) == \/ F.args[i].elt = "b" \/ F.args[i].mem # (F.args[i].elt = "q")
                      \/ IF F.args[i].mem THEN ~Placed(s, o.args[i]) ELSE ~Known(s, o.args[i])
    IN IF \E i \in DOMAIN o.args : Refused(i) THEN Refuse(s)
       ELSE LET end == VisitBody(s, P, o.f, [i \in DOMAIN o.args |-> Passed(i)])
            IN IF o.rs = <<>> THEN end ELSE SetVal(end, o.rs[1], end.res)

QVisitReturn(s, o) ==
    IF o.vs = <<>> THEN s
    ELSE IF ~Known(s, o.vs[1]) THEN Refuse(s)
    ELSE [s EXCEPT !.res = s.val[o.vs[1]]]

QVisitIf(s, P, o) ==
    IF ~Known(s, o.c) THEN Refuse(s)
    ELSE QVisitOps(s, P, IF s.val[o.c] = 1 THEN o.then ELSE o.else)

QVisitCondBr(s, P, o) ==
    IF ~Known(s, o.c) THEN Refuse(s)
    ELSE QVisitOps(s, P, IF s.val[o.c] = 0 THEN o.next ELSE <<>>)

\* An affine loop, with constant bounds or known ones.
QVisitFor(s, P, o) ==
    IF ~Known(s, o.lo) \/ ~Known(s, o.hi) \/ ~Known(s, o.step) THEN Refuse(s)
    ELSE LET lo == s.val[o.lo]  step == s.val[o.step]
             rounds == IF s.val[o.hi] <= lo THEN 0 ELSE (s.val[o.hi] - lo + step - 1) \div step
             done[n \in 0..rounds] ==
                IF n = 0 THEN s
                ELSE QVisitOps(SetVal(done[n - 1], o.i, lo + (n - 1) * step), P, o.body)
         IN IF step = 0 THEN Refuse(s) ELSE done[rounds]

\* The first block of the region only.
QVisitOp(s, P, o) ==
    CASE o.op = "constant" -> QVisitConstant(s, o)
      [] o.op = "alloc" -> QVisitAlloc(s, o)
      [] o.op = "get_global" -> SetIdx(s, o.r, <<"global", o.name>>, 0)
      [] o.op = "copy" -> QVisitCopy(s, o)
      [] o.op = "subview" -> QVisitSubView(s, o)
      [] o.op = "load" -> QVisitLoad(s, o)
      [] o.op = "store" -> QVisitStore(s, o)
      [] o.op = "binary" -> QVisitBinary(s, o)
      [] o.op = "cmp" -> QVisitCmp(s, o)
      [] o.op = "if" -> QVisitIf(s, P, o)
      [] o.op = "for" -> QVisitFor(s, P, o)
      [] o.op = "region" -> QVisitOps(s, P, o.entry)
      [] o.op = "cond_br" -> QVisitCondBr(s, P, o)
      [] o.op = "use" -> QVisitUse(s, o)
      [] o.op = "adjoint" -> QVisitAdjoint(s, o)
      [] o.op = "apply" -> QVisitApply(s, P, o)
      [] o.op = "measure" -> QVisitMeasure(s, o)
      [] o.op = "call" -> QVisitCall(s, P, o)
      [] o.op = "return" -> QVisitReturn(s, o)
      [] o.op \in {"cast", "while", "reset"} -> Refuse(s)

QVisitOps(s, P, ops) ==
    IF ops = <<>> \/ ~s.ok THEN s ELSE QVisitOps(QVisitOp(s, P, Head(ops)), P, Tail(ops))

\* mlirPass: the globals, then the body of main.
GenerateQcis(P) ==
    LET start == [vars |-> <<>>, val |-> <<>>, idx |-> <<>>, gate |-> <<>>, measured |-> {},
                  visiting |-> {}, res |-> 0, nq |-> 0, tmp |-> 0, out |-> <<>>, ok |-> TRUE]
        globals[i \in 0..Len(P.globals)] ==
            IF i = 0 THEN start ELSE VisitGlobal(globals[i - 1], P.globals[i])
    IN QVisitOps(globals[Len(P.globals)], P, P.funcs["main"].body)

----------------------------------------------------------------------------

\* What the entries of a log are on the target, where the first qubit is number 1.
Lowered(entry) ==
    LET g == entry[1][1]
        qs == [i \in DOMAIN entry[2] |-> entry[2][i] + 1]
    IN CASE g = "CNOT" -> <<<<"H", <<qs[2]>>>>, <<"CZ", qs>>, <<"H", <<qs[2]>>>>>>
         [] g = "inv" -> <<<<IF entry[1][2] = "T" THEN "TD" ELSE "SD", qs>>>>
         [] g \in {"Rx", "Ry"} ->
                <<<<QuarterTurn[g][IF entry[1][2] = 1 THEN 1 ELSE 2], qs>>>>
         [] OTHER -> <<<<g, qs>>>>

RECURSIVE LoweredLog(_)
LoweredLog(entries) ==
    IF entries = <<>> THEN <<>> ELSE Lowered(Head(entries)) \o LoweredLog(Tail(entries))
=============================================================================
