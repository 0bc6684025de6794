------------------------------ MODULE EqasmGen ------------------------------
(***************************************************************************)
(* GenEQASM.cpp: the generator of an assembly program for a machine with   *)
(* two scratch registers, a stack of classical words and a stack of qubit  *)
(* numbers.  Every SSA value of a function has a slot in the function's    *)
(* frame; a constant has none and is loaded where it is used.              *)
(*                                                                         *)
(* The state of the generator is a record: the code emitted so far, the    *)
(* size of each function's two frames (funcStack), the slots of the SSA    *)
(* values (tempSymbol), the constants (valueTable), the gates (gateTable), *)
(* the number of labels and of calls handed out (label_cnt, callCnt), the  *)
(* function being visited (nowfunc), and whether no handler has failed.    *)
(***************************************************************************)
EXTENDS IsqIR

\* QMEMSTART of the source; CMEMSTART is 0.
CONSTANT QMemStart

ASSUME QMemStartAssumption == QMemStart \in Nat

LDI(r, n) == <<"LDI", r, n>>
LD(r, a) == <<"LD", r, a>>
ST(r, a) == <<"ST", r, a>>
Op3(f, r, a, b) == <<f, r, a, b>>
CMP(a, b) == <<"CMP", a, b>>
BR(cond, label) == <<"BR", cond, label>>
Label(l) == <<"LABEL", l>>

Emit(g, code) == [g EXCEPT !.code = @ \o code]
Fail(g) == [g EXCEPT !.ok = FALSE]

CSize(g) == g.csz[g.now]
QSize(g) == g.qsz[g.now]

NoSlot == [ix |-> -1, addr |-> FALSE]
SymbolIndex(g, v) == IF v \in DOMAIN g.sym THEN g.sym[v] ELSE NoSlot

\* A map's insert: the first slot a value was given stays.
Bind(g, v, ix, addr) ==
    IF v \in DOMAIN g.sym THEN g
    ELSE [g EXCEPT !.sym = (v :> [ix |-> ix, addr |-> addr]) @@ @]

NewC(g, v, addr) == [Bind(g, v, CSize(g), addr) EXCEPT !.csz[g.now] = @ + 1]
NewQ(g, v, addr) == [Bind(g, v, QSize(g), addr) EXCEPT !.qsz[g.now] = @ + 1]

GetLoad(rg, stack, offset) ==
    IF offset > 0
    THEN <<LDI(rg, offset), Op3("ADD", rg, rg, stack), LD(rg, rg)>>
    ELSE <<LD(rg, stack)>>

GetStore(v, rg, stack, offset) ==
    IF offset > 0
    THEN <<LDI(rg, offset), Op3("ADD", rg, rg, stack), ST(v, rg)>>
    ELSE <<ST(v, stack)>>

LoadValue(g, rg, stack, v) ==
    IF v \in DOMAIN g.val THEN Emit(g, <<LDI(rg, g.val[v])>>)
    ELSE LET ix == SymbolIndex(g, v).ix
         IN IF ix < 0 THEN Fail(g) ELSE Emit(g, GetLoad(rg, stack, ix))

----------------------------------------------------------------------------
(* The handlers, one per kind of operation. *)

\* APInt::getSExtValue of a one-bit true is -1.
VisitConstant(g, o) ==
    [g EXCEPT !.val = (o.r :> IF o.elt = "b" THEN -o.n ELSE o.n) @@ @]

\* The loop that numbers new qubits, storing at base + offset + R2 each time round.
AllocLoop(l, size, address) ==
    <<LDI("R2", 0), Label(<<"alloc_start", l>>), LDI("R1", size), CMP("R2", "R1"),
      BR("GEQ", <<"alloc_end", l>>)>> \o address
    \o <<ST("RN", "R1"), LDI("R1", 1), Op3("ADD", "RN", "RN", "R1"),
         Op3("ADD", "R2", "R2", "R1"), BR("ALWAYS", <<"alloc_start", l>>),
         Label(<<"alloc_end", l>>)>>

VisitAlloc(g, o) ==
    IF o.elt = "q"
    THEN [Emit(Bind(g, o.r, QSize(g), FALSE),
               AllocLoop(g.labels, o.size,
                         <<LDI("R1", QSize(g)), Op3("ADD", "R1", "R1", "R2"),
                           Op3("ADD", "R1", "RQ", "R1")>>))
            EXCEPT !.labels = @ + 1, !.qsz[g.now] = @ + o.size]
    ELSE [Bind(g, o.r, CSize(g), FALSE) EXCEPT !.csz[g.now] = @ + o.size]

VisitCast(g, o) == Bind(g, o.r, SymbolIndex(g, o.a).ix, SymbolIndex(g, o.a).addr)

\* IndexCastOp and ExtUIOp.
VisitCopy(g, o) ==
    IF o.a \in DOMAIN g.val THEN [g EXCEPT !.val = (o.r :> g.val[o.a]) @@ @]
    ELSE Bind(g, o.r, SymbolIndex(g, o.a).ix, SymbolIndex(g, o.a).addr)

Operator == [f \in {"+", "-", "*", "&"} |->
                CASE f = "+" -> "ADD" [] f = "-" -> "SUB" [] f = "*" -> "MUL" [] f = "&" -> "AND"]

VisitBinary(g, o) ==
    LET both == LoadValue(LoadValue(g, "R1", "RC", o.a), "R2", "RC", o.b)
    IN NewC(Emit(both, <<Op3(Operator[o.f], "R1", "R1", "R2")>>
                       \o GetStore("R1", "R2", "RC", CSize(g))), o.r, FALSE)

\* Mutant: the comparisons with equality are strict.
Condition_Strict == [p \in {"eq", "ne", "slt", "sle", "sgt", "sge"} |->
                CASE p = "eq" -> "EQ" [] p = "ne" -> "NEQ" [] p = "slt" -> "LT"
                  [] p = "sle" -> "LT" [] p = "sgt" -> "GT" [] p = "sge" -> "GT"]

Condition == [p \in {"eq", "ne", "slt", "sle", "sgt", "sge"} |->
                CASE p = "eq" -> "EQ" [] p = "ne" -> "NEQ" [] p = "slt" -> "LT"
                  [] p = "sle" -> "LEQ" [] p = "sgt" -> "GT" [] p = "sge" -> "GEQ"]

\* Mutant: the label stands before the branch to it.
VisitCmp_LabelFirst(g, o) ==
    LET both == LoadValue(LoadValue(g, "R1", "RC", o.a), "R2", "RC", o.b)
        l == <<"cmp_value", g.labels>>
    IN [NewC(Emit(both, <<CMP("R1", "R2"), LDI("R1", 1), Label(l), BR(Condition[o.p], l),
                          LDI("R1", 0)>> \o GetStore("R1", "R2", "RC", CSize(g))), o.r, FALSE)
          EXCEPT !.labels = @ + 1]

VisitCmp(g, o) ==
    LET both == LoadValue(LoadValue(g, "R1", "RC", o.a), "R2", "RC", o.b)
        l == <<"cmp_value", g.labels>>
    IN [NewC(Emit(both, <<CMP("R1", "R2"), LDI("R1", 1), BR(Condition[o.p], l), LDI("R1", 0),
                          Label(l)>> \o GetStore("R1", "R2", "RC", CSize(g))), o.r, FALSE)
          EXCEPT !.labels = @ + 1]

\* A load whose result is used; the others leave no code.
VisitLoad(g, o) ==
    LET s == SymbolIndex(g, o.a)
        stack == IF o.elt = "q" THEN "RQ" ELSE "RC"
        to == IF o.elt = "q" THEN QSize(g) ELSE CSize(g)
        code == GetLoad("R1", stack, s.ix)
                \o (IF s.addr THEN <<LD("R1", "R1")>> ELSE <<>>)
                \o GetStore("R1", "R2", stack, to)
    IN IF s.ix < 0 THEN Fail(g)
       ELSE IF o.elt = "q" THEN NewQ(Emit(g, code), o.r, FALSE)
       ELSE NewC(Emit(g, code), o.r, FALSE)

\* A qubit is not stored: its number never leaves its slot.
VisitStore(g, o) ==
    LET s == SymbolIndex(g, o.a)
        loaded == LoadValue(g, "R2", "RC", o.v)
    IN IF o.elt = "q" THEN g
       ELSE IF s.ix < 0 THEN Fail(g)
       ELSE IF s.addr THEN Emit(loaded, GetLoad("R1", "RC", s.ix) \o <<ST("R2", "R1")>>)
       ELSE Emit(loaded, GetStore("R2", "R1", "RC", s.ix))

\* The slot of a global holds its address.
VisitGetGlobal(g, o) ==
    IF o.elt = "q"
    THEN NewQ(Emit(g, <<LDI("R1", QMemStart + g.globals[o.name])>>
                      \o GetStore("R1", "R2", "RQ", QSize(g))), o.r, TRUE)
    ELSE NewC(Emit(g, <<LDI("R1", g.globals[o.name])>>
                      \o GetStore("R1", "R2", "RC", CSize(g))), o.r, TRUE)

\* The address of an element.  For an array of this frame it is taken from the start of the memory
\* and not from that of the frame.
VisitSubView(g, o) ==
    LET s == SymbolIndex(g, o.a)
        stack == IF o.elt = "q" THEN "RQ" ELSE "RC"
        offset == IF o.dyn THEN LoadValue(g, "R1", "RC", o.off) ELSE Emit(g, <<LDI("R1", o.at)>>)
        base == IF s.addr THEN GetLoad("R2", stack, s.ix) ELSE <<LDI("R2", s.ix)>>
        sum == Emit(offset, base \o <<Op3("ADD", "R1", "R2", "R1")>>)
    IN IF o.elt = "q"
       THEN NewQ(Emit(sum, (IF s.addr THEN <<>>
                            ELSE <<LDI("R2", QMemStart), Op3("ADD", "R1", "R1", "R2")>>)
                           \o GetStore("R1", "R2", "RQ", QSize(g))), o.r, TRUE)
       ELSE NewC(Emit(sum, GetStore("R1", "R2", "RC", CSize(g))), o.r, TRUE)

VisitUse(g, o) == [g EXCEPT !.gate = (o.r :> o.gate) @@ @]

\* One or two qubits; of a third nothing is said.
VisitApply(g, o) ==
    LET slot(i) == SymbolIndex(g, o.args[i]).ix
        first == GetLoad("R1", "RQ", slot(1))
        code == IF Len(o.args) = 1 THEN first \o <<<<"GATE", g.gate[o.g], <<"R1">>>>>>
                ELSE first \o GetLoad("R2", "RQ", slot(2)) \o <<<<"GATE", g.gate[o.g], <<"R1", "R2">>>>>>
        bound[i \in 0..Len(o.rs)] ==
            IF i = 0 THEN Emit(g, code) ELSE Bind(bound[i - 1], o.rs[i], slot(i), FALSE)
    IN IF \E i \in DOMAIN o.args : slot(i) < 0 THEN Fail(g) ELSE bound[Len(o.rs)]

\* The outcome is what the measurement leaves in its register.  The qubit's SSA result has no slot.
VisitMeasure(g, o) ==
    NewC(Emit(LoadValue(g, "R1", "RQ", o.a),
              <<<<"MEASE", "R1">>>> \o GetStore("R1", "R2", "RC", CSize(g))), o.r, FALSE)

----------------------------------------------------------------------------
(* Calls.  The frame of the callee lies behind the caller's: the number of the call, which the     *)
(* callee uses to find its way back, then the arguments.                                           *)

CountC(F, i) == Len(SelectSeq(SubSeq(F.args, 1, i - 1), LAMBDA a : a.elt # "q"))
CountQ(F, i) == Len(SelectSeq(SubSeq(F.args, 1, i - 1), LAMBDA a : a.elt = "q"))

\* Mutant: the number of the call has no word of its own.
PassArg_NoNumber(g, F, o, i) ==
    LET s == SymbolIndex(g, o.args[i])
    IN IF F.args[i].elt # "q"
       THEN LET h == LoadValue(g, "R2", "RC", o.args[i])
            IN Emit(h, GetStore("R2", "R1", "RC", CSize(g) + CountC(F, i)))
       ELSE IF s.ix < 0 THEN Fail(g)
       ELSE Emit(g, GetLoad("R2", "RQ", s.ix) \o (IF s.addr THEN <<LD("R2", "R2")>> ELSE <<>>)
                    \o GetStore("R2", "R1", "RQ", QSize(g) + CountQ(F, i)))

\* The code that passes argument i: its value, and for a qubit its number.
PassArg(g, F, o, i) ==
    LET s == SymbolIndex(g, o.args[i])
    IN IF F.args[i].elt # "q"
       THEN LET h == LoadValue(g, "R2", "RC", o.args[i])
            IN Emit(h, GetStore("R2", "R1", "RC", CSize(g) + 1 + CountC(F, i)))
       ELSE IF s.ix < 0 THEN Fail(g)
       ELSE Emit(g, GetLoad("R2", "RQ", s.ix) \o (IF s.addr THEN <<LD("R2", "R2")>> ELSE <<>>)
                    \o GetStore("R2", "R1", "RQ", QSize(g) + CountQ(F, i)))

MoveStack(f, stack, n) == IF n > 0 THEN <<LDI("R1", n), Op3(f, stack, stack, "R1")>> ELSE <<>>

\* The results are the slots of the qubit arguments, in order.
VisitCall(g, P, o) ==
    LET F == P.funcs[o.f]
        k == g.calls[o.f]
        passed[i \in 0..Len(o.args)] ==
            IF i = 0 THEN Emit(g, <<LDI("R2", k)>> \o GetStore("R2", "R1", "RC", CSize(g)))
            ELSE PassArg(passed[i - 1], F, o, i)
        jump == MoveStack("ADD", "RC", CSize(g) + 1) \o MoveStack("ADD", "RQ", QSize(g))
                \o <<BR("ALWAYS", <<"func", o.f>>), Label(<<"back", o.f, k>>)>>
                \o MoveStack("SUB", "RC", CSize(g)) \o MoveStack("SUB", "RQ", QSize(g))
        qargs == SelectSeq(o.args, LAMBDA a : F.args[CHOOSE i \in DOMAIN o.args : o.args[i] = a].elt = "q")
        bound[i \in 0..Len(o.rs)] ==
            IF i = 0 THEN [Emit(passed[Len(o.args)], jump) EXCEPT !.calls[o.f] = @ + 1]
            ELSE Bind(bound[i - 1], o.rs[i], SymbolIndex(g, qargs[i]).ix, FALSE)
    IN bound[Len(o.rs)]

----------------------------------------------------------------------------
(* Control. *)

RECURSIVE VisitOps(_, _, _)

VisitIf(g, P, o) ==
    LET n == g.labels
        ix == SymbolIndex(g, o.c).ix
        head == [Emit(g, GetLoad("R1", "RC", ix) \o
                         <<LDI("R2", 1), CMP("R1", "R2"), BR("NEQ", <<"else_block", n>>)>>)
                   EXCEPT !.labels = @ + 1]
        then == Emit(VisitOps(head, P, o.then),
                     <<BR("ALWAYS", <<"end_if", n>>), Label(<<"else_block", n>>)>>)
    IN IF ix < 0 THEN Fail(g) ELSE Emit(VisitOps(then, P, o.else), <<Label(<<"end_if", n>>)>>)

VisitFor(g, P, o) ==
    LET n == g.labels
        low == LoadValue(g, "R1", "RC", o.lo)
        init == [NewC(Emit(low, GetStore("R1", "R2", "RC", CSize(g))), o.i, FALSE)
                   EXCEPT !.labels = @ + 1]
        arg == SymbolIndex(init, o.i).ix
        high == LoadValue(Emit(init, <<Label(<<"forloop_start", n>>)>>), "R2", "RC", o.hi)
        test == Emit(high, <<CMP("R1", "R2"), BR("GEQ", <<"forloop_end", n>>)>>)
        body == Emit(VisitOps(test, P, o.body), GetLoad("R1", "RC", arg))
        step == LoadValue(body, "R2", "RC", o.step)
    IN Emit(step, <<Op3("ADD", "R1", "R1", "R2")>> \o GetStore("R1", "R2", "RC", arg)
                  \o <<BR("ALWAYS", <<"forloop_start", n>>), Label(<<"forloop_end", n>>)>>)

\* What the visitor is declared for without a handler is accepted and leaves no code: while-loops
\* and their heads, branches between the blocks of a function (the blocks follow one another),
\* decorated gates, returns.
Ignored == {"while", "region", "adjoint", "return"}

VisitOp(g, P, o) ==
    CASE o.op = "constant" -> VisitConstant(g, o)
      [] o.op = "alloc" -> VisitAlloc(g, o)
      [] o.op = "get_global" -> VisitGetGlobal(g, o)
      [] o.op = "cast" -> VisitCast(g, o)
      [] o.op = "copy" -> VisitCopy(g, o)
      [] o.op = "subview" -> VisitSubView(g, o)
      [] o.op = "load" -> VisitLoad(g, o)
      [] o.op = "store" -> VisitStore(g, o)
      [] o.op = "binary" -> IF o.f \in DOMAIN Operator THEN VisitBinary(g, o) ELSE g
      [] o.op = "cmp" -> VisitCmp(g, o)
      [] o.op = "if" -> VisitIf(g, P, o)
      [] o.op = "for" -> VisitFor(g, P, o)
      [] o.op = "use" -> VisitUse(g, o)
      [] o.op = "apply" -> VisitApply(g, o)
      [] o.op = "measure" -> VisitMeasure(g, o)
      [] o.op = "reset" -> Fail(g)
      [] o.op = "call" -> VisitCall(g, P, o)
      [] o.op = "cond_br" -> VisitOps(Emit(g, <<Label(<<"block", g.now>>)>>), P, o.next)
      [] o.op \in Ignored -> g

VisitOps(g, P, ops) ==
    IF ops = <<>> \/ ~g.ok THEN g ELSE VisitOps(VisitOp(g, P, Head(ops)), P, Tail(ops))

----------------------------------------------------------------------------
(* Functions and the whole program. *)

\* An argument nobody uses gets no slot.
BindArgs(g, F) ==
    LET bound[i \in 0..Len(F.args)] ==
            IF i = 0 THEN g
            ELSE LET a == F.args[i]
                     h == bound[i - 1]
                 IN IF ~Uses(F.body, a.v) THEN h
                    ELSE IF a.elt = "q" THEN NewQ(h, a.v, FALSE) ELSE NewC(h, a.v, FALSE)
    IN bound[Len(F.args)]

RECURSIVE SumOver(_, _)
SumOver(count, S) ==
    IF S = {} THEN 0
    ELSE LET x == CHOOSE y \in S : TRUE IN count[x] + SumOver(count, S \ {x})

CallCount(P, f) == SumOver([s \in Reached(P) |-> CallsIn(P.funcs[s].body, f)], Reached(P))

\* Mutant: the numbers of the calls start at one.
VisitFunc_FromOne(g, P, f) ==
    LET F == P.funcs[f]
        body == VisitOps(BindArgs(Emit([g EXCEPT !.now = f], <<Label(<<"func", f>>)>>), F), P, F.body)
        back[i \in 0..CallCount(P, f)] ==
            IF i = 0 THEN <<LDI("R1", 1), Op3("SUB", "RC", "RC", "R1"), LD("R1", "RC")>>
            ELSE back[i - 1] \o <<LDI("R2", i), CMP("R1", "R2"), BR("EQ", <<"back", f, i - 1>>)>>
    IN Emit(body, back[CallCount(P, f)] \o <<BR("ALWAYS", <<"process_end">>)>>)

\* The body, then the way back to the call whose number lies below the frame.
VisitFunc(g, P, f) ==
    LET F == P.funcs[f]
        body == VisitOps(BindArgs(Emit([g EXCEPT !.now = f], <<Label(<<"func", f>>)>>), F), P, F.body)
        back[i \in 0..CallCount(P, f)] ==
            IF i = 0 THEN <<LDI("R1", 1), Op3("SUB", "RC", "RC", "R1"), LD("R1", "RC")>>
            ELSE back[i - 1] \o <<LDI("R2", i - 1), CMP("R1", "R2"), BR("EQ", <<"back", f, i - 1>>)>>
    IN Emit(body, back[CallCount(P, f)] \o <<BR("ALWAYS", <<"process_end">>)>>)

Sizes(gs, isQ) ==
    SumOver([i \in DOMAIN gs |-> gs[i].size], {i \in DOMAIN gs : (gs[i].elt = "q") = isQ})

GlobalOffset(gs, name) ==
    LET i == CHOOSE j \in DOMAIN gs : gs[j].name = name
    IN Sizes(SubSeq(gs, 1, i - 1), gs[i].elt = "q")

\* init: the registers, and the numbers of the global qubits.
InitCode(c, q) ==
    <<LDI("RC", c), LDI("RQ", QMemStart), LDI("RN", 0)>>
    \o (IF q > 0 THEN AllocLoop(0, q, <<Op3("ADD", "R1", "R2", "RQ")>>) ELSE <<>>)
    \o <<LDI("RQ", QMemStart + q)>>

\* mlirPass: main, then the other functions in the order of their names.
GenerateEqasm(P, order) ==
    LET fs == DOMAIN P.funcs
        q == Sizes(P.globals, TRUE)
        start == [code |-> InitCode(Sizes(P.globals, FALSE), q),
                  csz |-> [f \in fs |-> 0], qsz |-> [f \in fs |-> 0],
                  globals |-> [n \in {P.globals[i].name : i \in DOMAIN P.globals} |->
                                    GlobalOffset(P.globals, n)],
                  sym |-> <<>>, val |-> <<>>, gate |-> <<>>, labels |-> IF q > 0 THEN 1 ELSE 0,
                  calls |-> [f \in fs |-> 0], now |-> "main", ok |-> TRUE]
        others == SelectSeq(order, LAMBDA f : f \in Reached(P) \ {"main"})
        visited[i \in 0..Len(others)] ==
            IF i = 0 THEN VisitFunc(start, P, "main") ELSE VisitFunc(visited[i - 1], P, others[i])
    IN Emit(visited[Len(others)], <<Label(<<"process_end">>)>>)
=============================================================================
