------------------------------- MODULE IsqIR -------------------------------
(***************************************************************************)
(* The operations that reach the code generators of src/mlir/lib/backends, *)
(* as data, and what they mean: the reference every generator is compared  *)
(* with.  A run of a program is its log, the gates it applies and the      *)
(* qubits it measures, in order; the outcomes of the measurements are an   *)
(* input of the run.                                                       *)
(*                                                                         *)
(* Behind it the passes that rewrite a whole program before its code is    *)
(* generated, as functions from programs to programs:                      *)
(* isq-expand-decomposition, isq-remove-reset, the check at the start of   *)
(* isq-target-qcis, and isq-cancel-redundant.                              *)
(*                                                                         *)
(* An operation is a record with a field op; r is the SSA value it defines *)
(* (rs, a sequence of them).  A program has globals, a sequence of         *)
(* [name, elt, size], funcs, a function from names to [args, body], and    *)
(* gates, from the names of the gates defined by a decomposition to those  *)
(* of the functions that do it; an argument is [v, elt, mem], mem saying   *)
(* that it is passed by reference.  elt is "q" for a qubit, "i" for an     *)
(* index, "b" for a Boolean.                                               *)
(***************************************************************************)
EXTENDS Integers, Sequences, TLC

\* How often a while loop may go round before a run is given up.
CONSTANT Fuel

ASSUME FuelAssumption == Fuel \in Nat

Constant(r, n) == [op |-> "constant", r |-> r, n |-> n, elt |-> "i"]
Boolean(r, b) == [op |-> "constant", r |-> r, n |-> IF b THEN 1 ELSE 0, elt |-> "b"]
Alloc(r, elt, size) == [op |-> "alloc", r |-> r, elt |-> elt, size |-> size]
GetGlobal(r, name, elt) == [op |-> "get_global", r |-> r, name |-> name, elt |-> elt]
Cast(r, a) == [op |-> "cast", r |-> r, a |-> a]
\* The offset is an SSA value, or static.
SubView(r, a, off, elt) ==
    [op |-> "subview", r |-> r, a |-> a, dyn |-> TRUE, off |-> off, elt |-> elt]
SubViewAt(r, a, n, elt) ==
    [op |-> "subview", r |-> r, a |-> a, dyn |-> FALSE, at |-> n, elt |-> elt]
Load(r, a, elt) == [op |-> "load", r |-> r, a |-> a, elt |-> elt]
Store(v, a, elt) == [op |-> "store", v |-> v, a |-> a, elt |-> elt]
Binary(r, f, a, b) == [op |-> "binary", r |-> r, f |-> f, a |-> a, b |-> b]
Cmp(r, p, a, b) == [op |-> "cmp", r |-> r, p |-> p, a |-> a, b |-> b]
Copy(r, a) == [op |-> "copy", r |-> r, a |-> a]
If(c, then, else) == [op |-> "if", c |-> c, then |-> then, else |-> else]
For(i, lo, hi, step, body) ==
    [op |-> "for", i |-> i, lo |-> lo, hi |-> hi, step |-> step, body |-> body]
\* The head of a loop with a break: its first block asks the flag brk.
Region(r, entry, brk, cond, y) ==
    [op |-> "region", r |-> r, entry |-> entry, brk |-> brk, cond |-> cond, y |-> y]
While(before, c, body) == [op |-> "while", before |-> before, c |-> c, body |-> body]
\* The early return: to the exit block of the function if c holds, else on to next.
CondBr(c, next) == [op |-> "cond_br", c |-> c, next |-> next]
UseGate(r, g) == [op |-> "use", r |-> r, gate |-> g, angles |-> <<>>]
\* A rotation; its angle is an SSA value, in quarters of a turn.
UseRotation(r, g, a) == [op |-> "use", r |-> r, gate |-> g, angles |-> <<a>>]
Adjoint(r, a) == [op |-> "adjoint", r |-> r, a |-> a]
Apply(rs, g, args) == [op |-> "apply", rs |-> rs, g |-> g, args |-> args]
Measure(rq, r, a) == [op |-> "measure", rq |-> rq, r |-> r, a |-> a]
Reset(rq, a) == [op |-> "reset", rq |-> rq, a |-> a]
Call(rs, f, args) == [op |-> "call", rs |-> rs, f |-> f, args |-> args]
Return(vs) == [op |-> "return", vs |-> vs]

Arith(f, a, b) ==
    CASE f = "+" -> a + b
      [] f = "-" -> a - b
      [] f = "*" -> a * b
      [] f = "/" -> a \div b
      [] f = "%" -> a % b
      [] f = "&" -> IF a = 1 /\ b = 1 THEN 1 ELSE 0

Holds(p, a, b) ==
    CASE p = "eq" -> a = b
      [] p = "ne" -> a # b
      [] p = "slt" -> a < b
      [] p = "sle" -> a <= b
      [] p = "sgt" -> a > b
      [] p = "sge" -> a >= b

Bool01(b) == IF b THEN 1 ELSE 0

RECURSIVE Uses(_, _)

\* Does an operation of ops use the value v?
Uses(ops, v) ==
    \E k \in DOMAIN ops :
        LET o == ops[k]
        IN CASE o.op \in {"cast", "copy", "load", "adjoint", "measure", "reset"} -> o.a = v
             [] o.op = "subview" -> o.a = v \/ (o.dyn /\ o.off = v)
             [] o.op = "store" -> o.v = v \/ o.a = v
             [] o.op \in {"binary", "cmp"} -> o.a = v \/ o.b = v
             [] o.op = "if" -> o.c = v \/ Uses(o.then, v) \/ Uses(o.else, v)
             [] o.op = "for" -> v \in {o.lo, o.hi, o.step} \/ Uses(o.body, v)
             [] o.op = "cond_br" -> o.c = v \/ Uses(o.next, v)
             [] o.op = "use" -> \E i \in DOMAIN o.angles : o.angles[i] = v
             [] o.op \in {"apply", "call"} -> \E i \in DOMAIN o.args : o.args[i] = v
             [] o.op = "return" -> \E i \in DOMAIN o.vs : o.vs[i] = v
             [] o.op = "while" -> Uses(o.before, v) \/ Uses(o.body, v)
             [] o.op = "region" -> Uses(o.entry, v) \/ Uses(o.cond, v) \/ v \in {o.brk, o.y}
             [] OTHER -> FALSE

RECURSIVE CallsIn(_, _)

\* How many call operations on f there are in ops, whatever block they are in.
CallsIn(ops, f) ==
    IF ops = <<>> THEN 0
    ELSE LET o == Head(ops)
         IN CallsIn(Tail(ops), f)
            + (CASE o.op = "call" /\ o.f = f -> 1
                 [] o.op = "if" -> CallsIn(o.then, f) + CallsIn(o.else, f)
                 [] o.op = "for" -> CallsIn(o.body, f)
                 [] o.op = "cond_br" -> CallsIn(o.next, f)
                 [] o.op = "while" -> CallsIn(o.before, f) + CallsIn(o.body, f)
                 [] OTHER -> 0)

\* buildCallDic: the functions main reaches, each with the number of the calls to it.
RECURSIVE ReachedFrom(_, _)
ReachedFrom(P, S) ==
    LET T == S \cup {f \in DOMAIN P.funcs : \E s \in S : CallsIn(P.funcs[s].body, f) > 0}
    IN IF T = S THEN S ELSE ReachedFrom(P, T)

Reached(P) == ReachedFrom(P, {"main"})

(***************************************************************************)
(* A run: the values of the SSA names, the memory (a reference is the      *)
(* address of its first cell, a qubit's cell holds the qubit's number),    *)
(* the outcomes left, the number of the next qubit, the log, the values    *)
(* returned, and whether the run was given up.                             *)
(***************************************************************************)
Def(m, r, x) == [m EXCEPT !.env = (r :> x) @@ @]

RECURSIVE DefAll(_, _, _)
DefAll(m, rs, xs) ==
    IF rs = <<>> THEN m ELSE DefAll(Def(m, Head(rs), Head(xs)), Tail(rs), Tail(xs))

\* New cells, with new qubits or zeroes in them.
Grow(m, elt, size) ==
    [m EXCEPT !.mem = @ \o [i \in 1..size |-> IF elt = "q" THEN m.qubits + i - 1 ELSE 0],
              !.qubits = IF elt = "q" THEN @ + size ELSE @]

RECURSIVE RunOps(_, _, _), RunOp(_, _, _), RunFor(_, _, _, _), RunWhile(_, _, _, _)

RunOps(P, ops, m) ==
    IF ops = <<>> \/ m.stuck THEN m ELSE RunOps(P, Tail(ops), RunOp(P, Head(ops), m))

RunFor(P, o, x, m) ==
    IF x >= m.env[o.hi] \/ m.stuck THEN m
    ELSE RunFor(P, o, x + m.env[o.step], RunOps(P, o.body, Def(m, o.i, x)))

RunWhile(P, o, n, m) ==
    LET h == RunOps(P, o.before, m)
    IN IF h.stuck \/ h.env[o.c] = 0 THEN h
       ELSE IF n = 0 THEN [h EXCEPT !.stuck = TRUE]
       ELSE RunWhile(P, o, n - 1, RunOps(P, o.body, h))

\* The body of f on the values of vs, with the results in rs.
RunBody(P, f, vs, rs, m) ==
    LET F == P.funcs[f]
        start == DefAll([m EXCEPT !.ret = <<>>],
                        [i \in DOMAIN F.args |-> F.args[i].v],
                        [i \in DOMAIN F.args |-> m.env[vs[i]]])
        end == RunOps(P, F.body, start)
    IN IF end.stuck THEN end ELSE DefAll([end EXCEPT !.env = m.env], rs, end.ret)

RunOp(P, o, m) ==
    CASE o.op = "constant" -> Def(m, o.r, o.n)
      [] o.op = "alloc" -> Def(Grow(m, o.elt, o.size), o.r, Len(m.mem) + 1)
      [] o.op = "get_global" -> Def(m, o.r, m.globals[o.name])
      [] o.op \in {"cast", "copy"} -> Def(m, o.r, m.env[o.a])
      [] o.op = "subview" -> Def(m, o.r, m.env[o.a] + IF o.dyn THEN m.env[o.off] ELSE o.at)
      [] o.op = "load" -> Def(m, o.r, m.mem[m.env[o.a]])
      [] o.op = "store" -> [m EXCEPT !.mem[m.env[o.a]] = m.env[o.v]]
      [] o.op = "binary" -> Def(m, o.r, Arith(o.f, m.env[o.a], m.env[o.b]))
      [] o.op = "cmp" -> Def(m, o.r, Bool01(Holds(o.p, m.env[o.a], m.env[o.b])))
      [] o.op = "if" -> RunOps(P, IF m.env[o.c] = 1 THEN o.then ELSE o.else, m)
      [] o.op = "cond_br" -> RunOps(P, IF m.env[o.c] = 1 THEN <<>> ELSE o.next, m)
      [] o.op = "for" -> RunFor(P, o, m.env[o.lo], m)
      [] o.op = "region" ->
            LET h == RunOps(P, o.entry, m)
                c == RunOps(P, o.cond, h)
            IN IF h.env[o.brk] = 1 THEN Def(h, o.r, 0) ELSE Def(c, o.r, c.env[o.y])
      [] o.op = "while" -> RunWhile(P, o, Fuel, m)
      [] o.op = "use" -> Def(m, o.r, <<o.gate>> \o [i \in DOMAIN o.angles |-> m.env[o.angles[i]]])
      [] o.op = "adjoint" -> Def(m, o.r, <<"inv">> \o m.env[o.a])
      [] o.op = "apply" ->
            LET qs == [i \in DOMAIN o.args |-> m.env[o.args[i]]]
                g == m.env[o.g]
            IN IF g[1] \in DOMAIN P.gates THEN RunBody(P, P.gates[g[1]], o.args, o.rs, m)
               ELSE DefAll([m EXCEPT !.log = Append(@, <<g, qs>>)], o.rs, qs)
      [] o.op = "reset" ->
            Def([m EXCEPT !.log = Append(@, <<<<"R">>, <<m.env[o.a]>>>>)], o.rq, m.env[o.a])
      [] o.op = "measure" ->
            IF m.outs = <<>> THEN [m EXCEPT !.stuck = TRUE]
            ELSE Def(Def([m EXCEPT !.log = Append(@, <<<<"M">>, <<m.env[o.a]>>>>), !.outs = Tail(@)],
                         o.rq, m.env[o.a]), o.r, Head(m.outs))
      [] o.op = "call" -> RunBody(P, o.f, o.args, o.rs, m)
      [] o.op = "return" -> [m EXCEPT !.ret = [i \in DOMAIN o.vs |-> m.env[o.vs[i]]]]

RECURSIVE GrowAll(_, _)
GrowAll(gs, m) ==
    IF gs = <<>> THEN m
    ELSE GrowAll(Tail(gs),
                 [Grow(m, Head(gs).elt, Head(gs).size) EXCEPT
                    !.globals = (Head(gs).name :> Len(m.mem) + 1) @@ @])

\* What the program does when its measurements give these outcomes.
RunProgram(P, outcomes) ==
    RunOps(P, P.funcs["main"].body,
           GrowAll(P.globals,
                   [env |-> <<>>, mem |-> <<>>, globals |-> <<>>, outs |-> outcomes, qubits |-> 0,
                    log |-> <<>>, ret |-> <<>>, stuck |-> FALSE]))

----------------------------------------------------------------------------
(* Passes on programs. *)

\* The program whose functions have the bodies Pass(body).
OnBodies(P, Pass(_)) ==
    [P EXCEPT !.funcs = [f \in DOMAIN P.funcs |-> [P.funcs[f] EXCEPT !.body = Pass(P.funcs[f].body)]]]

\* The operation o with Pass applied to the blocks in it.
OnBlocks(o, Pass(_)) ==
    CASE o.op = "if" -> [o EXCEPT !.then = Pass(o.then), !.else = Pass(o.else)]
      [] o.op = "for" -> [o EXCEPT !.body = Pass(o.body)]
      [] o.op = "while" -> [o EXCEPT !.before = Pass(o.before), !.body = Pass(o.body)]
      [] o.op = "region" -> [o EXCEPT !.entry = Pass(o.entry), !.cond = Pass(o.cond)]
      [] o.op = "cond_br" -> [o EXCEPT !.next = Pass(o.next)]
      [] OTHER -> o

RECURSIVE SubOps(_)

\* The operations of a body, those of its inner blocks included.
SubOps(ops) ==
    UNION {{ops[k]} \cup
              (CASE ops[k].op = "if" -> SubOps(ops[k].then) \cup SubOps(ops[k].else)
                 [] ops[k].op = "for" -> SubOps(ops[k].body)
                 [] ops[k].op = "while" -> SubOps(ops[k].before) \cup SubOps(ops[k].body)
                 [] ops[k].op = "region" -> SubOps(ops[k].entry) \cup SubOps(ops[k].cond)
                 [] ops[k].op = "cond_br" -> SubOps(ops[k].next)
                 [] OTHER -> {}) : k \in DOMAIN ops}

----------------------------------------------------------------------------
(* ExpandDecomposition.cpp *)

RECURSIVE Expanded(_, _, _), Expanded_Named(_, _, _)

\* Mutant: the qubits are passed in reverse order.
Expanded_Named(P, uses, ops) ==
    LET Inner(block) == Expanded_Named(P, uses, block)
        Expand(o) ==
            LET named == {u \in uses : u.r = o.g}
                u == CHOOSE x \in named : TRUE
            IN IF named = {} THEN o
               ELSE IF u.gate \notin DOMAIN P.gates THEN o
               ELSE Call(o.rs, P.gates[u.gate], u.angles \o [i \in DOMAIN o.args |-> o.args[Len(o.args) + 1 - i]])
    IN [k \in DOMAIN ops |-> IF ops[k].op = "apply" THEN Expand(ops[k]) ELSE OnBlocks(ops[k], Inner)]

\* An application of a gate that is named where it is used, not decorated, and has a decomposition
\* is a call, with the angles before the qubits.  uses: the use operations of the function.
Expanded(P, uses, ops) ==
    LET Inner(block) == Expanded(P, uses, block)
        Expand(o) ==
            LET named == {u \in uses : u.r = o.g}
                u == CHOOSE x \in named : TRUE
            IN IF named = {} THEN o
               ELSE IF u.gate \notin DOMAIN P.gates THEN o
               ELSE Call(o.rs, P.gates[u.gate], u.angles \o o.args)
    IN [k \in DOMAIN ops |-> IF ops[k].op = "apply" THEN Expand(ops[k]) ELSE OnBlocks(ops[k], Inner)]

ExpandDecomposition(P) ==
    OnBodies(P, LAMBDA body : Expanded(P, {o \in SubOps(body) : o.op = "use"}, body))

----------------------------------------------------------------------------
(* RemoveReset.cpp *)

RECURSIVE Renamed(_, _, _), WithoutReset(_)

\* replaceAllUsesWith, for the value of a qubit.
Renamed(ops, v, w) ==
    LET Inner(block) == Renamed(block, v, w)
        New(x) == IF x = v THEN w ELSE x
        Rename(o) ==
            CASE o.op \in {"measure", "reset"} -> [o EXCEPT !.a = New(@)]
              [] o.op = "store" -> [o EXCEPT !.v = New(@)]
              [] o.op \in {"apply", "call"} -> [o EXCEPT !.args = [i \in DOMAIN @ |-> New(@[i])]]
              [] o.op = "return" -> [o EXCEPT !.vs = [i \in DOMAIN @ |-> New(@[i])]]
              [] OTHER -> OnBlocks(o, Inner)
    IN [k \in DOMAIN ops |-> Rename(ops[k])]

\* A reset is erased, and its input takes the place of its result.
WithoutReset(ops) ==
    IF ops = <<>> THEN <<>>
    ELSE IF Head(ops).op = "reset" THEN WithoutReset(Renamed(Tail(ops), Head(ops).rq, Head(ops).a))
    ELSE <<OnBlocks(Head(ops), WithoutReset)>> \o WithoutReset(Tail(ops))

RemoveReset(P) == OnBodies(P, WithoutReset)

----------------------------------------------------------------------------
(* TargetQCISSet.cpp *)

\* No outcome is used, and nothing is reset.
TargetQcisAccepts(P) ==
    \A f \in DOMAIN P.funcs :
        \A o \in SubOps(P.funcs[f].body) :
            /\ o.op = "measure" => ~Uses(P.funcs[f].body, o.r)
            /\ o.op # "reset"

----------------------------------------------------------------------------
(* CancelRedundant.cpp *)

RECURSIVE WithoutStoreTo(_, _), Cancelled(_)

\* How many operations of ops use v.
UseCount(ops, v) ==
    LET own == {o \in SubOps(ops) : Uses(<<OnBlocks(o, LAMBDA block : <<>>)>>, v)}
    IN IF own = {} THEN 0 ELSE IF \E o \in own : own = {o} THEN 1 ELSE 2

WithoutStoreTo(ops, a) ==
    IF ops = <<>> THEN <<>>
    ELSE LET Inner(block) == WithoutStoreTo(block, a)
         IN IF Head(ops).op = "store" /\ Head(ops).a = a THEN Inner(Tail(ops))
            ELSE <<OnBlocks(Head(ops), Inner)>> \o Inner(Tail(ops))

\* CancelAlloc: memory nobody uses goes, and so does the one use of a single truth value when it is
\* a store.
Cancelled(ops) ==
    IF ops = <<>> THEN <<>>
    ELSE LET o == Head(ops)
             uses == UseCount(Tail(ops), o.r)
         IN IF o.op # "alloc" THEN <<OnBlocks(o, Cancelled)>> \o Cancelled(Tail(ops))
            ELSE IF uses = 0 THEN Cancelled(Tail(ops))
            ELSE IF o.elt = "b" /\ o.size = 1 /\ uses = 1
            THEN <<o>> \o Cancelled(WithoutStoreTo(Tail(ops), o.r))
            ELSE <<o>> \o Cancelled(Tail(ops))

CancelRedundant(P) == OnBodies(P, Cancelled)
=============================================================================
