--------------------------- MODULE RaiiLowering ----------------------------
(***************************************************************************)
(* The RAII pass of the frontend: which for-loops stay affine, the         *)
(* conversion of the others into while-loops, and the replacement of       *)
(* break, continue and return by flags and jumps to the end of the         *)
(* innermost region.  One procedure body goes through the passes and is    *)
(* then run on inputs of its own.                                          *)
(*                                                                         *)
(* First the statements of a procedure as far as control flow goes, before *)
(* and after the lowering, and what running them does.  A statement is a   *)
(* record; a body is a sequence of statements.  Effects other than control *)
(* flow are Act(id); a condition other than that of a converted for-loop   *)
(* is an input of the run.  A jump sends a signal that unwinds to the      *)
(* statement it addresses: break, continue and return are those of the     *)
(* source language, "end" is the lowered jump to the end of the innermost  *)
(* region.                                                                 *)
(***************************************************************************)
EXTENDS Integers, Sequences, SequencesExt

CONSTANTS
  Trips,     \* how often a for-loop iterates
  Var,       \* the names of loop variables
  Fuel       \* bound: loop iterations of a run before it counts as endless

ASSUME ControlFlowAssumption ==
  /\ Trips \in Nat /\ Fuel \in Nat
  /\ Var \subseteq Nat \ {0}

\* The condition that reads an input; any other condition is the name of the
\* loop variable it compares with the bound of its loop.
Input == 0

Act(id) == [op |-> "act", id |-> id]
Block(b) == [op |-> "block", body |-> b]
If(t, e) == [op |-> "if", then |-> t, else |-> e]
\* literal: the step of the range is missing or a positive literal.
For(x, literal, b) == [op |-> "for", cond |-> x, literal |-> literal, body |-> b]
While(c, b) == [op |-> "while", cond |-> c, body |-> b]
Break == [op |-> "break"]
Continue == [op |-> "continue"]
Return(v) == [op |-> "return", val |-> v]

\* Introduced when a for-loop is converted.
Defvar(x) == [op |-> "defvar", var |-> x]
Increment(x) == [op |-> "increment", var |-> x]

\* Introduced by the lowering: flags and a register for the returned value.
Temp(f) == [op |-> "temp", flag |-> f]
SetFlags(F) == [op |-> "set", flags |-> F]
SetReturn(v) == [op |-> "setreturn", val |-> v]
Jump == [op |-> "jump"]
JumpOn(f) == [op |-> "jumpon", flag |-> f]
Guarded(c, b, f) == [op |-> "guarded", cond |-> c, body |-> b, flag |-> f]

----------------------------------------------------------------------------
\* Running a body.

Start(inputs) ==
  [inputs |-> inputs, trace |-> <<>>, vars |-> [x \in Var |-> 0],
   flags |-> {}, val |-> 0, signal |-> "go", fuel |-> Fuel]

Truth(c, st) ==
  IF c = Input THEN st.inputs # <<>> /\ Head(st.inputs)
               ELSE st.vars[c] < Trips

\* Reading an input consumes it, and after the last one all are FALSE.
Tested(c, st) ==
  IF c = Input /\ st.inputs # <<>> THEN [st EXCEPT !.inputs = Tail(@)] ELSE st

Send(signal, st) == [st EXCEPT !.signal = signal]
Stops(signals, st) == IF st.signal \in signals THEN Send("go", st) ELSE st
Advance(x, st) == [st EXCEPT !.vars[x] = @ + 1]

RECURSIVE Run(_, _), Exec(_, _), Iterate(_, _)

\* Statement after statement, until one sends a signal.
Run(body, st) ==
  IF body = <<>> \/ st.signal # "go" THEN st
  ELSE Run(Tail(body), Exec(Head(body), st))

\* A loop, from its next test on.  A for-loop advances its variable whichever
\* way its body ends; a converted one does it by a statement of the body.
Iterate(s, st) ==
  LET tested == Tested(s.cond, st)
      ended  == Run(s.body, [tested EXCEPT !.fuel = @ - 1])
      next   == Stops({"continue", "end"}, ended)
  IN CASE s.op = "guarded" /\ s.flag \in st.flags -> st
       [] ~Truth(s.cond, st) -> tested
       [] st.fuel = 0 -> Send("endless", st)
       [] next.signal = "go" ->
            Iterate(s, IF s.op = "for" THEN Advance(s.cond, next) ELSE next)
       [] OTHER -> Stops({"break"}, next)

Exec(s, st) ==
  CASE s.op = "act" -> [st EXCEPT !.trace = Append(@, s.id)]
    [] s.op = "block" -> Stops({"end"}, Run(s.body, st))
    [] s.op = "if" ->
         Stops({"end"}, Run(IF Truth(Input, st) THEN s.then ELSE s.else,
                            Tested(Input, st)))
    [] s.op = "for" -> Iterate(s, [st EXCEPT !.vars[s.cond] = 0])
    [] s.op \in {"while", "guarded"} -> Iterate(s, st)
    [] s.op \in {"break", "continue"} -> Send(s.op, st)
    [] s.op = "return" -> Send("return", [st EXCEPT !.val = s.val])
    [] s.op = "defvar" -> [st EXCEPT !.vars[s.var] = 0]
    [] s.op = "increment" -> Advance(s.var, st)
    [] s.op = "temp" -> [st EXCEPT !.flags = @ \ {s.flag}]
    [] s.op = "set" -> [st EXCEPT !.flags = @ \cup s.flags]
    [] s.op = "setreturn" -> [st EXCEPT !.val = s.val]
    [] s.op = "jump" -> Send("end", st)
    [] s.op = "jumpon" -> IF s.flag \in st.flags THEN Send("end", st) ELSE st

\* What a caller sees of a procedure: its effects in order, the value, and
\* whether it comes back at all.
Outcome(body, inputs) ==
  LET st == Run(body, Start(inputs))
  IN [trace |-> st.trace, val |-> st.val, endless |-> st.signal = "endless"]

----------------------------------------------------------------------------
\* The bodies directly inside a statement.
Bodies(s) ==
  CASE s.op = "if" -> {s.then, s.else}
    [] s.op \in {"block", "for", "while", "guarded"} -> {s.body}
    [] OTHER -> {}

\* Does a statement with one of these operators occur in the body?
RECURSIVE Uses(_, _)
Uses(ops, body) ==
  \E s \in Range(body) : s.op \in ops \/ \E b \in Bodies(s) : Uses(ops, b)

----------------------------------------------------------------------------
(* The compilation of one procedure. *)

CONSTANTS
  Programs,   \* the procedure bodies to compile
  Inputs      \* the sequences of condition values to run them on

VARIABLES prog, ast, stage, inputs

vars == <<prog, ast, stage, inputs>>

----------------------------------------------------------------------------
\* Affine safety (isStatementAffineSafe).

Worst(effects) ==
  CASE "ContainsReturn" \in effects -> "ContainsReturn"
    [] "ContainsBreak" \in effects -> "ContainsBreak"
    [] OTHER -> "Safe"

RECURSIVE Effect(_)

\* What a statement means for the loop around it: a break ends at its loop.
BodyEffects(body) ==
  {IF s.op = "for" /\ Effect(s) = "ContainsBreak" THEN "Safe" ELSE Effect(s) :
     s \in Range(body)}

\* The annotation of a statement; a while-loop is Safe whatever it holds.
Effect(s) ==
  CASE s.op = "break" -> "ContainsBreak"
    [] s.op = "return" -> "ContainsReturn"
    [] s.op \in {"block", "if"} -> Worst(UNION {BodyEffects(b) : b \in Bodies(s)})
    [] s.op = "for" ->
         Worst(BodyEffects(s.body) \cup {IF s.literal THEN "Safe" ELSE "ContainsBreak"})
    [] OTHER -> "Safe"

----------------------------------------------------------------------------
\* Conversion of for-loops (eliminateNonAffineForStmts).  The annotation of a
\* while-loop covers all it contains: marked is TRUE below one.

RECURSIVE Eliminate(_, _)

EliminateIn(body, marked) ==
  [i \in DOMAIN body |-> Eliminate(body[i], marked)]

Converted(x, body) ==
  Block(<<Defvar(x), While(x, Append(body, Increment(x)))>>)

Eliminate(s, marked) ==
  CASE s.op = "block" -> Block(EliminateIn(s.body, marked))
    [] s.op = "if" -> If(EliminateIn(s.then, marked), EliminateIn(s.else, marked))
    [] s.op = "while" -> While(s.cond, EliminateIn(s.body, TRUE))
    [] s.op = "for" /\ (marked \/ Effect(s) = "Safe") ->
         For(s.cond, s.literal, EliminateIn(s.body, marked))
    [] s.op = "for" -> Converted(s.cond, EliminateIn(s.body, marked))
    [] OTHER -> s

----------------------------------------------------------------------------
\* Flags and jumps (raiiTransform).  regions holds the enclosing regions, the
\* innermost first.  A flag is named by the depth of its region: siblings of
\* one depth share it, which no run can tell, because every region clears its
\* flag before it uses it.

Region(type, isWhile, regions) ==
  LET depth == Len(regions) + 1
  IN [type |-> type, flag |-> <<"flag", depth>>,
      heads |-> IF isWhile THEN {<<"head", depth>>} ELSE {}]

\* The regions a jump leaves, up to the first of the type.
Skipped(type, regions) ==
  SubSeq(regions, 1, CHOOSE i \in DOMAIN regions :
    regions[i].type = type /\ \A j \in 1 .. i - 1 : regions[j].type # type)

HeadFlags(regions) == UNION {r.heads : r \in Range(regions)}
BodyFlags(regions) == {r.flag : r \in Range(regions)}

\* A break that stops the body of its loop only.
BreakOut_BodyOnly(regions) ==
  LET left == Skipped("loop", regions)
  IN <<SetFlags(BodyFlags(left)), Jump>>

BreakOut(regions) ==
  LET left == Skipped("loop", regions)
  IN <<SetFlags(HeadFlags(left) \cup BodyFlags(left)), Jump>>

ContinueOut(regions) ==
  <<SetFlags(BodyFlags(Tail(Skipped("loop", regions)))), Jump>>

ReturnOut(v, regions) ==
  LET left == Skipped("procedure", regions)
  IN <<SetFlags(HeadFlags(left) \cup BodyFlags(Tail(left))), SetReturn(v), Jump>>

RECURSIVE Transform(_, _)

TransformIn(body, regions) ==
  FlattenSeq([i \in DOMAIN body |-> Transform(body[i], regions)])

\* The check behind a region: has the region around it been left as well?
CheckScope(regions) == JumpOn(Head(regions).flag)

TransformFor(s, region, regions) ==
  <<For(s.cond, s.literal,
        <<Temp(region.flag)>> \o TransformIn(s.body, <<region>> \o regions)),
    CheckScope(regions)>>

\* A while-loop has a flag that ends it, tested with its condition; nothing is
\* checked behind it.
TransformWhile(s, region, regions) ==
  LET head == CHOOSE f \in region.heads : TRUE
  IN <<Temp(head),
       Guarded(s.cond,
               <<Temp(region.flag)>> \o TransformIn(s.body, <<region>> \o regions),
               head)>>

Transform(s, regions) ==
  LET block == Region("block", FALSE, regions)
      Inside(body) == TransformIn(body, <<block>> \o regions)
  IN CASE s.op = "block" ->
            <<Temp(block.flag), Block(Inside(s.body)), CheckScope(regions)>>
       [] s.op = "if" ->
            <<Temp(block.flag), If(Inside(s.then), Inside(s.else)), CheckScope(regions)>>
       [] s.op = "for" -> TransformFor(s, Region("loop", FALSE, regions), regions)
       [] s.op = "while" -> TransformWhile(s, Region("loop", TRUE, regions), regions)
       [] s.op = "break" -> BreakOut(regions)
       [] s.op = "continue" -> ContinueOut(regions)
       [] s.op = "return" -> ReturnOut(s.val, regions)
       [] OTHER -> <<s>>

TransformProcedure(body) ==
  LET procedure == Region("procedure", FALSE, <<>>)
  IN <<Temp(procedure.flag)>> \o TransformIn(body, <<procedure>>)

\* A break or continue with no loop around it (UnmatchedScopeError).
RECURSIVE Unmatched(_)
Unmatched(body) ==
  \E s \in Range(body) :
    \/ s.op \in {"break", "continue"}
    \/ s.op \in {"block", "if"} /\ \E b \in Bodies(s) : Unmatched(b)

\* Is there a for-loop whose step is not a positive literal?
RECURSIVE VariableSteps(_)
VariableSteps(body) ==
  \E s \in Range(body) :
    \/ s.op = "for" /\ ~s.literal
    \/ \E b \in Bodies(s) : VariableSteps(b)

----------------------------------------------------------------------------
Init ==
  /\ prog \in Programs
  /\ ast = prog
  /\ stage = "parsed"
  /\ inputs = <<>>

EliminateFor ==
  /\ stage = "parsed"
  /\ stage' = "eliminated"
  /\ ast' = EliminateIn(ast, FALSE)
  /\ UNCHANGED <<prog, inputs>>

Reject ==
  /\ stage = "eliminated"
  /\ Unmatched(ast)
  /\ stage' = "rejected"
  /\ UNCHANGED <<prog, ast, inputs>>

Lower ==
  /\ stage = "eliminated"
  /\ ~Unmatched(ast)
  /\ stage' = "lowered"
  /\ ast' = TransformProcedure(ast)
  /\ UNCHANGED <<prog, inputs>>

\* A for-loop reaches the emitter with a step that is no literal (its error
\* "unreachable").
EmitFails ==
  /\ stage = "lowered"
  /\ VariableSteps(ast)
  /\ stage' = "unreachable"
  /\ UNCHANGED <<prog, ast, inputs>>

\* The program is emitted, and the procedure is called.
Call ==
  /\ stage = "lowered"
  /\ ~VariableSteps(ast)
  /\ stage' = "called"
  /\ inputs' \in Inputs
  /\ UNCHANGED <<prog, ast>>

Next == EliminateFor \/ Reject \/ Lower \/ EmitFails \/ Call

Spec == Init /\ [][Next]_vars

----------------------------------------------------------------------------
\* The programs the pass is right about, found by looking for the others: a
\* break whose for-loop stays a for-loop, a continue whose for-loop becomes a
\* while-loop, a return below a for-loop that stays one, a return out of a
\* while-loop with statements behind it, and a for-loop that stays one
\* although its step is no literal.
RECURSIVE Supported(_, _, _, _)
Supported(body, loop, inFor, marked) ==
  /\ \A s \in Range(body) :
       CASE s.op = "break" -> loop # "kept"
         [] s.op = "continue" -> loop # "converted"
         [] s.op = "return" -> ~inFor
         [] s.op = "while" -> Supported(s.body, "while", inFor, TRUE)
         [] s.op = "for" /\ (marked \/ Effect(s) = "Safe") ->
              s.literal /\ Supported(s.body, "kept", TRUE, marked)
         [] s.op = "for" -> Supported(s.body, "converted", inFor, marked)
         [] OTHER -> \A b \in Bodies(s) : Supported(b, loop, inFor, marked)
  /\ \A i \in 1 .. Len(body) - 1 :
       body[i].op = "while" => ~Uses({"return"}, body[i].body)

\* A supported nesting of blocks, branches, loops and jumps is compiled, and
\* running the lowered program has the effects of the source program, in the
\* same order, returns the same value and comes back whenever the source does.
SameBehaviour ==
  Supported(prog, "none", FALSE, FALSE) =>
    stage # "unreachable" /\ (stage = "called" => Outcome(ast, inputs) = Outcome(prog, inputs))
=============================================================================
