-------------------------- MODULE MCRaiiLowering ---------------------------
(***************************************************************************)
(* RaiiLowering for TLC: all procedure bodies that nest Depth statements   *)
(* around one jump, with an effect behind each of them or not, run on all  *)
(* short sequences of condition values.                                    *)
(***************************************************************************)
EXTENDS RaiiLowering

CONSTANTS
  Depth,      \* how many statements are nested around a jump
  Conditions  \* how many conditions of a run can be TRUE

JumpStatements == {Break, Continue, Return(1)}

\* A jump, taken or skipped on a condition, or always taken.
Innermost ==
  {<<If(<<j>>, <<>>), Act(Depth + 1)>> : j \in JumpStatements} \cup
  {<<j>> : j \in JumpStatements}

\* The body of a loop or a branch is one statement.
Single(body) == {<<Block(body)>>} \cup (IF Len(body) = 1 THEN {body} ELSE {})

Around(body, x) ==
  {Block(body)} \cup
  UNION {{If(b, <<>>), While(Input, b), For(x, TRUE, b), For(x, FALSE, b)} :
           b \in Single(body)}

RECURSIVE Nested(_)
Nested(x) ==
  IF x > Depth THEN Innermost
  ELSE UNION {{<<s>>, <<s, Act(x)>>} :
                s \in UNION {Around(b, x) : b \in Nested(x + 1)}}

MCPrograms == Nested(1)
MCInputs == [1 .. Conditions -> BOOLEAN]
MCVar == 1 .. Depth
=============================================================================
