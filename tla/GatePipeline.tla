---------------------------- MODULE GatePipeline ----------------------------
(***************************************************************************)
(* The passes that bring the gates of a program down to those of a target, *)
(* in the order the driver runs them (isqc/src/main.rs).                   *)
(*                                                                         *)
(* One behaviour compiles one program for one target.  A pass rewrites     *)
(* until no rule of it matches.  The rules for one operation do not look   *)
(* at another, so a step applies them to every operation that matches; the *)
(* folding of decorations and the cancellations depend on what was done    *)
(* before, so they take one operation at a time, in any order.             *)
(***************************************************************************)
EXTENDS GateRules

CONSTANTS Targets,      \* subset of {"qir", "qcis", "qasm"}
          Programs      \* records [for, funcs, gates]: the targets it is compiled
                        \* for, and its functions and gate definitions by name

VARIABLES target,
          funcs,        \* the functions of the module, by name
          gates,        \* the gate definitions of the module, by name
          pc,           \* the pass that runs, an index of the pipeline
          dirty,        \* the flag of the decorate folding
          meaning       \* what each function of the source makes of the probe

vars == <<target, funcs, gates, pc, dirty, meaning>>

Early == <<"cse", "canonicalize", "oracle", "lower_switch", "recognize", "neg_ctrl",
           "famous_rot", "canonicalize", "cse", "pure", "canonicalize", "fold", "invert", "control", "twist",
           "canonicalize", "decompose_ctrl">>
PipelineOf(t) ==
  LET without(passes, gone) == SelectSeq(passes, LAMBDA p : p \notin gone)
  IN  CASE t = "qcis" -> Early \o <<"famous_rot", "qsd", "remove_trivial", "target_qcis", "expand",
                                    "canonicalize", "cse", "canonicalize", "cse", "remove_gphase">>
        [] t = "qir"  -> <<"cse">> \o From(Early, 2)
                           \o <<"famous_rot", "qsd", "remove_trivial", "expand",
                                "canonicalize", "cse", "remove_gphase">>
        [] t = "qasm" -> <<"cse">> \o without(From(Early, 2), {"famous_rot"})
                           \o <<"qsd", "remove_trivial", "expand", "remove_gphase",
                                "canonicalize", "cse">>
Pipelines == [t \in {"qir", "qcis", "qasm"} |-> PipelineOf(t)]
Pipeline == Pipelines[target]
Finished == pc > Len(Pipeline)
Pass     == IF Finished THEN "" ELSE Pipeline[pc]
Pending  == {f \in DOMAIN funcs : funcs[f].pending # <<>>}

Meaning(fs, gs, f) ==
  Run([funcs |-> fs, gates |-> gs], fs[f].ops, {}, [i \in 1..fs[f].n |-> i], FALSE, Probe(fs[f].n))

\* The body of an oracle is still empty.
OracleBodies(gs) == {gs[g].body : g \in {h \in DOMAIN gs : gs[h].values # <<>>}}

Init ==
  /\ \E source \in Programs :
       /\ target \in Targets \cap source.for
       /\ funcs = source.funcs
       /\ gates = source.gates
       /\ meaning = [f \in DOMAIN source.funcs \ OracleBodies(source.gates) |-> Meaning(source.funcs, source.gates, f)]
  /\ pc = 1
  /\ dirty = FALSE

---------------------------------------------------------------------------
\* The rules of a pass for one operation.
Replacements(pass, op) ==
  CASE pass = "canonicalize"   -> IF op.k \notin {"apply", "gphase"} THEN {}
                                  ELSE MergeDecorate(op) \cup EliminateUselessDecorate(op)
                                         \cup AdjointHermitian(gates, op)
    [] pass = "lower_switch"   -> LowerSwitch(op)
    [] pass = "recognize"      -> RewritePreferFamousGate(gates, op)
    [] pass = "neg_ctrl"       -> EliminateNegCtrl(op)
    [] pass = "famous_rot"     -> ConvertFamousParamSQIntoU3(op)
    [] pass = "decompose_ctrl" -> DecomposeMultiRz(op) \cup DecomposeMultiRx(op) \cup MergeAdjoint(op)
                                    \cup DecomposeCtrlU3(op) \cup DecomposeCtrlKnownSQ(gates, op)
    [] pass = "remove_trivial" -> RemoveTrivial(gates, op)
    [] pass = "target_qcis"    -> TargetQCIS(op)
    [] pass = "expand"         -> ExpandDecomposition(gates, op)
    [] pass = "remove_gphase"  -> IF op.k = "gphase" THEN {<<>>} ELSE {}
    [] OTHER -> {}

FirstOf(new, op)  == IF new = {} THEN <<op>> ELSE CHOOSE r \in new : TRUE
RewrittenOps(pass, ops) ==
  FlattenSeq([i \in 1..Len(ops) |-> FirstOf(Replacements(pass, ops[i]), ops[i])])
Rewritten(pass) ==
  [f \in DOMAIN funcs |-> [funcs[f] EXCEPT !.ops = RewrittenOps(pass, @)]]

\* Two applications that follow each other.
PairRewrites(ops, i) ==
  LET j == PreviousApply(ops, i)
  IN  IF Pass # "canonicalize" \/ ops[i].k # "apply" THEN {}
      ELSE IF j = 0 THEN {}
      ELSE CorrectSymmetryApplyOrder(gates, ops, i, j) \cup CancelUV(gates, ops, i, j)
PairSites(f) == {i \in DOMAIN funcs[f].ops : PairRewrites(funcs[f].ops, i) # {}}

NextPass ==
  /\ pc' = pc + 1
  /\ UNCHANGED <<target, funcs, gates, dirty, meaning>>

\* Every operation that a rule matches; the pass is over when there is none
\* and no pair of applications is left.
RewriteOps ==
  /\ Pass \in {"canonicalize", "lower_switch", "recognize", "neg_ctrl", "famous_rot",
               "decompose_ctrl", "remove_trivial", "target_qcis", "expand", "remove_gphase"}
  /\ Pass = "recognize" => "toffoli_decomposition" \in DOMAIN funcs
  /\ \E new \in {Rewritten(Pass)} :
       IF new # funcs THEN funcs' = new /\ UNCHANGED <<target, gates, pc, dirty, meaning>>
       ELSE (\A f \in DOMAIN funcs : PairSites(f) = {}) /\ NextPass

RewritePair ==
  /\ \E f \in DOMAIN funcs :
       /\ PairSites(f) # {}
       /\ \E i \in {Min(PairSites(f)), Max(PairSites(f))} :
            \E new \in PairRewrites(funcs[f].ops, i) : funcs' = [funcs EXCEPT ![f].ops = new]
  /\ UNCHANGED <<target, gates, pc, dirty, meaning>>

\* Equal gate values become one.
Cse ==
  /\ Pass = "cse"
  /\ funcs' = [f \in DOMAIN funcs |->
                 [funcs[f] EXCEPT !.ops = [i \in 1..Len(@) |-> [@[i] EXCEPT !.fresh = FALSE]]]]
  /\ pc' = pc + 1
  /\ UNCHANGED <<target, gates, dirty, meaning>>

\* Every oracle gets a body, one of those the random choices lead to.
DecomposeOracle ==
  /\ Pass = "oracle"
  /\ IF OracleBodies(gates) = {} THEN NextPass
     ELSE \E g \in {h \in DOMAIN gates : gates[h].values # <<>>} :
            \E body \in decomposeOracle(gates[g].values, gates[g].n) :
              /\ funcs' = [funcs EXCEPT ![gates[g].body].ops = body]
              /\ gates' = [gates EXCEPT ![g].values = <<>>]
              /\ UNCHANGED <<target, pc, dirty, meaning>>

\* The definitions of the famous gates come first.
EmitFamousGates ==
  /\ Pass = "recognize"
  /\ "toffoli_decomposition" \notin DOMAIN funcs
  /\ funcs' = "toffoli_decomposition" :> emitToffoliConstruction @@ funcs
  /\ UNCHANGED <<target, gates, pc, dirty, meaning>>

\* The body of a gate works on qubit states instead of memory.
mem2regBlock(ops)  == SelectSeq(ops, LAMBDA o : o.k # "memory")
PureGateRewrite(f) == [f EXCEPT !.ops = mem2regBlock(@)]
PureFuncs          == {gates[g].body : g \in DOMAIN gates}
PureGates ==
  /\ Pass = "pure"
  /\ funcs' = [f \in DOMAIN funcs |-> IF f \in PureFuncs THEN PureGateRewrite(funcs[f]) ELSE funcs[f]]
  /\ pc' = pc + 1
  /\ UNCHANGED <<target, gates, dirty, meaning>>

FoldSites(f) == {i \in DOMAIN funcs[f].ops : Foldable(gates, funcs[f].ops[i])}

\* A decorated application becomes a controlled X or a gate of its own, made
\* from the definition as it is at that moment.
DefineFolded(op, def, name) ==
  IF name \in DOMAIN gates THEN UNCHANGED gates
  ELSE gates' = name :> createControlledDefgate(def, op.dec[1], name) @@ gates
CopyFor(op, def, name) ==
  IF name \in DOMAIN gates \/ def.body = "" THEN <<>>
  ELSE LET body == name \o "_decomposition"
       IN  body :> CloneDecomposition(funcs[def.body], op.dec[1], body)
Fold(f, i, op, def, name) ==
  LET into(new) == [funcs EXCEPT ![f].ops = Spliced(@, i, new)]
  IN  IF op.g \in {"cnot", "toffoli"} THEN funcs' = into(FoldControlledX(op)) /\ UNCHANGED gates
      ELSE /\ DefineFolded(op, def, name)
           /\ funcs' = into(<<Apply(name, op.par, <<>>, op.qs)>>) @@ CopyFor(op, def, name)

FoldOp ==
  /\ Pass = "fold"
  /\ \E f \in DOMAIN funcs : \E i \in FoldSites(f) :
       LET op == funcs[f].ops[i]
       IN  /\ \A j \in FoldSites(f) : j <= i
           /\ Fold(f, i, op, Definition(gates, op.g), FoldedName(op))
  /\ dirty' = TRUE
  /\ UNCHANGED <<target, pc, meaning>>

FoldDone ==
  /\ Pass = "fold"
  /\ \A f \in DOMAIN funcs : FoldSites(f) = {}
  /\ NextPass

\* The copies are inverted, controlled and made to return the controls first;
\* then the folding starts again if it has changed anything.
InvertFunctions ==
  /\ Pass = "invert"
  /\ funcs' = [f \in DOMAIN funcs |->
                 IF f \in Pending /\ funcs[f].pending[1].adj
                 THEN GenerateInvertedGate(funcs[f]) ELSE funcs[f]]
  /\ pc' = pc + 1
  /\ UNCHANGED <<target, gates, dirty, meaning>>

ControlFunctions ==
  /\ Pass = "control"
  /\ funcs' = [f \in DOMAIN funcs |->
                 IF f \in Pending THEN InsertControllerBits(funcs[f]) ELSE funcs[f]]
  /\ pc' = pc + 1
  /\ UNCHANGED <<target, gates, dirty, meaning>>

\* Mutant: the flag is never cleared.
TwistFunctionsStillDirty ==
  /\ Pass = "twist"
  /\ funcs' = [f \in DOMAIN funcs |-> IF f \in Pending THEN FakeMem2Reg(funcs[f]) ELSE funcs[f]]
  /\ pc' = IF dirty THEN pc - 3 ELSE pc + 1
  /\ UNCHANGED <<target, gates, dirty, meaning>>
TwistFunctions ==
  /\ Pass = "twist"
  /\ funcs' = [f \in DOMAIN funcs |-> IF f \in Pending THEN FakeMem2Reg(funcs[f]) ELSE funcs[f]]
  /\ pc' = IF dirty THEN pc - 3 ELSE pc + 1
  /\ dirty' = FALSE
  /\ UNCHANGED <<target, gates, meaning>>

\* A gate that has nothing but a matrix gets a decomposition.
DefineDecompositions ==
  LET known == {g \in DOMAIN gates : gates[g].mat # <<>> /\ gates[g].qir = "" /\ gates[g].body = ""}
      body(g) == g \o "__qsd__decomposition"
      named   == {body(g) : g \in known}
      of(b)   == CHOOSE g \in known : body(g) = b
  IN  /\ Pass = "qsd"
      /\ gates' = [g \in DOMAIN gates |->
                     IF g \in known THEN [gates[g] EXCEPT !.body = body(g)] ELSE gates[g]]
      /\ funcs' = funcs @@ [b \in named |-> DecomposeKnownGateDef(of(b), gates[of(b)])]
      /\ pc' = pc + 1
      /\ UNCHANGED <<target, dirty, meaning>>

Compiled == Finished /\ UNCHANGED vars

Next ==
  \/ RewriteOps
  \/ RewritePair
  \/ Cse
  \/ DecomposeOracle
  \/ EmitFamousGates
  \/ PureGates
  \/ FoldOp
  \/ FoldDone
  \/ InvertFunctions
  \/ ControlFunctions
  \/ TwistFunctions
  \/ DefineDecompositions
  \/ Compiled

\* The compiler goes on until it is through: weak fairness of Next, written
\* without ENABLED: a step that changes something is possible until then,
\* or the compiler is stuck, which is a deadlock.
Fairness == []<>Finished \/ []<><<TRUE>>_vars

Spec == Init /\ [][Next]_vars /\ Fairness

---------------------------------------------------------------------------
\* Every pass keeps what every function of the source does to the state of
\* its qubits, but for a phase of the whole state.
SameUnitary ==
  [][(pc' # pc /\ Pending' = {}) =>
       \A f \in DOMAIN meaning : \A now \in {Meaning(funcs', gates', f)} :
         Proportional(now, meaning[f])]_vars

\* What the code generator of the target has an instruction or a function for.
Native(op) ==
  CASE op.k = "apply" ->
         /\ op.dec = <<>> /\ isFamousGate(op.g)
         /\ op.g \notin {"toffoli"} \cup
              (IF target = "qcis" THEN {"cnot", "swap", "u3"} ELSE {})
    [] op.k = "gphase" -> FALSE
    [] OTHER -> op.k \in {"call", "memory", "matrix"}

\* At the end every gate a function applies is one the target has: nothing
\* is left controlled, inverted, switched or only defined by a matrix.
EveryGateIsLowered ==
  Finished => \A f \in DOMAIN funcs : \A i \in 1..Len(funcs[f].ops) : Native(funcs[f].ops[i])

\* The rewriting ends.
EveryProgramIsCompiled == <>Finished
=============================================================================
