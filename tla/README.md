# isQ-Compiler: TLA+ models, checks and proofs

isQ compiles a quantum language to MLIR and from there to QIR and native code, or to
the assembly of a quantum device; a simulator runs the native code.  This directory
holds TLA+ modules for the parts of that system that are hard to get right and hard
to test; TLC configurations for them; and TLAPS proofs.

    tlc -config Qmpi.cfg Qmpi            # a run
    tlapm QmpiProofs.tla                 # proofs (section 4)

## 1. The system

    .isq source --> frontend (Haskell) --> MLIR
    MLIR --> gate passes (C++) --> QIR --> .so            isqc --target qir
                               --> EQASM, QCIS, OpenQASM 3
             isqc drives these as subprocesses over pipes and files
    .so --> simulator (Rust):
            main: for each shot, one context and NP rank threads
            context = mutex around { device, resources, mailbox, EPR posts }
            every QIR or QMPI call of the program = one lock of the context
            (blocking calls: a loop of lock, look, unlock, sleep 10 ms)

| Component | State | Operations | Talks to |
|---|---|---|---|
| Gate passes, `mlir/lib/passes`, `MultiControlDecompose.cpp` | functions and gate definitions of a module; the marks and the `dirty` flag of the folding | rewriting rules, each tried until none matches, pass after pass | the definitions other passes have added |
| Truth-table oracles, `OracleDecompose.cpp`, `oracle/` | layers of cubes | merge, optimise, emit | gate passes |
| Oracle functions, `Logic2ISQ.cpp`, `LHRSOracle.hpp`, `GreedyPebbling.hpp` | an XAG; which nodes are computed; free ancillas | pebble recursively, compute, uncompute, wire up | gate passes |
| EQASM back end, `GenEQASM.cpp` | symbol table, frame sizes, label and call counters | one visitor per operation | what the passes leave |
| QCIS back end, `GenQCIS.cpp` | values of all variables, measured qubits | runs the program while printing | the same |
| OpenQASM 3 back end, `GenOpenQASM3.cpp` | a text per value, one output stream | one visitor per operation | the same |
| RAII lowering, `RAIICheck.hs` | regions and their flags | for-loop conversion, flags and jumps | MLIR generation |
| QMPI runtime, `shim/isq/impls.rs` 267-357, `context.rs` | mailbox `(from, to, tag) -> bit`; posts `(low, high, tag) -> qubit`; each thread's place in a call | `csend`, `crecv`, `create_epr` | rank threads through the mutex; the device |
| Distributed library, `examples/dqc/lib.isq` | locals of each rank | barrier, broadcasts, remote gates, cat state, teleport | QMPI and the device |
| Device stack, `checked.rs`, `sq2u3.rs`, `naive.rs` | three levels of names for a qubit; the state vector | allocate, free, gate, measure, EPR | each the next |
| QIR runtime, `resource.rs`, `array.rs`, `tuple.rs`, `shim/qir_builtin` | ids, reference and alias counts | create, copy on write, slice, count, leak check | compiled program |
| `isqc`, simulator `main`, other devices, frontends | files, tables, ASTs | see `PROJECT.json` | all of the above |

**What is hard.**  *Rewriting*: a rule is local, its effect is not; passes meet what
earlier passes have made, a gate under controls becomes a new gate whose copies are
decorated again, and an error is a wrong unitary, not a failure.  *Uncomputing*: the
pebbling recurses in both directions over shared nodes and gives qubits back for use
by others.  *Compile-time state*: the generators keep tables, frame sizes and counters
while they walk, which must agree with what the generated code does when it runs.
*Concurrency*: rank threads interleave at every runtime call, over single-bit slots
that are polled, with tags that successive operations reuse.  *Rendezvous*: one side of
`create_epr` publishes its qubit, unlocks, and infers from an absent entry that the
other has used it.  *Renumbering*: the state vector reorders its bits on every
measurement.  *Failure*: a panic in any thread aborts the process; nothing is
persisted and nothing times out, so there is no recovery to model.

**What makes each part correct.**  Passes: no step changes what a function does to its
qubits, the rewriting ends, and only gates of the target are left.  Oracles: the gates
compute the function, ancillas come back clean.  Back ends: what is accepted applies the
same gates and measures the same qubits as the program, whatever the outcomes.
Lowering: the lowered program does what the source does.  QMPI: bits arrive once and in
order; a posted qubit's owner waits; matched calls return.  Collectives: each delivers
what it promises under tag reuse and leaves nothing behind.  Device: seen through names
it is an ideal register.

## 2. Modules

| Module | Models | Kind |
|---|---|---|
| `GateAlgebra` | exact amplitudes: a finite field with the roots of unity and 1/sqrt(2) | operators |
| `MultiControl` | `MultiControlDecompose.cpp` | operators |
| `GateIR` | gates, applications, and what they do to amplitudes | operators |
| `GateRules` | the rules of the gate passes | operators |
| `GatePipeline`, `MCGates` | the passes in the driver's order, one rewrite a step; programs | state machine |
| `Cubes` | cubes, what near ones become, and the merging of two layers (`QM.cpp`) | operators |
| `OracleCover` | one oracle row, layer by layer, with any cover and any pairs | state machine |
| `Esop`, `MCOracleCover` | the loops of `QM.cpp` and `graph.cpp` that choose the cover and the pairs; tables | state machine; refines `OracleCover` |
| `OracleCoverProofs` | the layers keep the table; `Esop` chooses what they rely on | proofs |
| `Xag` | oracle functions, the network built of them and what they return | operators |
| `GreedyPebbling` | the recursive pebbling, its calls on a stack, its loops round by round | state machine |
| `OracleCircuit`, `OracleCircuitProofs` | the circuit, gate by gate, from any pebbling (`LHRSOracle.hpp`) | state machine; proofs |
| `LogicOracle`, `MCLogicOracle`, `LogicOracleProofs` | the pebbling and then the circuit; functions | composition of the two above; refines `CircuitSpec`; proofs |
| `IsqIR` | the operations that reach the back ends and what they mean; the passes on whole programs in front of the back ends | reference semantics, operators |
| `EqasmGen` | `GenEQASM.cpp` | operators |
| `EqasmMachine`, `MCEqasm` | the machine the assembly runs on; programs | state machine |
| `QcisGen` | `GenQCIS.cpp` | operators |
| `Qasm3Gen` | `GenOpenQASM3.cpp`; what its output means | operators |
| `MCCodegen` | programs through three back-end pipelines | state machine |
| `RaiiLowering`, `MCRaiiLowering` | control flow before and after lowering and what running it does; the RAII pass and the call of what it makes; programs | state machine |
| `Mailbox` | the mailbox map and the critical sections of `csend` and `crecv` | base of the next ones |
| `Qmpi`, `QmpiProofs` | rank threads that call the three primitives in any order | state machine, proofs |
| `Barrier` | what a reusable barrier promises | abstract specification |
| `QmpiBarrier`, `QmpiBarrierProofs` | `qmpi_barrier` on `Mailbox` | state machine; refines `Barrier`; proofs |
| `QmpiBcast`, `MCQmpiBcast`, `QmpiBcastProofs` | `qmpi_bcastc` on `Mailbox` | state machine; proofs |
| `Superposition` | superpositions of named qubits, gates and measurements on them | operators |
| `DqcLib` | the quantum procedures of `lib.isq`, and `teleport`, as sequences of calls | operators |
| `DqcRanks`, `MCDqcRanks` | rank threads that run them over `Mailbox`, the posts and a register | state machine |
| `QuantumRegister` | what a device promises | abstract specification |
| `NaiveDevice` | the state-vector simulator on device values | operators |
| `DeviceStack`, `DeviceStackProofs` | `CheckedDevice` over `SQ2U3Device` over `NaiveDevice` | state machine; proofs |
| `DeviceRegister` | the register that the names, the numbers and the vector make up | refinement of `QuantumRegister` |
| `SetInduction` | induction over the naturals for sets | lemmas |

### How code becomes actions: compiler

*`GateIR`, `GateRules`, `GatePipeline`.*  A function is a sequence of operations on
numbered wires: an application of a gate with parameters and decorations, a switch, a
call, or `Memory`, the stores and loads between two statements of the source, which keep
rules on neighbouring gates from seeing across until `mem2reg` removes them.  A rule is
an operator from an operation to the set of its replacements.  A pass of independent
rules rewrites all matching operations in a step; the folding and the rules on two
applications take one site at a time, since what they do depends on what has been done
(for the pairs, the first or the last site; for the folding, the last, the order of the
greedy driver).  `fresh` says whether the gate value of an application is its own, which
common subexpression elimination changes and the cancellation rules look at.  `mark` and
`pending` are the attributes the folding leaves for its other parts.  Angles are
integers, 512 to a full turn.  `Meaning` is what a function makes of a fixed generic
vector of amplitudes; two circuits that differ on it differ, and the amplitudes are
exact, so that no tolerance hides a wrong angle.  A phase of the whole state is ignored, as
the passes drop it.  The Shannon decomposition of a matrix is one opaque gate.
The cubes of an oracle (`Optimized`) are any that `OracleCover` allows at its end: what
`EsopIsTheTable` proves of `QM.cpp` is all the gate passes rely on.

*`Cubes`, `OracleCover`, `Esop`.*  Cubes are sequences over 0, 1 and `Dash`.  For each layer
`Choose` is `optimizeLayer` and `Apply` is what the loop of `optimize` does with the
result; `picks` maps each pair of cubes to what it becomes.  `ToggledAll` says what the
insertions and erasures of the loop come to, whatever their order.  `OracleCover` leaves
open which cover and which pairs: `AnyNext` takes any legal ones (`IsCover`, `IsMerge`).
`Esop` chooses them as the code does, an iteration of a loop at a time: `Minterms`,
`MergeGroups` and `KeepLargest` are the loops of `simplify` and `merge`, `PickPoint` is the
loop of `getDisjointPoint`, which both `merge` and `optimizeLayer` (`Candidates`,
`OptimizeLayer`) call; where the code picks at random any of the equals may be picked.

*`Xag`, `GreedyPebbling`, `OracleCircuit`, `LogicOracle`.*  `Translation` follows the statements of a
logic function (`Built` for one, `BitByBit` for the bits of a binary one); the network is
mockturtle's, with its normalisation and hashing (external).  `Returned` is what the function
means, by its statements, and `IsFunction` which functions get here: those in which each
lookup in the symbol table finds something and no statement stores into an argument.
`greedy_pebble` and `divide_and_conquer` call each other; the calls still to be made are a
stack, and each action works on the one on top.  `greedy_pebble` replaces it by a call for each
component (sorted by size only, so equal ones come in any order).  `compute_set_steps`
begins the walk along the view of a set of few nodes: `PassNode`, `VisitNode` and `VisitTarget`
take the next node, and `DropEdge` and `DropNode` are the recursion of `uncompute_eagerly`, whose
pending references are `run.drop`; `SetDone` returns.  `Divide`, `Grow` (one round of the loop)
and `CutInTwo` cut a larger set and replace its call by three.  The searches of `live_node` and
of the components are `Reached`, what is found in rounds; `topo_view` is a constant, the order in which
`_view` is walked: the code declares it as the network, so the run has the order of the node numbers,
and the proofs any in which what a gate builds on comes in front of it (`IsView`).  Then the circuit is
built: `Prepare`, one `Compute` or `Uncompute` per step of the pebbling,
`PrepareOutputs`.  A gate acts when it is emitted: the content of a qubit is the set of
assignments (to the inputs and to what the caller has in the outputs) for which it is 1.
Qubits are numbered in the order of their allocation, ancillas are taken from the top of
`free`.  `OracleCircuit` builds the circuit of any legal pebbling (`CircuitSpec`, with
`Pebbled` as the guard of `Prepare`); `LogicOracle` feeds it the steps of the code's strategy.

*`IsqIR`, `EqasmGen`, `EqasmMachine`.*  An operation is a record, a program its globals,
functions and derived gates; `RunProgram` gives the log of gates and measurements for
given outcomes and is the reference for all three back ends.  The generator's operators
thread a record of its tables, one operator per visitor.  The machine has one action per
instruction; what an instruction does is external, and taken from how the generator uses
it.  Return labels carry the function's name and a number.

*`QcisGen`, `Qasm3Gen`.*  As for EQASM.  A QCIS program is the log itself, as the
generator executes the classical part.  A text of OpenQASM is a tree, and its semantics (in `Qasm3Gen`) runs
statements over a memory of addresses: numbers are passed by value, qubits by reference.

*`RaiiLowering`.*  Conditions are inputs of the run; `Exec` runs source and emitted code.
`Jump` ends the innermost region, `Guarded` tests its flag before its condition.  A flag is
named by the depth of its region (each region clears its own when it starts).  A procedure
goes through `EliminateFor`, `Lower` (or `Reject`) and `Call` (or `EmitFails`).
`Supported` names the nestings the pass is right for (section 3).

### How code becomes actions: runtime

*A critical section is an action.*  Everything a runtime call does between
`lock()` and `drop(ctx)` is one step: the mutex makes it atomic for the other
ranks.  A poll that finds the slot in the wrong state changes nothing, so it is
a stuttering step and has no action of its own.

*`Qmpi`.*  A call is an entry (arguments fixed, thread inside the shim) and its
successful critical section (`CsendReturn`, `CrecvReturn`, `EprTake`; `EprPost` and then
`EprPosted` for the lower rank).  Which call comes next is the program's business, hence
any.  `Peer` has one number more than there are ranks, since nothing checks a receiver
or a partner; the assertion `rank != peer` sets `aborted`, after which nothing
happens.  `sent`, `rcvd` and `made` are history.

*`QmpiBarrier`, `QmpiBcast`.*  One action per iteration or blocking call of the
procedure; `pc` says which loop a rank is in.  Ranks call the operation several times in a
row with no synchronisation in between.  A range `1:size` does not include `size`.

*`DqcLib`, `DqcRanks`.*  Which calls a rank makes depends on its number and the
number of ranks only, so each procedure is an operator that returns the sequence
of calls in the code's order; a branch on a measured or received bit is a gate under that
bit.  `DqcRanks` runs the sequences: one action per kind of runtime call.  The
device is the ideal register that `DeviceStack` implements.  A qubit with data starts as
half of a Bell pair whose other half nobody touches; what holds for that holds for
every state of the qubit.  A local that is declared but not assigned reads as either bit.

*`NaiveDevice`, `DeviceStack`.*  `state`, `map` and `inv` are `state`, `qubit_map` and
`qubit_map_inv`.  Measuring, resetting and freeing swap the qubit to the top bit
first.  Amplitudes are exact, numbers `a + b sqrt(2)` over a common factor `unit`; with X, Z, H,
Swap, CNOT, CZ, controlled X, EPR, measurement and reset that is enough.  An outcome is
possible if the probability the code computes for it is positive (`ProbZero`, capped at 1 as in
the code).  `Valid` is `validate`, which frees and resets call before and after they change the
vector; an `Outcome` is a bit, a device and whether these assertions held.  `Accepted` is the
wrapper's argument check, `Refuse` what it does otherwise; `panic` records which level a call
ran into.  No step of the code is left out; two histories record the calls that the
simulator gets wrong (section 3): `moved`, that a gate had a controller which had been moved from the
position of its number, and `overlong`, how many calls ago EPR was applied to qubits that measured
differently.  `DqcRanks` checks that the library never does the second (`PairsAgree`).

## 3. Runs

| Run | Instance | What it shows |
|---|---|---|
| `gates` | 12 programs, each for up to 3 targets; 7677 states | `SameUnitary`, `EveryGateIsLowered`, `EveryProgramIsCompiled` |
| `gates_ctrl_rx` | one Rx under one control | **violated**: `SameUnitary` (finding 1) |
| `oracle` | all 272 rows of 2 and 3 inputs, 151 rows of 4; 28 690 states | `CubesAreTheTable` |
| `logic_oracle` | 99 functions of 3 or 4 input bits and up to 16 gates; 15 113 states | `CallsFindTheirPebbles`, `AncillasComeBackClean`, `OutputsAreTheFunction` |
| `eqasm` | 64 programs, all outcomes; 20393 states | `SameGatesAsTheKernel`, `ReadsAreWritten`, `ReturnsToItsCall`, `EveryRunHalts` |
| `codegen` | 169 programs, all outcomes of up to 2 measurements, 3 pipelines; 9464 states | `QcisIsTheCircuit`, `MeasuredQubitsAreDone`, `PassesKeepTheRun`, `SameRunInOpenQASM3` |
| `raii` | 16 368 procedures (three nested statements around a jump), 16 inputs each; 273 960 states | `SameBehaviour` |
| `qmpi` | 2 ranks and a peer that does not exist, 1 tag, 2 bits, 2 calls each; 15 870 states | `FifoDelivery`, `PostedRankWaits`, `OneGatePerCall`, `LowReturnsEntangled`, `MatchedCallsReturn`, `MatchedEprReturns`, `TypeOK` |
| `barrier` | 4 ranks, 3 barriers; 558 states | `IInv`, `NobodyLeavesEarly`, `SendsNeverBlock`, `NothingLeftOver`, `ImplementsBarrier`, `EverybodyLeaves` |
| `bcast` | 5 ranks, 2 broadcasts, every pair of roots with one out of range; 184 270 states | `AllGetTheRootsValue`, `NothingLeftOver`, `EverybodyReturns` |
| `dqc` | 4 ranks; cat states of 1 to 4 ranks, broadcast and unbroadcast from every root, all pairs of remote CNOTs in a row among 3 ranks, teleport; 279 343 states | `AsPromised`, `FreedQubitsAreMeasured`, `PairsAgree`, `NothingLeftOver`, `NobodyIsStuck` |
| `device` | 3 qubits at once, 4 allocations; 43 882 states, a million transitions | `NumberingsAgree`, `PanicsHaveCause`, `ImplementsRegister` |

What the less obvious ones say:
* `SameUnitary` (a step property): every step of every pass keeps what each function of
  the source makes of its qubits, up to a phase.  Functions are compared each time a pass has
  ended, so a counterexample names the pass.
* `CubesAreTheTable`: the parity, that the cubes never become more than the ones of the table,
  that none is behind the last layer the result is taken from, and that what the code
  chooses is legal (`IsMerge`; for the cover, the first two say it at the first layer).
* `CallsFindTheirPebbles`: the two comments on `greedy_pebble`: each call, forwards or in
  reverse, finds what it builds on, and just the right ones of its own nodes computed; the
  loop of a cut always finds a `next` (`NextIsSet`); when the steps are handed over they are a
  pebbling of a well-formed network (`Pebbled`).
* `OutputsAreTheFunction`: on output qubits that are 0 the outputs hold the values of the
  network, for one output added to whatever is there (`OutputsAreTheNetwork`), and these
  values are what the function returns.
* `ReadsAreWritten`, `ReturnsToItsCall`: frames of caller and callee meet, and a `k`-th call
  comes back behind itself with both stack pointers where they were.
* `QcisIsTheCircuit`, `SameRunInOpenQASM3`: what is printed is what the program does, except for
  programs that test the constant `true` or use an outcome (QCIS) and programs with a for-loop
  (OpenQASM 3), which come out wrong (disagreements, below) and are among those compiled.
* `PassesKeepTheRun`: what the check in front of QCIS accepts still does what the program does
  behind the passes, apart from its resets, which a pass drops.
* `AsPromised`: whatever was measured, in whatever order, the qubits end in the state
  the comments promise, and nothing else is entangled with them.
* `PanicsHaveCause`: no argument of a program reaches a failing look-up or a repeated qubit inside
  the simulator, and a qubit is refused only while the program holds as many as there are.
* `ImplementsRegister`: up to the first of the two calls the simulator gets wrong (`moved`,
  `overlong`) each call does to its names what a register does; the assertion on the norm
  of the vector fails only after the second kind.

### Bounds

*Gates.*  `MaxGray` (8 in the code) is the number of controls up to which the Gray code is used; the
`gates` run sets it to 2, so that three controls reach the other algorithm; the longest
gate has 6 qubits, where borrowed qubits, the halves of the increment and the recursion
are all used.  Programs use all but three of the rules (not used: Rz in
`ConvertFamousParamSQIntoU3`, `nctrl` in a switch, a multi-controlled Rz with an ancilla) and
every kind of gate: famous, rotation, with a
matrix on one and two qubits, with a QIR function, derived (nested, inverted, under two
kinds of control), switch, oracle with one and two outputs and with three inputs.  A program lists the targets
it is for; others refuse one of its gates.
*Oracles.*  Rows of 3 inputs never make cubes of different layers meet; the rows of 4 were
chosen so that they do.  The greedy choice among more than ten pairs of one score is not reached.
*Functions.*  The recursion stops at 5 nodes more than targets: chains of 14 and 15 gates and ladders
of 12 to 14 are cut up to three times, with separators of one and two nodes, in both
directions; outputs inside cones, twice, complemented, inputs and constants.
*Back ends.*  All ordered pairs of 8 (EQASM) or 13 fragments; loops of two
iterations, calls two deep, a recursion, feedback from measurements.  `Fuel` bounds the
rounds of a while-loop in the reference; the programs need fewer.
*Lowering.*  All nestings of three blocks, branches, while-loops and for-loops around one jump,
with and without a statement behind each level, directly or in a block: a region between a
jump and its loop and a loop around that loop is all the flag rules look at.
*QMPI.*  A key names two ranks, and an action touches one key; two calls each let a rank come
back to a key, block on a slot it filled itself, or cross its partner.  The proofs remove
the bounds for safety.  Four ranks and three barriers give the middle of the loops.  Five ranks
make the last round of the broadcast incomplete; two calls let one rank run ahead under
another root (roots are natural numbers; a negative one, which the check of `lib.isq:11` lets
through, is no input).  Four ranks give the cat state a rank with two neighbours on each
parity, and the scan a second round.  `MCDqcRanks` lets steps that concern one rank alone go
first (the module says why nothing is lost).
*Device.*  Three qubits let a swap move a bystander; the fourth allocation reuses a
position under a new name.  `MaxOverlong` is 1: one call after the EPR that makes the vector too
long is enough for the assertion to fail, and calls after it could make it ever longer.  The
view omits `last`, which no action reads, and identifies a vector with its negative, as no
outcome and no assertion tells them apart.

**Deadlock** is checked wherever a system has to come to an end: barrier, broadcasts, `dqc` (every
step brings a rank nearer its end, so `NobodyIsStuck` is termination), lowering, gate
pipeline, oracles and the EQASM machine have an explicit final stutter.  It is off for `qmpi` (a program
may wait for a message nobody sends), `device` (a panic ends the run) and `codegen`
(three compilations, then nothing).

**Fairness.**  A rank thread inside a blocking call polls every 10 ms under a mutex
that is held briefly.  What it waits for, once true, stays true until it acts:
a slot has one sender and one receiver, an EPR key one poster and one taker.
Weak fairness of a thread's progress is therefore all that is assumed, and
programs are under no obligation to call anything.  A compiler and a machine go on as long as they
can: weak fairness of `Next` in `EqasmMachine`, and in `GatePipeline` the same written
without ENABLED (finished, or infinitely many changes; being stuck is a deadlock).

### Findings

1. `DecomposeCtrlSQ.cpp:102-124` and `MultiControlDecompose.cpp:468-477` turn a controlled Rx the
   wrong way: `Rx = Rz(-pi/2) Ry Rz(pi/2)` is a product of operators, and its factors
   are emitted from left to right as gates in time.  The run `gates_ctrl_rx` shows it;
   `gates` uses Rx only with more controls than the Gray code takes (there it goes through
   U3 and is right) or uncontrolled.

### Disagreements met while modelling

Where the model takes the step or compiles the program, the property excepts it by name (device,
Booleans in QCIS, ranges in OpenQASM 3); the other models keep to the other side, by the choice
of programs named.

* Gates: an inverted derived gate whose body has gates with parameters under controls is
  not lowered completely, because the fold loses the mark of the controls
  (`DecorateFolding.cpp:111-116`, `196-250`); a U3 under several controls gets the phase
  `lambda + phi` where half of it is meant (`DecomposeCtrlSQ.cpp:558`); a multi-controlled Rz
  with an ancilla halves its last angle twice (`DecomposeCtrlSQ.cpp:299-313`); `nctrl` in a
  switch case loses its sign (`EliminateNegCtrl` looks at the outermost decoration); a branch in
  a gate body loses its operations (`Mem2Reg.cpp:17-20`).  `MCGates` has no such program.
* Oracle functions: an output that is used inside another output is computed on the
  caller's qubit and then copied from it (`LHRSOracle.hpp:224-251`); if the qubit was not 0 the
  result is not `y xor f(x)` (`docs/docs/grammar.md:502`).  `OutputsAreTheFunction` says
  what does hold.  An argument is looked up in the symbol table for its qubit
  (`Logic2ISQ.cpp:249-260`), which a store into it has changed; `IsFunction` has no such store.
* EQASM: `while`, regions and decorations are dropped without an error; a Boolean constant is -1, so that a test
  for 1 fails; an argument that is not used has no slot at the callee but one at the caller
  (`GenEQASM.cpp:421`, `896`).
* QCIS: Boolean true is entered as -1 (`GenQCIS.cpp:397`) and tested for 1 (`:905`), so that
  `if (true)` prints its else branch; the `truth` fragment is that, and `QcisIsTheCircuit` excepts it
  (`TestsTheConstantTrue`).  A measurement result is entered as a known 0 (`GenQCIS.cpp:737`); `isqc` erases resets in
  front of the check that refuses them (`RemoveReset.cpp:53`, `docs/docs/usage.md:66`).
* OpenQASM 3: the result of a call is the text of the call, evaluated at each use
  (`GenOpenQASM3.cpp:829-866`); the condition of a while-loop is computed once (445-458).  A for-loop is printed with
  isQ's exclusive bound as the end of a range (`:1176-1181`), which OpenQASM 3 includes: it runs one round
  more; with a step the parts come in the order `lo:hi:step`, where OpenQASM 3 has `lo:step:hi`
  (as `:1189` prints slices).  The `loop` fragment is that, and `SameRunInOpenQASM3` excepts it
  (`UsesAForLoop`).
* Lowering: below a while-loop for-loops with a break are not converted and the break acts
  as a continue (`RAIICheck.hs:118`); `continue` in a converted for-loop skips the increment
  (`:174`); behind a while-loop that is left by a return the next statements run (`:225`).
  `Supported` excludes the three.
* Device: controls are used as bit positions without a look-up (`naive.rs:167`, `:191`; `moved`);
  EPR leaves the amplitudes of 01 and 10 (`naive.rs:361-371`; `overlong`), and the next free or reset may
  abort the process, because the vector is too long (`:126-132`).
* `teleport.isq:15-22` sends to rank 1 and awaits from rank 0 whatever its arguments
  say; `main` only uses that pair, and so does `MCDqcRanks`.

## 4. Proofs

Twenty-seven theorems in seven modules, each for every value of the constants its
specification allows.  `PROJECT.json` lists them with the property of a run each states;
`BarrierNeverStuck`, `BroadcastNeverStuck`, `BroadcastAdvances`, `CircuitComputesTheNetwork` and
`OracleComputesItsNetwork` state what a run checks only as a part of another property or as
deadlock; `EsopChoosesWell` and `OracleIsSynthesis` are refinements through which properties of
an abstract specification come down to the code's.

**`QmpiProofs`**, for any number of ranks, tags, payloads, qubits and calls, from
`NPAssumption`, `NoneAssumption`, `MaxCallsAssumption` and `NoQubitAssumption` (the value
that says "no qubit yet" is none: the map of posts holds an `Option`).
* `TypeCorrect`, `DeliveryInOrder` (only an empty slot is filled and only a full one emptied)
  and `PostedOwnerWaits` (nobody but the poster's peer removes the entry, and only the
  poster leaves the call) are inductive with the types.
* `OneGateForEachCall` and `LowLeavesEntangled` need `GInv`: a lower rank that polls has
  either its own qubit posted and no gate for this call, or no post and exactly the gate for
  this call.  The absence of an entry means two things in the code, "not posted" and
  "taken"; the invariant says that a rank that polls never sees the first.

**`QmpiBarrierProofs`**, for any number of ranks and barriers.  `NobodyLeavesEarly` is
not inductive: it says nothing of what is in the slots.  `IInv` adds a balance
for each worker in each direction: barriers entered, less the arrival not yet
sent, equal what rank 0 has received plus what is in the slot (`Arrivals`);
barriers rank 0 has left, plus the release already sent, equal what the worker
has left plus what is in the slot (`Releases`); and that no other slot is used.
`InductiveInvariant` proves it; `BarrierSafe`, `SendsNeverBlocked` and
`NoMessageLeftOver` follow state by state; `Refinement` maps `Enter`, `RootLeaves`
and `WorkerLeaves` to the abstract `Enter` and `Leave` and the rest to stuttering.
`BarrierNeverStuck`: from the balances, whoever waits waits for somebody who can go on.

**`QmpiBcastProofs`**, for any number of ranks and calls and any root of each call, one out
of range included.  A slot may hold a message of a later call than its receiver is in, so
what a slot holds is said through the calls: a message of call `k` is in the slot exactly if
its sender is past that send and its receiver not past the matching receive, and no two calls
can claim one slot, as each pair of ranks meets at most once in each.
* `BroadcastCorrect`: every rank returns the value the root passed to that very call.
* `BroadcastLeavesNothing`: between calls nothing is left in the mailbox.
* `BroadcastNeverStuck`: the rank that is hindmost (least call, then least distance) can
  always take a step.  `BroadcastAdvances`: a step takes its rank to the next call or doubles a
  distance less than `NP`.  The two together bound every run without an appeal to fairness;
  `EverybodyReturns` itself, a property under fairness, stays with TLC.

**`OracleCoverProofs`**, for any number of inputs and any table, from `TablesAssumption`.
`OptimisedCubesAreTheTable`: whatever disjoint near pairs are chosen in a layer, the table
stays.  A pair and what it becomes hold each input equally often modulo 2 (`OnePair`, from
`OneBitParity` and `TwoBitParity`); taking cubes out and toggling cubes are symmetric
differences, under which parities add up (`OddDiffer`); so an induction over the chosen
pairs (`PairByPair`) gives one layer (`MergedKeeps`).  The invariant `LInv` adds that each cube
lies in the layer of its dashes, without which a toggle in one layer could meet a cube of
another.
* `EsopChoosesWell` closes the interface: the loops of `Esop`, with any random picks, implement
  `AnySpec`.  Its invariant `EInv` says, loop by loop: the cubes in the answer are disjoint, not
  empty, and cover just what has left `rest` (`AnsCovers`); a node's values are the inputs its
  cube covers (`NodesCover`, kept by `UnionCovers`); nodes that have been chosen share no value
  with each other nor with what is left in the graph (`ChosenAreDisjoint`).  At the end of
  `simplify` the answer is a cover with no more cubes than ones (`SimplifiedIsCover`: each cube has
  an input of its own), and what `optimizeLayer` chooses is a legal merge (`OptimizeIsMerge`).
* `EsopIsTheTable`: so the code's own choices keep the table, whatever is picked.

**`OracleCircuitProofs`**, for any function, and for any network and any pebbling of it
(`IsNetwork`, `IsPebbling`: `LogicOracleProofs` shows that the code's strategy makes one).
* `FunctionHasNetwork` and `ReturnedIsNetwork`, lemmas for every `IsFunction`: the translation makes a
  network, and it computes what the function returns.  Normalisation and hashing make a
  statement's signal another node than the statement suggests, and a later gate may turn out
  to be an earlier one; but a network only grows (`Grows`), so a set of nodes that is true by
  the gates of the whole network (`Fits`) is true by those of each part of it.  Behind each
  statement the signals of the symbol table then hold just when the values of their keys do
  (`Agrees`; `CreateAndFacts`, `CreateXorFacts` and `CreateFacts` for the gates,
  `StatementsAreKept` for a statement, `RunAgrees` for the body, by `SetNatInduction`).
* `CleanAncillas`: ancillas come back clean.  A node is uncomputed by the gates that computed
  it, but what it builds on may have been uncomputed and computed again on other qubits.
  They undo each other because a held node always has the same value.  That value is not the
  node's function: an output's qubit starts with what the caller has there, and what is built
  on the output inherits it.  `CInv` therefore says there is one valuation of the network, with
  the caller's bits added at the outputs, that the qubits of all held nodes follow
  (`QubitsHaveTheirValues`), and that qubits of different nodes are apart, the inputs are kept and
  free qubits are 0.
* `CircuitComputesTheNetwork` follows: for one output, or for output qubits that are 0, the
  valuation is the one of the network.  (For several outputs that are not 0 it need not be:
  section 3, disagreements.)  The recursive function `NodeValue` enters through the existence
  of a valuation up to each node, by induction.

**`LogicOracleProofs`**, for any functions, from `FunctionsAssumption` (each is an `IsFunction`) and
`ViewsAssumption` (the nodes are walked in an order in which a node comes behind what it builds
on: `IsView`; the order of their numbers is one).
* `CallsFindPebbles`.  What the property says of the call on top is not inductive: whether a later
  call finds its pebbles depends on what all calls in front of it leave.  `PebblingInv` says
  that the calls of the stack are a chain of configurations (`Chain`, `Planned`): it begins
  with the pebbles there are, each call takes its configuration to the next one by its targets,
  each is fit for the one it will meet (`Good`), and the last one is the outputs.  An action that
  moves no pebble replaces the call on top by calls that come to the same (`TopReplaced`).
  - `GreedyChain`: the components share no gate and none builds on another (`Components`, from
    `ReachedFacts`: a search finds the least set that is closed under its edges), and what leads
    to a target has all it builds on (`LiveNodes`).
  - `CutChain`: the half that grows is closed towards `start` and `half.C` is all that is ready
    behind it (`Halved`); so the separator stands between the front and what the back
    needs (`CutFacts`), and the three calls, in either direction, come to the one they replace.
  - While a set of few nodes is computed, each reference count is the number of gates of the
    set that still refer to the node, those whose reference is pending in `run.drop` included,
    and a node is uncomputed just when nobody does (`Counted`, `Released`).  At the end of the
    view every gate of the set is released, as the last one that is not would have
    nothing that refers to it (`AllReleased`); what is left are the targets, or none of them.
  - `Recorded`: the steps so far are the beginning of a pebbling that holds `computed`.
  - `SomeNodeIsNext`: while the half is not large enough the first gate outside of it is a
    candidate, and if it is the only one something behind it waits for it: its score is positive.
* `OracleIsSynthesis`: so `LogicOracle` implements `CircuitSpec`, the pebbling being its `Strategy`;
  `OracleIsClean` and `OracleComputesItsNetwork` are the theorems of `OracleCircuitProofs` for
  the code's own strategy.
* `OracleComputesItsFunction`: with `ReturnedIsNetwork`, from the statements to the qubits: for
  every assignment of the inputs the outputs are what the function returns.

**`DeviceStackProofs`**, for any capacity and any number of allocations.  A device is in step with
itself (`Numbered`: the vector has one bit for each position, the two maps are inverse) before and
after each operation of the simulator, operation by operation, the swap to the top bit
included; the names of the wrapper stand for allocated qubits, one for each (`Named`).
`NumberingsStayInStep` is that; `WrapperGuardsTheDevice` follows: what passes the wrapper's check
finds every key it looks up, and as the names in use are as many as the allocated qubits
(`AsManyNames`, by a bijection), an allocation is refused only while `Capacity` names are in use.

**`SetInduction`.**  The induction theorems of the library take a predicate, which the provers
cannot instantiate.  `LeastNumber` and `SetNatInduction` say the same of a set of naturals;
they come from the library's fact that strict inclusion of finite sets is
well-founded.  `P(n)` for all `n` is then proved as `Nat = {n \in Nat : P(n)}`.

**Only model-checked.**
* Liveness: fairness and ENABLED are outside the prover (`MatchedCallsReturn`,
  `MatchedEprReturns`, `EverybodyLeaves`, `EverybodyReturns`, `EveryRunHalts`, `EveryProgramIsCompiled`).
* What is said through recursive operators, which tlapm has no backend for: the gate passes
  (`GateIR`, `GateRules`), the generators and their semantics (`IsqIR`, `EqasmGen`, `QcisGen`,
  `Qasm3Gen`), the lowering (`RaiiLowering`), and the programs of `DqcRanks`.  What they compute
  for every program is induction over syntax.
* That the pebbling, the loops of `Esop` and the synthesis come to an end: each run of TLC is
  finite and free of deadlock.
* `ImplementsRegister`: the amplitudes and the norm; `Superposition` is recursive, and a proof would
  be arithmetic on the bits of every index of the vector and sums of squares over it.

## 5. Not modelled

`PROJECT.json` lists every component with the reason.  In short: text (parsing,
printing, routing), numerical linear algebra (Shannon decomposition, state preparation),
the conversion to LLVM, the GPU kernel, generated and vendored code are left out for
good; the items below would come next.

## 6. Plan

1. Proofs: that the recursion of the pebbling ends (a measure on the stack), and the programs of
   `DqcRanks` with the calls of a rank as a constant that is only known to be matched.
2. *QIR resources*: ids, reference and alias counts, copy on write, in-place
   slices, leak check; an abstract specification by values.
3. `switch` and the memory of regions in the lowering; the oracle interpreter as a second
   semantics of the statements of `RaiiLowering`; the shots loop; isqc's files.
