---------------------------- MODULE EqasmMachine ----------------------------
(***************************************************************************)
(* The machine the code of EqasmGen is for, one action per instruction.    *)
(* There is no such machine in the repository: an instruction does what    *)
(* the generator relies on.  LD and ST go through a register that holds an *)
(* address, CMP sets what BR asks, MEASE leaves the outcome in the         *)
(* register that named the qubit.                                          *)
(***************************************************************************)
EXTENDS EqasmGen, FiniteSets

CONSTANTS Programs,    \* the programs that are compiled and run, a function
          FuncOrder    \* the names of their functions, in the order of a std::map

VARIABLES prog,    \* the program
          asm,     \* the assembly generated from it
          pc,      \* the next instruction
          reg,     \* the registers R1, R2, RC, RQ and RN
          mem,     \* the words written so far
          flags,   \* the operands of the last CMP
          log,     \* the gates and measurements done
          outs,    \* the outcomes of the measurements done
          calls    \* the calls not yet returned from: the way back and the two stacks

vars == <<prog, asm, pc, reg, mem, flags, log, outs, calls>>

Init ==
    /\ prog \in DOMAIN Programs
    /\ asm = GenerateEqasm(Programs[prog], FuncOrder).code
    /\ pc = 1
    /\ reg = [r \in {"R1", "R2", "RC", "RQ", "RN"} |-> 0]
    /\ mem = <<>>
    /\ flags = <<0, 0>>
    /\ log = <<>>
    /\ outs = <<>>
    /\ calls = <<>>

Halted == pc > Len(asm)
Instruction == asm[pc]
Is(f) == ~Halted /\ Instruction[1] = f

PlaceOf(label) == CHOOSE i \in DOMAIN asm : asm[i] = Label(label)

Set(r, x) == /\ reg' = [reg EXCEPT ![r] = x]
             /\ pc' = pc + 1

ExecLdi ==
    /\ Is("LDI")
    /\ Set(Instruction[2], Instruction[3])
    /\ UNCHANGED <<prog, asm, mem, flags, log, outs, calls>>

ExecLd ==
    /\ Is("LD")
    /\ LET a == reg[Instruction[3]]
       IN Set(Instruction[2], IF a \in DOMAIN mem THEN mem[a] ELSE 0)
    /\ UNCHANGED <<prog, asm, mem, flags, log, outs, calls>>

ExecSt ==
    /\ Is("ST")
    /\ mem' = (reg[Instruction[3]] :> reg[Instruction[2]]) @@ mem
    /\ pc' = pc + 1
    /\ UNCHANGED <<prog, asm, reg, flags, log, outs, calls>>

\* AND of the Booleans -1 (a constant), 0 and 1.
Compute(f, a, b) ==
    CASE f = "ADD" -> a + b
      [] f = "SUB" -> a - b
      [] f = "MUL" -> a * b
      [] f = "AND" -> IF a = 0 \/ b = 0 THEN 0 ELSE IF a = -1 THEN b ELSE a

ExecArith ==
    /\ \E f \in {"ADD", "SUB", "MUL", "AND"} :
          /\ Is(f)
          /\ Set(Instruction[2], Compute(f, reg[Instruction[3]], reg[Instruction[4]]))
    /\ UNCHANGED <<prog, asm, mem, flags, log, outs, calls>>

ExecCmp ==
    /\ Is("CMP")
    /\ flags' = <<reg[Instruction[2]], reg[Instruction[3]]>>
    /\ pc' = pc + 1
    /\ UNCHANGED <<prog, asm, reg, mem, log, outs, calls>>

Taken(cond) ==
    LET a == flags[1]  b == flags[2]
    IN CASE cond = "ALWAYS" -> TRUE
         [] cond = "EQ" -> a = b
         [] cond = "NEQ" -> a # b
         [] cond = "LT" -> a < b
         [] cond = "LEQ" -> a <= b
         [] cond = "GT" -> a > b
         [] cond = "GEQ" -> a >= b

\* calls follows the jumps to a function and back.
ExecBr ==
    /\ Is("BR")
    /\ LET to == Instruction[3]
       IN IF Taken(Instruction[2])
          THEN /\ pc' = PlaceOf(to)
               /\ calls' = CASE to[1] = "func" -> Append(calls, <<pc + 1, reg["RC"], reg["RQ"]>>)
                             [] to[1] = "back" /\ calls # <<>> -> SubSeq(calls, 1, Len(calls) - 1)
                             [] OTHER -> calls
          ELSE pc' = pc + 1 /\ UNCHANGED calls
    /\ UNCHANGED <<prog, asm, reg, mem, flags, log, outs>>

ExecLabel ==
    /\ Is("LABEL")
    /\ pc' = pc + 1
    /\ UNCHANGED <<prog, asm, reg, mem, flags, log, outs, calls>>

ExecGate ==
    /\ Is("GATE")
    /\ log' = Append(log, <<<<Instruction[2]>>,
                            [i \in DOMAIN Instruction[3] |-> reg[Instruction[3][i]]]>>)
    /\ pc' = pc + 1
    /\ UNCHANGED <<prog, asm, reg, mem, flags, outs, calls>>

ExecMease ==
    /\ Is("MEASE")
    /\ \E b \in {0, 1} : /\ Set(Instruction[2], b)
                         /\ outs' = Append(outs, b)
    /\ log' = Append(log, <<<<"M">>, <<reg[Instruction[2]]>>>>)
    /\ UNCHANGED <<prog, asm, mem, flags, calls>>

Next ==
    \/ ExecLdi \/ ExecLd \/ ExecSt \/ ExecArith \/ ExecCmp
    \/ ExecBr \/ ExecLabel \/ ExecGate \/ ExecMease
    \/ Halted /\ UNCHANGED vars

Spec == Init /\ [][Next]_vars /\ WF_vars(Next)

----------------------------------------------------------------------------

\* The compiled program applies the same gates to the same qubits and measures the same qubits, in
\* the same order, as the operations it was generated from, whatever the outcomes.
SameGatesAsTheKernel ==
    Halted => log = RunProgram(Programs[prog], outs).log

\* Every word of a frame that is read has been written: the slots of a frame, the arguments of a
\* call and the number of the call are where their reader looks for them (get_load, get_store and
\* visitOp(CallOp) of GenEQASM.cpp).
ReadsAreWritten ==
    Is("LD") /\ reg[Instruction[3]] >= Sizes(Programs[prog].globals, FALSE)
        => reg[Instruction[3]] \in DOMAIN mem

\* A function goes back to the call that is the last not returned from, with both stacks where the
\* call left them but for the word that held its number.
ReturnsToItsCall ==
    [][(Is("BR") /\ Instruction[3][1] = "back" /\ Taken(Instruction[2])) =>
            /\ calls # <<>>
            /\ <<pc', reg["RC"] + 1, reg["RQ"]>> = calls[Len(calls)]]_vars

\* Every program ends.
EveryRunHalts == <>Halted
=============================================================================
