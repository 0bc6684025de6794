------------------------------ MODULE DqcRanks ------------------------------
(***************************************************************************)
(* Rank threads that run the quantum procedures of the distributed library *)
(* over the mailbox, the posted qubits and one register.  Every runtime    *)
(* call is an action, so the calls of different ranks interleave freely    *)
(* and every measurement has all its outcomes.                             *)
(*                                                                         *)
(* A script says which procedures the ranks call.  The qubit psi of a rank *)
(* that holds data starts as half of a Bell pair whose other half, ref,    *)
(* nobody touches: what is done to the pair is what is done to every state *)
(* psi may have, and to everything it may be entangled with.               *)
(***************************************************************************)
EXTENDS DqcLib, Mailbox, Superposition

CONSTANTS
  Script,         \* the scripts
  Undef           \* what an unassigned local holds

ASSUME DqcAssumption == Val = 0 .. 1

VARIABLES
  script,   \* the script of this run
  code,     \* rank -> the calls it makes in this run
  pc,       \* rank -> index of its next call
  local,    \* rank -> its Boolean locals
  posts,    \* posted qubits, by (low rank, high rank, tag)
  psi       \* the register

vars == <<mailbox, script, code, pc, local, posts, psi>>

----------------------------------------------------------------------------
\* Scripts.
Psi(r) == <<"psi", r>>
Ref(r) == <<"ref", r>>

\* n ranks make a cat state.
Cat(n) == [call |-> "cat", n |-> n]
\* Broadcast a qubit, or broadcast and take it back.
Bcast(root) == [call |-> "bcast", root |-> root]
BcastUnbcast(root) == [call |-> "unbcast", root |-> root]
\* A sequence of remote CNOTs, pairs of a control's and a target's rank.
Cnots(seq) == [call |-> "cnots", seq |-> seq]
Teleported(from, to) == [call |-> "teleport", from |-> from, to |-> to]

RECURSIVE CnotCode(_, _)
CnotCode(me, seq) ==
  IF seq = <<>> THEN <<>>
  ELSE    Only(Head(seq)[1] = me, RemoteCxSrc(me, Psi(me), Head(seq)[2]))
       \o Only(Head(seq)[2] = me, RemoteCxTgt(me, Psi(me), Head(seq)[1]))
       \o CnotCode(me, Tail(seq))

Program(s, me) ==
  CASE s.call = "cat" -> Only(me < s.n, PoorManCatState(me, s.n, Psi(me)))
    [] s.call = "bcast" -> QmpiBcast(me, NP, Psi(me), s.root)
    [] s.call = "unbcast" ->
         QmpiBcast(me, NP, Psi(me), s.root) \o QmpiUnbcast(me, NP, Psi(me), s.root)
    [] s.call = "cnots" -> CnotCode(me, s.seq)
    [] s.call = "teleport" -> Teleport(me, Psi(me), s.from, s.to)

\* The ranks whose psi holds data.
Holders(s) ==
  CASE s.call = "cat" -> {}
    [] s.call \in {"bcast", "unbcast"} -> {s.root}
    [] s.call = "cnots" -> {s.seq[i][j] : i \in DOMAIN s.seq, j \in 1 .. 2}
    [] s.call = "teleport" -> {s.from}

\* Data in the qubits Place(r), entangled with the references.
Copies(S, Place(_)) ==
  {<<{Ref(r) : r \in T} \cup UNION {Place(r) : r \in T}, 1>> : T \in SUBSET S}

Initially(s) == Copies(Holders(s), LAMBDA r : {Psi(r)})

RECURSIVE AfterCnots(_, _)
AfterCnots(s, seq) ==
  IF seq = <<>> THEN s
  ELSE AfterCnots(Flip(s, {Psi(Head(seq)[1])}, Psi(Head(seq)[2])), Tail(seq))

\* What the comments of the library promise of the qubits in use afterwards.
Promised ==
  [s \in Script |->
     CASE s.call = "cat" -> {<<{}, 1>>, <<{Psi(r) : r \in 0 .. s.n - 1}, 1>>}
       [] s.call = "bcast" -> Copies({s.root}, LAMBDA r : {Psi(q) : q \in Rank})
       [] s.call = "unbcast" -> Initially(s)
       [] s.call = "cnots" -> AfterCnots(Initially(s), s.seq)
       [] s.call = "teleport" -> Copies({s.from}, LAMBDA r : {Psi(s.to)})]

----------------------------------------------------------------------------
Init ==
  /\ MailboxInit
  /\ script \in Script
  /\ code = [r \in Rank |-> Program(script, r)]
  /\ pc = [r \in Rank |-> 1]
  /\ local = [r \in Rank |->
       [b \in {"true", "false", "undef", "res", "got", "parity_with_prev",
               "acc", "new_acc", "m", "odd"} |->
          CASE b = "true" -> 1 [] b = "false" -> 0 [] OTHER -> Undef]]
  /\ posts = {}
  /\ psi = Initially(script)

Running(r) == pc[r] <= Len(code[r])
Call(r) == code[r][pc[r]]
Calls(r, op) == Running(r) /\ Call(r).op = op
Return(r) == pc' = [pc EXCEPT ![r] = @ + 1] /\ UNCHANGED <<script, code>>

\* The values a local may be read as: any, if it has not been assigned.
Read(r, b) == IF local[r][b] = Undef THEN Val ELSE {local[r][b]}
Set(r, b, v) == local' = [local EXCEPT ![r][b] = v]

Applied(g, qs) ==
  CASE g = "H" -> Hadamard(psi, qs[1])
    [] g = "X" -> Flip(psi, {}, qs[1])
    [] g = "Z" -> Negate(psi, {qs[1]})
    [] g = "CNOT" -> Flip(psi, {qs[1]}, qs[2])

Quantum(r) ==
  /\ Calls(r, "gate")
  /\ \E b \in Read(r, Call(r).bit) :
       psi' = IF b = 1 THEN Applied(Call(r).gate, Call(r).qubits) ELSE psi
  /\ Return(r)
  /\ UNCHANGED <<mailbox, local, posts>>

Measure(r) ==
  /\ Calls(r, "measure")
  /\ \E b \in 0 .. 1 :
       /\ Given(psi, Call(r).qubit, b) # {}
       /\ psi' = Given(psi, Call(r).qubit, b)
       /\ Set(r, Call(r).bit, b)
  /\ Return(r)
  /\ UNCHANGED <<mailbox, posts>>

\* Freeing measures what is left in the qubit and clears it.
Free(r) ==
  /\ Calls(r, "free")
  /\ \E b \in 0 .. 1 :
       LET Left == Given(psi, Call(r).qubit, b) IN
       Left # {} /\ psi' = Cleared(Left, {Call(r).qubit})
  /\ local' = [local EXCEPT ![r] = [b \in DOMAIN @ |-> IF b \in Call(r).bits THEN Undef ELSE @[b]]]
  /\ Return(r)
  /\ UNCHANGED <<mailbox, posts>>

Assigned(r) ==
  /\ Calls(r, "assign")
  /\ Set(r, Call(r).bit, local[r][Call(r).from])
  /\ Return(r)
  /\ UNCHANGED <<mailbox, posts, psi>>

Send(r) ==
  /\ Calls(r, "csend")
  /\ \E b \in Read(r, Call(r).bit) : Csend(r, Call(r).peer, Call(r).tag, b)
  /\ Return(r)
  /\ UNCHANGED <<local, posts, psi>>

Receive(r) ==
  /\ Calls(r, "crecv")
  /\ \E b \in Val : Crecv(Call(r).peer, r, Call(r).tag, b) /\ Set(r, Call(r).bit, b)
  /\ Return(r)
  /\ UNCHANGED <<posts, psi>>

ReceiveXor(r) ==
  /\ Calls(r, "crecvxor")
  /\ \E b \in Val, c \in Read(r, Call(r).bit) :
       Crecv(Call(r).peer, r, Call(r).tag, b) /\ Set(r, Call(r).bit, (b + c) % 2)
  /\ Return(r)
  /\ UNCHANGED <<posts, psi>>

\* The entry of a post or a poll of r, and the one a taker looks for.
Own(r) == <<r, Call(r).peer, Call(r).tag>>
Others(r) == <<Call(r).peer, r, Call(r).tag>>

Post(r) ==
  /\ Calls(r, "post")
  /\ posts' = {p \in posts : p.key # Own(r)} \cup {[key |-> Own(r), qubit |-> Call(r).qubit]}
  /\ Return(r)
  /\ UNCHANGED <<mailbox, local, psi>>

Posted(r) ==
  /\ Calls(r, "posted")
  /\ \A p \in posts : p.key # Own(r)
  /\ Return(r)
  /\ UNCHANGED <<mailbox, local, posts, psi>>

Take(r) ==
  /\ Calls(r, "take")
  /\ \E p \in posts :
       /\ p.key = Others(r)
       /\ posts' = posts \ {p}
       /\ \E b, c \in 0 .. 1 :
            LET Pairs == Bell(psi, Call(r).qubit, p.qubit, b, c) IN Pairs # {} /\ psi' = Pairs
  /\ Return(r)
  /\ UNCHANGED <<mailbox, local>>

Step(r) ==
  \/ Quantum(r) \/ Measure(r) \/ Free(r) \/ Assigned(r)
  \/ Send(r) \/ Receive(r) \/ ReceiveXor(r)
  \/ Post(r) \/ Posted(r) \/ Take(r)

\* Every rank has returned from its last call, and the threads are joined.
Finished == \A r \in Rank : ~Running(r)

Next == (\E r \in Rank : Step(r)) \/ (Finished /\ UNCHANGED vars)

Spec == Init /\ [][Next]_vars

----------------------------------------------------------------------------
Definite(q) == \A t, u \in psi : Bit(t, q) = Bit(u, q)

\* "The procedures do what their comments say": when all ranks have returned,
\* the qubits in use are in the promised state, up to the sign of the whole,
\* entangled with nothing else, whatever the order and the outcomes were.
AsPromised ==
  Finished =>
    LET Used == UNION {t[1] : t \in Promised[script]}
        Rest == UNION {t[1] : t \in psi} \ Used
        Kept == Cleared(psi, Rest)
    IN  /\ \A q \in Rest : Definite(q)
        /\ Kept \in {Promised[script], Negate(Promised[script], {})}

\* A qubit that leaves its scope has been measured, or disentangled: freeing it
\* collapses nothing another rank or a later call relies on.
FreedQubitsAreMeasured ==
  \A r \in Rank : Calls(r, "free") => Definite(Call(r).qubit)

\* The two qubits an EPR gate is about to join measure to the same bit, so the
\* simulator's gate leaves no amplitude behind.
PairsAgree ==
  \A r \in Rank, p \in posts :
    Calls(r, "take") /\ p.key = Others(r) =>
      \A t \in psi : Bit(t, p.qubit) = Bit(t, Call(r).qubit)

\* A finished collective leaves no message and no posted qubit to the next.
NothingLeftOver == Finished => posts = {} /\ \A c \in Chan : mailbox[c] = None

\* As long as a rank is inside its procedures, some rank can go on: sends,
\* receives and EPR calls of all ranks match, in an order in which nobody waits
\* for somebody who waits.  Each step brings its rank nearer to its end, so every
\* rank returns from every call.
NobodyIsStuck == Finished \/ \E r \in Rank : ENABLED Step(r)
=============================================================================
