------------------------------- MODULE DqcLib -------------------------------
(***************************************************************************)
(* The quantum procedures of the distributed library, and teleport, as the *)
(* sequence of runtime calls and assignments that rank `me` of `size` runs.*)
(* Every loop and every branch there depends on ranks and sizes alone and  *)
(* is unrolled here; a branch on a received or measured bit stays in the   *)
(* sequence, as a gate under that bit.                                     *)
(*                                                                         *)
(* A qubit is <<variable, rank>>.  Declaring one makes no call of note: a  *)
(* fresh qubit is in |0>, as is a name not in use; leaving its scope frees *)
(* it, and the locals of what has returned by then are gone.  `true`,      *)
(* `false` and `undef` (declared, not assigned) are constant locals.       *)
(***************************************************************************)
EXTENDS Sequences, Integers

GateIf(b, g, qs) == <<[op |-> "gate", gate |-> g, qubits |-> qs, bit |-> b]>>
Gate(g, qs) == GateIf("true", g, qs)
Swap(a, b) == Gate("CNOT", <<a, b>>) \o Gate("CNOT", <<b, a>>) \o Gate("CNOT", <<a, b>>)
M(q, b) == <<[op |-> "measure", qubit |-> q, bit |-> b]>>
Leave(q, bs) == <<[op |-> "free", qubit |-> q, bits |-> bs]>>
Assign(b, c) == <<[op |-> "assign", bit |-> b, from |-> c]>>
SendBit(b, p, t) == <<[op |-> "csend", bit |-> b, peer |-> p, tag |-> t]>>
RecvBit(b, p, t) == <<[op |-> "crecv", bit |-> b, peer |-> p, tag |-> t]>>
RecvXor(b, p, t) == <<[op |-> "crecvxor", bit |-> b, peer |-> p, tag |-> t]>>

\* create_epr: the lower rank posts its qubit and polls, the higher takes it.
CreateEpr(me, p, t, q) ==
  LET Part(op) == [op |-> op, qubit |-> q, peer |-> p, tag |-> t]
  IN  IF me < p THEN <<Part("post"), Part("posted")>> ELSE <<Part("take")>>

Only(c, code) == IF c THEN code ELSE <<>>

----------------------------------------------------------------------------
\* A controller that waits for the last bit before it has sent the first.
RemoteCtrl_RecvFirst(me, target, control, comm) ==
     CreateEpr(me, target, 88, comm)
  \o Gate("CNOT", <<control, comm>>)
  \o M(comm, "res")
  \o GateIf("res", "X", <<comm>>)
  \o RecvBit("got", target, 77)
  \o SendBit("res", target, 99)
  \o GateIf("got", "Z", <<control>>)

\* A controller that copies its bit before the pair is there.
RemoteCtrl_CnotFirst(me, target, control, comm) ==
     Gate("CNOT", <<control, comm>>)
  \o CreateEpr(me, target, 88, comm)
  \o M(comm, "res")
  \o GateIf("res", "X", <<comm>>)
  \o SendBit("res", target, 99)
  \o RecvBit("got", target, 77)
  \o GateIf("got", "Z", <<control>>)

RemoteCtrl(me, target, control, comm) ==
     CreateEpr(me, target, 88, comm)
  \o Gate("CNOT", <<control, comm>>)
  \o M(comm, "res")
  \o GateIf("res", "X", <<comm>>)
  \o SendBit("res", target, 99)
  \o RecvBit("got", target, 77)
  \o GateIf("got", "Z", <<control>>)

TargetFanout(me, control, comm) ==
     CreateEpr(me, control, 88, comm)
  \o RecvBit("got", control, 99)
  \o GateIf("got", "X", <<comm>>)

TargetUnfanout(me, control, comm) ==
     Gate("H", <<comm>>)
  \o M(comm, "res")
  \o SendBit("res", control, 77)
  \o GateIf("res", "X", <<comm>>)

Comm(me) == <<"comm", me>>

RemoteCxSrc(me, q, other) == RemoteCtrl(me, other, q, Comm(me)) \o Leave(Comm(me), {"res", "got"})

RemoteCxTgt(me, q, other) ==
     TargetFanout(me, other, Comm(me))
  \o Gate("CNOT", <<Comm(me), q>>)
  \o TargetUnfanout(me, other, Comm(me))
  \o Leave(Comm(me), {"res", "got"})

----------------------------------------------------------------------------
\* A round that forgets what it has summed up so far.
Rounds_Overwrites(me, n, delta) ==
  LET Send == Only(me + delta < n, SendBit("acc", me + delta, 12))
      Recv == Only(me - delta >= 0, RecvBit("new_acc", me - delta, 12))
  IN  Assign("new_acc", "acc")
        \o (IF (me \div delta) % 2 = 0 THEN Send \o Recv ELSE Recv \o Send)
        \o Assign("acc", "new_acc")

\* A round in which nobody listens to rank 0, whose bit is 0 anyway.
Rounds_NotFromZero(me, n, delta) ==
  LET Send == Only(me + delta < n, SendBit("acc", me + delta, 12))
      Recv == Only(me - delta > 0, RecvXor("new_acc", me - delta, 12))
  IN  Assign("new_acc", "acc")
        \o (IF (me \div delta) % 2 = 0 THEN Send \o Recv ELSE Recv \o Send)
        \o Assign("acc", "new_acc")

\* One round of the scan: the bits of the 2 * delta ranks up to this one.
Rounds(me, n, delta) ==
  LET Send == Only(me + delta < n, SendBit("acc", me + delta, 12))
      Recv == Only(me - delta >= 0, RecvXor("new_acc", me - delta, 12))
  IN  Assign("new_acc", "acc")
        \o (IF (me \div delta) % 2 = 0 THEN Send \o Recv ELSE Recv \o Send)
        \o Assign("acc", "new_acc")

RECURSIVE Scan(_, _, _)
Scan(me, n, delta) ==
  Only(delta < n, Rounds(me, n, delta) \o Scan(me, n, delta * 2))

Middle(me) == <<"middle", me>>

\* A middle qubit that goes out of scope unmeasured.
WithPrevious_Unmeasured(me, q) ==
  Only(me > 0,    Gate("CNOT", <<q, Middle(me)>>)
               \o RemoteCxTgt(me, Middle(me), me - 1)
               \o Leave(Middle(me), {}))

\* The parity of the qubits of this rank and the one before.
WithPrevious(me, q) ==
  Only(me > 0,    Gate("CNOT", <<q, Middle(me)>>)
               \o RemoteCxTgt(me, Middle(me), me - 1)
               \o M(Middle(me), "parity_with_prev")
               \o Leave(Middle(me), {}))

WithNext(me, n, q) == Only(me + 1 < n, RemoteCxSrc(me, q, me + 1))

PoorManCatState(me, n, q) ==
     Gate("H", <<q>>)
  \o Assign("parity_with_prev", "false")
  \o (IF me % 2 = 0 THEN WithNext(me, n, q) \o WithPrevious(me, q)
                    ELSE WithPrevious(me, q) \o WithNext(me, n, q))
  \o Assign("acc", "parity_with_prev")
  \o Scan(me, n, 1)
  \o GateIf("acc", "X", <<q>>)

----------------------------------------------------------------------------
RECURSIVE BcastRounds(_, _, _, _)
BcastRounds(me, size, root, known) ==
  LET rank == (me - root + size) % size
      Sends == rank < known /\ rank + known < size
      Receives == known <= rank /\ rank < known * 2
  IN  Only(known < size,
              Only(Sends, SendBit("res", (rank + root + known) % size, 42))
           \o Only(Receives, RecvBit("res", (rank + root - known + size) % size, 42))
           \o BcastRounds(me, size, root, known * 2))

\* qmpi_bcastc with a root that is a rank; its result is assigned to b.
QmpiBcastc(me, size, b, root) ==
  Assign("res", b) \o BcastRounds(me, size, root, 1) \o Assign(b, "res")

QmpiBcast(me, size, psi, root) ==
  LET backup == <<"backup", me>>
  IN     Only(me = root, Swap(psi, backup))
      \o PoorManCatState(me, size, psi)
      \o Assign("m", "undef")
      \o Only(me = root,    Gate("CNOT", <<psi, backup>>)
                         \o Gate("CNOT", <<backup, psi>>)
                         \o M(backup, "m"))
      \o QmpiBcastc(me, size, "m", root)
      \o Only(me # root, GateIf("m", "X", <<psi>>))
      \o Leave(backup, {"parity_with_prev", "acc", "new_acc", "res", "m"})

RECURSIVE CountFrom(_, _, _)
CountFrom(i, size, root) ==
  Only(i < size, Only(i # root, RecvXor("odd", i, 29)) \o CountFrom(i + 1, size, root))

\* Only whether the count is odd matters.
QmpiUnbcast(me, size, psi, root) ==
  IF me = root
  THEN Assign("odd", "false") \o CountFrom(0, size, root) \o GateIf("odd", "Z", <<psi>>)
  ELSE Gate("H", <<psi>>) \o M(psi, "res") \o SendBit("res", root, 29)

----------------------------------------------------------------------------
Pair(me) == <<"pair", me>>

Teleport(me, q, from, to) ==
     Only(me = from,    CreateEpr(me, to, 99, Pair(me))
                     \o Gate("CNOT", <<q, Pair(me)>>)
                     \o Gate("H", <<q>>)
                     \o M(Pair(me), "res") \o SendBit("res", 1, 88)
                     \o M(q, "res") \o SendBit("res", 1, 88))
  \o Only(me = to /\ me # from,
                        CreateEpr(me, from, 99, Pair(me))
                     \o RecvBit("got", 0, 88) \o GateIf("got", "X", <<Pair(me)>>)
                     \o RecvBit("got", 0, 88) \o GateIf("got", "Z", <<Pair(me)>>)
                     \o Swap(Pair(me), q))
  \o Leave(Pair(me), {"res", "got"})
=============================================================================
