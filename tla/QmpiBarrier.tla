---------------------------- MODULE QmpiBarrier ----------------------------
(***************************************************************************)
(* qmpi_barrier of the distributed example, over the mailbox: rank 0       *)
(* gathers one message from every other rank and then releases them one by *)
(* one.  Each rank goes through Rounds barriers in a row, so messages of   *)
(* one barrier can meet messages of the next in the same slots.            *)
(***************************************************************************)
EXTENDS Mailbox

CONSTANTS
  BarrierTag,     \* the tag both directions use (63)
  True, False,    \* the payloads of a release and of an arrival
  Rounds          \* bound: barriers each rank goes through

ASSUME BarrierAssumption ==
  /\ BarrierTag \in Tag
  /\ True \in Val
  /\ False \in Val
  /\ Rounds \in Nat

VARIABLES
  pc,             \* where each rank is: "out" of the barrier, or in it
  idx,            \* rank 0's loop variable
  entered, left   \* history: barriers each rank has entered and left

vars == <<mailbox, pc, idx, entered, left>>

Worker == Rank \ {0}
ToRoot(r) == mailbox[<<r, 0, BarrierTag>>]
FromRoot(r) == mailbox[<<0, r, BarrierTag>>]

Init ==
  /\ MailboxInit
  /\ pc = [r \in Rank |-> "out"]
  /\ idx = 1
  /\ entered = [r \in Rank |-> 0]
  /\ left = [r \in Rank |-> 0]

Goto(r, to) == pc' = [pc EXCEPT ![r] = to]

Enter(r) ==
  /\ pc[r] = "out"
  /\ entered[r] < Rounds
  /\ entered' = [entered EXCEPT ![r] = @ + 1]
  /\ Goto(r, IF r = 0 THEN "gather" ELSE "arrive")
  /\ idx' = IF r = 0 THEN 1 ELSE idx
  /\ UNCHANGED <<mailbox, left>>

\* Rank 0, first loop: qmpi_crecv(i, tag) for i in 1:size.
Gather ==
  /\ pc[0] = "gather"
  /\ idx < NP
  /\ \E v \in Val : Crecv(idx, 0, BarrierTag, v)
  /\ idx' = idx + 1
  /\ UNCHANGED <<pc, entered, left>>

\* A first loop that stops one rank early.
Gathered_Short ==
  /\ pc[0] = "gather"
  /\ idx >= NP - 1
  /\ Goto(0, "release")
  /\ idx' = 1
  /\ UNCHANGED <<mailbox, entered, left>>

\* A first loop that is never waited for.
Gathered_AtOnce ==
  /\ pc[0] = "gather"
  /\ Goto(0, "release")
  /\ idx' = 1
  /\ UNCHANGED <<mailbox, entered, left>>

Gathered ==
  /\ pc[0] = "gather"
  /\ idx = NP
  /\ Goto(0, "release")
  /\ idx' = 1
  /\ UNCHANGED <<mailbox, entered, left>>

\* Rank 0, second loop: qmpi_csend(true, i, tag) for i in 1:size.
Release ==
  /\ pc[0] = "release"
  /\ idx < NP
  /\ Csend(0, idx, BarrierTag, True)
  /\ idx' = idx + 1
  /\ UNCHANGED <<pc, entered, left>>

Leave(r) ==
  /\ left' = [left EXCEPT ![r] = @ + 1]
  /\ Goto(r, "out")

\* A second loop that stops one rank early.
RootLeaves_Short ==
  /\ pc[0] = "release"
  /\ idx >= NP - 1
  /\ Leave(0)
  /\ UNCHANGED <<mailbox, idx, entered>>

RootLeaves ==
  /\ pc[0] = "release"
  /\ idx = NP
  /\ Leave(0)
  /\ UNCHANGED <<mailbox, idx, entered>>

\* Every other rank: qmpi_csend(false, 0, tag), then qmpi_crecv(0, tag).
Arrive(r) ==
  /\ pc[r] = "arrive"
  /\ Csend(r, 0, BarrierTag, False)
  /\ Goto(r, "await")
  /\ UNCHANGED <<idx, entered, left>>

WorkerLeaves(r) ==
  /\ pc[r] = "await"
  /\ \E v \in Val : Crecv(0, r, BarrierTag, v)
  /\ Leave(r)
  /\ UNCHANGED <<idx, entered>>

Root == Enter(0) \/ Gather \/ Gathered \/ Release \/ RootLeaves
WorkerStep(r) == Enter(r) \/ Arrive(r) \/ WorkerLeaves(r)

\* Every rank has run its program to the end, and the threads are joined.
Finished == \A r \in Rank : pc[r] = "out" /\ left[r] = Rounds

Next == Root \/ (\E r \in Worker : WorkerStep(r)) \/ (Finished /\ UNCHANGED vars)

Fairness == WF_vars(Root) /\ \A r \in Worker : WF_vars(WorkerStep(r))

Spec == Init /\ [][Next]_vars
FairSpec == Spec /\ Fairness

----------------------------------------------------------------------------
\* Control points, loop variable and counters stay in range, and so does
\* every slot of the mailbox.
TypeOK ==
  /\ MailboxType
  /\ pc \in [Rank -> {"out", "gather", "release", "arrive", "await"}]
  /\ pc[0] \in {"out", "gather", "release"}
  /\ \A r \in Worker : pc[r] \in {"out", "arrive", "await"}
  /\ idx \in 1 .. NP
  /\ entered \in [Rank -> 0 .. Rounds]
  /\ left \in [Rank -> 0 .. Rounds]

\* "No process would leave this procedure before all the processes have
\* entered", of this use of the barrier and of every later one.
NobodyLeavesEarly == \A p, q \in Rank : left[p] <= entered[q]

\* No csend of the barrier ever finds its slot full: reusing tag 63 for the
\* next barrier cannot block a sender on a message of the previous one.
SendsNeverBlock ==
  /\ \A r \in Worker : pc[r] = "arrive" => ToRoot(r) = None
  /\ pc[0] = "release" /\ idx < NP => FromRoot(idx) = None

\* A message is in a slot only for the barrier its receiver is in or about to
\* enter: when all ranks are out of a barrier, none is left over.
NothingLeftOver ==
  (\A r \in Rank : pc[r] = "out" /\ entered[r] = entered[0]) =>
    \A c \in Chan : mailbox[c] = None

\* The code implements the abstract barrier.
AbstractBarrier == INSTANCE Barrier WITH Proc <- Rank
ImplementsBarrier == AbstractBarrier!Spec

\* Every rank gets through all its barriers.
EverybodyLeaves == <>Finished

----------------------------------------------------------------------------
(***************************************************************************)
(* The inductive invariant.  What a worker has sent is what rank 0 has     *)
(* received from it plus what is in the slot, and the same the other way.  *)
(***************************************************************************)
Count(b) == IF b THEN 1 ELSE 0

Inside == \A r \in Rank : entered[r] = left[r] + Count(pc[r] # "out")

Arrivals ==
  \A r \in Worker :
    entered[r] - Count(pc[r] = "arrive")
      = entered[0] - Count(pc[0] = "gather" /\ idx <= r) + Count(ToRoot(r) # None)

Releases ==
  \A r \in Worker :
    left[0] + Count(pc[0] = "release" /\ r < idx)
      = left[r] + Count(FromRoot(r) # None)

\* No slot is used but those between rank 0 and a worker.
OtherSlotsEmpty ==
  \A c \in Chan : mailbox[c] # None =>
    \E r \in Worker : c \in {<<r, 0, BarrierTag>>, <<0, r, BarrierTag>>}

\* The four counts together: the invariant the proofs rest on.
IInv == TypeOK /\ Inside /\ Arrivals /\ Releases /\ OtherSlotsEmpty
=============================================================================
