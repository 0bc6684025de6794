------------------------- MODULE QmpiBarrierProofs -------------------------
(***************************************************************************)
(* qmpi_barrier, proved for every number of ranks and of rounds: its       *)
(* inductive invariant, the safety properties that follow from it, that    *)
(* some rank can go on until all have left the last barrier, and that it   *)
(* implements the abstract barrier.                                        *)
(***************************************************************************)
EXTENDS QmpiBarrier, TLAPS

\* Rank 0 exists, and a worker is a rank with a higher number.
LEMMA RankFacts ==
  /\ 0 \in Rank /\ 0 \in Peer /\ NP \in Int /\ 1 <= NP
  /\ \A r \in Rank : r \in Int /\ 0 <= r
  /\ \A r \in Worker : r \in Rank /\ r \in Peer /\ r \in Int /\ 1 <= r /\ r < NP
  /\ \A r \in Worker : r # 0
  /\ \A r \in Rank : r # 0 => r \in Worker
  /\ \A i \in 1 .. NP - 1 : i \in Worker
BY NPAssumption DEF Rank, Worker, Peer

\* The slots between rank 0 and the workers are keys of the map, and no two
\* of them are the same.
LEMMA SlotFacts ==
  /\ \A r \in Worker : <<r, 0, BarrierTag>> \in Chan /\ <<0, r, BarrierTag>> \in Chan
  /\ \A r, q \in Worker : <<r, 0, BarrierTag>> # <<0, q, BarrierTag>>
  /\ \A r, q \in Worker : r # q =>
       /\ <<r, 0, BarrierTag>> # <<q, 0, BarrierTag>>
       /\ <<0, r, BarrierTag>> # <<0, q, BarrierTag>>
BY RankFacts, BarrierAssumption DEF Chan

\* A successful csend fills the sender's slot, which was empty, and no other.
LEMMA CsendFacts ==
  ASSUME MailboxType, NEW s \in Peer, NEW r \in Peer, NEW v \in Val,
         Csend(s, r, BarrierTag, v)
  PROVE  /\ MailboxType'
         /\ mailbox[<<s, r, BarrierTag>>] = None
         /\ mailbox'[<<s, r, BarrierTag>>] # None
         /\ \A c \in Chan : c # <<s, r, BarrierTag>> => mailbox'[c] = mailbox[c]
BY NoneAssumption, BarrierAssumption DEF MailboxType, Csend, Chan

\* A successful crecv empties the receiver's slot, which was full, and no
\* other.
LEMMA CrecvFacts ==
  ASSUME MailboxType, NEW s \in Peer, NEW r \in Peer, NEW v \in Val,
         Crecv(s, r, BarrierTag, v)
  PROVE  /\ MailboxType'
         /\ mailbox[<<s, r, BarrierTag>>] # None
         /\ mailbox'[<<s, r, BarrierTag>>] = None
         /\ \A c \in Chan : c # <<s, r, BarrierTag>> => mailbox'[c] = mailbox[c]
BY NoneAssumption, BarrierAssumption DEF MailboxType, Crecv, Chan

LEMMA InitIInv == Init => IInv
<1> SUFFICES ASSUME Init PROVE IInv
  OBVIOUS
<1>1. TypeOK
  BY RankFacts, BarrierAssumption
     DEF Init, TypeOK, MailboxInit, MailboxType, Rank, Worker
<1>2. Inside
  BY DEF Init, Inside, Count
<1>3. ASSUME NEW r \in Worker
      PROVE  /\ entered[r] = 0 /\ entered[0] = 0 /\ left[r] = 0 /\ left[0] = 0
             /\ pc[r] = "out" /\ pc[0] = "out"
             /\ ToRoot(r) = None /\ FromRoot(r) = None
  BY RankFacts, SlotFacts DEF Init, MailboxInit, ToRoot, FromRoot
<1>4. Arrivals /\ Releases
  BY <1>3 DEF Arrivals, Releases, Count
<1>5. OtherSlotsEmpty
  BY DEF Init, MailboxInit, OtherSlotsEmpty
<1>6. QED
  BY <1>1, <1>2, <1>4, <1>5 DEF IInv

----------------------------------------------------------------------------
\* One lemma per action: the step keeps the inductive invariant.

LEMMA EnterKeeps ==
  ASSUME IInv, NEW r \in Rank, Enter(r)
  PROVE  IInv'
<1> USE RankFacts, SlotFacts
<1>1. TypeOK'
  BY NPAssumption, BarrierAssumption
     DEF IInv, TypeOK, Enter, Goto, MailboxType, Worker
<1>2. Inside'
  BY DEF IInv, TypeOK, Inside, Enter, Goto, Count
<1>3. Arrivals'
  BY DEF IInv, TypeOK, Arrivals, Enter, Goto, Count, ToRoot, Worker
<1>4. Releases'
  BY DEF IInv, TypeOK, Releases, Enter, Goto, Count, FromRoot, Worker
<1>5. OtherSlotsEmpty'
  BY DEF IInv, OtherSlotsEmpty, Enter
<1>6. QED
  BY <1>1, <1>2, <1>3, <1>4, <1>5 DEF IInv

LEMMA GatherKeeps ==
  ASSUME IInv, Gather
  PROVE  IInv'
<1> USE RankFacts, SlotFacts
<1>1. PICK v \in Val : Crecv(idx, 0, BarrierTag, v)
  BY DEF Gather
<1>2. idx \in Worker
  BY NPAssumption DEF IInv, TypeOK, Gather
<1>3. /\ MailboxType'
      /\ mailbox[<<idx, 0, BarrierTag>>] # None
      /\ mailbox'[<<idx, 0, BarrierTag>>] = None
      /\ \A c \in Chan : c # <<idx, 0, BarrierTag>> => mailbox'[c] = mailbox[c]
  <2>1. idx \in Peer /\ 0 \in Peer
    BY <1>2, RankFacts DEF Peer
  <2>2. QED
    BY <1>1, <2>1, CrecvFacts DEF IInv, TypeOK
<1>4. TypeOK'
  BY <1>3, NPAssumption DEF IInv, TypeOK, Gather
<1>5. Inside'
  BY DEF IInv, Inside, Gather
<1>6. Arrivals'
  <2> SUFFICES ASSUME NEW r \in Worker
               PROVE  entered'[r] - Count(pc'[r] = "arrive")
                        = entered'[0] - Count(pc'[0] = "gather" /\ idx' <= r)
                          + Count(ToRoot(r)' # None)
    BY DEF Arrivals
  <2>1. entered[r] - Count(pc[r] = "arrive")
          = entered[0] - Count(pc[0] = "gather" /\ idx <= r)
            + Count(ToRoot(r) # None)
    BY DEF IInv, Arrivals
  <2>2. CASE r = idx
    BY <2>1, <2>2, <1>2, <1>3 DEF Gather, IInv, TypeOK, Count, ToRoot
  <2>3. CASE r # idx
    <3>1. ToRoot(r)' = ToRoot(r)
      BY <2>3, <1>2, <1>3 DEF ToRoot
    <3>2. (idx + 1 <= r) <=> (idx <= r)
      BY <2>3, <1>2
    <3>3. QED
      BY <2>1, <3>1, <3>2 DEF Gather
  <2>4. QED
    BY <2>2, <2>3
<1>7. Releases'
  <2>1. \A r \in Worker : FromRoot(r)' = FromRoot(r)
    BY <1>2, <1>3 DEF FromRoot
  <2>2. pc[0] # "release"
    BY DEF Gather
  <2>3. QED
    BY <2>1, <2>2 DEF IInv, Releases, Gather
<1>8. OtherSlotsEmpty'
  BY <1>3 DEF IInv, OtherSlotsEmpty
<1>9. QED
  BY <1>4, <1>5, <1>6, <1>7, <1>8 DEF IInv

LEMMA GatheredKeeps ==
  ASSUME IInv, Gathered
  PROVE  IInv'
<1> USE RankFacts, SlotFacts
<1>1. TypeOK'
  BY NPAssumption DEF IInv, TypeOK, Gathered, Goto, Worker, MailboxType
<1>2. Inside'
  BY DEF IInv, TypeOK, Inside, Gathered, Goto, Count
<1>3. Arrivals'
  BY DEF IInv, TypeOK, Arrivals, Gathered, Goto, Count, ToRoot, Worker
<1>4. Releases'
  BY DEF IInv, TypeOK, Releases, Gathered, Goto, Count, FromRoot
<1>5. OtherSlotsEmpty'
  BY DEF IInv, OtherSlotsEmpty, Gathered
<1>6. QED
  BY <1>1, <1>2, <1>3, <1>4, <1>5 DEF IInv

LEMMA ReleaseKeeps ==
  ASSUME IInv, Release
  PROVE  IInv'
<1> USE RankFacts, SlotFacts
<1>1. idx \in Worker
  BY NPAssumption DEF IInv, TypeOK, Release
<1>2. /\ MailboxType'
      /\ mailbox[<<0, idx, BarrierTag>>] = None
      /\ mailbox'[<<0, idx, BarrierTag>>] # None
      /\ \A c \in Chan : c # <<0, idx, BarrierTag>> => mailbox'[c] = mailbox[c]
  <2>1. idx \in Peer /\ 0 \in Peer
    BY <1>1, RankFacts DEF Peer
  <2>2. QED
    BY <2>1, CsendFacts, BarrierAssumption DEF IInv, TypeOK, Release
<1>3. TypeOK'
  BY <1>2, NPAssumption DEF IInv, TypeOK, Release
<1>4. Inside'
  BY DEF IInv, Inside, Release
<1>5. Arrivals'
  <2>1. \A r \in Worker : ToRoot(r)' = ToRoot(r)
    BY <1>1, <1>2 DEF ToRoot
  <2>2. pc[0] # "gather"
    BY DEF Release
  <2>3. QED
    BY <2>1, <2>2 DEF IInv, Arrivals, Release
<1>6. Releases'
  <2> SUFFICES ASSUME NEW r \in Worker
               PROVE  left'[0] + Count(pc'[0] = "release" /\ r < idx')
                        = left'[r] + Count(FromRoot(r)' # None)
    BY DEF Releases
  <2>1. left[0] + Count(pc[0] = "release" /\ r < idx)
          = left[r] + Count(FromRoot(r) # None)
    BY DEF IInv, Releases
  <2>2. CASE r = idx
    BY <2>1, <2>2, <1>1, <1>2 DEF Release, IInv, TypeOK, Count, FromRoot
  <2>3. CASE r # idx
    <3>1. FromRoot(r)' = FromRoot(r)
      BY <2>3, <1>1, <1>2 DEF FromRoot
    <3>2. (r < idx + 1) <=> (r < idx)
      BY <2>3, <1>1
    <3>3. QED
      BY <2>1, <3>1, <3>2 DEF Release
  <2>4. QED
    BY <2>2, <2>3
<1>7. OtherSlotsEmpty'
  BY <1>1, <1>2 DEF IInv, OtherSlotsEmpty
<1>8. QED
  BY <1>3, <1>4, <1>5, <1>6, <1>7 DEF IInv

LEMMA RootLeavesKeeps ==
  ASSUME IInv, RootLeaves
  PROVE  IInv'
<1> USE RankFacts, SlotFacts
<1>1. TypeOK'
  <2>1. left[0] + 1 = entered[0]
    BY DEF IInv, TypeOK, Inside, Count, RootLeaves
  <2>2. QED
    BY <2>1, BarrierAssumption
       DEF IInv, TypeOK, RootLeaves, Leave, Goto, Worker, MailboxType
<1>2. Inside'
  BY DEF IInv, TypeOK, Inside, RootLeaves, Leave, Goto, Count
<1>3. Arrivals'
  BY DEF IInv, TypeOK, Arrivals, RootLeaves, Leave, Goto, Count, ToRoot, Worker
<1>4. Releases'
  BY DEF IInv, TypeOK, Releases, RootLeaves, Leave, Goto, Count, FromRoot, Worker
<1>5. OtherSlotsEmpty'
  BY DEF IInv, OtherSlotsEmpty, RootLeaves
<1>6. QED
  BY <1>1, <1>2, <1>3, <1>4, <1>5 DEF IInv

LEMMA ArriveKeeps ==
  ASSUME IInv, NEW r \in Worker, Arrive(r)
  PROVE  IInv'
<1> USE RankFacts, SlotFacts
<1>1. /\ MailboxType'
      /\ mailbox[<<r, 0, BarrierTag>>] = None
      /\ mailbox'[<<r, 0, BarrierTag>>] # None
      /\ \A c \in Chan : c # <<r, 0, BarrierTag>> => mailbox'[c] = mailbox[c]
  <2>1. r \in Peer /\ 0 \in Peer
    BY RankFacts DEF Peer
  <2>2. QED
    BY <2>1, CsendFacts, BarrierAssumption DEF IInv, TypeOK, Arrive
<1>2. TypeOK'
  BY <1>1 DEF IInv, TypeOK, Arrive, Goto, Worker
<1>3. Inside'
  BY DEF IInv, TypeOK, Inside, Arrive, Goto, Count
<1>4. Arrivals'
  <2> SUFFICES ASSUME NEW q \in Worker
               PROVE  entered'[q] - Count(pc'[q] = "arrive")
                        = entered'[0] - Count(pc'[0] = "gather" /\ idx' <= q)
                          + Count(ToRoot(q)' # None)
    BY DEF Arrivals
  <2>1. entered[q] - Count(pc[q] = "arrive")
          = entered[0] - Count(pc[0] = "gather" /\ idx <= q)
            + Count(ToRoot(q) # None)
    BY DEF IInv, Arrivals
  <2>2. pc'[0] = pc[0]
    BY DEF Arrive, Goto, IInv, TypeOK, Worker
  <2>3. CASE q = r
    <3>1. pc[q] = "arrive" /\ pc'[q] = "await"
      BY <2>3 DEF Arrive, Goto, IInv, TypeOK
    <3>2. ToRoot(q) = None /\ ToRoot(q)' # None
      BY <2>3, <1>1 DEF ToRoot
    <3>3. QED
      BY <2>1, <2>2, <3>1, <3>2 DEF Arrive, Count, IInv, TypeOK
  <2>4. CASE q # r
    <3>1. ToRoot(q)' = ToRoot(q)
      BY <2>4, <1>1 DEF ToRoot
    <3>2. QED
      BY <2>1, <2>2, <2>4, <3>1 DEF Arrive, Goto, IInv, TypeOK
  <2>5. QED
    BY <2>3, <2>4
<1>5. Releases'
  <2>1. \A q \in Worker : FromRoot(q)' = FromRoot(q)
    BY <1>1 DEF FromRoot
  <2>2. pc'[0] = pc[0]
    BY DEF Arrive, Goto, IInv, TypeOK, Worker
  <2>3. QED
    BY <2>1, <2>2 DEF IInv, Releases, Arrive
<1>6. OtherSlotsEmpty'
  BY <1>1 DEF IInv, OtherSlotsEmpty
<1>7. QED
  BY <1>2, <1>3, <1>4, <1>5, <1>6 DEF IInv

LEMMA WorkerLeavesKeeps ==
  ASSUME IInv, NEW r \in Worker, WorkerLeaves(r)
  PROVE  IInv'
<1> USE RankFacts, SlotFacts
<1>1. PICK v \in Val : Crecv(0, r, BarrierTag, v)
  BY DEF WorkerLeaves
<1>2. /\ MailboxType'
      /\ mailbox[<<0, r, BarrierTag>>] # None
      /\ mailbox'[<<0, r, BarrierTag>>] = None
      /\ \A c \in Chan : c # <<0, r, BarrierTag>> => mailbox'[c] = mailbox[c]
  <2>1. r \in Peer /\ 0 \in Peer
    BY RankFacts DEF Peer
  <2>2. QED
    BY <1>1, <2>1, CrecvFacts DEF IInv, TypeOK
<1>3. pc'[0] = pc[0] /\ left'[0] = left[0]
  BY DEF WorkerLeaves, Leave, Goto, IInv, TypeOK, Worker
<1>4. TypeOK'
  <2>1. left[r] + 1 = entered[r]
    BY DEF IInv, TypeOK, Inside, Count, WorkerLeaves
  <2>2. QED
    BY <1>2, <2>1, BarrierAssumption
       DEF IInv, TypeOK, WorkerLeaves, Leave, Goto, Worker
<1>5. Inside'
  BY DEF IInv, TypeOK, Inside, WorkerLeaves, Leave, Goto, Count
<1>6. Arrivals'
  <2>1. \A q \in Worker : ToRoot(q)' = ToRoot(q)
    BY <1>2 DEF ToRoot
  <2>2. \A q \in Worker : (pc'[q] = "arrive") <=> (pc[q] = "arrive")
    BY DEF WorkerLeaves, Leave, Goto, IInv, TypeOK
  <2>3. QED
    BY <1>3, <2>1, <2>2 DEF IInv, Arrivals, WorkerLeaves
<1>7. Releases'
  <2> SUFFICES ASSUME NEW q \in Worker
               PROVE  left'[0] + Count(pc'[0] = "release" /\ q < idx')
                        = left'[q] + Count(FromRoot(q)' # None)
    BY DEF Releases
  <2>1. left[0] + Count(pc[0] = "release" /\ q < idx)
          = left[q] + Count(FromRoot(q) # None)
    BY DEF IInv, Releases
  <2>2. CASE q = r
    <3>1. left'[q] = left[q] + 1
      BY <2>2 DEF WorkerLeaves, Leave, IInv, TypeOK
    <3>2. FromRoot(q) # None /\ FromRoot(q)' = None
      BY <2>2, <1>2 DEF FromRoot
    <3>3. QED
      BY <1>3, <2>1, <3>1, <3>2 DEF WorkerLeaves, Count, IInv, TypeOK
  <2>3. CASE q # r
    <3>1. FromRoot(q)' = FromRoot(q)
      BY <2>3, <1>2 DEF FromRoot
    <3>2. QED
      BY <1>3, <2>1, <2>3, <3>1 DEF WorkerLeaves, Leave, IInv, TypeOK
  <2>4. QED
    BY <2>2, <2>3
<1>8. OtherSlotsEmpty'
  BY <1>2 DEF IInv, OtherSlotsEmpty
<1>9. QED
  BY <1>4, <1>5, <1>6, <1>7, <1>8 DEF IInv

LEMMA NextKeeps == IInv /\ [Next]_vars => IInv'
<1> SUFFICES ASSUME IInv, [Next]_vars PROVE IInv'
  OBVIOUS
<1>1. CASE Root
  BY <1>1, RankFacts, EnterKeeps, GatherKeeps, GatheredKeeps, ReleaseKeeps,
     RootLeavesKeeps DEF Root
<1>2. ASSUME NEW r \in Worker, WorkerStep(r) PROVE IInv'
  BY <1>2, RankFacts, EnterKeeps, ArriveKeeps, WorkerLeavesKeeps DEF WorkerStep
<1>3. CASE UNCHANGED vars
  BY <1>3 DEF vars, IInv, TypeOK, MailboxType, Inside, Arrivals, Releases,
     OtherSlotsEmpty, ToRoot, FromRoot
<1>4. QED
  BY <1>1, <1>2, <1>3 DEF Next

\* The counts of messages sent, received and in the slots agree in every
\* reachable state, for every number of ranks and of rounds.
THEOREM InductiveInvariant == Spec => []IInv
BY InitIInv, NextKeeps, PTL DEF Spec

\* Control points, loop variable, counters and slots stay in range.
THEOREM TypeCorrect == Spec => []TypeOK
<1>1. IInv => TypeOK
  BY DEF IInv
<1>2. QED
  BY <1>1, InductiveInvariant, PTL

----------------------------------------------------------------------------
\* What the invariant says of rank 0 and a worker taken alone: their counters
\* are never more than one apart, and which way depends on rank 0's loop.
LEMMA WorkerAgainstRoot ==
  ASSUME IInv, NEW r \in Worker
  PROVE  /\ left[r] <= entered[0]
         /\ left[0] <= entered[r]
         /\ left[r] = entered[0] => pc[0] # "gather"
         /\ pc[0] # "gather" => entered[0] <= entered[r]
         /\ entered[0] <= entered[r] + 1
         /\ left[r] \in Int /\ entered[r] \in Int
         /\ left[0] \in Int /\ entered[0] \in Int
<1> USE RankFacts
<1>1. /\ entered[r] = left[r] + Count(pc[r] # "out")
      /\ entered[0] = left[0] + Count(pc[0] # "out")
      /\ left[r] \in Int /\ entered[r] \in Int
      /\ left[0] \in Int /\ entered[0] \in Int
  BY DEF IInv, TypeOK, Inside
<1>2. entered[r] - Count(pc[r] = "arrive")
        = entered[0] - Count(pc[0] = "gather" /\ idx <= r) + Count(ToRoot(r) # None)
  BY DEF IInv, Arrivals
<1>3. left[0] + Count(pc[0] = "release" /\ r < idx)
        = left[r] + Count(FromRoot(r) # None)
  BY DEF IInv, Releases
<1>4. QED
  BY <1>1, <1>2, <1>3 DEF Count

LEMMA NobodyLeavesEarlyStep == IInv => NobodyLeavesEarly
<1> SUFFICES ASSUME IInv, NEW p \in Rank, NEW q \in Rank
             PROVE  left[p] <= entered[q]
  BY DEF NobodyLeavesEarly
<1> USE RankFacts
<1>1. left[p] <= entered[p] /\ left[p] \in Int /\ entered[p] \in Int
  BY DEF IInv, TypeOK, Inside, Count
<1>2. CASE p = 0 \/ q = 0
  BY <1>1, <1>2, WorkerAgainstRoot
<1>3. CASE p # 0 /\ q # 0
  <2>1. p \in Worker /\ q \in Worker
    BY <1>3
  <2>2. left[p] <= entered[0] /\ (left[p] = entered[0] => pc[0] # "gather")
    BY <2>1, WorkerAgainstRoot
  <2>3. /\ pc[0] # "gather" => entered[0] <= entered[q]
        /\ entered[0] <= entered[q] + 1
        /\ entered[q] \in Int /\ entered[0] \in Int
    BY <2>1, WorkerAgainstRoot
  <2>4. QED
    BY <1>1, <2>2, <2>3
<1>4. QED
  BY <1>2, <1>3

\* The sentence of the library's comment: no process leaves the barrier
\* before all the processes have entered it, in every round.
THEOREM BarrierSafe == Spec => []NobodyLeavesEarly
BY InductiveInvariant, NobodyLeavesEarlyStep, PTL

LEMMA SendsNeverBlockStep == IInv => SendsNeverBlock
<1> SUFFICES ASSUME IInv PROVE SendsNeverBlock
  OBVIOUS
<1> USE RankFacts
<1>1. ASSUME NEW r \in Worker
      PROVE  /\ entered[r] = left[r] + Count(pc[r] # "out")
             /\ entered[0] = left[0] + Count(pc[0] # "out")
             /\ left[r] \in Int /\ entered[r] \in Int
             /\ left[0] \in Int /\ entered[0] \in Int
             /\ entered[r] - Count(pc[r] = "arrive")
                  = entered[0] - Count(pc[0] = "gather" /\ idx <= r)
                    + Count(ToRoot(r) # None)
             /\ left[0] + Count(pc[0] = "release" /\ r < idx)
                  = left[r] + Count(FromRoot(r) # None)
  BY <1>1 DEF IInv, TypeOK, Inside, Arrivals, Releases
<1>2. ASSUME NEW r \in Worker, pc[r] = "arrive"
      PROVE  ToRoot(r) = None
  BY <1>1, <1>2 DEF Count
<1>3. ASSUME pc[0] = "release", idx < NP
      PROVE  FromRoot(idx) = None
  <2>1. idx \in Worker
    BY <1>3 DEF IInv, TypeOK
  <2>2. QED
    BY <1>1, <1>3, <2>1 DEF Count
<1>4. QED
  BY <1>2, <1>3 DEF SendsNeverBlock

\* Reusing the tag never makes a csend of the barrier find its slot full.
THEOREM SendsNeverBlocked == Spec => []SendsNeverBlock
BY SendsNeverBlockStep, InductiveInvariant, PTL

\* When all ranks are out of the same barrier, no message is left in a slot.
THEOREM NoMessageLeftOver == Spec => []NothingLeftOver
<1>1. IInv => NothingLeftOver
  <2> SUFFICES ASSUME IInv,
                      \A r \in Rank : pc[r] = "out" /\ entered[r] = entered[0],
                      NEW c \in Chan, mailbox[c] # None
               PROVE  FALSE
    BY DEF NothingLeftOver
  <2> USE RankFacts
  <2>1. PICK r \in Worker : c \in {<<r, 0, BarrierTag>>, <<0, r, BarrierTag>>}
    BY DEF IInv, OtherSlotsEmpty
  <2>2. ToRoot(r) # None \/ FromRoot(r) # None
    BY <2>1 DEF ToRoot, FromRoot
  <2>3. /\ pc[r] = "out" /\ pc[0] = "out" /\ entered[r] = entered[0]
        /\ left[r] \in Int /\ entered[r] \in Int
        /\ left[0] \in Int /\ entered[0] \in Int
    BY DEF IInv, TypeOK
  <2>4. left[r] = entered[r] /\ left[0] = entered[0]
    BY <2>3 DEF IInv, Inside, Count
  <2>5. entered[r] - Count(pc[r] = "arrive")
          = entered[0] - Count(pc[0] = "gather" /\ idx <= r)
            + Count(ToRoot(r) # None)
    BY DEF IInv, Arrivals
  <2>6. left[0] + Count(pc[0] = "release" /\ r < idx)
          = left[r] + Count(FromRoot(r) # None)
    BY DEF IInv, Releases
  <2>7. QED
    BY <2>2, <2>3, <2>4, <2>5, <2>6 DEF Count
<1>2. QED
  BY <1>1, InductiveInvariant, PTL

----------------------------------------------------------------------------
LEMMA NobodyLeavesEarlyNext == IInv' => NobodyLeavesEarly'
BY NobodyLeavesEarlyStep, PTL

LEMMA LeaveRefines ==
  ASSUME IInv, NobodyLeavesEarly', NEW r \in Rank, pc[r] # "out",
         left' = [left EXCEPT ![r] = @ + 1], UNCHANGED entered
  PROVE  AbstractBarrier!Leave(r)
<1>1. left[r] < entered[r]
  BY DEF IInv, TypeOK, Inside, Count
<1>2. ASSUME NEW q \in Rank
      PROVE  left[r] < entered[q]
  <2>1. left'[r] <= entered'[q] /\ left'[r] = left[r] + 1
    BY DEF NobodyLeavesEarly, IInv, TypeOK
  <2>2. QED
    BY <2>1 DEF IInv, TypeOK
<1>3. QED
  BY <1>1, <1>2 DEF AbstractBarrier!Leave

LEMMA StepRefines ==
  IInv /\ IInv' /\ [Next]_vars => [AbstractBarrier!Next]_<<entered, left>>
<1> SUFFICES ASSUME IInv, IInv', [Next]_vars
             PROVE  [AbstractBarrier!Next]_<<entered, left>>
  OBVIOUS
<1> USE RankFacts
<1>1. NobodyLeavesEarly'
  BY NobodyLeavesEarlyNext
<1>2. ASSUME NEW r \in Rank, Enter(r)
      PROVE  AbstractBarrier!Next
  <2>1. entered[r] = left[r]
    BY <1>2 DEF IInv, TypeOK, Inside, Count, Enter
  <2>2. AbstractBarrier!Enter(r)
    BY <1>2, <2>1 DEF Enter, AbstractBarrier!Enter
  <2>3. QED
    BY <2>2 DEF AbstractBarrier!Next
<1>3. ASSUME RootLeaves
      PROVE  AbstractBarrier!Next
  BY <1>1, <1>3, LeaveRefines DEF RootLeaves, Leave, AbstractBarrier!Next
<1>4. ASSUME NEW r \in Worker, WorkerLeaves(r)
      PROVE  AbstractBarrier!Next
  BY <1>1, <1>4, LeaveRefines DEF WorkerLeaves, Leave, AbstractBarrier!Next
<1>5. CASE Root
  BY <1>2, <1>3, <1>5 DEF Root, Gather, Gathered, Release
<1>6. ASSUME NEW r \in Worker, WorkerStep(r)
      PROVE  [AbstractBarrier!Next]_<<entered, left>>
  BY <1>2, <1>4, <1>6 DEF WorkerStep, Arrive
<1>7. CASE UNCHANGED vars
  BY <1>7 DEF vars
<1>8. QED
  BY <1>5, <1>6, <1>7 DEF Next

\* The message exchange of qmpi_barrier implements the abstract barrier, for
\* every number of ranks.
THEOREM Refinement == Spec => ImplementsBarrier
<1>1. Init => AbstractBarrier!Init
  BY DEF Init, AbstractBarrier!Init
<1>2. QED
  BY <1>1, StepRefines, InductiveInvariant, PTL
     DEF Spec, ImplementsBarrier, AbstractBarrier!Spec

----------------------------------------------------------------------------
(* Nobody waits for somebody who waits. *)

\* What a rank needs to take its next step.
RootCanGoOn ==
  \/ pc[0] = "out" /\ entered[0] < Rounds
  \/ pc[0] = "gather" /\ (idx < NP => ToRoot(idx) # None)
  \/ pc[0] = "release" /\ (idx < NP => FromRoot(idx) = None)

WorkerCanGoOn(r) ==
  \/ pc[r] = "out" /\ entered[r] < Rounds
  \/ pc[r] = "arrive" /\ ToRoot(r) = None
  \/ pc[r] = "await" /\ FromRoot(r) # None

SomebodyGoesOn == Finished \/ RootCanGoOn \/ \E r \in Worker : WorkerCanGoOn(r)

\* In no state reached does every rank wait in the barrier: rank 0 waits for a
\* worker that has not entered yet or has its release before it, and a worker
\* for rank 0 only.
THEOREM BarrierNeverStuck == Spec => []SomebodyGoesOn
<1>1. IInv => SomebodyGoesOn
  <2> SUFFICES ASSUME IInv, ~Finished, ~RootCanGoOn
               PROVE  \E r \in Worker : WorkerCanGoOn(r)
    BY DEF SomebodyGoesOn
  <2> USE RankFacts
  <2>1. /\ idx \in 1 .. NP /\ pc[0] \in {"out", "gather", "release"} /\ Rounds \in Nat
        /\ entered[0] \in 0 .. Rounds /\ left[0] \in 0 .. Rounds
        /\ entered[0] = left[0] + Count(pc[0] # "out")
    BY BarrierAssumption DEF IInv, TypeOK, Inside
  <2>2. ASSUME NEW r \in Worker
        PROVE  /\ pc[r] \in {"out", "arrive", "await"}
               /\ entered[r] \in 0 .. Rounds /\ left[r] \in 0 .. Rounds
               /\ entered[r] = left[r] + Count(pc[r] # "out")
               /\ entered[r] - Count(pc[r] = "arrive")
                    = entered[0] - Count(pc[0] = "gather" /\ idx <= r) + Count(ToRoot(r) # None)
               /\ left[0] + Count(pc[0] = "release" /\ r < idx)
                    = left[r] + Count(FromRoot(r) # None)
               /\ pc[r] = "arrive" => ToRoot(r) = None
    BY SendsNeverBlockStep DEF IInv, TypeOK, Inside, Arrivals, Releases, SendsNeverBlock
  <2>3. CASE pc[0] = "out"
    <3>1. entered[0] = Rounds /\ left[0] = Rounds
      BY <2>1, <2>3 DEF RootCanGoOn, Count
    <3>2. PICK r \in Worker : ~(pc[r] = "out" /\ left[r] = Rounds)
      BY <2>3, <3>1 DEF Finished
    <3>3. WorkerCanGoOn(r)
      BY <2>1, <2>2, <2>3, <3>1, <3>2 DEF WorkerCanGoOn, Count
    <3>4. QED
      BY <3>3
  <2>4. CASE pc[0] = "gather"
    <3>1. idx \in Worker /\ ToRoot(idx) = None
      BY <2>1, <2>4 DEF RootCanGoOn
    <3>2. WorkerCanGoOn(idx)
      BY <2>1, <2>2, <2>4, <3>1 DEF WorkerCanGoOn, Count
    <3>3. QED
      BY <3>1, <3>2
  <2>5. CASE pc[0] = "release"
    BY <2>5, SendsNeverBlockStep DEF RootCanGoOn, SendsNeverBlock
  <2>6. QED
    BY <2>1, <2>3, <2>4, <2>5
<1>2. QED
  BY <1>1, InductiveInvariant, PTL
=============================================================================
