----------------------------- MODULE QmpiProofs -----------------------------
(***************************************************************************)
(* The QMPI primitives, proved for every number of ranks, every set of     *)
(* tags, payloads and qubits and every program: typing, in-order delivery, *)
(* that a posted qubit's owner is still inside its create_epr, and that    *)
(* every call on the lower side returns with one entangling gate made for  *)
(* it and for no other call.                                               *)
(***************************************************************************)
EXTENDS Qmpi, TLAPS

\* The three facts are proved together: each step relies on all of them.
QInv == TypeOK /\ FifoDelivery /\ PostedRankWaits

LEMMA InitQInv == Init => QInv
<1> SUFFICES ASSUME Init PROVE QInv
  OBVIOUS
<1>1. TypeOK
  <2>1. NoCall \in CallRecord
    BY NPAssumption DEF NoCall, CallRecord, Peer
  <2>2. MailboxType /\ epr_pair \in [Chan -> OwnQubit \cup {None}]
    BY DEF Init, MailboxInit, MailboxType
  <2>3. call \in [Rank -> CallRecord] /\ \A r \in Rank : call[r].op = "none"
    BY <2>1 DEF Init, NoCall
  <2>4. calls \in [Rank -> 0 .. MaxCalls] /\ aborted \in BOOLEAN
    <3>1. 0 \in 0 .. MaxCalls
      BY MaxCallsAssumption
    <3>2. QED
      BY <3>1 DEF Init
  <2>5. /\ sent \in [Chan -> Seq(Val)]
        /\ rcvd \in [Chan -> Seq(Val)]
        /\ made \in Seq([key : Chan, low : OwnQubit, high : OwnQubit,
                        lowCall : Nat, highCall : Nat])
    BY DEF Init
  <2>6. QED
    BY <2>2, <2>3, <2>4, <2>5 DEF TypeOK, Idle
<1>2. FifoDelivery
  BY DEF Init, MailboxInit, FifoDelivery
<1>3. PostedRankWaits
  BY DEF Init, PostedRankWaits
<1>4. QED
  BY <1>1, <1>2, <1>3 DEF QInv

\* A rank is a peer, and its qubits are its own.
LEMMA RankFacts ==
  /\ Rank \subseteq Peer
  /\ \A r \in Rank : r \in Int
  /\ \A p \in Peer : p \in Int
  /\ \A r \in Rank : {r} \X Qubit \subseteq OwnQubit
  /\ None \notin Val
BY NPAssumption, NoneAssumption DEF Rank, Peer, OwnQubit

\* A step that enters the shim: from "none" to the given function.
LEMMA EnterTypes ==
  ASSUME TypeOK, NEW r \in Rank, NEW op \in {"csend", "crecv", "epr"},
         NEW p \in Peer, NEW t \in Tag, NEW a \in Val \cup OwnQubit \cup {None},
         op = "csend" => a \in Val,
         op = "epr" => a \in {r} \X Qubit,
         Enter(r, op, p, t, a)
  PROVE  /\ call' \in [Rank -> CallRecord]
         /\ calls' \in [Rank -> 0 .. MaxCalls]
         /\ \A q \in Rank :
              /\ call'[q].op # "none" => call'[q].tag \in Tag
              /\ call'[q].op = "csend" => call'[q].arg \in Val
              /\ call'[q].op \in {"epr", "posted"} => call'[q].arg \in {q} \X Qubit
              /\ call'[q].op = "posted" => q < call'[q].peer
<1> DEFINE rec == [op |-> op, peer |-> p, tag |-> t, arg |-> a]
<1>1. rec \in CallRecord
  BY DEF CallRecord
<1>2. call' = [call EXCEPT ![r] = rec]
  BY DEF Enter
<1>3. call' \in [Rank -> CallRecord]
  BY <1>1, <1>2 DEF TypeOK
<1>4. calls' \in [Rank -> 0 .. MaxCalls]
  BY MaxCallsAssumption DEF TypeOK, Enter
<1>5. ASSUME NEW q \in Rank
      PROVE  /\ call'[q].op # "none" => call'[q].tag \in Tag
             /\ call'[q].op = "csend" => call'[q].arg \in Val
             /\ call'[q].op \in {"epr", "posted"} => call'[q].arg \in {q} \X Qubit
             /\ call'[q].op = "posted" => q < call'[q].peer
  <2>1. CASE q = r
    <3>1. call'[q] = rec
      BY <1>2, <2>1 DEF TypeOK
    <3>2. QED
      BY <3>1, <2>1
  <2>2. CASE q # r
    BY <1>2, <2>2 DEF TypeOK, Idle
  <2>3. QED
    BY <2>1, <2>2
<1>6. QED
  BY <1>3, <1>4, <1>5

\* Entering the shim from outside does not disturb a rank that has posted.
LEMMA EnterKeepsPosted ==
  ASSUME TypeOK, PostedRankWaits, NEW r \in Rank, NEW op, NEW p, NEW t, NEW a,
         Enter(r, op, p, t, a), UNCHANGED epr_pair
  PROVE  PostedRankWaits'
BY DEF TypeOK, PostedRankWaits, Enter, Idle

LEMMA CallKeeps ==
  ASSUME QInv, NEW r \in Rank, NEW p \in Peer, NEW t \in Tag,
         \/ \E v \in Val : CallCsend(r, p, t, v)
         \/ CallCrecv(r, p, t)
         \/ \E q \in Qubit : CallEpr(r, p, t, q)
  PROVE  QInv'
<1> USE RankFacts
<1>1. PICK op \in {"csend", "crecv", "epr"},
           a \in Val \cup OwnQubit \cup {None} :
        /\ op = "csend" => a \in Val
        /\ op = "epr" => a \in {r} \X Qubit
        /\ Enter(r, op, p, t, a)
  <2>1. CASE \E v \in Val : CallCsend(r, p, t, v)
    BY <2>1 DEF CallCsend
  <2>2. CASE CallCrecv(r, p, t)
    BY <2>2 DEF CallCrecv
  <2>3. CASE \E q \in Qubit : CallEpr(r, p, t, q)
    <3>1. PICK q \in Qubit : Enter(r, "epr", p, t, <<r, q>>)
      BY <2>3 DEF CallEpr
    <3>2. <<r, q>> \in {r} \X Qubit
      OBVIOUS
    <3>3. QED
      BY <3>1, <3>2
  <2>4. QED
    BY <2>1, <2>2, <2>3
<1>2. /\ UNCHANGED <<mailbox, epr_pair, sent, rcvd, made>>
      /\ aborted' \in BOOLEAN
  BY DEF CallCsend, CallCrecv, CallEpr, QInv, TypeOK
<1>3. TypeOK'
  <2>1. /\ call' \in [Rank -> CallRecord]
        /\ calls' \in [Rank -> 0 .. MaxCalls]
        /\ \A q \in Rank :
             /\ call'[q].op # "none" => call'[q].tag \in Tag
             /\ call'[q].op = "csend" => call'[q].arg \in Val
             /\ call'[q].op \in {"epr", "posted"} => call'[q].arg \in {q} \X Qubit
             /\ call'[q].op = "posted" => q < call'[q].peer
    BY <1>1, EnterTypes DEF QInv
  <2>2. QED
    BY <1>2, <2>1 DEF QInv, TypeOK, MailboxType, Idle
<1>4. FifoDelivery'
  BY <1>2 DEF QInv, FifoDelivery
<1>5. PostedRankWaits'
  BY <1>1, <1>2, EnterKeepsPosted DEF QInv
<1>6. QED
  BY <1>3, <1>4, <1>5 DEF QInv

----------------------------------------------------------------------------
\* Returning from the shim: the rank's call is cleared and no other changes.
LEMMA ReturnTypes ==
  ASSUME TypeOK, NEW r \in Rank, Return(r)
  PROVE  /\ call' \in [Rank -> CallRecord]
         /\ call'[r].op = "none"
         /\ \A q \in Rank :
              /\ q # r => call'[q] = call[q]
              /\ ~Idle(q)' => call'[q].tag \in Tag
              /\ call'[q].op = "csend" => call'[q].arg \in Val
              /\ call'[q].op \in {"epr", "posted"} => call'[q].arg \in {q} \X Qubit
              /\ call'[q].op = "posted" => q < call'[q].peer
<1>1. NoCall \in CallRecord /\ NoCall.op = "none"
  BY NPAssumption DEF NoCall, CallRecord, Peer
<1>2. call' = [call EXCEPT ![r] = NoCall]
  BY DEF Return
<1>3. call' \in [Rank -> CallRecord] /\ call'[r] = NoCall
  BY <1>1, <1>2 DEF TypeOK
<1>4. \A q \in Rank : q # r => call'[q] = call[q]
  BY <1>2 DEF TypeOK
<1>5. QED
  BY <1>1, <1>3, <1>4 DEF TypeOK, Idle

\* A rank that returns and has not posted disturbs no posted entry.
LEMMA ReturnKeepsPosted ==
  ASSUME TypeOK, PostedRankWaits, NEW r \in Rank, Return(r),
         call[r].op # "posted", UNCHANGED epr_pair
  PROVE  PostedRankWaits'
BY ReturnTypes DEF PostedRankWaits

\* The record of a rank whose qubit is posted, field by field.
LEMMA PostedFields ==
  ASSUME PostedRankWaits, NEW d \in Chan, epr_pair[d] # None
  PROVE  /\ d[1] \in Rank /\ d[1] < d[2]
         /\ call[d[1]].op = "posted" /\ call[d[1]].peer = d[2]
         /\ call[d[1]].tag = d[3] /\ call[d[1]].arg = epr_pair[d]
<1>1. /\ d[1] \in Rank /\ d[1] < d[2]
      /\ call[d[1]] = [op |-> "posted", peer |-> d[2], tag |-> d[3],
                       arg |-> epr_pair[d]]
  BY DEF PostedRankWaits
<1>2. QED
  BY <1>1

LEMMA CsendReturnKeeps ==
  ASSUME QInv, NEW r \in Rank, CsendReturn(r)
  PROVE  QInv'
<1> USE RankFacts
<1> DEFINE c == <<r, call[r].peer, call[r].tag>>
           v == call[r].arg
<1>1. /\ c \in Chan /\ v \in Val /\ call[r].op = "csend"
      /\ mailbox[c] = None
      /\ mailbox' = [mailbox EXCEPT ![c] = v]
      /\ sent' = [sent EXCEPT ![c] = Append(@, v)]
      /\ UNCHANGED <<epr_pair, calls, aborted, rcvd, made>>
  BY DEF QInv, TypeOK, Idle, CallRecord, CsendReturn, Csend, Chan
<1>2. TypeOK'
  <2>1. MailboxType' /\ sent' \in [Chan -> Seq(Val)]
    BY <1>1 DEF QInv, TypeOK, MailboxType
  <2>2. QED
    BY <1>1, <2>1, ReturnTypes DEF CsendReturn, QInv, TypeOK
<1>3. FifoDelivery'
  <2> SUFFICES ASSUME NEW d \in Chan
               PROVE  sent'[d] = IF mailbox'[d] = None THEN rcvd'[d]
                                 ELSE Append(rcvd'[d], mailbox'[d])
    BY DEF FifoDelivery
  <2>1. CASE d = c
    <3>1. sent[c] = rcvd[c]
      BY <1>1 DEF QInv, FifoDelivery
    <3>2. mailbox'[c] = v /\ sent'[c] = Append(sent[c], v) /\ v # None
      BY <1>1 DEF QInv, TypeOK, MailboxType
    <3>3. QED
      BY <1>1, <2>1, <3>1, <3>2
  <2>2. CASE d # c
    BY <1>1, <2>2 DEF QInv, TypeOK, MailboxType, FifoDelivery
  <2>3. QED
    BY <2>1, <2>2
<1>4. PostedRankWaits'
  BY <1>1, ReturnKeepsPosted DEF CsendReturn, QInv
<1>5. QED
  BY <1>2, <1>3, <1>4 DEF QInv

LEMMA CrecvReturnKeeps ==
  ASSUME QInv, NEW r \in Rank, CrecvReturn(r)
  PROVE  QInv'
<1> USE RankFacts
<1> DEFINE c == <<call[r].peer, r, call[r].tag>>
<1>1. PICK v \in Val :
        /\ v = mailbox[c] /\ mailbox[c] # None
        /\ mailbox' = [mailbox EXCEPT ![c] = None]
        /\ rcvd' = [rcvd EXCEPT ![c] = Append(@, v)]
  BY DEF CrecvReturn, Crecv
<1>2. /\ c \in Chan /\ call[r].op = "crecv"
      /\ UNCHANGED <<epr_pair, calls, aborted, sent, made>>
  BY DEF QInv, TypeOK, Idle, CallRecord, CrecvReturn, Chan
<1>3. TypeOK'
  <2>1. MailboxType' /\ rcvd' \in [Chan -> Seq(Val)]
    BY <1>1, <1>2 DEF QInv, TypeOK, MailboxType
  <2>2. QED
    BY <1>2, <2>1, ReturnTypes DEF CrecvReturn, QInv, TypeOK
<1>4. FifoDelivery'
  <2> SUFFICES ASSUME NEW d \in Chan
               PROVE  sent'[d] = IF mailbox'[d] = None THEN rcvd'[d]
                                 ELSE Append(rcvd'[d], mailbox'[d])
    BY DEF FifoDelivery
  <2>1. CASE d = c
    <3>1. sent[c] = Append(rcvd[c], v)
      BY <1>1, <1>2 DEF QInv, FifoDelivery
    <3>2. mailbox'[c] = None /\ rcvd'[c] = Append(rcvd[c], v)
      BY <1>1, <1>2 DEF QInv, TypeOK, MailboxType
    <3>3. QED
      BY <1>2, <2>1, <3>1, <3>2
  <2>2. CASE d # c
    BY <1>1, <1>2, <2>2 DEF QInv, TypeOK, MailboxType, FifoDelivery
  <2>3. QED
    BY <2>1, <2>2
<1>5. PostedRankWaits'
  BY <1>2, ReturnKeepsPosted DEF CrecvReturn, QInv
<1>6. QED
  BY <1>3, <1>4, <1>5 DEF QInv

LEMMA EprPostKeeps ==
  ASSUME QInv, NEW r \in Rank, EprPost(r)
  PROVE  QInv'
<1> USE RankFacts
<1> DEFINE c == <<r, call[r].peer, call[r].tag>>
           rec == [call[r] EXCEPT !.op = "posted"]
<1>1. /\ c \in Chan /\ EprKey(r) = c /\ call[r].op = "epr"
      /\ call[r].arg \in {r} \X Qubit /\ r < call[r].peer
      /\ call[r] \in CallRecord
  BY DEF QInv, TypeOK, Idle, CallRecord, EprPost, EprKey, Chan
<1>2. /\ epr_pair' = [epr_pair EXCEPT ![c] = call[r].arg]
      /\ call' = [call EXCEPT ![r] = rec]
      /\ UNCHANGED <<mailbox, calls, aborted, sent, rcvd, made>>
  BY <1>1 DEF EprPost
<1>3. rec \in CallRecord /\ rec = [op |-> "posted", peer |-> call[r].peer,
                                   tag |-> call[r].tag, arg |-> call[r].arg]
  BY <1>1 DEF CallRecord
<1>4. call' \in [Rank -> CallRecord] /\ call'[r] = rec
  BY <1>2, <1>3 DEF QInv, TypeOK
<1>5. \A q \in Rank : q # r => call'[q] = call[q]
  BY <1>2 DEF QInv, TypeOK
<1>6. TypeOK'
  <2>1. epr_pair' \in [Chan -> OwnQubit \cup {None}]
    BY <1>1, <1>2 DEF QInv, TypeOK
  <2>2. \A q \in Rank :
          /\ ~Idle(q)' => call'[q].tag \in Tag
          /\ call'[q].op = "csend" => call'[q].arg \in Val
          /\ call'[q].op \in {"epr", "posted"} => call'[q].arg \in {q} \X Qubit
          /\ call'[q].op = "posted" => q < call'[q].peer
    <3> SUFFICES ASSUME NEW q \in Rank
                 PROVE  /\ ~Idle(q)' => call'[q].tag \in Tag
                        /\ call'[q].op = "csend" => call'[q].arg \in Val
                        /\ call'[q].op \in {"epr", "posted"}
                             => call'[q].arg \in {q} \X Qubit
                        /\ call'[q].op = "posted" => q < call'[q].peer
      OBVIOUS
    <3>1. CASE q = r
      BY <1>1, <1>3, <1>4, <3>1, ZenonT(60) DEF QInv, TypeOK, Idle
    <3>2. CASE q # r
      BY <1>5, <3>2 DEF QInv, TypeOK, Idle
    <3>3. QED
      BY <3>1, <3>2
  <2>3. QED
    BY <1>2, <1>4, <2>1, <2>2 DEF QInv, TypeOK, MailboxType
<1>7. FifoDelivery'
  BY <1>2 DEF QInv, FifoDelivery
<1>8. PostedRankWaits'
  <2> SUFFICES ASSUME NEW d \in Chan, epr_pair'[d] # None
               PROVE  /\ d[1] \in Rank
                      /\ d[1] < d[2]
                      /\ call'[d[1]] = [op |-> "posted", peer |-> d[2],
                                        tag |-> d[3], arg |-> epr_pair'[d]]
    BY DEF PostedRankWaits
  <2>1. CASE d = c
    BY <1>1, <1>2, <1>3, <1>4, <2>1 DEF QInv, TypeOK
  <2>2. CASE d # c
    <3>1. epr_pair'[d] = epr_pair[d]
      BY <1>2, <2>2 DEF QInv, TypeOK
    <3>2. d[1] # r
      BY <1>1, <3>1, PostedFields DEF QInv
    <3>3. QED
      BY <1>5, <3>1, <3>2 DEF QInv, PostedRankWaits
  <2>3. QED
    BY <2>1, <2>2
<1>9. QED
  BY <1>6, <1>7, <1>8 DEF QInv

LEMMA EprPostedKeeps ==
  ASSUME QInv, NEW r \in Rank, EprPosted(r)
  PROVE  QInv'
<1> USE RankFacts
<1>1. /\ Return(r) /\ call[r].op = "posted" /\ epr_pair[EprKey(r)] = None
      /\ UNCHANGED <<mailbox, epr_pair, calls, aborted, sent, rcvd, made>>
  BY DEF EprPosted
<1>2. TypeOK'
  BY <1>1, ReturnTypes DEF QInv, TypeOK, MailboxType
<1>3. FifoDelivery'
  BY <1>1 DEF QInv, FifoDelivery
<1>4. PostedRankWaits'
  <2> SUFFICES ASSUME NEW d \in Chan, epr_pair[d] # None
               PROVE  d[1] # r
    BY <1>1, ReturnTypes DEF QInv, PostedRankWaits
  <2>1. SUFFICES ASSUME d[1] = r PROVE FALSE
    OBVIOUS
  <2>2. call[r].peer = d[2] /\ call[r].tag = d[3] /\ r < d[2]
    BY <2>1, PostedFields DEF QInv
  <2>3. EprKey(r) = d
    BY <2>1, <2>2 DEF EprKey, Chan
  <2>4. QED
    BY <1>1, <2>3
<1>5. QED
  BY <1>2, <1>3, <1>4 DEF QInv

LEMMA EprTakeKeeps ==
  ASSUME QInv, NEW r \in Rank, EprTake(r)
  PROVE  QInv'
<1> USE RankFacts
<1> DEFINE c == <<call[r].peer, r, call[r].tag>>
<1>1. /\ c \in Chan /\ EprKey(r) = c /\ call[r].op = "epr" /\ Return(r)
      /\ call[r].arg \in {r} \X Qubit
      /\ epr_pair[c] # None
      /\ epr_pair' = [epr_pair EXCEPT ![c] = None]
      /\ UNCHANGED <<mailbox, calls, aborted, sent, rcvd>>
  <2>1. /\ call[r] \in CallRecord /\ call[r].op = "epr"
        /\ call[r].peer \in Peer /\ call[r].tag \in Tag /\ r > call[r].peer
        /\ call[r].arg \in {r} \X Qubit
    BY DEF QInv, TypeOK, Idle, CallRecord, EprTake
  <2>2. EprKey(r) = c /\ c \in Chan
    BY <2>1 DEF EprKey, Chan
  <2>3. QED
    BY <2>1, <2>2 DEF EprTake
<1>2. call[r].peer \in Rank
  BY <1>1 DEF QInv, PostedRankWaits
<1>3. TypeOK'
  <2>1. epr_pair' \in [Chan -> OwnQubit \cup {None}]
    BY <1>1 DEF QInv, TypeOK
  <2>2. /\ epr_pair[c] \in OwnQubit /\ call[r].arg \in OwnQubit
        /\ calls[call[r].peer] \in Nat /\ calls[r] \in Nat
    BY <1>1, <1>2, MaxCallsAssumption DEF QInv, TypeOK
  <2>3. made' = Append(made, [key |-> c, low |-> epr_pair[c],
                              high |-> call[r].arg,
                              lowCall |-> calls[call[r].peer],
                              highCall |-> calls[r]])
    BY <1>1 DEF EprTake
  <2>4. made' \in Seq([key : Chan, low : OwnQubit, high : OwnQubit,
                       lowCall : Nat, highCall : Nat])
    BY <1>1, <2>2, <2>3 DEF QInv, TypeOK
  <2>5. QED
    BY <1>1, <2>1, <2>4, ReturnTypes DEF QInv, TypeOK, MailboxType
<1>4. FifoDelivery'
  BY <1>1 DEF QInv, FifoDelivery
<1>5. PostedRankWaits'
  <2> SUFFICES ASSUME NEW d \in Chan, epr_pair'[d] # None
               PROVE  epr_pair'[d] = epr_pair[d] /\ d[1] # r
    BY ReturnTypes, <1>1 DEF QInv, PostedRankWaits
  <2>1. epr_pair'[d] = epr_pair[d]
    BY <1>1 DEF QInv, TypeOK
  <2>2. d[1] # r
    BY <1>1, <2>1, PostedFields DEF QInv
  <2>3. QED
    BY <2>1, <2>2
<1>6. QED
  BY <1>3, <1>4, <1>5 DEF QInv

LEMMA NextKeeps == QInv /\ [Next]_qmpiVars => QInv'
<1> SUFFICES ASSUME QInv, [Next]_qmpiVars PROVE QInv'
  OBVIOUS
<1>1. ASSUME NEW r \in Rank, Program(r) PROVE QInv'
  BY <1>1, CallKeeps DEF Program
<1>2. ASSUME NEW r \in Rank, Progress(r) PROVE QInv'
  BY <1>2, CsendReturnKeeps, CrecvReturnKeeps, EprPostKeeps, EprPostedKeeps,
     EprTakeKeeps DEF Progress
<1>3. CASE UNCHANGED qmpiVars
  BY <1>3 DEF qmpiVars, QInv, TypeOK, MailboxType, Idle, FifoDelivery,
     PostedRankWaits
<1>4. QED
  BY <1>1, <1>2, <1>3 DEF Next

LEMMA Invariance == Spec => []QInv
BY InitQInv, NextKeeps, PTL DEF Spec

----------------------------------------------------------------------------
\* Every variable keeps its type under every program.
THEOREM TypeCorrect == Spec => []TypeOK
<1>1. QInv => TypeOK
  BY DEF QInv
<1>2. QED
  BY <1>1, Invariance, PTL

\* The one-slot mailbox delivers what was sent on a channel once and in
\* order, whatever the ranks' programs do.
THEOREM DeliveryInOrder == Spec => []FifoDelivery
<1>1. QInv => FifoDelivery
  BY DEF QInv
<1>2. QED
  BY <1>1, Invariance, PTL

\* The owner of a posted qubit is inside the create_epr that posted it.
THEOREM PostedOwnerWaits == Spec => []PostedRankWaits
<1>1. QInv => PostedRankWaits
  BY DEF QInv
<1>2. QED
  BY <1>1, Invariance, PTL

----------------------------------------------------------------------------
(***************************************************************************)
(* Which call an EPR gate is of.  A gate is of calls that have been        *)
(* entered; if one of them is still the rank's last, then the rank has     *)
(* returned from it, or waits as the lower rank on an entry already taken. *)
(* And a lower rank that waits either still has its qubit in the map or    *)
(* has been given its gate.                                                *)
(***************************************************************************)
WaitsOn(c, key) == c.op = "posted" /\ c.peer = key[2] /\ c.tag = key[3]

GatesAreOfCalls ==
  \A i \in 1 .. Len(made) :
    LET g == made[i]  low == g.key[1]  high == g.key[2]
    IN  /\ low \in Rank /\ high \in Rank /\ low < high
        /\ g.lowCall <= calls[low]
        /\ g.lowCall = calls[low] =>
             \/ Idle(low)
             \/ WaitsOn(call[low], g.key) /\ epr_pair[g.key] = None
        /\ g.highCall <= calls[high]
        /\ g.highCall = calls[high] => Idle(high)

Joined(r) ==
  \E i \in 1 .. Len(made) :
    made[i].key = EprKey(r) /\ made[i].low = call[r].arg /\ made[i].lowCall = calls[r]

PostedIsHeldOrJoined ==
  \A r \in Rank :
    call[r].op = "posted" => epr_pair[EprKey(r)] = call[r].arg \/ Joined(r)

GInv == GatesAreOfCalls /\ PostedIsHeldOrJoined /\ OneGatePerCall

Gate == [key : Chan, low : OwnQubit, high : OwnQubit, lowCall : Nat, highCall : Nat]

LEMMA GateTypes ==
  ASSUME TypeOK
  PROVE  /\ made \in Seq(Gate)
         /\ Len(made) \in Nat
         /\ \A i \in 1 .. Len(made) : made[i] \in Gate
         /\ \A r \in Rank : calls[r] \in Nat
<1>1. made \in Seq(Gate)
  BY DEF TypeOK, Gate
<1>2. \A r \in Rank : calls[r] \in Nat
  BY MaxCallsAssumption DEF TypeOK
<1>3. QED
  BY <1>1, <1>2

\* The key of a rank that changes nothing is what it was.
LEMMA SameKey ==
  ASSUME NEW r, call'[r] = call[r]
  PROVE  EprKey(r)' = EprKey(r)
BY DEF EprKey

\* A step of rank r that is neither a post nor a gate, and after which r has not
\* posted: it enters a new call, or leaves the one it is in.
LEMMA StepKeepsGates ==
  ASSUME QInv, GInv, NEW r \in Rank,
         UNCHANGED <<epr_pair, made>>,
         \A q \in Rank : q # r => call'[q] = call[q] /\ calls'[q] = calls[q],
         call'[r].op # "posted",
         \/ calls'[r] = calls[r] + 1
         \/ calls'[r] = calls[r] /\ call'[r].op = "none"
  PROVE  GInv'
<1>1. GatesAreOfCalls'
  <2> SUFFICES ASSUME NEW i \in 1 .. Len(made)
               PROVE  LET g == made[i]  low == g.key[1]  high == g.key[2]
                      IN  /\ low \in Rank /\ high \in Rank /\ low < high
                          /\ g.lowCall <= calls'[low]
                          /\ g.lowCall = calls'[low] =>
                               \/ Idle(low)'
                               \/ WaitsOn(call'[low], g.key) /\ epr_pair[g.key] = None
                          /\ g.highCall <= calls'[high]
                          /\ g.highCall = calls'[high] => Idle(high)'
    BY DEF GatesAreOfCalls, WaitsOn
  <2> DEFINE g == made[i]
             low == g.key[1]
             high == g.key[2]
  <2>1. g \in Gate /\ g.lowCall \in Nat /\ g.highCall \in Nat
    BY GateTypes DEF QInv, Gate
  <2>2. /\ low \in Rank /\ high \in Rank /\ low < high
        /\ g.lowCall <= calls[low]
        /\ g.lowCall = calls[low] =>
             \/ Idle(low)
             \/ WaitsOn(call[low], g.key) /\ epr_pair[g.key] = None
        /\ g.highCall <= calls[high]
        /\ g.highCall = calls[high] => Idle(high)
    BY DEF GInv, GatesAreOfCalls, WaitsOn
  <2>3. calls[r] \in Nat
    BY GateTypes DEF QInv
  <2>4. /\ g.lowCall <= calls'[low]
        /\ g.lowCall = calls'[low] =>
             \/ Idle(low)'
             \/ WaitsOn(call'[low], g.key) /\ epr_pair[g.key] = None
    <3>1. CASE low = r
      BY <2>1, <2>2, <2>3, <3>1 DEF Idle, WaitsOn
    <3>2. CASE low # r
      BY <2>2, <3>2 DEF Idle, WaitsOn
    <3>3. QED
      BY <3>1, <3>2
  <2>5. /\ g.highCall <= calls'[high]
        /\ g.highCall = calls'[high] => Idle(high)'
    <3>1. CASE high = r
      BY <2>1, <2>2, <2>3, <3>1 DEF Idle, WaitsOn
    <3>2. CASE high # r
      BY <2>2, <3>2 DEF Idle, WaitsOn
    <3>3. QED
      BY <3>1, <3>2
  <2>6. QED
    BY <2>2, <2>4, <2>5
<1>2. PostedIsHeldOrJoined'
  <2> SUFFICES ASSUME NEW q \in Rank, call'[q].op = "posted"
               PROVE  epr_pair[EprKey(q)'] = call'[q].arg \/ Joined(q)'
    BY DEF PostedIsHeldOrJoined
  <2>1. q # r /\ call'[q] = call[q] /\ calls'[q] = calls[q] /\ EprKey(q)' = EprKey(q)
    BY SameKey
  <2>2. epr_pair[EprKey(q)] = call[q].arg \/ Joined(q)
    BY <2>1 DEF GInv, PostedIsHeldOrJoined
  <2>3. Joined(q) => Joined(q)'
    BY <2>1 DEF Joined
  <2>4. QED
    BY <2>1, <2>2, <2>3
<1>3. OneGatePerCall'
  BY DEF GInv, OneGatePerCall, CallsOf
<1>4. QED
  BY <1>1, <1>2, <1>3 DEF GInv

LEMMA CallKeepsGates ==
  ASSUME QInv, GInv, NEW r \in Rank, Program(r)
  PROVE  GInv'
<1>1. PICK op \in {"csend", "crecv", "epr"} : \E p, t, a : Enter(r, op, p, t, a)
  BY DEF Program, CallCsend, CallCrecv, CallEpr
<1>2. UNCHANGED <<epr_pair, made>>
  BY DEF Program, CallCsend, CallCrecv, CallEpr
<1>3. /\ \A q \in Rank : q # r => call'[q] = call[q] /\ calls'[q] = calls[q]
      /\ call'[r].op = op
      /\ calls'[r] = calls[r] + 1
  BY <1>1 DEF Enter, QInv, TypeOK
<1>4. QED
  BY <1>1, <1>2, <1>3, StepKeepsGates

LEMMA LeaveKeepsGates ==
  ASSUME QInv, GInv, NEW r \in Rank, Return(r), UNCHANGED <<epr_pair, calls, made>>
  PROVE  GInv'
<1>1. /\ \A q \in Rank : q # r => call'[q] = call[q]
      /\ call'[r].op = "none"
  BY ReturnTypes DEF QInv
<1>2. QED
  BY <1>1, StepKeepsGates

LEMMA EprPostKeepsGates ==
  ASSUME QInv, GInv, NEW r \in Rank, EprPost(r)
  PROVE  GInv'
<1> USE RankFacts
<1> DEFINE c == EprKey(r)
<1>1. /\ c \in Chan /\ c[1] = r /\ c = <<r, call[r].peer, call[r].tag>>
      /\ call[r] \in CallRecord /\ call[r].op = "epr"
  BY DEF QInv, TypeOK, Idle, CallRecord, EprPost, EprKey, Chan
<1>2. /\ epr_pair' = [epr_pair EXCEPT ![c] = call[r].arg]
      /\ call' = [call EXCEPT ![r].op = "posted"]
      /\ UNCHANGED <<calls, made>>
  BY DEF EprPost
<1>3. /\ \A q \in Rank : q # r => call'[q] = call[q]
      /\ call'[r] = [call[r] EXCEPT !.op = "posted"]
      /\ \A d \in Chan : d # c => epr_pair'[d] = epr_pair[d]
      /\ epr_pair'[c] = call[r].arg
  BY <1>1, <1>2 DEF QInv, TypeOK
<1>4. GatesAreOfCalls'
  <2> SUFFICES ASSUME NEW i \in 1 .. Len(made)
               PROVE  LET g == made[i]  low == g.key[1]  high == g.key[2]
                      IN  /\ low \in Rank /\ high \in Rank /\ low < high
                          /\ g.lowCall <= calls[low]
                          /\ g.lowCall = calls[low] =>
                               \/ call'[low].op = "none"
                               \/ WaitsOn(call'[low], g.key) /\ epr_pair'[g.key] = None
                          /\ g.highCall <= calls[high]
                          /\ g.highCall = calls[high] => call'[high].op = "none"
    BY <1>2 DEF GatesAreOfCalls, Idle, WaitsOn
  <2> DEFINE g == made[i]
             low == g.key[1]
             high == g.key[2]
  <2>1. g.key \in Chan
    BY GateTypes DEF QInv, Gate
  <2>2. /\ low \in Rank /\ high \in Rank /\ low < high
        /\ g.lowCall <= calls[low]
        /\ g.lowCall = calls[low] =>
             \/ Idle(low)
             \/ WaitsOn(call[low], g.key) /\ epr_pair[g.key] = None
        /\ g.highCall <= calls[high]
        /\ g.highCall = calls[high] => Idle(high)
    BY DEF GInv, GatesAreOfCalls, WaitsOn
  <2>3. g.lowCall = calls[low] => low # r
    BY <1>1, <2>2 DEF Idle, WaitsOn
  <2>4. g.highCall = calls[high] => high # r
    BY <1>1, <2>2 DEF Idle, WaitsOn
  <2>5. low # r => g.key # c
    BY <1>1
  <2>6. g.lowCall = calls[low] =>
          \/ call'[low].op = "none"
          \/ WaitsOn(call'[low], g.key) /\ epr_pair'[g.key] = None
    BY <1>3, <2>1, <2>2, <2>3, <2>5 DEF Idle, WaitsOn
  <2>7. g.highCall = calls[high] => call'[high].op = "none"
    BY <1>3, <2>2, <2>4 DEF Idle, WaitsOn
  <2>8. QED
    BY <2>2, <2>6, <2>7
<1>5. PostedIsHeldOrJoined'
  <2> SUFFICES ASSUME NEW q \in Rank, call'[q].op = "posted"
               PROVE  epr_pair'[EprKey(q)'] = call'[q].arg \/ Joined(q)'
    BY DEF PostedIsHeldOrJoined
  <2>1. CASE q = r
    <3>1. call'[r].peer = call[r].peer /\ call'[r].tag = call[r].tag /\ call'[r].arg = call[r].arg
      BY <1>1, <1>3 DEF CallRecord
    <3>2. EprKey(r)' = c
      BY <3>1 DEF EprKey
    <3>3. QED
      BY <1>3, <2>1, <3>1, <3>2
  <2>2. CASE q # r
    <3>1. call'[q] = call[q] /\ EprKey(q)' = EprKey(q) /\ call[q].op = "posted"
      BY <1>3, <2>2, SameKey
    <3>2. EprKey(q)[1] = q /\ EprKey(q) \in Chan
      BY <3>1 DEF QInv, TypeOK, Idle, CallRecord, EprKey, Chan
    <3>3. epr_pair'[EprKey(q)] = epr_pair[EprKey(q)]
      BY <1>1, <1>3, <2>2, <3>2
    <3>4. Joined(q) => Joined(q)'
      BY <1>2, <3>1 DEF Joined
    <3>5. QED
      BY <3>1, <3>3, <3>4 DEF GInv, PostedIsHeldOrJoined
  <2>3. QED
    BY <2>1, <2>2
<1>6. OneGatePerCall'
  BY <1>2 DEF GInv, OneGatePerCall, CallsOf
<1>7. QED
  BY <1>4, <1>5, <1>6 DEF GInv

\* The gate the higher rank runs joins its own call and that of the owner of
\* the entry, neither of which has had a gate before.
LEMMA EprTakeKeepsGates ==
  ASSUME QInv, GInv, NEW r \in Rank, EprTake(r)
  PROVE  GInv'
<1> USE RankFacts
<1> DEFINE p == call[r].peer
           c == EprKey(r)
           new == [key |-> c, low |-> epr_pair[c], high |-> call[r].arg,
                   lowCall |-> calls[p], highCall |-> calls[r]]
<1>1. /\ c \in Chan /\ c = <<p, r, call[r].tag>> /\ p < r
      /\ call[r].op = "epr" /\ call[r].arg \in {r} \X Qubit
      /\ epr_pair[c] # None
  BY DEF QInv, TypeOK, Idle, CallRecord, EprTake, EprKey, Chan
<1>2. /\ epr_pair' = [epr_pair EXCEPT ![c] = None]
      /\ made' = Append(made, new)
      /\ Return(r)
      /\ UNCHANGED calls
  BY DEF EprTake
<1>3. /\ p \in Rank /\ call[p].op = "posted" /\ call[p].peer = r
      /\ call[p].tag = call[r].tag /\ call[p].arg = epr_pair[c]
  BY <1>1, PostedFields DEF QInv
<1>4. EprKey(p) = c
  BY <1>1, <1>3 DEF EprKey
<1>5. epr_pair[c] \in {p} \X Qubit
  BY <1>3 DEF QInv, TypeOK
<1>6. /\ \A q \in Rank : q # r => call'[q] = call[q]
      /\ call'[r].op = "none"
      /\ \A d \in Chan : d # c => epr_pair'[d] = epr_pair[d]
      /\ epr_pair'[c] = None
  BY <1>1, <1>2, ReturnTypes DEF QInv, TypeOK
<1>7. /\ Len(made') = Len(made) + 1
      /\ \A i \in 1 .. Len(made) : made'[i] = made[i]
      /\ made'[Len(made) + 1] = new
      /\ Len(made) \in Nat
  BY <1>2, GateTypes DEF QInv
<1>8. \A i \in 1 .. Len(made') :
        \/ i \in 1 .. Len(made) /\ made'[i] = made[i]
        \/ i = Len(made) + 1 /\ made'[i] = new
  BY <1>7
<1>9. calls[p] \in Nat /\ calls[r] \in Nat
  BY <1>3, GateTypes, SMTT(40) DEF QInv
<1>10. GatesAreOfCalls'
  <2> DEFINE Of(g) ==
        /\ g.key[1] \in Rank /\ g.key[2] \in Rank /\ g.key[1] < g.key[2]
        /\ g.lowCall <= calls[g.key[1]]
        /\ g.lowCall = calls[g.key[1]] =>
             \/ call'[g.key[1]].op = "none"
             \/ WaitsOn(call'[g.key[1]], g.key) /\ epr_pair'[g.key] = None
        /\ g.highCall <= calls[g.key[2]]
        /\ g.highCall = calls[g.key[2]] => call'[g.key[2]].op = "none"
  <2>1. Of(new)
    BY <1>1, <1>3, <1>6, <1>9 DEF Idle, WaitsOn
  <2>2. ASSUME NEW i \in 1 .. Len(made) PROVE Of(made[i])
    <3> DEFINE g == made[i]
               low == g.key[1]
               high == g.key[2]
    <3>1. /\ low \in Rank /\ high \in Rank /\ low < high
          /\ g.lowCall <= calls[low]
          /\ g.lowCall = calls[low] =>
               \/ Idle(low)
               \/ WaitsOn(call[low], g.key) /\ epr_pair[g.key] = None
          /\ g.highCall <= calls[high]
          /\ g.highCall = calls[high] => Idle(high)
      BY DEF GInv, GatesAreOfCalls, WaitsOn
    <3>2. g.key \in Chan
      BY GateTypes DEF QInv, Gate
    <3>3. g.lowCall = calls[low] =>
            \/ call'[low].op = "none"
            \/ WaitsOn(call'[low], g.key) /\ epr_pair'[g.key] = None
      BY <1>6, <3>1, <3>2 DEF Idle, WaitsOn
    <3>4. g.highCall = calls[high] => call'[high].op = "none"
      BY <1>6, <3>1 DEF Idle, WaitsOn
    <3>5. QED
      BY <3>1, <3>3, <3>4
  <2>3. \A i \in 1 .. Len(made') : Of(made'[i])
    BY ZenonT(60), <1>8, <2>1, <2>2
  <2>4. QED
    BY <1>2, <2>3, SMTT(40) DEF GatesAreOfCalls, Idle, WaitsOn
<1>11. PostedIsHeldOrJoined'
  <2> SUFFICES ASSUME NEW q \in Rank, call'[q].op = "posted"
               PROVE  epr_pair'[EprKey(q)'] = call'[q].arg \/ Joined(q)'
    BY DEF PostedIsHeldOrJoined
  <2>1. q # r /\ call'[q] = call[q] /\ EprKey(q)' = EprKey(q)
    BY <1>6, SameKey
  <2>2. Joined(q) => Joined(q)'
    BY <1>2, <1>7, <2>1 DEF Joined
  <2>3. CASE EprKey(q) = c
    <3>1. q = p
      BY <1>1, <2>1, <2>3 DEF EprKey, QInv, TypeOK
    <3>2. made'[Len(made) + 1] = new /\ Len(made) + 1 \in 1 .. Len(made')
      BY <1>7
    <3>3. Joined(q)'
      BY <1>2, <1>3, <1>4, <2>1, <3>1, <3>2 DEF Joined
    <3>4. QED
      BY <3>3
  <2>4. CASE EprKey(q) # c
    <3>1. EprKey(q) \in Chan
      BY <2>1 DEF QInv, TypeOK, Idle, CallRecord, EprKey, Chan
    <3>2. epr_pair'[EprKey(q)] = epr_pair[EprKey(q)]
      BY <1>6, <2>4, <3>1
    <3>3. QED
      BY <2>1, <2>2, <3>2 DEF GInv, PostedIsHeldOrJoined
  <2>5. QED
    BY <2>3, <2>4
<1>12. OneGatePerCall'
  <2>1. ASSUME NEW j \in 1 .. Len(made)
        PROVE  CallsOf(new) \cap CallsOf(made[j]) = {}
    <3> DEFINE g == made[j]
               low == g.key[1]
               high == g.key[2]
    <3>1. /\ low \in Rank /\ high \in Rank
          /\ g.lowCall = calls[low] =>
               \/ Idle(low)
               \/ WaitsOn(call[low], g.key) /\ epr_pair[g.key] = None
          /\ g.highCall = calls[high] => Idle(high)
      BY DEF GInv, GatesAreOfCalls, WaitsOn
    <3>2. <<low, g.lowCall>> # <<r, calls[r]>> /\ <<high, g.highCall>> # <<r, calls[r]>>
      BY <1>1, <3>1 DEF Idle, WaitsOn
    <3>3. <<high, g.highCall>> # <<p, calls[p]>>
      BY <1>3, <3>1 DEF Idle, WaitsOn
    <3>4. <<low, g.lowCall>> # <<p, calls[p]>>
      <4>1. g.key \in Chan
        BY GateTypes DEF QInv, Gate
      <4>2. low = p /\ high = r /\ g.key[3] = call[r].tag => g.key = c
        BY <1>1, <4>1 DEF Chan
      <4>3. QED
        BY <1>1, <1>3, <3>1, <4>2 DEF Idle, WaitsOn
    <3>5. CallsOf(new) = {<<p, calls[p]>>, <<r, calls[r]>>}
      BY <1>1 DEF CallsOf
    <3>6. QED
      BY <3>2, <3>3, <3>4, <3>5 DEF CallsOf
  <2>2. new.low[1] = new.key[1] /\ new.high[1] = new.key[2] /\ new.low # new.high
    BY <1>1, <1>3, <1>5
  <2> SUFFICES ASSUME NEW i \in 1 .. Len(made')
               PROVE  /\ made'[i].low[1] = made'[i].key[1]
                      /\ made'[i].high[1] = made'[i].key[2]
                      /\ made'[i].low # made'[i].high
                      /\ \A j \in 1 .. i - 1 :
                           CallsOf(made'[i]) \cap CallsOf(made'[j]) = {}
    BY DEF OneGatePerCall, CallsOf
  <2>3. CASE i \in 1 .. Len(made)
    BY <1>7, <2>3 DEF GInv, OneGatePerCall, CallsOf
  <2>4. CASE i = Len(made) + 1
    BY <1>7, <2>1, <2>2, <2>4
  <2>5. QED
    BY <1>8, <2>3, <2>4
<1>13. QED
  BY <1>10, <1>11, <1>12 DEF GInv

LEMMA NextKeepsGates == QInv /\ GInv /\ [Next]_qmpiVars => GInv'
<1> SUFFICES ASSUME QInv, GInv, [Next]_qmpiVars PROVE GInv'
  OBVIOUS
<1>1. ASSUME NEW r \in Rank, CsendReturn(r) \/ CrecvReturn(r) \/ EprPosted(r)
      PROVE  GInv'
  BY <1>1, LeaveKeepsGates DEF CsendReturn, CrecvReturn, EprPosted
<1>2. ASSUME NEW r \in Rank, Program(r) \/ Progress(r) PROVE GInv'
  BY <1>1, <1>2, CallKeepsGates, EprPostKeepsGates, EprTakeKeepsGates DEF Progress
<1>3. CASE UNCHANGED qmpiVars
  BY <1>3 DEF qmpiVars, GInv, GatesAreOfCalls, PostedIsHeldOrJoined, Joined, EprKey,
     OneGatePerCall, CallsOf, Idle, WaitsOn
<1>4. QED
  BY <1>2, <1>3 DEF Next

LEMMA InitGInv == Init => GInv
BY NPAssumption DEF Init, NoCall, GInv, GatesAreOfCalls, PostedIsHeldOrJoined, OneGatePerCall

LEMMA GateInvariance == Spec => [](QInv /\ GInv)
BY InitQInv, InitGInv, NextKeeps, NextKeepsGates, PTL DEF Spec

----------------------------------------------------------------------------
\* A call of create_epr takes part in one EPR gate at most, on whichever side,
\* and the gate joins qubits of two ranks.
THEOREM OneGateForEachCall == Spec => []OneGatePerCall
<1>1. GInv => OneGatePerCall
  BY DEF GInv
<1>2. QED
  BY <1>1, GateInvariance, PTL

\* What the action property says of one step.
LEMMA LowReturnsJoined ==
  ASSUME QInv, GInv, [Next]_qmpiVars, NEW r \in Rank,
         call[r].op = "posted", call'[r].op = "none"
  PROVE  Joined(r)
<1>1. EprPosted(r)
  <2>1. ASSUME NEW q \in Rank, Program(q) PROVE FALSE
    <3>1. PICK op \in {"csend", "crecv", "epr"} : \E p, t, a : Enter(q, op, p, t, a)
      BY <2>1 DEF Program, CallCsend, CallCrecv, CallEpr
    <3>2. QED
      BY <3>1 DEF Enter, Idle, QInv, TypeOK
  <2>2. ASSUME NEW q \in Rank, q # r, Progress(q) PROVE FALSE
    BY <2>2 DEF Progress, CsendReturn, CrecvReturn, EprPost, EprPosted, EprTake, Return,
       QInv, TypeOK
  <2>3. ~UNCHANGED qmpiVars
    BY DEF qmpiVars
  <2>4. Progress(r)
    BY <2>1, <2>2, <2>3 DEF Next
  <2>5. QED
    BY <2>4 DEF Progress, CsendReturn, CrecvReturn, EprPost, EprTake
<1>2. call[r].arg # None
  BY NoQubitAssumption DEF QInv, TypeOK, Rank
<1>3. QED
  BY <1>1, <1>2 DEF EprPosted, GInv, PostedIsHeldOrJoined

\* The lower rank leaves create_epr only after the higher one has run the gate
\* of this very call on the qubit it posted.
THEOREM LowLeavesEntangled == Spec => LowReturnsEntangled
<1>1. QInv /\ GInv /\ [Next]_qmpiVars =>
        \A r \in Rank : call[r].op = "posted" /\ call'[r].op = "none" =>
          \E i \in 1 .. Len(made) :
            /\ made[i].key = EprKey(r)
            /\ made[i].low = call[r].arg
            /\ made[i].lowCall = calls[r]
  BY LowReturnsJoined DEF Joined
<1>2. QED
  BY <1>1, GateInvariance, PTL DEF Spec, LowReturnsEntangled
=============================================================================
