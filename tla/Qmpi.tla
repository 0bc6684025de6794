-------------------------------- MODULE Qmpi --------------------------------
(***************************************************************************)
(* The QMPI primitives of the simulator under programs that call them in   *)
(* any order: qmpi_csend, qmpi_crecv and qmpi_create_epr, executed by NP   *)
(* rank threads over one mutex-protected context.                          *)
(*                                                                         *)
(* A call is an entry step (arguments fixed, thread inside the shim) and   *)
(* the critical section in which it succeeds.  create_epr is the one with  *)
(* two roles: the lower rank posts its qubit and polls until the entry is  *)
(* gone, the higher rank polls until the entry is there, takes it and runs *)
(* the EPR gate before it unlocks.                                         *)
(***************************************************************************)
EXTENDS Mailbox, Sequences

CONSTANTS
  Qubit,      \* names of a rank's own qubits; rank r's qubit q is <<r, q>>
  MaxCalls    \* bound: calls a rank makes before its program ends

ASSUME MaxCallsAssumption == MaxCalls \in Nat
ASSUME NoQubitAssumption == None \notin (0 .. NP - 1) \X Qubit

VARIABLES
  epr_pair,   \* (lower rank, higher rank, tag) -> posted qubit, or None
  call,       \* the shim call each rank is inside
  calls,      \* calls each rank has entered so far
  aborted,    \* a panic anywhere aborts the process: the panic hook
  sent, rcvd, \* history: bits sent and received on each channel, in order
  made        \* history: the EPR gates run, in order, each with the call
              \* numbers of the two ranks whose qubits it joined

qmpiVars == <<mailbox, epr_pair, call, calls, aborted, sent, rcvd, made>>

OwnQubit == Rank \X Qubit

NoCall == [op |-> "none", peer |-> 0, tag |-> None, arg |-> None]

Idle(r) == call[r].op = "none"

\* A key that does not put the lower rank first.
EprKey_Unordered(r) == <<r, call[r].peer, call[r].tag>>

\* The key under which the rank inside create_epr meets its peer.
EprKey(r) ==
  IF r < call[r].peer THEN <<r, call[r].peer, call[r].tag>>
                      ELSE <<call[r].peer, r, call[r].tag>>

Init ==
  /\ MailboxInit
  /\ epr_pair = [c \in Chan |-> None]
  /\ call = [r \in Rank |-> NoCall]
  /\ calls = [r \in Rank |-> 0]
  /\ aborted = FALSE
  /\ sent = [c \in Chan |-> <<>>]
  /\ rcvd = [c \in Chan |-> <<>>]
  /\ made = <<>>

----------------------------------------------------------------------------
\* The program of rank r enters a shim function.
Enter(r, op, p, t, a) ==
  /\ ~aborted
  /\ Idle(r)
  /\ calls[r] < MaxCalls
  /\ calls' = [calls EXCEPT ![r] = @ + 1]
  /\ call' = [call EXCEPT ![r] = [op |-> op, peer |-> p, tag |-> t, arg |-> a]]

Return(r) == call' = [call EXCEPT ![r] = NoCall]

CallCsend(r, p, t, v) ==
  /\ Enter(r, "csend", p, t, v)
  /\ UNCHANGED <<mailbox, epr_pair, aborted, sent, rcvd, made>>

CallCrecv(r, p, t) ==
  /\ Enter(r, "crecv", p, t, None)
  /\ UNCHANGED <<mailbox, epr_pair, aborted, sent, rcvd, made>>

\* create_epr with a peer; the assertion rank # peer comes first.
CallEpr(r, p, t, q) ==
  /\ Enter(r, "epr", p, t, <<r, q>>)
  /\ aborted' = (r = p)
  /\ UNCHANGED <<mailbox, epr_pair, sent, rcvd, made>>

CsendReturn(r) ==
  LET c == <<r, call[r].peer, call[r].tag>> IN
  /\ ~aborted
  /\ call[r].op = "csend"
  /\ Csend(r, call[r].peer, call[r].tag, call[r].arg)
  /\ sent' = [sent EXCEPT ![c] = Append(@, call[r].arg)]
  /\ Return(r)
  /\ UNCHANGED <<epr_pair, calls, aborted, rcvd, made>>

CrecvReturn(r) ==
  LET c == <<call[r].peer, r, call[r].tag>> IN
  /\ ~aborted
  /\ call[r].op = "crecv"
  /\ \E v \in Val :
       /\ Crecv(call[r].peer, r, call[r].tag, v)
       /\ rcvd' = [rcvd EXCEPT ![c] = Append(@, v)]
  /\ Return(r)
  /\ UNCHANGED <<epr_pair, calls, aborted, sent, made>>

\* A post by whichever rank gets there.
EprPost_AnyRank(r) ==
  /\ ~aborted
  /\ call[r].op = "epr"
  /\ epr_pair' = [epr_pair EXCEPT ![EprKey(r)] = call[r].arg]
  /\ call' = [call EXCEPT ![r].op = "posted"]
  /\ UNCHANGED <<mailbox, calls, aborted, sent, rcvd, made>>

\* The lower rank posts its qubit; the insert overwrites without looking.
EprPost(r) ==
  /\ ~aborted
  /\ call[r].op = "epr"
  /\ r < call[r].peer
  /\ epr_pair' = [epr_pair EXCEPT ![EprKey(r)] = call[r].arg]
  /\ call' = [call EXCEPT ![r].op = "posted"]
  /\ UNCHANGED <<mailbox, calls, aborted, sent, rcvd, made>>

\* A lower rank that does not poll.
EprPosted_NoPoll(r) ==
  /\ ~aborted
  /\ call[r].op = "posted"
  /\ Return(r)
  /\ UNCHANGED <<mailbox, epr_pair, calls, aborted, sent, rcvd, made>>

\* The lower rank finds its entry gone and returns.
EprPosted(r) ==
  /\ ~aborted
  /\ call[r].op = "posted"
  /\ epr_pair[EprKey(r)] = None
  /\ Return(r)
  /\ UNCHANGED <<mailbox, epr_pair, calls, aborted, sent, rcvd, made>>

\* A gate that leaves the entry behind.
EprTake_Keeps(r) ==
  /\ ~aborted
  /\ call[r].op = "epr"
  /\ r > call[r].peer
  /\ epr_pair[EprKey(r)] # None
  /\ made' = Append(made, [key |-> EprKey(r),
                           low |-> epr_pair[EprKey(r)], high |-> call[r].arg,
                           lowCall |-> calls[call[r].peer],
                           highCall |-> calls[r]])
  /\ Return(r)
  /\ UNCHANGED <<mailbox, epr_pair, calls, aborted, sent, rcvd>>

\* The higher rank takes the entry and runs the gate in the same critical
\* section.
EprTake(r) ==
  /\ ~aborted
  /\ call[r].op = "epr"
  /\ r > call[r].peer
  /\ epr_pair[EprKey(r)] # None
  /\ made' = Append(made, [key |-> EprKey(r),
                           low |-> epr_pair[EprKey(r)], high |-> call[r].arg,
                           lowCall |-> calls[call[r].peer],
                           highCall |-> calls[r]])
  /\ epr_pair' = [epr_pair EXCEPT ![EprKey(r)] = None]
  /\ Return(r)
  /\ UNCHANGED <<mailbox, calls, aborted, sent, rcvd>>

----------------------------------------------------------------------------
\* What a thread inside the shim does next.
Progress(r) ==
  CsendReturn(r) \/ CrecvReturn(r) \/ EprPost(r) \/ EprPosted(r) \/ EprTake(r)

\* What a program asks for next.
Program(r) ==
  \E p \in Peer, t \in Tag :
    \/ \E v \in Val : CallCsend(r, p, t, v)
    \/ CallCrecv(r, p, t)
    \/ \E q \in Qubit : CallEpr(r, p, t, q)

Next == \E r \in Rank : Program(r) \/ Progress(r)

\* A thread inside the shim polls for ever; nothing makes a program call.
Fairness == \A r \in Rank : WF_qmpiVars(Progress(r))

Spec == Init /\ [][Next]_qmpiVars
FairSpec == Spec /\ Fairness

----------------------------------------------------------------------------
CallRecord ==
  [op : {"none", "csend", "crecv", "epr", "posted"}, peer : Peer,
   tag : Tag \cup {None}, arg : Val \cup OwnQubit \cup {None}]

\* Every variable keeps to the values its declaration promises, and a call
\* carries the arguments its function takes.
TypeOK ==
  /\ MailboxType
  /\ epr_pair \in [Chan -> OwnQubit \cup {None}]
  /\ call \in [Rank -> CallRecord]
  /\ \A r \in Rank :
       /\ ~Idle(r) => call[r].tag \in Tag
       /\ call[r].op = "csend" => call[r].arg \in Val
       /\ call[r].op \in {"epr", "posted"} => call[r].arg \in {r} \X Qubit
       /\ call[r].op = "posted" => r < call[r].peer
  /\ calls \in [Rank -> 0 .. MaxCalls]
  /\ aborted \in BOOLEAN
  /\ sent \in [Chan -> Seq(Val)]
  /\ rcvd \in [Chan -> Seq(Val)]
  /\ made \in Seq([key : Chan, low : OwnQubit, high : OwnQubit,
                   lowCall : Nat, highCall : Nat])

\* On each channel the bits received are the bits sent, in order, except for
\* the one still in its slot: polling under the lock neither loses a bit nor
\* overwrites, duplicates or reorders one.
FifoDelivery ==
  \A c \in Chan :
    sent[c] = IF mailbox[c] = None THEN rcvd[c] ELSE Append(rcvd[c], mailbox[c])

\* A posted qubit belongs to the rank that posted it, and that rank is still
\* inside that create_epr: no rank goes on to use or free a qubit another
\* rank may still pull into an EPR gate.
PostedRankWaits ==
  \A c \in Chan : epr_pair[c] # None =>
    /\ c[1] \in Rank
    /\ c[1] < c[2]
    /\ call[c[1]] = [op |-> "posted", peer |-> c[2], tag |-> c[3],
                     arg |-> epr_pair[c]]

\* The calls of create_epr an EPR gate is part of: rank and call number.
CallsOf(gate) == {<<gate.key[1], gate.lowCall>>, <<gate.key[2], gate.highCall>>}

\* An EPR gate joins a qubit of the lower rank to a qubit of the higher one
\* (so the checked device never sees one qubit twice in a gate), and a call of
\* create_epr, of whichever rank, takes part in one gate at most.
OneGatePerCall ==
  \A i \in 1 .. Len(made) :
    /\ made[i].low[1] = made[i].key[1]
    /\ made[i].high[1] = made[i].key[2]
    /\ made[i].low # made[i].high
    /\ \A j \in 1 .. i - 1 : CallsOf(made[i]) \cap CallsOf(made[j]) = {}

\* The lower rank leaves create_epr only when the higher one has run the gate
\* of this very call on the qubit it posted.
LowReturnsEntangled ==
  [][\A r \in Rank : call[r].op = "posted" /\ call'[r].op = "none" =>
       \E i \in 1 .. Len(made) :
         /\ made[i].key = EprKey(r)
         /\ made[i].low = call[r].arg
         /\ made[i].lowCall = calls[r]]_qmpiVars

\* A sender and a receiver that are inside matching calls both return: the
\* slot is theirs alone, so one poll succeeds and then the other does.
MatchedCallsReturn ==
  \A s \in Rank, r \in Rank, t \in Tag :
    LET Matched == /\ call[s].op = "csend" /\ call[s].peer = r /\ call[s].tag = t
                   /\ call[r].op = "crecv" /\ call[r].peer = s /\ call[r].tag = t
    IN  /\ Matched ~> (aborted \/ Idle(s))
        /\ Matched ~> (aborted \/ Idle(r))

\* Two ranks inside create_epr with each other and one tag both return,
\* whichever of them arrives first.
MatchedEprReturns ==
  \A a \in Rank, b \in Rank, t \in Tag :
    LET Matched == /\ a < b
                   /\ call[a].op = "epr" /\ call[a].peer = b /\ call[a].tag = t
                   /\ call[b].op = "epr" /\ call[b].peer = a /\ call[b].tag = t
    IN  /\ Matched ~> (aborted \/ Idle(a))
        /\ Matched ~> (aborted \/ Idle(b))
=============================================================================
