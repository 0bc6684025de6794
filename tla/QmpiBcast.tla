----------------------------- MODULE QmpiBcast -----------------------------
(***************************************************************************)
(* qmpi_bcastc of the distributed example, over the mailbox: a binomial    *)
(* broadcast of one bit from a root to all ranks.  Every rank calls it     *)
(* Calls times in a row, with a root and a value of its own for each call; *)
(* all calls use tag 42, so slots are shared between successive calls.     *)
(***************************************************************************)
EXTENDS Mailbox

CONSTANTS
  BcastTag,       \* the tag of every message (42)
  False,          \* the bit a call with a bad root returns
  Calls           \* bound: broadcasts in a row

ASSUME BcastAssumption ==
  /\ BcastTag \in Tag
  /\ False \in Val
  /\ Calls \in Nat \ {0}

VARIABLES
  root,     \* the root argument of each call, the same on every rank
  val,      \* the val argument each rank passes to each call
  n,        \* the call each rank is in
  known,    \* the local variable of that name
  res,      \* the local variable of that name
  returned  \* history: what each finished call returned on each rank

vars == <<mailbox, root, val, n, known, res, returned>>

\* A rank's number counted from the root.
RelRank(r) == (r - root[n[r]] + NP) % NP

Running(r) == n[r] <= Calls

Init ==
  /\ MailboxInit
  /\ root \in [1 .. Calls -> 0 .. NP]
  /\ val \in [1 .. Calls -> [Rank -> Val]]
  /\ n = [r \in Rank |-> 1]
  /\ known = [r \in Rank |-> 1]
  /\ res = [r \in Rank |-> val[1][r]]
  /\ returned = [k \in 1 .. Calls |-> [r \in Rank |-> None]]

\* The call returns b, and the next one starts.
Return(r, b) ==
  /\ returned' = [returned EXCEPT ![n[r]][r] = b]
  /\ n' = [n EXCEPT ![r] = @ + 1]
  /\ known' = [known EXCEPT ![r] = 1]
  /\ res' = [res EXCEPT ![r] = IF n[r] < Calls THEN val[n[r] + 1][r] ELSE @]
  /\ UNCHANGED <<mailbox, root, val>>

\* The sanity check: a root that is not a rank.
BadRoot(r) ==
  /\ Running(r)
  /\ root[n[r]] >= NP
  /\ Return(r, False)

\* The loop condition, with the check behind it.
InLoop(r) == Running(r) /\ root[n[r]] < NP /\ known[r] < NP

\* A sender that forgets that the last round may be incomplete.
Sends_Unbounded(r) == RelRank(r) < known[r]

Sends(r) == RelRank(r) < known[r] /\ RelRank(r) + known[r] < NP

\* A receiver range without its upper end: a rank waits in a round too early,
\* for a rank that has not been told anything yet.
Receives_Unbounded(r) == RelRank(r) >= known[r]

Receives(r) == known[r] <= RelRank(r) /\ RelRank(r) < known[r] * 2

Double(r) == known' = [known EXCEPT ![r] = @ * 2]

\* A sender that passes on its own argument.
SendHalf_OwnVal(r) ==
  /\ InLoop(r)
  /\ Sends(r)
  /\ Csend(r, (RelRank(r) + root[n[r]] + known[r]) % NP, BcastTag, val[n[r]][r])
  /\ Double(r)
  /\ UNCHANGED <<root, val, n, res, returned>>

\* The half of the ranks that know the bit tell the other half.
SendHalf(r) ==
  /\ InLoop(r)
  /\ Sends(r)
  /\ Csend(r, (RelRank(r) + root[n[r]] + known[r]) % NP, BcastTag, res[r])
  /\ Double(r)
  /\ UNCHANGED <<root, val, n, res, returned>>

RecvHalf(r) ==
  /\ InLoop(r)
  /\ Receives(r)
  /\ \E v \in Val :
       /\ Crecv((RelRank(r) + root[n[r]] - known[r] + NP) % NP, r, BcastTag, v)
       /\ res' = [res EXCEPT ![r] = v]
  /\ Double(r)
  /\ UNCHANGED <<root, val, n, returned>>

\* An iteration in which this rank neither sends nor receives.
PassHalf(r) ==
  /\ InLoop(r)
  /\ ~Sends(r)
  /\ ~Receives(r)
  /\ Double(r)
  /\ UNCHANGED <<mailbox, root, val, n, res, returned>>

Finish(r) ==
  /\ Running(r)
  /\ root[n[r]] < NP
  /\ known[r] >= NP
  /\ Return(r, res[r])

Step(r) == BadRoot(r) \/ SendHalf(r) \/ RecvHalf(r) \/ PassHalf(r) \/ Finish(r)

\* Every rank has run its program to the end, and the threads are joined.
Finished == \A r \in Rank : ~Running(r)

Next == (\E r \in Rank : Step(r)) \/ (Finished /\ UNCHANGED vars)

Fairness == \A r \in Rank : WF_vars(Step(r))

Spec == Init /\ [][Next]_vars
FairSpec == Spec /\ Fairness

----------------------------------------------------------------------------
\* "Send val from root to all the nodes": whatever a rank returns from a call
\* is the value its root passed to that very call, even when a rank that is
\* ahead has put a message of a later call under the same tag.
AllGetTheRootsValue ==
  \A k \in 1 .. Calls, r \in Rank :
    returned[k][r] # None =>
      returned[k][r] = IF root[k] < NP THEN val[k][root[k]] ELSE False

\* A finished sequence of broadcasts leaves no message behind for the next
\* user of the tag.
NothingLeftOver == Finished => \A c \in Chan : mailbox[c] = None

\* Every rank returns from every broadcast: the send and receive partners of
\* each iteration agree, so no rank waits for a message nobody sends.
EverybodyReturns == <>Finished
=============================================================================
