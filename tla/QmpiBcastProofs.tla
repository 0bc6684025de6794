-------------------------- MODULE QmpiBcastProofs --------------------------
(***************************************************************************)
(* The binomial broadcast, proved for every number of ranks, every number  *)
(* of calls in a row, every sequence of roots (those that are no rank      *)
(* among them) and all arguments: every rank returns what the root passed  *)
(* to the very same call, and no message stays behind.  Until all have     *)
(* returned some rank can take a step, and each step brings one of them    *)
(* closer to its end.                                                      *)
(*                                                                         *)
(* A slot of the mailbox carries the messages of all calls.  The argument  *)
(* is about which call the message in it is of: the channel from s to r is *)
(* used at most once in a call, in the iteration whose known is the        *)
(* distance from s to r, and a call counts as in flight between the time s *)
(* has gone through that iteration and the time r has.                     *)
(***************************************************************************)
EXTENDS QmpiBcast, SetInduction

----------------------------------------------------------------------------
(* The values of known. *)

Doubles(S) == 1 \in S /\ \A x \in S : 2 * x \in S

\* The powers of two: what doubling reaches from one.
Power == {x \in Nat : \A S \in SUBSET Nat : Doubles(S) => x \in S}

----------------------------------------------------------------------------
(* The inductive invariant. *)

\* The number of rank r counted from the root of call k.
Rel(k, r) == (r - root[k] + NP) % NP

Distance(k, s, r) == Rel(k, r) - Rel(k, s)

\* Rank s sends to rank r in call k.
Edge(k, s, r) ==
  /\ root[k] < NP
  /\ Distance(k, s, r) \in Power
  /\ Rel(k, s) < Distance(k, s, r)

\* Rank r has gone through the iteration of call k in which known is d.
Past(r, k, d) == n[r] > k \/ (n[r] = k /\ known[r] > d)

\* The calls of which the message from s to r has been sent and not received.
InFlight(s, r) ==
  {k \in 1 .. Calls : /\ Edge(k, s, r)
                      /\ Past(s, k, Distance(k, s, r))
                      /\ ~Past(r, k, Distance(k, s, r))}

BTypeOK ==
  /\ MailboxType
  /\ root \in [1 .. Calls -> 0 .. NP]
  /\ val \in [1 .. Calls -> [Rank -> Val]]
  /\ n \in [Rank -> 1 .. Calls + 1]
  /\ known \in [Rank -> Power]
  /\ res \in [Rank -> Val]
  /\ returned \in [1 .. Calls -> [Rank -> Val \cup {None}]]

\* A rank that the doubling has reached has the value of the root.
KnowsTheValue ==
  \A r \in Rank :
    Running(r) /\ root[n[r]] < NP /\ Rel(n[r], r) < known[r]
      => res[r] = val[n[r]][root[n[r]]]

\* Nothing is received before it is sent.
SentBeforeReceived ==
  \A s, r \in Rank : \A k \in 1 .. Calls :
    Edge(k, s, r) /\ Past(r, k, Distance(k, s, r)) => Past(s, k, Distance(k, s, r))

\* The slot holds the message that is in flight, and there is one at most.
SlotIsInFlight ==
  \A s, r \in Rank :
    LET slot == mailbox[<<s, r, BcastTag>>]
    IN  \/ slot = None /\ InFlight(s, r) = {}
        \/ \E k \in 1 .. Calls : InFlight(s, r) = {k} /\ slot = val[k][root[k]]

OtherSlotsEmpty ==
  \A c \in Chan : mailbox[c] # None => c[1] \in Rank /\ c[2] \in Rank /\ c[3] = BcastTag

BInv ==
  /\ BTypeOK
  /\ KnowsTheValue
  /\ SentBeforeReceived
  /\ SlotIsInFlight
  /\ OtherSlotsEmpty
  /\ AllGetTheRootsValue

----------------------------------------------------------------------------
(* Powers of two, by the induction their definition gives. *)

LEMMA PowerInduction ==
  ASSUME NEW S \in SUBSET Nat, Doubles(S)
  PROVE  Power \subseteq S
BY DEF Power

LEMMA PowerDoubles == Doubles(Power)
<1>1. 1 \in Power
  BY DEF Power, Doubles
<1>2. ASSUME NEW x \in Power PROVE 2 * x \in Power
  BY DEF Power, Doubles
<1>3. QED
  BY <1>1, <1>2 DEF Doubles

LEMMA PowerPositive == Power \subseteq Nat \ {0}
<1>1. Doubles(Nat \ {0})
  BY DEF Doubles
<1>2. QED
  BY <1>1, PowerInduction

LEMMA PowerHalf == \A x \in Power : x = 1 \/ \E y \in Power : x = 2 * y
<1> DEFINE S == {x \in Nat : x = 1 \/ \E y \in Power : x = 2 * y}
<1>1. S \subseteq Power
  BY PowerDoubles DEF Doubles
<1>2. Doubles(S)
  <2>1. 1 \in S
    OBVIOUS
  <2>2. ASSUME NEW x \in S PROVE 2 * x \in S
    BY <1>1
  <2>3. QED
    BY <2>1, <2>2 DEF Doubles
<1>3. Power \subseteq S
  BY <1>2, PowerInduction
<1>4. QED
  BY <1>3

\* Between a power of two and its double there is no other.
LEMMA PowerGap ==
  ASSUME NEW x \in Power, NEW y \in Power, x < y
  PROVE  2 * x <= y
<1> DEFINE S == {z \in Nat : \A w \in Power : z < w => 2 * z <= w}
<1>1. 1 \in S
  BY PowerPositive
<1>2. ASSUME NEW z \in S PROVE 2 * z \in S
  <2> SUFFICES ASSUME NEW w \in Power, 2 * z < w PROVE 2 * (2 * z) <= w
    OBVIOUS
  <2>1. w \in Nat /\ z \in Nat
    BY PowerPositive
  <2>2. CASE w = 1
    BY <2>1, <2>2, <1>1
  <2>3. CASE \E u \in Power : w = 2 * u
    <3>1. PICK u \in Power : w = 2 * u
      BY <2>3
    <3>2. u \in Nat
      BY PowerPositive
    <3>3. z < u
      BY <2>1, <3>1, <3>2
    <3>4. 2 * z <= u
      BY <3>3
    <3>5. QED
      BY <2>1, <3>1, <3>2, <3>4
  <2>4. QED
    BY <2>2, <2>3, PowerHalf
<1>3. Doubles(S)
  BY <1>1, <1>2 DEF Doubles
<1>4. Power \subseteq S
  BY <1>3, PowerInduction
<1>5. QED
  BY <1>4

----------------------------------------------------------------------------
(* Numbers counted from the root. *)

LEMMA Wrap ==
  ASSUME NEW N \in Nat \ {0}, NEW x \in 0 .. N - 1
  PROVE  x % N = x /\ (x + N) % N = x /\ (x + N + N) % N = x
OBVIOUS

LEMMA RelValue ==
  ASSUME BTypeOK, NEW k \in 1 .. Calls, root[k] < NP, NEW r \in Rank
  PROVE  /\ Rel(k, r) = IF r >= root[k] THEN r - root[k] ELSE r - root[k] + NP
         /\ Rel(k, r) \in 0 .. NP - 1
         /\ root[k] \in Rank
<1>1. NP \in Nat \ {0} /\ root[k] \in 0 .. NP - 1 /\ r \in 0 .. NP - 1
  BY NPAssumption, SMTT(40) DEF BTypeOK, Rank
<1>2. CASE r >= root[k]
  <2>1. r - root[k] \in 0 .. NP - 1
    BY <1>1, <1>2
  <2>2. (r - root[k] + NP) % NP = r - root[k]
    BY <1>1, <2>1, Wrap
  <2>3. QED
    BY <1>1, <1>2, <2>1, <2>2 DEF Rel, Rank
<1>3. CASE ~(r >= root[k])
  <2>1. r - root[k] + NP \in 0 .. NP - 1
    BY <1>1, <1>3
  <2>2. (r - root[k] + NP) % NP = r - root[k] + NP
    BY <1>1, <2>1, Wrap
  <2>3. QED
    BY <1>1, <1>3, <2>1, <2>2 DEF Rel, Rank
<1>4. QED
  BY <1>2, <1>3

\* A rank has one number.
LEMMA RelInjective ==
  ASSUME BTypeOK, NEW k \in 1 .. Calls, root[k] < NP, NEW r \in Rank, NEW q \in Rank,
         Rel(k, r) = Rel(k, q)
  PROVE  r = q
<1>1. NP \in Nat \ {0} /\ root[k] \in 0 .. NP - 1 /\ r \in 0 .. NP - 1 /\ q \in 0 .. NP - 1
  BY NPAssumption, RelValue DEF Rank
<1>2. QED
  BY <1>1, RelValue

\* The number of the root is 0.
LEMMA RelRoot ==
  ASSUME BTypeOK, NEW k \in 1 .. Calls, root[k] < NP, NEW r \in Rank, Rel(k, r) < 1
  PROVE  r = root[k]
<1>1. NP \in Nat \ {0} /\ root[k] \in 0 .. NP - 1 /\ r \in 0 .. NP - 1
  BY NPAssumption, RelValue DEF Rank
<1>2. QED
  BY <1>1, RelValue

\* The rank SendHalf sends to is d further from the root.
LEMMA Further ==
  ASSUME BTypeOK, NEW k \in 1 .. Calls, root[k] < NP, NEW r \in Rank, NEW d \in Nat,
         Rel(k, r) + d < NP
  PROVE  LET t == (Rel(k, r) + root[k] + d) % NP
         IN  t \in Rank /\ Rel(k, t) = Rel(k, r) + d
<1> DEFINE x == Rel(k, r) + d
           t == (Rel(k, r) + root[k] + d) % NP
<1>1. NP \in Nat \ {0} /\ root[k] \in 0 .. NP - 1 /\ x \in 0 .. NP - 1 /\ Rel(k, r) \in Nat
  <2>1. NP \in Nat \ {0} /\ root[k] \in 0 .. NP - 1 /\ Rel(k, r) \in 0 .. NP - 1
    BY NPAssumption, RelValue DEF Rank
  <2>2. QED
    BY <2>1
<1>2. Rel(k, r) + root[k] + d = x + root[k]
  BY <1>1
<1>3. CASE x + root[k] < NP
  <2>1. x + root[k] \in 0 .. NP - 1
    BY <1>1, <1>3
  <2>2. t = x + root[k]
    BY <1>1, <1>2, <2>1, Wrap
  <2>3. t \in Rank
    BY <2>1, <2>2 DEF Rank
  <2>4. QED
    BY <1>1, <2>2, <2>3, RelValue
<1>4. CASE ~(x + root[k] < NP)
  <2>1. x + root[k] - NP \in 0 .. NP - 1
    BY <1>1, <1>4
  <2>2. t = x + root[k] - NP
    <3>1. ((x + root[k] - NP) + NP) % NP = x + root[k] - NP
      BY <1>1, <2>1, Wrap
    <3>2. (x + root[k] - NP) + NP = x + root[k]
      BY <1>1
    <3>3. QED
      BY <1>2, <3>1, <3>2
  <2>3. t \in Rank
    BY <2>1, <2>2 DEF Rank
  <2>4. QED
    BY <1>1, <2>2, <2>3, RelValue
<1>5. QED
  BY <1>3, <1>4

\* The rank RecvHalf receives from is d nearer to the root.
LEMMA Nearer ==
  ASSUME BTypeOK, NEW k \in 1 .. Calls, root[k] < NP, NEW r \in Rank, NEW d \in Nat,
         d <= Rel(k, r)
  PROVE  LET s == (Rel(k, r) + root[k] - d + NP) % NP
         IN  s \in Rank /\ Rel(k, s) = Rel(k, r) - d
<1> DEFINE x == Rel(k, r) - d
           s == (Rel(k, r) + root[k] - d + NP) % NP
<1>1. /\ NP \in Nat \ {0} /\ root[k] \in 0 .. NP - 1 /\ x \in 0 .. NP - 1
      /\ Rel(k, r) \in 0 .. NP - 1
  <2>1. NP \in Nat \ {0} /\ root[k] \in 0 .. NP - 1 /\ Rel(k, r) \in 0 .. NP - 1
    BY NPAssumption, RelValue DEF Rank
  <2>2. QED
    BY <2>1
<1>2. Rel(k, r) + root[k] - d + NP = x + root[k] + NP
  BY <1>1
<1>3. CASE x + root[k] < NP
  <2>1. x + root[k] \in 0 .. NP - 1
    BY <1>1, <1>3
  <2>2. s = x + root[k]
    BY <1>1, <1>2, <2>1, Wrap
  <2>3. s \in Rank
    BY <2>1, <2>2 DEF Rank
  <2>4. QED
    BY <1>1, <2>2, <2>3, RelValue
<1>4. CASE ~(x + root[k] < NP)
  <2>1. x + root[k] - NP \in 0 .. NP - 1
    BY <1>1, <1>4
  <2>2. s = x + root[k] - NP
    <3>1. ((x + root[k] - NP) + NP + NP) % NP = x + root[k] - NP
      BY <1>1, <2>1, Wrap
    <3>2. (x + root[k] - NP) + NP + NP = x + root[k] + NP
      BY <1>1
    <3>3. QED
      BY <1>2, <3>1, <3>2
  <2>3. s \in Rank
    BY <2>1, <2>2 DEF Rank
  <2>4. QED
    BY <1>1, <2>2, <2>3, RelValue
<1>5. QED
  BY <1>3, <1>4

----------------------------------------------------------------------------
(* Init, and what is common to several steps. *)

LEMMA InitBInv == Init => BInv
<1> SUFFICES ASSUME Init PROVE BInv
  OBVIOUS
<1>1. BTypeOK
  BY BcastAssumption, PowerDoubles DEF Init, BTypeOK, MailboxInit, MailboxType, Doubles
<1>2. KnowsTheValue
  <2> SUFFICES ASSUME NEW r \in Rank, root[1] < NP, Rel(1, r) < 1
               PROVE  val[1][r] = val[1][root[1]]
    BY DEF Init, KnowsTheValue
  <2>1. r = root[1]
    BY <1>1, RelRoot, BcastAssumption
  <2>2. QED
    BY <2>1
<1>3. \A r \in Rank : \A k \in 1 .. Calls : \A d \in Power : ~Past(r, k, d)
  BY PowerPositive, BcastAssumption DEF Init, Past
<1>4. SentBeforeReceived
  BY <1>3 DEF SentBeforeReceived, Edge
<1>5. SlotIsInFlight
  <2> SUFFICES ASSUME NEW s \in Rank, NEW r \in Rank
               PROVE  mailbox[<<s, r, BcastTag>>] = None /\ InFlight(s, r) = {}
    BY DEF SlotIsInFlight
  <2>1. InFlight(s, r) = {}
    BY <1>3 DEF InFlight, Edge
  <2>2. <<s, r, BcastTag>> \in Chan
    BY NPAssumption, BcastAssumption DEF Rank, Peer, Chan
  <2>3. QED
    BY <2>1, <2>2 DEF Init, MailboxInit
<1>6. OtherSlotsEmpty
  BY DEF Init, MailboxInit, OtherSlotsEmpty
<1>7. AllGetTheRootsValue
  BY DEF Init, AllGetTheRootsValue
<1>8. QED
  BY <1>1, <1>2, <1>4, <1>5, <1>6, <1>7 DEF BInv

LEMMA Channels ==
  ASSUME NEW s \in Rank, NEW r \in Rank
  PROVE  <<s, r, BcastTag>> \in Chan
BY NPAssumption, BcastAssumption DEF Rank, Peer, Chan

\* The arguments of the calls never change, and so neither do the channels used.
LEMMA SameEdges ==
  ASSUME UNCHANGED root
  PROVE  /\ \A k, r : Rel(k, r)' = Rel(k, r)
         /\ \A k, s, r : Distance(k, s, r)' = Distance(k, s, r)
         /\ \A k, s, r : Edge(k, s, r)' <=> Edge(k, s, r)
BY DEF Rel, Distance, Edge

\* A step that takes no rank past the iteration of a message.
LEMMA QuietStep ==
  ASSUME BInv, UNCHANGED <<mailbox, root, val>>,
         \A k \in 1 .. Calls : \A s, r \in Rank :
           Edge(k, s, r) =>
             /\ Past(s, k, Distance(k, s, r))' <=> Past(s, k, Distance(k, s, r))
             /\ Past(r, k, Distance(k, s, r))' <=> Past(r, k, Distance(k, s, r))
  PROVE  SentBeforeReceived' /\ SlotIsInFlight' /\ OtherSlotsEmpty'
<1>1. SentBeforeReceived'
  BY SameEdges DEF BInv, SentBeforeReceived
<1>2. \A s, r \in Rank : InFlight(s, r)' = InFlight(s, r)
  BY SameEdges DEF InFlight
<1>3. SlotIsInFlight'
  BY <1>2 DEF BInv, SlotIsInFlight
<1>4. OtherSlotsEmpty'
  BY DEF BInv, OtherSlotsEmpty
<1>5. QED
  BY <1>1, <1>3, <1>4

----------------------------------------------------------------------------
(* Leaving a call. *)

LEMMA ReturnKeeps ==
  ASSUME BInv, NEW r \in Rank, NEW b \in Val, Running(r), Return(r, b),
         root[n[r]] < NP => known[r] >= NP,
         b = IF root[n[r]] < NP THEN val[n[r]][root[n[r]]] ELSE False
  PROVE  BInv'
<1> DEFINE k == n[r]
<1>1. k \in 1 .. Calls /\ Calls \in Nat
  BY BcastAssumption DEF BInv, BTypeOK, Running
<1>2. /\ n' = [n EXCEPT ![r] = k + 1]
      /\ known' = [known EXCEPT ![r] = 1]
      /\ UNCHANGED <<mailbox, root, val>>
      /\ returned' = [returned EXCEPT ![k][r] = b]
      /\ res' = [res EXCEPT ![r] = IF k < Calls THEN val[k + 1][r] ELSE @]
  BY DEF Return
<1>3. BTypeOK'
  <2>1. n' \in [Rank -> 1 .. Calls + 1]
    BY <1>1, <1>2 DEF BInv, BTypeOK
  <2>2. known' \in [Rank -> Power]
    BY <1>2, PowerDoubles DEF BInv, BTypeOK, Doubles
  <2>3. returned' \in [1 .. Calls -> [Rank -> Val \cup {None}]]
    BY <1>1, <1>2 DEF BInv, BTypeOK
  <2>4. res' \in [Rank -> Val]
    <3>1. k < Calls => val[k + 1][r] \in Val
      BY <1>1 DEF BInv, BTypeOK
    <3>2. QED
      BY <1>2, <3>1 DEF BInv, BTypeOK
  <2>5. QED
    BY <1>2, <2>1, <2>2, <2>3, <2>4 DEF BInv, BTypeOK, MailboxType
<1>4. KnowsTheValue'
  <2> SUFFICES ASSUME NEW q \in Rank, n'[q] <= Calls, root[n'[q]] < NP,
                      Rel(n'[q], q) < known'[q]
               PROVE  res'[q] = val[n'[q]][root[n'[q]]]
    BY <1>2, SameEdges DEF KnowsTheValue, Running
  <2>1. CASE q = r
    <3>1. n'[q] = k + 1 /\ known'[q] = 1 /\ k + 1 \in 1 .. Calls
      BY <1>1, <1>2, <2>1 DEF BInv, BTypeOK
    <3>2. res'[q] = val[k + 1][q]
      BY <1>1, <1>2, <2>1, <3>1 DEF BInv, BTypeOK
    <3>3. q = root[k + 1]
      BY <3>1, RelRoot DEF BInv
    <3>4. QED
      BY <3>1, <3>2, <3>3
  <2>2. CASE q # r
    BY <1>2, <2>2 DEF BInv, BTypeOK, KnowsTheValue, Running
  <2>3. QED
    BY <2>1, <2>2
<1>5. ASSUME NEW j \in 1 .. Calls, NEW d \in Power, j = k => known[r] > d
      PROVE  Past(r, j, d)' <=> Past(r, j, d)
  <2>1. n'[r] = k + 1 /\ known'[r] = 1 /\ d \in Nat \ {0}
    BY <1>2, PowerPositive DEF BInv, BTypeOK
  <2>2. QED
    BY <1>1, <1>5, <2>1 DEF Past
<1>6. ASSUME NEW j \in 1 .. Calls, NEW s \in Rank, NEW q \in Rank, Edge(j, s, q)
      PROVE  /\ Past(s, j, Distance(j, s, q))' <=> Past(s, j, Distance(j, s, q))
             /\ Past(q, j, Distance(j, s, q))' <=> Past(q, j, Distance(j, s, q))
  <2> DEFINE d == Distance(j, s, q)
  <2>1. d \in Power /\ root[j] < NP /\ d' = d
    BY <1>2, <1>6, SameEdges DEF Edge
  <2>2. d < NP
    <3>1. Rel(j, s) \in 0 .. NP - 1 /\ Rel(j, q) \in 0 .. NP - 1
      BY <2>1, RelValue DEF BInv
    <3>2. QED
      BY <3>1, NPAssumption DEF Distance
  <2>3. j = k => known[r] > d
    <3>1. known[r] \in Nat /\ d \in Nat /\ NP \in Nat
      BY <2>1, PowerPositive, NPAssumption DEF BInv, BTypeOK
    <3>2. QED
      BY <2>1, <2>2, <3>1
  <2>4. \A p \in Rank : p # r => n'[p] = n[p] /\ known'[p] = known[p]
    BY <1>2 DEF BInv, BTypeOK
  <2>5. \A p \in Rank : Past(p, j, d)' <=> Past(p, j, d)
    <3> SUFFICES ASSUME NEW p \in Rank PROVE Past(p, j, d)' <=> Past(p, j, d)
      OBVIOUS
    <3>1. CASE p = r
      BY <1>5, <2>1, <2>3, <3>1
    <3>2. CASE p # r
      BY <2>1, <2>4, <3>2 DEF Past
    <3>3. QED
      BY <3>1, <3>2
  <2>6. QED
    BY <2>5
<1>7. SentBeforeReceived' /\ SlotIsInFlight' /\ OtherSlotsEmpty'
  BY <1>2, <1>6, QuietStep
<1>8. AllGetTheRootsValue'
  <2> SUFFICES ASSUME NEW j \in 1 .. Calls, NEW q \in Rank, returned'[j][q] # None
               PROVE  returned'[j][q] = IF root[j] < NP THEN val[j][root[j]] ELSE False
    BY <1>2 DEF AllGetTheRootsValue
  <2>1. CASE j = k /\ q = r
    BY <1>1, <1>2, <2>1 DEF BInv, BTypeOK
  <2>2. CASE ~(j = k /\ q = r)
    <3>1. returned'[j][q] = returned[j][q]
      BY <1>1, <1>2, <2>2 DEF BInv, BTypeOK
    <3>2. QED
      BY <3>1 DEF BInv, AllGetTheRootsValue
  <2>3. QED
    BY <2>1, <2>2
<1>9. QED
  BY <1>3, <1>4, <1>7, <1>8 DEF BInv

LEMMA BadRootKeeps ==
  ASSUME BInv, NEW r \in Rank, BadRoot(r)
  PROVE  BInv'
<1>1. root[n[r]] \in 0 .. NP /\ ~(root[n[r]] < NP) /\ NP \in Nat
  BY NPAssumption, BcastAssumption DEF BInv, BTypeOK, BadRoot, Running
<1>2. QED
  BY <1>1, ReturnKeeps, BcastAssumption DEF BadRoot

LEMMA FinishKeeps ==
  ASSUME BInv, NEW r \in Rank, Finish(r)
  PROVE  BInv'
<1>1. n[r] \in 1 .. Calls /\ root[n[r]] < NP /\ known[r] >= NP
  BY BcastAssumption DEF BInv, BTypeOK, Finish, Running
<1>2. Rel(n[r], r) < known[r]
  <2>1. known[r] \in Nat /\ NP \in Nat
    BY PowerPositive, NPAssumption DEF BInv, BTypeOK
  <2>2. Rel(n[r], r) \in 0 .. NP - 1
    BY <1>1, RelValue DEF BInv
  <2>3. QED
    BY <1>1, <2>1, <2>2
<1>3. res[r] = val[n[r]][root[n[r]]] /\ res[r] \in Val
  BY <1>1, <1>2 DEF BInv, BTypeOK, KnowsTheValue, Finish
<1>4. QED
  BY <1>1, <1>3, ReturnKeeps DEF Finish

----------------------------------------------------------------------------
(* An iteration of the loop. *)

\* Doubling known takes the rank past one power of two.
LEMMA DoublePast ==
  ASSUME BInv, NEW r \in Rank, Double(r), UNCHANGED <<n, root>>
  PROVE  \A q \in Rank : \A j \in 1 .. Calls : \A d \in Power :
           Past(q, j, d)' <=> Past(q, j, d) \/ (q = r /\ j = n[r] /\ d = known[r])
<1> SUFFICES ASSUME NEW q \in Rank, NEW j \in 1 .. Calls, NEW d \in Power
             PROVE  Past(q, j, d)' <=> Past(q, j, d) \/ (q = r /\ j = n[r] /\ d = known[r])
  OBVIOUS
<1>1. known[r] \in Power /\ known[r] \in Nat /\ d \in Nat
  BY PowerPositive DEF BInv, BTypeOK
<1>2. known' = [known EXCEPT ![r] = known[r] * 2]
  BY DEF Double
<1>3. CASE q = r
  <2>1. known'[q] = 2 * known[r] /\ n'[q] = n[r]
    BY <1>1, <1>2, <1>3 DEF BInv, BTypeOK
  <2>2. 2 * known[r] > d <=> known[r] > d \/ d = known[r]
    <3>1. known[r] < d => 2 * known[r] <= d
      BY <1>1, PowerGap
    <3>2. known[r] > 0
      BY <1>1, PowerPositive
    <3>3. QED
      BY <1>1, <3>1, <3>2
  <2>3. QED
    BY <1>1, <1>3, <2>1, <2>2 DEF Past
<1>4. CASE q # r
  BY <1>2, <1>4 DEF BInv, BTypeOK, Past
<1>5. QED
  BY <1>3, <1>4

\* The state of a rank in the loop.
LEMMA InLoopFacts ==
  ASSUME BInv, NEW r \in Rank, InLoop(r)
  PROVE  /\ n[r] \in 1 .. Calls /\ root[n[r]] < NP /\ root[n[r]] \in Rank
         /\ NP \in Nat /\ known[r] \in Power /\ known[r] \in Nat \ {0} /\ 2 * known[r] \in Power
         /\ RelRank(r) = Rel(n[r], r) /\ Rel(n[r], r) \in 0 .. NP - 1
<1>1. n[r] \in 1 .. Calls /\ root[n[r]] < NP
  BY BcastAssumption DEF BInv, BTypeOK, InLoop, Running
<1>2. NP \in Nat /\ known[r] \in Power /\ known[r] \in Nat \ {0} /\ 2 * known[r] \in Power
  BY NPAssumption, PowerPositive, PowerDoubles DEF BInv, BTypeOK, Doubles
<1>3. RelRank(r) = Rel(n[r], r)
  BY DEF RelRank, Rel
<1>4. Rel(n[r], r) \in 0 .. NP - 1 /\ root[n[r]] \in Rank
  BY <1>1, RelValue DEF BInv
<1>5. QED
  BY <1>1, <1>2, <1>3, <1>4

\* The types and the value, where the step leaves the value of a rank that had it.
LEMMA LoopKeepsValue ==
  ASSUME BInv, NEW r \in Rank, InLoop(r), Double(r),
         UNCHANGED <<root, val, n, returned>>, MailboxType', res' \in [Rank -> Val],
         \A q \in Rank : q # r => res'[q] = res[q],
         Rel(n[r], r) < 2 * known[r] => res'[r] = val[n[r]][root[n[r]]]
  PROVE  BTypeOK' /\ KnowsTheValue' /\ AllGetTheRootsValue'
<1>1. known' = [known EXCEPT ![r] = known[r] * 2] /\ known[r] * 2 \in Power
  BY InLoopFacts DEF Double
<1>2. BTypeOK'
  BY <1>1 DEF BInv, BTypeOK
<1>3. KnowsTheValue'
  <2> SUFFICES ASSUME NEW q \in Rank, n[q] <= Calls, root[n[q]] < NP,
                      Rel(n[q], q) < known'[q]
               PROVE  res'[q] = val[n[q]][root[n[q]]]
    BY SameEdges DEF KnowsTheValue, Running
  <2>1. CASE q = r
    BY <1>1, <2>1, InLoopFacts DEF BInv, BTypeOK
  <2>2. CASE q # r
    BY <1>1, <2>2 DEF BInv, BTypeOK, KnowsTheValue, Running
  <2>3. QED
    BY <2>1, <2>2
<1>4. AllGetTheRootsValue'
  BY DEF BInv, AllGetTheRootsValue
<1>5. QED
  BY <1>2, <1>3, <1>4

LEMMA PassHalfKeeps ==
  ASSUME BInv, NEW r \in Rank, PassHalf(r)
  PROVE  BInv'
<1> DEFINE k == n[r]
           d == known[r]
<1>1. /\ InLoop(r) /\ ~Sends(r) /\ ~Receives(r) /\ Double(r)
      /\ UNCHANGED <<mailbox, root, val, n, res, returned>>
  BY DEF PassHalf
<1>2. ~(Rel(k, r) < d /\ Rel(k, r) + d < NP) /\ ~(d <= Rel(k, r) /\ Rel(k, r) < 2 * d)
  BY <1>1, InLoopFacts DEF Sends, Receives
<1>3. BTypeOK' /\ KnowsTheValue' /\ AllGetTheRootsValue'
  <2>1. Rel(k, r) < 2 * d => res'[r] = val[k][root[k]]
    BY <1>1, <1>2, InLoopFacts DEF BInv, KnowsTheValue, InLoop
  <2>2. QED
    BY <1>1, <2>1, LoopKeepsValue DEF BInv, BTypeOK, MailboxType
<1>4. ASSUME NEW j \in 1 .. Calls, NEW s \in Rank, NEW q \in Rank, Edge(j, s, q)
      PROVE  /\ Past(s, j, Distance(j, s, q))' <=> Past(s, j, Distance(j, s, q))
             /\ Past(q, j, Distance(j, s, q))' <=> Past(q, j, Distance(j, s, q))
  <2> DEFINE e == Distance(j, s, q)
  <2>1. e \in Power /\ root[j] < NP /\ Rel(j, s) < e /\ e' = e
    BY <1>1, <1>4, SameEdges DEF Edge
  <2>2. /\ Rel(j, s) \in 0 .. NP - 1 /\ Rel(j, q) \in 0 .. NP - 1
        /\ Rel(j, q) = Rel(j, s) + e
    BY <2>1, RelValue, NPAssumption DEF BInv, Distance
  <2>3. ~(s = r /\ j = k /\ e = d) /\ ~(q = r /\ j = k /\ e = d)
    BY <1>1, <1>2, <2>1, <2>2, InLoopFacts
  <2>4. QED
    BY <1>1, <2>1, <2>3, DoublePast
<1>5. SentBeforeReceived' /\ SlotIsInFlight' /\ OtherSlotsEmpty'
  BY <1>1, <1>4, QuietStep
<1>6. QED
  BY <1>3, <1>5 DEF BInv

\* The message of this iteration is in flight, and it is the only one on its channel.
LEMMA SendHalfKeeps ==
  ASSUME BInv, NEW r \in Rank, SendHalf(r)
  PROVE  BInv'
<1> DEFINE k == n[r]
           d == known[r]
           t == (Rel(k, r) + root[k] + d) % NP
           c == <<r, t, BcastTag>>
<1>1. /\ InLoop(r) /\ Sends(r) /\ Double(r)
      /\ mailbox[c] = None
      /\ mailbox' = [mailbox EXCEPT ![c] = res[r]]
      /\ UNCHANGED <<root, val, n, res, returned>>
  BY InLoopFacts DEF SendHalf, Csend
<1>2. Rel(k, r) < d /\ Rel(k, r) + d < NP
  BY <1>1, InLoopFacts DEF Sends
<1>3. t \in Rank /\ Rel(k, t) = Rel(k, r) + d
  BY <1>1, <1>2, InLoopFacts, Further DEF BInv
<1>4. c \in Chan
  BY <1>3, Channels
<1>5. res[r] = val[k][root[k]] /\ res[r] \in Val /\ k \in 1 .. Calls
  BY <1>1, <1>2, InLoopFacts DEF BInv, BTypeOK, KnowsTheValue, InLoop
<1>6. Edge(k, r, t) /\ Distance(k, r, t) = d
  BY <1>1, <1>2, <1>3, InLoopFacts DEF Edge, Distance
<1>7. BTypeOK' /\ KnowsTheValue' /\ AllGetTheRootsValue'
  <2>1. MailboxType'
    BY <1>1, <1>4, <1>5 DEF BInv, BTypeOK, MailboxType
  <2>2. QED
    BY <1>1, <1>5, <2>1, LoopKeepsValue DEF BInv, BTypeOK
<1>8. ASSUME NEW j \in 1 .. Calls, NEW s \in Rank, NEW q \in Rank, Edge(j, s, q)
      PROVE  /\ Past(s, j, Distance(j, s, q))' <=>
                  Past(s, j, Distance(j, s, q)) \/ (s = r /\ q = t /\ j = k)
             /\ Past(q, j, Distance(j, s, q))' <=> Past(q, j, Distance(j, s, q))
  <2> DEFINE e == Distance(j, s, q)
  <2>1. e \in Power /\ e \in Nat /\ root[j] < NP /\ Rel(j, s) < e /\ e' = e
    BY <1>1, <1>8, SameEdges, PowerPositive DEF Edge
  <2>2. /\ Rel(j, s) \in 0 .. NP - 1 /\ Rel(j, q) \in 0 .. NP - 1
        /\ Rel(j, q) = Rel(j, s) + e
    BY <2>1, RelValue, NPAssumption DEF BInv, Distance
  <2>3. ~(q = r /\ j = k /\ e = d)
    BY <1>1, <1>2, <2>1, <2>2, InLoopFacts
  <2>4. s = r /\ j = k /\ e = d => q = t
    BY <1>3, <2>1, <2>2, RelInjective DEF BInv
  <2>5. s = r /\ q = t /\ j = k => e = d
    BY <1>6
  <2>6. QED
    BY <1>1, <2>1, <2>3, <2>4, <2>5, DoublePast
<1>9. SentBeforeReceived'
  <2> SUFFICES ASSUME NEW s \in Rank, NEW q \in Rank, NEW j \in 1 .. Calls,
                      Edge(j, s, q), Past(q, j, Distance(j, s, q))'
               PROVE  Past(s, j, Distance(j, s, q))'
    BY <1>1, SameEdges DEF SentBeforeReceived
  <2>1. Past(s, j, Distance(j, s, q))
    BY <1>8 DEF BInv, SentBeforeReceived
  <2>2. QED
    BY <1>8, <2>1
<1>10. SlotIsInFlight'
  <2> SUFFICES ASSUME NEW s \in Rank, NEW q \in Rank
               PROVE  LET slot == mailbox'[<<s, q, BcastTag>>]
                      IN  \/ slot = None /\ InFlight(s, q)' = {}
                          \/ \E j \in 1 .. Calls : InFlight(s, q)' = {j} /\ slot = val[j][root[j]]
    BY <1>1 DEF SlotIsInFlight
  <2>1. CASE s = r /\ q = t
    <3>1. InFlight(s, q) = {}
      <4>1. ASSUME NEW j \in 1 .. Calls, InFlight(s, q) = {j} PROVE val[j][root[j]] # None
        <5>1. root[j] \in Rank
          BY <4>1, RelValue DEF InFlight, Edge, BInv
        <5>2. QED
          BY <5>1, NoneAssumption DEF BInv, BTypeOK
      <4>2. QED
        BY <1>1, <2>1, <4>1 DEF BInv, SlotIsInFlight
    <3>2. ~Past(s, k, d) /\ ~Past(q, k, d)
      <4>1. ~Past(s, k, d)
        BY <1>1, <2>1, InLoopFacts DEF Past
      <4>2. QED
        BY <1>5, <1>6, <2>1, <4>1 DEF BInv, SentBeforeReceived
    <3>3. InFlight(s, q)' = {k}
      <4>1. k \in InFlight(s, q)'
        BY <1>1, <1>5, <1>6, <1>8, <2>1, <3>2, SameEdges DEF InFlight
      <4>2. ASSUME NEW j \in InFlight(s, q)', j # k PROVE FALSE
        BY <1>1, <1>8, <2>1, <3>1, <4>2, SameEdges DEF InFlight
      <4>3. QED
        BY <4>1, <4>2
    <3>4. mailbox'[c] = val[k][root[k]]
      BY <1>1, <1>4, <1>5 DEF BInv, BTypeOK, MailboxType
    <3>5. QED
      BY <1>5, <2>1, <3>3, <3>4
  <2>2. CASE ~(s = r /\ q = t)
    <3>1. InFlight(s, q)' = InFlight(s, q)
      BY <1>1, <1>8, <2>2, SameEdges DEF InFlight
    <3>2. mailbox'[<<s, q, BcastTag>>] = mailbox[<<s, q, BcastTag>>]
      BY <1>1, <2>2, Channels DEF BInv, BTypeOK, MailboxType
    <3>3. QED
      BY <3>1, <3>2 DEF BInv, SlotIsInFlight
  <2>3. QED
    BY <2>1, <2>2
<1>11. OtherSlotsEmpty'
  BY <1>1, <1>3, <1>4 DEF BInv, BTypeOK, MailboxType, OtherSlotsEmpty
<1>12. QED
  BY <1>7, <1>9, <1>10, <1>11 DEF BInv

\* The message in the slot is the one of this iteration: a message of an earlier
\* call would have been received, and one of a later call cannot have been sent.
LEMMA RecvHalfKeeps ==
  ASSUME BInv, NEW r \in Rank, RecvHalf(r)
  PROVE  BInv'
<1> DEFINE k == n[r]
           d == known[r]
           s0 == (Rel(k, r) + root[k] - d + NP) % NP
           c == <<s0, r, BcastTag>>
<1>1. /\ InLoop(r) /\ Receives(r) /\ Double(r)
      /\ mailbox[c] # None /\ mailbox[c] \in Val
      /\ mailbox' = [mailbox EXCEPT ![c] = None]
      /\ res' = [res EXCEPT ![r] = mailbox[c]]
      /\ UNCHANGED <<root, val, n, returned>>
  BY InLoopFacts DEF RecvHalf, Crecv
<1>2. d <= Rel(k, r) /\ Rel(k, r) < 2 * d
  BY <1>1, InLoopFacts DEF Receives
<1>3. s0 \in Rank /\ Rel(k, s0) = Rel(k, r) - d
  BY <1>1, <1>2, InLoopFacts, Nearer DEF BInv
<1>4. c \in Chan
  BY <1>3, Channels
<1>5. Edge(k, s0, r) /\ Distance(k, s0, r) = d /\ k \in 1 .. Calls
  BY <1>1, <1>2, <1>3, InLoopFacts DEF Edge, Distance
<1>6. ~Past(r, k, d)
  BY <1>1, InLoopFacts DEF Past
<1>7. InFlight(s0, r) = {k} /\ mailbox[c] = val[k][root[k]]
  <2>1. PICK j \in 1 .. Calls : InFlight(s0, r) = {j} /\ mailbox[c] = val[j][root[j]]
    BY <1>1, <1>3 DEF BInv, SlotIsInFlight
  <2>2. Edge(j, s0, r) /\ Past(s0, j, Distance(j, s0, r)) /\ ~Past(r, j, Distance(j, s0, r))
    BY <2>1 DEF InFlight
  <2>3. /\ n[s0] \in 1 .. Calls + 1 /\ k \in Nat /\ j \in Nat /\ n[s0] \in Nat
    BY <1>3, <1>5, BcastAssumption DEF BInv, BTypeOK
  <2>4. ~(j < k)
    BY <2>2, <2>3 DEF Past
  <2>5. ~(j > k)
    <3>1. SUFFICES ASSUME j > k PROVE FALSE
      OBVIOUS
    <3>2. Past(s0, k, d)
      BY <2>2, <2>3, <3>1 DEF Past
    <3>3. k \in InFlight(s0, r)
      BY <1>5, <1>6, <3>2 DEF InFlight
    <3>4. QED
      BY <2>1, <2>3, <3>1, <3>3
  <2>6. j = k
    BY <2>3, <2>4, <2>5
  <2>7. QED
    BY <2>1, <2>6
<1>8. BTypeOK' /\ KnowsTheValue' /\ AllGetTheRootsValue'
  <2>1. MailboxType' /\ res' \in [Rank -> Val] /\ res'[r] = mailbox[c]
    BY <1>1, <1>4 DEF BInv, BTypeOK, MailboxType
  <2>2. \A q \in Rank : q # r => res'[q] = res[q]
    BY <1>1 DEF BInv, BTypeOK
  <2>3. QED
    BY <1>1, <1>7, <2>1, <2>2, LoopKeepsValue
<1>9. ASSUME NEW j \in 1 .. Calls, NEW s \in Rank, NEW q \in Rank, Edge(j, s, q)
      PROVE  /\ Past(s, j, Distance(j, s, q))' <=> Past(s, j, Distance(j, s, q))
             /\ Past(q, j, Distance(j, s, q))' <=>
                  Past(q, j, Distance(j, s, q)) \/ (s = s0 /\ q = r /\ j = k)
  <2> DEFINE e == Distance(j, s, q)
  <2>1. e \in Power /\ e \in Nat /\ root[j] < NP /\ Rel(j, s) < e /\ e' = e
    BY <1>1, <1>9, SameEdges, PowerPositive DEF Edge
  <2>2. /\ Rel(j, s) \in 0 .. NP - 1 /\ Rel(j, q) \in 0 .. NP - 1
        /\ Rel(j, q) = Rel(j, s) + e
    BY <2>1, RelValue, NPAssumption DEF BInv, Distance
  <2>3. ~(s = r /\ j = k /\ e = d)
    BY <1>1, <1>2, <2>1, <2>2, InLoopFacts
  <2>4. q = r /\ j = k /\ e = d => s = s0
    <3> SUFFICES ASSUME q = r, j = k, e = d PROVE s = s0
      OBVIOUS
    <3>1. Rel(k, r) = Rel(k, s) + d /\ Rel(k, s) \in Nat /\ d \in Nat
      BY <2>1, <2>2
    <3>2. Rel(k, s) = Rel(k, s0)
      BY <1>3, <3>1
    <3>3. QED
      BY <1>3, <1>5, <2>1, <3>2, RelInjective DEF BInv
  <2>5. s = s0 /\ q = r /\ j = k => e = d
    BY <1>5
  <2>6. QED
    BY <1>1, <2>1, <2>3, <2>4, <2>5, DoublePast
<1>10. SentBeforeReceived'
  <2> SUFFICES ASSUME NEW s \in Rank, NEW q \in Rank, NEW j \in 1 .. Calls,
                      Edge(j, s, q), Past(q, j, Distance(j, s, q))'
               PROVE  Past(s, j, Distance(j, s, q))'
    BY <1>1, SameEdges DEF SentBeforeReceived
  <2>1. Past(s, j, Distance(j, s, q))
    <3>1. CASE s = s0 /\ q = r /\ j = k
      BY <1>7, <3>1 DEF InFlight
    <3>2. CASE ~(s = s0 /\ q = r /\ j = k)
      BY <1>9, <3>2 DEF BInv, SentBeforeReceived
    <3>3. QED
      BY <3>1, <3>2
  <2>2. QED
    BY <1>9, <2>1
<1>11. SlotIsInFlight'
  <2> SUFFICES ASSUME NEW s \in Rank, NEW q \in Rank
               PROVE  LET slot == mailbox'[<<s, q, BcastTag>>]
                      IN  \/ slot = None /\ InFlight(s, q)' = {}
                          \/ \E j \in 1 .. Calls : InFlight(s, q)' = {j} /\ slot = val[j][root[j]]
    BY <1>1 DEF SlotIsInFlight
  <2>1. CASE s = s0 /\ q = r
    <3>1. ASSUME NEW j \in InFlight(s, q)' PROVE FALSE
      <4>1. /\ j \in 1 .. Calls /\ Edge(j, s, q)
            /\ Past(s, j, Distance(j, s, q))' /\ ~Past(q, j, Distance(j, s, q))'
        BY <1>1, SameEdges DEF InFlight
      <4>2. j # k /\ j \in InFlight(s, q)
        BY <1>9, <2>1, <4>1 DEF InFlight
      <4>3. QED
        BY <1>7, <2>1, <4>2
    <3>2. mailbox'[c] = None
      BY <1>1, <1>4 DEF BInv, BTypeOK, MailboxType
    <3>3. QED
      BY <2>1, <3>1, <3>2
  <2>2. CASE ~(s = s0 /\ q = r)
    <3>1. InFlight(s, q)' = InFlight(s, q)
      BY <1>1, <1>9, <2>2, SameEdges DEF InFlight
    <3>2. mailbox'[<<s, q, BcastTag>>] = mailbox[<<s, q, BcastTag>>]
      BY <1>1, <2>2, Channels DEF BInv, BTypeOK, MailboxType
    <3>3. QED
      BY <3>1, <3>2 DEF BInv, SlotIsInFlight
  <2>3. QED
    BY <2>1, <2>2
<1>12. OtherSlotsEmpty'
  BY <1>1, <1>4 DEF BInv, BTypeOK, MailboxType, OtherSlotsEmpty
<1>13. QED
  BY <1>8, <1>10, <1>11, <1>12 DEF BInv

----------------------------------------------------------------------------
LEMMA NextKeepsB == BInv /\ [Next]_vars => BInv'
<1> SUFFICES ASSUME BInv, [Next]_vars PROVE BInv'
  OBVIOUS
<1>1. ASSUME NEW r \in Rank, Step(r) PROVE BInv'
  BY <1>1, BadRootKeeps, SendHalfKeeps, RecvHalfKeeps, PassHalfKeeps, FinishKeeps DEF Step
<1>2. CASE UNCHANGED vars
  <2>1. BTypeOK' /\ KnowsTheValue' /\ AllGetTheRootsValue'
    BY <1>2, SameEdges DEF vars, BInv, BTypeOK, MailboxType, KnowsTheValue, Running,
       AllGetTheRootsValue
  <2>2. \A j \in 1 .. Calls : \A q \in Rank : \A d \in Power : Past(q, j, d)' <=> Past(q, j, d)
    BY <1>2 DEF vars, Past
  <2>3. SentBeforeReceived' /\ SlotIsInFlight' /\ OtherSlotsEmpty'
    BY <1>2, <2>2, QuietStep, SameEdges DEF vars, Edge
  <2>4. QED
    BY <2>1, <2>3 DEF BInv
<1>3. QED
  BY <1>1, <1>2 DEF Next

LEMMA BInvariance == Spec => []BInv
BY InitBInv, NextKeepsB, PTL DEF Spec

\* Whatever a rank returns from a broadcast is what the root passed to that
\* very call, for any number of ranks, any roots and any number of broadcasts
\* in a row under the one tag.
THEOREM BroadcastCorrect == Spec => []AllGetTheRootsValue
<1>1. BInv => AllGetTheRootsValue
  BY DEF BInv
<1>2. QED
  BY <1>1, BInvariance, PTL

\* When every rank has returned from every broadcast, the mailbox is empty.
THEOREM BroadcastLeavesNothing == Spec => []NothingLeftOver
<1>1. BInv => NothingLeftOver
  <2> SUFFICES ASSUME BInv, Finished, NEW c \in Chan, mailbox[c] # None
               PROVE  FALSE
    BY DEF NothingLeftOver
  <2>1. PICK s \in Rank, r \in Rank : c = <<s, r, BcastTag>>
    BY DEF BInv, OtherSlotsEmpty, Chan
  <2>2. PICK k \in 1 .. Calls : k \in InFlight(s, r)
    BY <2>1 DEF BInv, SlotIsInFlight
  <2>3. n[r] > k
    BY <2>2, BcastAssumption DEF Finished, Running, BInv, BTypeOK
  <2>4. QED
    BY <2>2, <2>3 DEF InFlight, Past
<1>2. QED
  BY <1>1, BInvariance, PTL

----------------------------------------------------------------------------
(* Nobody waits for somebody who waits. *)

\* What rank r needs to take its next step: an empty slot if it is to send, a
\* full one if it is to receive, and nothing else.
CanGoOn(r) ==
  /\ Running(r)
  /\ InLoop(r) /\ Sends(r) =>
       mailbox[<<r, (RelRank(r) + root[n[r]] + known[r]) % NP, BcastTag>>] = None
  /\ InLoop(r) /\ Receives(r) =>
       mailbox[<<(RelRank(r) + root[n[r]] - known[r] + NP) % NP, r, BcastTag>>] # None

SomebodyGoesOn == Finished \/ \E r \in Rank : CanGoOn(r)

\* The rank that is furthest behind: no rank is in an earlier call, none in an
\* earlier iteration of the same call.
Hindmost(r) ==
  \A q \in Rank : n[r] < n[q] \/ (n[r] = n[q] /\ known[r] <= known[q])

LEMMA CountersAreNaturals == BTypeOK => \A r \in Rank : n[r] \in Nat /\ known[r] \in Nat
<1> SUFFICES ASSUME BTypeOK, NEW r \in Rank PROVE n[r] \in Nat /\ known[r] \in Nat
  OBVIOUS
<1>1. n[r] \in 1 .. Calls + 1 /\ known[r] \in Power
  BY DEF BTypeOK
<1>2. n[r] \in Nat
  BY <1>1, BcastAssumption
<1>3. known[r] \in Nat
  BY <1>1, PowerPositive
<1>4. QED
  BY <1>2, <1>3

LEMMA SomebodyIsHindmost == BTypeOK => \E r \in Rank : Hindmost(r)
<1> SUFFICES ASSUME BTypeOK PROVE \E r \in Rank : Hindmost(r)
  OBVIOUS
<1> DEFINE T == {n[r] : r \in Rank}
<1>1. /\ Calls \in Nat /\ 0 \in Rank
      /\ \A r \in Rank : n[r] \in Nat /\ known[r] \in Nat
  BY BcastAssumption, NPAssumption, CountersAreNaturals DEF Rank
<1>2. T \in SUBSET Nat /\ T # {}
  BY <1>1
<1>3. PICK k \in T : \A j \in T : k <= j
  BY <1>2, LeastNumber
<1> DEFINE U == {known[r] : r \in {q \in Rank : n[q] = k}}
<1>4. U \in SUBSET Nat /\ U # {}
  BY <1>1, <1>3
<1> HIDE DEF T, U
<1>5. PICK d \in U : \A e \in U : d <= e
  BY <1>4, LeastNumber
<1>6. PICK r \in Rank : n[r] = k /\ known[r] = d
  BY <1>5 DEF U
<1>7. ASSUME NEW q \in Rank
      PROVE  n[r] < n[q] \/ (n[r] = n[q] /\ known[r] <= known[q])
  <2>1. k <= n[q] /\ n[q] \in Nat /\ k \in Nat
    BY <1>1, <1>2, <1>3 DEF T
  <2>2. CASE n[q] = k
    BY <1>5, <1>6, <2>2 DEF U
  <2>3. CASE n[q] # k
    BY <1>6, <2>1, <2>3
  <2>4. QED
    BY <2>2, <2>3
<1>8. QED
  BY <1>7 DEF Hindmost

\* The hindmost rank never waits for an empty slot: what is still in one was sent in
\* an iteration that the receiver has gone through.
LEMMA HindmostMaySend ==
  ASSUME BInv, NEW r \in Rank, Hindmost(r), InLoop(r), Sends(r)
  PROVE  mailbox[<<r, (RelRank(r) + root[n[r]] + known[r]) % NP, BcastTag>>] = None
<1> DEFINE k == n[r]
           d == known[r]
           t == (Rel(k, r) + root[k] + d) % NP
<1>1. /\ k \in 1 .. Calls /\ root[k] < NP /\ d \in Nat /\ Calls \in Nat
      /\ RelRank(r) = Rel(k, r) /\ BTypeOK
  BY InLoopFacts, BcastAssumption DEF BInv
<1>2. t \in Rank
  BY <1>1, Further DEF Sends
<1>3. ASSUME NEW j \in InFlight(r, t) PROVE FALSE
  <2>1. /\ j \in 1 .. Calls /\ Distance(j, r, t) \in Power
        /\ Past(r, j, Distance(j, r, t)) /\ ~Past(t, j, Distance(j, r, t))
    BY DEF InFlight, Edge
  <2>2. Distance(j, r, t) \in Nat
    BY <2>1, PowerPositive
  <2>3. n[t] \in Nat /\ known[t] \in Nat /\ n[r] \in Nat /\ known[r] \in Nat
    BY <1>1, <1>2, CountersAreNaturals
  <2>4. n[r] < n[t] \/ (n[r] = n[t] /\ known[r] <= known[t])
    BY <1>2 DEF Hindmost
  <2>5. QED
    BY <1>1, <2>1, <2>2, <2>3, <2>4 DEF Past
<1>4. InFlight(r, t) = {}
  BY <1>3
<1>5. mailbox[<<r, t, BcastTag>>] = None
  BY <1>2, <1>4 DEF BInv, SlotIsInFlight
<1>6. QED
  BY <1>1, <1>5

\* If the hindmost rank waits for a message, its sender is as far behind, and sends.
LEMMA HindmostIsServed ==
  ASSUME BInv, NEW r \in Rank, Hindmost(r), InLoop(r), Receives(r)
  PROVE  \/ mailbox[<<(RelRank(r) + root[n[r]] - known[r] + NP) % NP, r, BcastTag>>] # None
         \/ \E s \in Rank : Hindmost(s) /\ InLoop(s) /\ Sends(s) /\ ~Receives(s)
<1> DEFINE k == n[r]
           d == known[r]
           s0 == (Rel(k, r) + root[k] - d + NP) % NP
<1>1. /\ k \in 1 .. Calls /\ root[k] < NP /\ d \in Nat \ {0} /\ Calls \in Nat /\ NP \in Nat
      /\ d \in Power /\ RelRank(r) = Rel(k, r) /\ Rel(k, r) \in 0 .. NP - 1 /\ BTypeOK
  BY InLoopFacts, BcastAssumption DEF BInv
<1>2. d <= Rel(k, r) /\ Rel(k, r) < d * 2
  BY <1>1 DEF Receives
<1>3. s0 \in Rank /\ Rel(k, s0) = Rel(k, r) - d
  BY <1>1, <1>2, Nearer
<1> HIDE DEF s0
<1>4. Distance(k, s0, r) = d /\ Rel(k, s0) < d
  BY <1>1, <1>2, <1>3 DEF Distance
<1>5. Edge(k, s0, r)
  BY <1>1, <1>4 DEF Edge
<1>6. /\ n[s0] \in Nat /\ known[s0] \in Nat
      /\ n[r] < n[s0] \/ (n[r] = n[s0] /\ known[r] <= known[s0])
  BY <1>1, <1>3, CountersAreNaturals DEF Hindmost
<1>7. CASE n[s0] = k /\ known[s0] = d
  <2>1. Hindmost(s0)
    BY <1>7 DEF Hindmost
  <2>2. InLoop(s0) /\ RelRank(s0) = Rel(k, s0)
    BY <1>7 DEF InLoop, Running, RelRank, Rel
  <2>3. Sends(s0)
    BY <1>1, <1>3, <1>4, <1>7, <2>2 DEF Sends
  <2>4. ~Receives(s0)
    BY <1>1, <1>3, <1>4, <1>7, <2>2 DEF Receives
  <2>5. QED
    BY <1>3, <2>1, <2>2, <2>3, <2>4
<1>8. CASE ~(n[s0] = k /\ known[s0] = d)
  <2>1. Past(s0, k, d)
    BY <1>1, <1>6, <1>8 DEF Past
  <2>2. ~Past(r, k, d)
    BY <1>1 DEF Past
  <2>3. k \in InFlight(s0, r)
    BY <1>1, <1>4, <1>5, <2>1, <2>2 DEF InFlight
  <2>4. PICK j \in 1 .. Calls : InFlight(s0, r) = {j} /\ mailbox[<<s0, r, BcastTag>>] = val[j][root[j]]
    BY <1>3, <2>3 DEF BInv, SlotIsInFlight
  <2>5. j = k
    BY <2>3, <2>4
  <2>6. val[k][root[k]] \in Val
    <3>1. root[k] \in Rank
      BY <1>1, InLoopFacts
    <3>2. QED
      BY <1>1, <3>1 DEF BTypeOK
  <2>7. mailbox[<<s0, r, BcastTag>>] # None
    BY <2>4, <2>5, <2>6, NoneAssumption
  <2>8. QED
    BY <1>1, <2>7 DEF s0
<1>9. QED
  BY <1>7, <1>8

\* In no state reached does every rank wait: the send and receive partners of
\* each iteration agree, for any number of ranks, and a full slot of an earlier
\* call never blocks the rank that is furthest behind.
THEOREM BroadcastNeverStuck == Spec => []SomebodyGoesOn
<1>1. BInv => SomebodyGoesOn
  <2> SUFFICES ASSUME BInv, ~Finished PROVE \E r \in Rank : CanGoOn(r)
    BY DEF SomebodyGoesOn
  <2>1. PICK r \in Rank : Hindmost(r)
    BY SomebodyIsHindmost DEF BInv
  <2>2. Running(r)
    <3>1. PICK q \in Rank : Running(q)
      BY DEF Finished
    <3>2. n[r] \in Nat /\ n[q] \in Nat /\ Calls \in Nat /\ n[q] <= Calls
      BY <3>1, BcastAssumption DEF BInv, BTypeOK, Running
    <3>3. n[r] < n[q] \/ n[r] = n[q]
      BY <2>1 DEF Hindmost
    <3>4. QED
      BY <3>2, <3>3 DEF Running
  <2>3. CASE InLoop(r) /\ Receives(r)
    <3>1. ~Sends(r)
      BY <2>3, InLoopFacts DEF Sends, Receives
    <3>2. CASE mailbox[<<(RelRank(r) + root[n[r]] - known[r] + NP) % NP, r, BcastTag>>] # None
      BY <2>2, <3>1, <3>2 DEF CanGoOn
    <3>3. CASE \E s \in Rank : Hindmost(s) /\ InLoop(s) /\ Sends(s) /\ ~Receives(s)
      <4>1. PICK s \in Rank : Hindmost(s) /\ InLoop(s) /\ Sends(s) /\ ~Receives(s)
        BY <3>3
      <4>2. mailbox[<<s, (RelRank(s) + root[n[s]] + known[s]) % NP, BcastTag>>] = None
        BY <4>1, HindmostMaySend
      <4>3. QED
        BY <4>1, <4>2 DEF CanGoOn, InLoop
    <3>4. QED
      BY <2>1, <2>3, <3>2, <3>3, HindmostIsServed
  <2>4. CASE ~(InLoop(r) /\ Receives(r))
    BY <2>1, <2>2, <2>4, HindmostMaySend DEF CanGoOn
  <2>5. QED
    BY <2>3, <2>4
<1>2. QED
  BY <1>1, BInvariance, PTL

\* Every step takes its rank on and no other rank back: to the next call, or to
\* twice the distance in the same one, which ends at NP.  With BroadcastNeverStuck
\* this bounds the steps of a run, whatever the schedule.
StepsAdvance ==
  [][\E r \in Rank :
       /\ n' = [n EXCEPT ![r] = n'[r]] /\ known' = [known EXCEPT ![r] = known'[r]]
       /\ n[r] <= Calls
       /\ \/ n'[r] = n[r] + 1
          \/ n'[r] = n[r] /\ known[r] < NP /\ 0 < known[r] /\ known'[r] = 2 * known[r]]_vars

\* No rank ever repeats an iteration.
THEOREM BroadcastAdvances == Spec => StepsAdvance
<1> DEFINE A == \E r \in Rank :
                  /\ n' = [n EXCEPT ![r] = n'[r]] /\ known' = [known EXCEPT ![r] = known'[r]]
                  /\ n[r] <= Calls
                  /\ \/ n'[r] = n[r] + 1
                     \/ n'[r] = n[r] /\ known[r] < NP /\ 0 < known[r] /\ known'[r] = 2 * known[r]
<1>1. BInv /\ [Next]_vars => [A]_vars
  <2> SUFFICES ASSUME BInv, NEW r \in Rank, Step(r) PROVE A
    BY DEF Next
  <2>1. /\ n \in [Rank -> 1 .. Calls + 1] /\ known \in [Rank -> Power]
        /\ known[r] \in Nat \ {0}
    BY PowerPositive DEF BInv, BTypeOK
  <2>2. CASE \E b : Running(r) /\ Return(r, b)
    <3>1. /\ n[r] <= Calls /\ n' = [n EXCEPT ![r] = n[r] + 1]
          /\ known' = [known EXCEPT ![r] = 1]
      BY <2>2 DEF Return, Running
    <3>2. n'[r] = n[r] + 1 /\ known'[r] = 1
      BY <2>1, <3>1
    <3>3. QED
      BY <3>1, <3>2
  <2>3. CASE InLoop(r) /\ Double(r) /\ UNCHANGED n
    <3>1. /\ n[r] <= Calls /\ known[r] < NP /\ n' = n
          /\ known' = [known EXCEPT ![r] = known[r] * 2]
      BY <2>3 DEF InLoop, Running, Double
    <3>2. n' = [n EXCEPT ![r] = n'[r]] /\ n'[r] = n[r]
      BY <2>1, <3>1
    <3>3. known'[r] = 2 * known[r]
      BY <2>1, <3>1
    <3>4. known' = [known EXCEPT ![r] = known'[r]]
      BY <2>1, <3>1, <3>3
    <3>5. 0 < known[r]
      BY <2>1
    <3>6. QED
      BY <3>1, <3>2, <3>3, <3>4, <3>5
  <2>4. QED
    BY <2>2, <2>3 DEF Step, BadRoot, Finish, SendHalf, RecvHalf, PassHalf
<1>2. QED
  BY <1>1, BInvariance, PTL DEF Spec, StepsAdvance
=============================================================================
