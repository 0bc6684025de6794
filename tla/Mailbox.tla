------------------------------ MODULE Mailbox ------------------------------
(***************************************************************************)
(* The classical mailbox of a QMPI run: one map inside the simulator's     *)
(* context, keyed by (sender, receiver, tag), that holds at most one bit   *)
(* per key.  Every rank thread reaches it through the context mutex, and   *)
(* each operation below is one critical section that succeeds.  A critical *)
(* section that finds the slot in the wrong state changes nothing, unlocks,*)
(* sleeps and tries again: that is a stuttering step, so "blocked" here is *)
(* "not enabled", and a thread that keeps polling is one under weak        *)
(* fairness.                                                               *)
(***************************************************************************)
EXTENDS Integers

CONSTANTS
  NP,     \* number of rank threads, the --np argument
  Tag,    \* the tags the program uses
  Val,    \* the payloads
  None    \* what the map answers for an absent key

ASSUME NPAssumption == NP \in Nat \ {0}
ASSUME NoneAssumption == None \notin Val

VARIABLE mailbox

\* The ranks of the spawned threads.
Rank == 0 .. NP - 1

\* The ranks a program may name as a peer: csend does not check that the
\* receiver exists, so one that was never spawned is among them.
Peer == 0 .. NP

\* The keys of the map.
Chan == Peer \X Peer \X Tag

MailboxInit == mailbox = [c \in Chan |-> None]

\* A send that does not look at the slot first.
Csend_Overwrites(s, r, t, v) ==
  mailbox' = [mailbox EXCEPT ![<<s, r, t>>] = v]

\* csend by rank s: fills an empty slot and returns.
Csend(s, r, t, v) ==
  /\ mailbox[<<s, r, t>>] = None
  /\ mailbox' = [mailbox EXCEPT ![<<s, r, t>>] = v]

\* A receive that forgets to remove the entry.
Crecv_Keeps(s, r, t, v) ==
  /\ mailbox[<<s, r, t>>] # None
  /\ v = mailbox[<<s, r, t>>]
  /\ UNCHANGED mailbox

\* crecv by rank r: empties a full slot and returns the bit v it held.
Crecv(s, r, t, v) ==
  /\ mailbox[<<s, r, t>>] # None
  /\ v = mailbox[<<s, r, t>>]
  /\ mailbox' = [mailbox EXCEPT ![<<s, r, t>>] = None]

MailboxType == mailbox \in [Chan -> Val \cup {None}]
=============================================================================
