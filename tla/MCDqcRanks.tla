----------------------------- MODULE MCDqcRanks -----------------------------
(***************************************************************************)
(* DqcRanks for TLC: scripts, and one order for steps whose order does not *)
(* matter.  The steps of Private touch the qubits, the locals, the post    *)
(* and the slots of one rank only: a slot has one sender and one receiver, *)
(* and a posted qubit is touched by its taker alone while its owner polls. *)
(* Once possible they stay possible, and each commutes with every step of  *)
(* another rank; none changes what another rank's qubits may measure to.   *)
(* They go first, a lower rank's before a higher rank's.  Measurements,    *)
(* frees and EPR gates of all ranks interleave freely.                     *)
(***************************************************************************)
EXTENDS DqcRanks

\* Pairs among three ranks.
Three == 0 .. 2
Pairs == {p \in Three \X Three : p[1] # p[2]}

Collectives ==
  {Cat(n) : n \in 1 .. NP} \cup {Bcast(1)} \cup {BcastUnbcast(k) : k \in Rank}
    \cup {Teleported(0, 1)} \cup {Cnots(s) : s \in Pairs \X Pairs}

Private ==
  {r \in Rank :
     \/ \E op \in {"gate", "assign", "post"} : Calls(r, op)
     \/ Calls(r, "csend") /\ mailbox[<<r, Call(r).peer, Call(r).tag>>] = None
     \/ \E op \in {"crecv", "crecvxor"} :
          Calls(r, op) /\ mailbox[<<Call(r).peer, r, Call(r).tag>>] # None
     \/ Calls(r, "posted") /\ \A p \in posts : p.key # Own(r)}

Goes == IF Private = {} THEN Rank ELSE {CHOOSE r \in Private : \A q \in Private : r <= q}

MCNext == (\E r \in Goes : Step(r)) \/ (Finished /\ UNCHANGED vars)

MCSpec == Init /\ [][MCNext]_vars
\* The code of a run follows from its script.
Seen == <<mailbox, script, pc, local, posts, psi>>
=============================================================================
