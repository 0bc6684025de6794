------------------------------ MODULE Barrier ------------------------------
(***************************************************************************)
(* What a reusable barrier promises, without saying how: a process leaves  *)
(* its k-th barrier only when every process has entered its k-th.          *)
(***************************************************************************)
EXTENDS Integers

CONSTANTS Proc, Rounds   \* the processes; barriers each goes through

VARIABLES entered, left  \* barriers each process has entered and left

Init == entered = [p \in Proc |-> 0] /\ left = [p \in Proc |-> 0]

Enter(p) ==
  /\ entered[p] = left[p]
  /\ entered[p] < Rounds
  /\ entered' = [entered EXCEPT ![p] = @ + 1]
  /\ UNCHANGED left

Leave(p) ==
  /\ left[p] < entered[p]
  /\ \A q \in Proc : left[p] < entered[q]
  /\ left' = [left EXCEPT ![p] = @ + 1]
  /\ UNCHANGED entered

Next == \E p \in Proc : Enter(p) \/ Leave(p)

Spec == Init /\ [][Next]_<<entered, left>>
=============================================================================
