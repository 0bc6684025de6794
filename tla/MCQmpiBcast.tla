---------------------------- MODULE MCQmpiBcast ----------------------------
(***************************************************************************)
(* QmpiBcast for TLC.  A rank other than the root passes an argument that  *)
(* the code overwrites; taking it always wrong is the worst case.  The     *)
(* algorithm numbers the ranks from the root, so renaming r to r + 1 (mod  *)
(* NP) throughout changes nothing: the first root is rank 0, or no rank.   *)
(* Exchanging the two bits in the first call changes nothing either.       *)
(***************************************************************************)
EXTENDS QmpiBcast

WorstArguments ==
  \A k \in 1 .. Calls, r, q \in Rank :
    val[k][r] = val[k][q] <=> (r = root[k] <=> q = root[k])

UpToRenaming ==
  /\ root[1] \in {0, NP}
  /\ root[1] = 0 => val[1][0] # False

MCInit == Init /\ WorstArguments /\ UpToRenaming

MCSpec == MCInit /\ [][Next]_vars /\ Fairness
=============================================================================
