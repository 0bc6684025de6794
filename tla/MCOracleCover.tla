--------------------------- MODULE MCOracleCover ----------------------------
(***************************************************************************)
(* Esop for TLC: all rows of two and of three inputs, and rows of four     *)
(* inputs: those with few ones, and some of eight ones where cubes of      *)
(* different layers meet, which no row of three inputs brings about.       *)
(***************************************************************************)
EXTENDS Esop

Row(n, on) == [n |-> n, on |-> on]
Meeting == {0, 1, 3, 4, 6, 9}
MCTables ==
  {Row(2, A) : A \in SUBSET (0..3)} \cup {Row(3, A) : A \in SUBSET (0..7)}
    \cup {Row(4, A) : A \in {B \in SUBSET (0..15) : {0, 3} \subseteq B /\ Cardinality(B) <= 4}}
    \cup {Row(4, Meeting \cup A) : A \in {B \in SUBSET ((0..15) \ Meeting) : Cardinality(B) = 2}}
=============================================================================
