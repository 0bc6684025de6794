---------------------------- MODULE OracleCover -----------------------------
(***************************************************************************)
(* One row of an oracle on its way from a truth table to cubes             *)
(* (OracleDecompose.cpp, lib/oracle/QM.cpp): first a cover of the table,   *)
(* then the layers of cubes with 0, 1, ... dashes one after the other,     *)
(* where pairs of near cubes become larger cubes of the next layer.  Which *)
(* cover and which pairs is left open here; Esop has the choices of the    *)
(* code.                                                                   *)
(*                                                                         *)
(* A wrong union or a wrong toggle does not fail: it makes another oracle, *)
(* for some tables and some seeds only.                                    *)
(***************************************************************************)
EXTENDS Cubes

CONSTANT Tables   \* records: n inputs, on the set of inputs with value 1

ASSUME TablesAssumption ==
  \A t \in Tables : t.n \in Nat /\ t.on \in SUBSET InputsOf(t.n)

VARIABLES
  table,    \* the row
  layers,   \* layers[i]: the cubes with i dashes
  at,       \* the layer that is optimised
  picks,    \* the pairs of it that have been chosen, and what they become
  pc        \* "cover", "choose", "apply", "done"
vars == <<table, layers, at, picks, pc>>

Top  == table.n + 1
None == [p \in {} |-> {}]
Cubes == UNION {layers[i] : i \in 0..Top}

Init ==
  /\ table \in Tables
  /\ layers = [i \in 0..Top |-> {}]
  /\ at = 0
  /\ picks = None
  /\ pc = "cover"

\* The cubes of simplify, sorted by their dashes.
Cover(cubes) ==
  /\ pc = "cover" /\ table.on # {}
  /\ layers' = Sorted(cubes, table.n)
  /\ pc' = "choose"
  /\ UNCHANGED <<table, at, picks>>

\* A row without ones needs no cubes.
NoOnes ==
  /\ pc = "cover" /\ table.on = {}
  /\ pc' = "done"
  /\ UNCHANGED <<table, layers, at, picks>>

\* optimizeLayer, and then what optimize does with its result.
Choose(chosen) ==
  /\ pc = "choose"
  /\ picks' = chosen
  /\ pc' = "apply"
  /\ UNCHANGED <<table, layers, at>>
Apply ==
  /\ pc = "apply"
  /\ layers' = Merged(layers, at, picks)
  /\ picks' = None
  /\ at' = at + 1
  /\ pc' = IF at = table.n THEN "done" ELSE "choose"
  /\ UNCHANGED table

Done == pc = "done" /\ UNCHANGED vars

---------------------------------------------------------------------------
\* Any cover by no more cubes than ones, and any choice of disjoint near pairs.

IsCover(cubes) ==
  /\ IsFiniteSet(cubes) /\ cubes \subseteq CubesOf(table.n)
  /\ TableOf(cubes, table.n) = table.on
  /\ Cardinality(cubes) <= Cardinality(table.on)
Decisions(layer) == UNION {[P -> SUBSET CubesOf(table.n)] : P \in SUBSET SUBSET layer}

AnyNext ==
  \/ \E cubes \in SUBSET CubesOf(table.n) : IsCover(cubes) /\ Cover(cubes)
  \/ NoOnes
  \/ \E chosen \in Decisions(layers[at]) : IsMerge(layers[at], chosen) /\ Choose(chosen)
  \/ Apply
  \/ Done
AnySpec == Init /\ [][AnyNext]_vars

---------------------------------------------------------------------------
\* From the cover on, the cubes of all layers have the table of the oracle as
\* their parity at every moment, each lies in the layer of its dashes, and they
\* are never more than the ones of the table: a layer that hands two cubes on has
\* given up two, and cubes that meet in the next layer vanish in pairs.  What is
\* chosen are disjoint pairs of the layer and unions of theirs.  The loop takes
\* its result from the layers up to n, so nothing may be left behind them
\* (QM::optimize, QM::optimizeLayer).
CubesAreTheTable ==
  /\ pc # "cover" =>
       /\ TableOf(Cubes, table.n) = table.on
       /\ Cardinality(Cubes) <= Cardinality(table.on)
       /\ \A i \in 0..Top : \A c \in layers[i] : c \in CubesOf(table.n) /\ Dashes(c) = i
       /\ layers[Top] = {}
  /\ pc = "apply" => IsMerge(layers[at], picks)
=============================================================================
