---------------------------- MODULE LogicOracle -----------------------------
(***************************************************************************)
(* An oracle function on its way to a circuit (Logic2ISQ.cpp): its network *)
(* is pebbled, and the steps are turned into gates.                        *)
(***************************************************************************)
EXTENDS GreedyPebbling, OracleCircuit

\* Functions as the logic dialect has them, and the views of mockturtle.
ASSUME FunctionsAssumption == \A f \in Functions : IsFunction(f)
ASSUME ViewsAssumption == \A f \in Functions : IsView(XagOf(f), topo_view(XagOf(f)))

vars == <<pvars, qvars>>

Init == PebblingInit /\ QubitsInit

Pebble ==
  /\ phase = "pebble"
  /\ PebblingNext
  /\ UNCHANGED qvars

\* The synthesis begins when the strategy has made all its steps.
Synthesize ==
  /\ stack = <<>>
  /\ Prepare \/ Emit
  /\ UNCHANGED <<func, net, stack, computed, half, run>>

Done == phase = "done" /\ UNCHANGED vars

Next == Pebble \/ Synthesize \/ Done
Spec == Init /\ [][Next]_vars

---------------------------------------------------------------------------
\* The calls of the pebbling find what they need (EachCallFindsItsPebbles), their
\* cuts a node to go on with (NextIsSet), and its steps are then a pebbling of a
\* well-formed network: all that the circuit relies on (GreedyPebbling.hpp,
\* LHRSOracle.hpp).
CallsFindTheirPebbles ==
  /\ EachCallFindsItsPebbles
  /\ NextIsSet
  /\ phase = "emit" /\ at = 1 => Pebbled

\* The circuit leaves the values of the network in the outputs (OutputsAreTheNetwork:
\* on qubits that are 0, or added to whatever a single output holds, as the
\* documented use of an oracle has it), and those are what the function returns.
OutputsAreTheFunction ==
  /\ OutputsAreTheNetwork
  /\ phase = "done" =>
       \A v \in Assignments :
         LET returned == Returned(func, [k \in 1..xag.pis |-> v \in Bit(k)])
         IN  \A j \in DOMAIN xag.pos :
               returned[j] = (v \in Turned(NodeValue[xag.pos[j].node], xag.pos[j].neg))
=============================================================================
