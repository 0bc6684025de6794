--------------------------- MODULE DeviceRegister ---------------------------
(***************************************************************************)
(* The device stack implements a register of named qubits, until one of    *)
(* the two calls it gets wrong: what the two numberings and the vector of  *)
(* the simulator say, put together, is a superposition over the names in   *)
(* use.                                                                    *)
(***************************************************************************)
EXTENDS DeviceStack

\* The vector, seen through the names.  Until the vector is too long its entries
\* are integers; the register leaves the common factor out.
Ones(i) == {q \in InUse : Bit(i, dev.map[qubit_mapping[q]]) = 1}
Terms ==
  {<<Ones(i), dev.state[i][1]>> : i \in {j \in DOMAIN dev.state : dev.state[j] # Zero}}

Register ==
  INSTANCE QuantumRegister WITH live <- InUse, next <- qubit_counter, psi <- Terms

\* A qubit keeps its amplitudes, its entanglement and its name while others are
\* renumbered: each call does to the names it was given what a register does.
\* This holds up to the first call the code gets wrong, and of nothing after it:
\* a gate with a controller that was moved from the position of its number, or
\* EPR on qubits that measured to different bits.  The assertion on the norm
\* (validate) fails after a call of the second kind only.
ImplementsRegister ==
  /\ Register!Init
  /\ [][moved' \/ overlong' > 0 \/ Register!Next]_(Register!vars)
  /\ [](panic = "norm" => overlong > 0)
=============================================================================
