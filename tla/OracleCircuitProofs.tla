------------------------ MODULE OracleCircuitProofs -------------------------
(***************************************************************************)
(* An oracle function, its network and its circuit, whatever the function, *)
(* and for every pebbling of the network: the network computes what the    *)
(* function returns; ancillas come back clean, and the outputs are what    *)
(* the network says.                                                       *)
(*                                                                         *)
(* The translation only adds to a network.  Nodes that are true as the     *)
(* gates of the whole network say are then true as those of any part of it *)
(* say, and each signal of the symbol table holds when the value of its    *)
(* key does (Agrees).                                                      *)
(*                                                                         *)
(* A node is uncomputed by the same gates that computed it, but the nodes  *)
(* it builds on may have been uncomputed and computed again in between, on *)
(* other qubits.  What makes the gates undo each other is that a node that *)
(* is held always has the same value: the one a valuation of the network   *)
(* gives it, the caller's bits in the output qubits included.              *)
(***************************************************************************)
EXTENDS OracleCircuit, SetInduction, SequenceTheorems

----------------------------------------------------------------------------
(* A network while it is built: gates are added to it. *)

GateSet == [kind : {"and", "xor"}, kids : Signals \X Signals]
LastOf(x) == x.pis + Len(x.gates)
SignalsOf(x) == [node : 0..LastOf(x), neg : BOOLEAN]
Shaped(x) ==
  /\ x = [pis |-> x.pis, gates |-> x.gates, pos |-> x.pos]
  /\ x.pis \in Nat
  /\ x.gates \in Seq(GateSet)
  /\ \A i \in 1..Len(x.gates) :
       /\ x.gates[i].kids[1].node \in 1..(x.pis + i - 1)
       /\ x.gates[i].kids[2].node \in 1..(x.pis + i - 1)
       /\ x.gates[i].kids[1].node # x.gates[i].kids[2].node

\* What is there of a network stays.
Grows(x, y) ==
  /\ y.pis = x.pis /\ y.pos = x.pos
  /\ Len(x.gates) <= Len(y.gates)
  /\ \A i \in 1..Len(x.gates) : y.gates[i] = x.gates[i]

\* T are the nodes that are true: what that makes of a signal and of a gate, and
\* whether it fits the gates of a network.
IsOn(T, s) == IF s.neg THEN s.node \notin T ELSE s.node \in T
GateIsOn(T, g) ==
  IF g.kind = "and" THEN IsOn(T, g.kids[1]) /\ IsOn(T, g.kids[2])
  ELSE ~(IsOn(T, g.kids[1]) <=> IsOn(T, g.kids[2]))
Fits(T, x) ==
  /\ 0 \notin T
  /\ \A i \in 1..Len(x.gates) : x.pis + i \in T <=> GateIsOn(T, x.gates[i])

\* Growing goes on.
LEMMA GrowsOn ==
  ASSUME NEW x, NEW y, NEW z, Shaped(x), Shaped(y), Shaped(z), Grows(x, y), Grows(y, z)
  PROVE  Grows(x, z)
<1>1. Len(x.gates) \in Nat /\ Len(y.gates) \in Nat /\ Len(z.gates) \in Nat
  BY DEF Shaped
<1>2. QED
  BY <1>1 DEF Grows

\* What fits a network fits what it has grown from.
LEMMA FitsBefore ==
  ASSUME NEW x, NEW y, Shaped(x), Shaped(y), Grows(x, y), NEW T, Fits(T, y)
  PROVE  Fits(T, x)
<1>1. Len(x.gates) \in Nat /\ Len(y.gates) \in Nat
  BY DEF Shaped
<1>2. QED
  BY <1>1 DEF Grows, Fits

\* And its signals are signals of what it has grown into.
LEMMA SignalsGrow ==
  ASSUME NEW x, NEW y, Shaped(x), Shaped(y), Grows(x, y)
  PROVE  SignalsOf(x) \subseteq SignalsOf(y)
<1>1. LastOf(x) \in Nat /\ LastOf(y) \in Nat /\ LastOf(x) <= LastOf(y)
  BY DEF Shaped, Grows, LastOf
<1>2. QED
  BY <1>1 DEF SignalsOf

\* A gate that is there already is found, and any other is added.
LEMMA NewGateFacts ==
  ASSUME NEW x, Shaped(x), NEW kind \in {"and", "xor"},
         NEW a \in SignalsOf(x), NEW b \in SignalsOf(x),
         a.node # 0, b.node # 0, a.node # b.node
  PROVE  LET made == NewGate(x, kind, a, b)
         IN  /\ Shaped(made.xag) /\ Grows(x, made.xag)
             /\ made.signal \in SignalsOf(made.xag) /\ ~made.signal.neg
             /\ made = [xag |-> made.xag, signal |-> made.signal]
             /\ \A T : Fits(T, made.xag) =>
                         (made.signal.node \in T <=> GateIsOn(T, [kind |-> kind, kids |-> <<a, b>>]))
<1> DEFINE gate == [kind |-> kind, kids |-> <<a, b>>]
           same == {k \in DOMAIN x.gates : x.gates[k] = gate}
           made == NewGate(x, kind, a, b)
           n == Len(x.gates)
<1>1. /\ n \in Nat /\ x.pis \in Nat /\ DOMAIN x.gates = 1..n
      /\ x = [pis |-> x.pis, gates |-> x.gates, pos |-> x.pos]
  BY DEF Shaped
<1>2. /\ a.node \in 1..(x.pis + n) /\ b.node \in 1..(x.pis + n)
      /\ a \in Signals /\ b \in Signals
  BY <1>1 DEF SignalsOf, LastOf, Signals
<1>3. gate \in GateSet /\ gate.kids[1] = a /\ gate.kids[2] = b
  BY <1>2 DEF GateSet
<1>4. CASE same # {}
  <2>1. Min(same) \in same
    <3>1. same \in SUBSET Nat
      BY <1>1
    <3> HIDE DEF same
    <3>2. \E k \in same : \A l \in same : k <= l
      BY <1>4, <3>1, LeastNumber
    <3>3. QED
      BY <3>2 DEF Min
  <2>2. made = [xag |-> x, signal |-> Signal(x.pis + Min(same), FALSE)]
    BY <1>4 DEF NewGate
  <2>3. PICK k \in 1..n : x.gates[k] = gate /\ made = [xag |-> x, signal |-> [node |-> x.pis + k, neg |-> FALSE]]
    BY <1>1, <2>1, <2>2 DEF Signal
  <2> HIDE DEF made, same, gate
  <2>4. made.xag = x /\ made.signal = [node |-> x.pis + k, neg |-> FALSE]
    BY <2>3
  <2>5. made.signal \in SignalsOf(x) /\ ~made.signal.neg /\ made.signal.node = x.pis + k
    BY <1>1, <2>4 DEF SignalsOf, LastOf
  <2>6. Grows(x, x)
    BY <1>1 DEF Grows
  <2>7. \A T : Fits(T, x) => (x.pis + k \in T <=> GateIsOn(T, gate))
    BY <2>3 DEF Fits
  <2>8. QED
    BY <2>3, <2>4, <2>5, <2>6, <2>7 DEF made, gate
<1>5. CASE same = {}
  <2> DEFINE more == Append(x.gates, gate)
             y == [pis |-> x.pis, gates |-> more, pos |-> x.pos]
  <2>1. made = [xag |-> [x EXCEPT !.gates = Append(@, gate)], signal |-> Signal(x.pis + n + 1, FALSE)]
    BY <1>5 DEF NewGate
  <2>2. [x EXCEPT !.gates = Append(@, gate)] = y
    <3> HIDE DEF gate, same, made
    <3> DEFINE p == x.pis
               g == x.gates
               o == x.pos
    <3>1. x = [pis |-> p, gates |-> g, pos |-> o]
      BY <1>1
    <3> HIDE DEF p, g, o
    <3>2. [x EXCEPT !.gates = Append(@, gate)] = [pis |-> p, gates |-> Append(g, gate), pos |-> o]
      BY <3>1, SMTT(40)
    <3>3. QED
      BY <3>2 DEF p, g, o
  <2>3. made = [xag |-> y, signal |-> [node |-> x.pis + n + 1, neg |-> FALSE]]
    BY <2>1, <2>2 DEF Signal
  <2>4. /\ more \in Seq(GateSet) /\ Len(more) = n + 1 /\ more[n + 1] = gate
        /\ \A i \in 1..n : more[i] = x.gates[i]
    <3> HIDE DEF gate
    <3>1. x.gates \in Seq(GateSet)
      BY DEF Shaped
    <3>2. QED
      BY <1>3, <3>1
  <2> HIDE DEF made, same, gate, more
  <2>5. y.pis = x.pis /\ y.gates = more /\ y.pos = x.pos /\ y = [pis |-> y.pis, gates |-> y.gates, pos |-> y.pos]
    OBVIOUS
  <2> HIDE DEF y
  <2>6. Grows(x, y)
    BY <1>1, <2>4, <2>5 DEF Grows
  <2>7. Shaped(y)
    <3>1. ASSUME NEW i \in 1..(n + 1)
          PROVE  /\ more[i].kids[1].node \in 1..(x.pis + i - 1)
                 /\ more[i].kids[2].node \in 1..(x.pis + i - 1)
                 /\ more[i].kids[1].node # more[i].kids[2].node
      <4>1. CASE i = n + 1
        <5>1. more[i].kids[1] = a /\ more[i].kids[2] = b /\ x.pis + i - 1 = x.pis + n
          BY <1>1, <1>3, <2>4, <4>1
        <5>2. QED
          BY <1>2, <5>1
      <4>2. CASE i # n + 1
        <5>1. i \in 1..n
          BY <1>1, <4>2
        <5>2. QED
          BY <2>4, <5>1 DEF Shaped
      <4>3. QED
        BY <4>1, <4>2
    <3>2. QED
      BY <1>1, <2>4, <2>5, <3>1 DEF Shaped
  <2>8. made.xag = y /\ made.signal = [node |-> x.pis + n + 1, neg |-> FALSE]
    BY <2>3
  <2>9. made.signal \in SignalsOf(y) /\ ~made.signal.neg /\ made.signal.node = x.pis + (n + 1)
    <3>1. LastOf(y) = x.pis + (n + 1) /\ x.pis + (n + 1) \in 0..LastOf(y)
      BY <1>1, <2>4, <2>5 DEF LastOf
    <3>2. x.pis + n + 1 = x.pis + (n + 1)
      BY <1>1
    <3>3. QED
      BY <2>8, <3>1, <3>2 DEF SignalsOf
  <2>10. \A T : Fits(T, y) => (x.pis + (n + 1) \in T <=> GateIsOn(T, gate))
    <3>1. n + 1 \in 1..Len(y.gates) /\ y.gates[n + 1] = gate /\ y.pis = x.pis
      BY <1>1, <2>4, <2>5
    <3>2. QED
      BY <3>1 DEF Fits
  <2>11. QED
    BY <2>3, <2>6, <2>7, <2>8, <2>9, <2>10 DEF made, gate
<1>6. QED
  BY <1>4, <1>5

\* What making a gate comes to: more of the network, and a signal of it.
IsMade(x, made) ==
  /\ Shaped(made.xag) /\ Grows(x, made.xag)
  /\ made.signal \in SignalsOf(made.xag)
  /\ made = [xag |-> made.xag, signal |-> made.signal]

\* The signals of a network, and their complements.
LEMMA SignalFacts ==
  ASSUME NEW x, Shaped(x), NEW s \in SignalsOf(x)
  PROVE  /\ s = [node |-> s.node, neg |-> s.neg]
         /\ s.node \in 0..LastOf(x) /\ s.node \in Nat /\ s.neg \in BOOLEAN
         /\ Negated(s) \in SignalsOf(x)
         /\ Negated(s).node = s.node /\ Negated(s).neg = ~s.neg
         /\ \A T : IsOn(T, Negated(s)) <=> ~IsOn(T, s)
<1>1. LastOf(x) \in Nat
  BY DEF Shaped, LastOf
<1>2. s = [node |-> s.node, neg |-> s.neg] /\ s.node \in 0..LastOf(x) /\ s.neg \in BOOLEAN
  BY DEF SignalsOf
<1>3. Negated(s) = [node |-> s.node, neg |-> ~s.neg]
  BY DEF Negated, Signal
<1>4. Negated(s).node = s.node /\ Negated(s).neg = ~s.neg /\ Negated(s) \in SignalsOf(x)
  BY <1>2, <1>3 DEF SignalsOf
<1>5. \A T : IsOn(T, Negated(s)) <=> ~IsOn(T, s)
  BY <1>2, <1>4 DEF IsOn
<1>6. QED
  BY <1>1, <1>2, <1>4, <1>5

\* A constant is a signal of every network, with its value.
LEMMA ConstantFacts ==
  ASSUME NEW x, Shaped(x), NEW value \in BOOLEAN
  PROVE  Constant(value) \in SignalsOf(x) /\ \A T : 0 \notin T => (IsOn(T, Constant(value)) <=> value)
<1>1. LastOf(x) \in Nat
  BY DEF Shaped, LastOf
<1>2. Constant(value) = [node |-> 0, neg |-> value]
  BY DEF Constant, Signal
<1>3. QED
  BY <1>1, <1>2 DEF IsOn, SignalsOf

\* No gate is needed.
LEMMA Unmade ==
  ASSUME NEW x, Shaped(x), NEW s \in SignalsOf(x)
  PROVE  IsMade(x, [xag |-> x, signal |-> s])
<1>1. Grows(x, x)
  <2>1. Len(x.gates) \in Nat
    BY DEF Shaped
  <2>2. QED
    BY <2>1 DEF Grows
<1>2. QED
  BY <1>1 DEF IsMade

\* create_and does what it says.
LEMMA CreateAndFacts ==
  ASSUME NEW x, Shaped(x), NEW s \in SignalsOf(x), NEW t \in SignalsOf(x)
  PROVE  LET made == create_and(x, s, t)
         IN  /\ IsMade(x, made)
             /\ \A T : Fits(T, made.xag) => (IsOn(T, made.signal) <=> IsOn(T, s) /\ IsOn(T, t))
<1> DEFINE a == IF s.node > t.node THEN t ELSE s
           b == IF s.node > t.node THEN s ELSE t
           made == create_and(x, s, t)
<1>1. a \in SignalsOf(x) /\ b \in SignalsOf(x)
  OBVIOUS
<1>2. \A T : (IsOn(T, s) /\ IsOn(T, t)) <=> (IsOn(T, a) /\ IsOn(T, b))
  BY Zenon
<1>3. made = CASE a = b             -> [xag |-> x, signal |-> a]
               [] a = Negated(b)    -> [xag |-> x, signal |-> Constant(FALSE)]
               [] a # b /\ a.node = 0 /\ b.node # 0 ->
                    [xag |-> x, signal |-> IF a.neg THEN b ELSE Constant(FALSE)]
               [] OTHER             -> NewGate(x, "and", a, b)
  BY DEF create_and
<1>4. a.node <= b.node
  BY SignalFacts
<1> HIDE DEF a, b, made
<1>5. /\ a = [node |-> a.node, neg |-> a.neg] /\ a.neg \in BOOLEAN /\ a.node \in Nat
      /\ b = [node |-> b.node, neg |-> b.neg] /\ b.neg \in BOOLEAN /\ b.node \in Nat
      /\ Negated(b) = [node |-> b.node, neg |-> ~b.neg]
  BY <1>1, SignalFacts DEF Negated, Signal
<1>6. Constant(FALSE) \in SignalsOf(x) /\ \A T : 0 \notin T => ~IsOn(T, Constant(FALSE))
  BY ConstantFacts
<1>7. CASE a = b
  <2>1. made = [xag |-> x, signal |-> a]
    <3>1. a # Negated(b)
      BY <1>5, <1>7
    <3>2. QED
      BY <1>3, <1>7, <3>1
  <2>2. IsMade(x, made) /\ made.signal = a
    BY <1>1, <2>1, Unmade
  <2>3. QED
    BY <1>2, <1>7, <2>2 DEF made
<1>8. CASE a = Negated(b)
  <2>1. a # b /\ a.node = b.node
    BY <1>5, <1>8
  <2>2. made = [xag |-> x, signal |-> Constant(FALSE)]
    BY <1>3, <1>8, <2>1
  <2>3. IsMade(x, made) /\ made.signal = Constant(FALSE) /\ made.xag = x
    BY <1>6, <2>2, Unmade
  <2>4. \A T : ~(IsOn(T, a) /\ IsOn(T, b))
    BY <1>1, <1>8, SignalFacts
  <2>5. QED
    BY <1>2, <1>6, <2>3, <2>4 DEF made, Fits
<1>9. CASE a # b /\ a # Negated(b) /\ a.node = 0
  <2>1. b.node # 0
    BY <1>5, <1>9
  <2>2. made = [xag |-> x, signal |-> IF a.neg THEN b ELSE Constant(FALSE)]
    BY <1>3, <1>9, <2>1
  <2>3. made.xag = x /\ made.signal = IF a.neg THEN b ELSE Constant(FALSE)
    BY <2>2
  <2>4. IsMade(x, made)
    BY <1>1, <1>6, <2>2, Unmade
  <2>5. \A T : 0 \notin T => (IsOn(T, a) <=> a.neg)
    BY <1>5, <1>9 DEF IsOn
  <2>6. \A T : Fits(T, x) => (IsOn(T, made.signal) <=> IsOn(T, a) /\ IsOn(T, b))
    <3>1. CASE a.neg
      BY <2>3, <2>5, <3>1 DEF Fits
    <3>2. CASE ~a.neg
      BY <1>6, <2>3, <2>5, <3>2 DEF Fits
    <3>3. QED
      BY <3>1, <3>2
  <2>7. QED
    BY <1>2, <2>3, <2>4, <2>6 DEF made
<1>10. CASE a # b /\ a # Negated(b) /\ a.node # 0
  <2>1. a.node # b.node /\ b.node # 0
    <3>1. b.node # 0
      BY <1>4, <1>5, <1>10
    <3>2. ASSUME a.node = b.node PROVE FALSE
      <4>1. a.neg = b.neg \/ a.neg = ~b.neg
        BY <1>5
      <4>2. QED
        BY <1>5, <1>10, <3>2, <4>1
    <3>3. QED
      BY <3>1, <3>2
  <2>2. made = NewGate(x, "and", a, b)
    BY <1>3, <1>10
  <2> DEFINE gate == [kind |-> "and", kids |-> <<a, b>>]
  <2>3. /\ IsMade(x, made) /\ ~made.signal.neg
        /\ \A T : Fits(T, made.xag) => (made.signal.node \in T <=> GateIsOn(T, gate))
    BY <1>1, <1>10, <2>1, <2>2, NewGateFacts DEF IsMade
  <2>4. \A T : GateIsOn(T, gate) <=> IsOn(T, a) /\ IsOn(T, b)
    BY DEF GateIsOn
  <2>5. \A T : IsOn(T, made.signal) <=> made.signal.node \in T
    BY <2>3 DEF IsOn
  <2> HIDE DEF gate
  <2>6. QED
    BY <1>2, <2>3, <2>4, <2>5 DEF made
<1>11. QED
  BY <1>7, <1>8, <1>9, <1>10

\* So does create_xor.
LEMMA CreateXorFacts ==
  ASSUME NEW x, Shaped(x), NEW s \in SignalsOf(x), NEW t \in SignalsOf(x)
  PROVE  LET made == create_xor(x, s, t)
         IN  /\ IsMade(x, made)
             /\ \A T : Fits(T, made.xag) => (IsOn(T, made.signal) <=> ~(IsOn(T, s) <=> IsOn(T, t)))
<1> DEFINE a == IF s.node < t.node THEN t ELSE s
           b == IF s.node < t.node THEN s ELSE t
           neg == s.neg # t.neg
           plain(u) == Signal(u.node, FALSE)
           gate == NewGate(x, "xor", plain(a), plain(b))
           made == create_xor(x, s, t)
<1>1. a \in SignalsOf(x) /\ b \in SignalsOf(x) /\ neg \in BOOLEAN
  BY SignalFacts
<1>2. \A T : ~(IsOn(T, s) <=> IsOn(T, t)) <=> ~(IsOn(T, a) <=> IsOn(T, b))
  BY Zenon
<1>3. neg <=> ~(a.neg <=> b.neg)
  BY SignalFacts
<1>4. b.node <= a.node
  BY SignalFacts
<1>5. made = CASE a.node = b.node -> [xag |-> x, signal |-> Constant(neg)]
               [] a.node # 0 /\ b.node = 0 -> [xag |-> x, signal |-> Signal(a.node, neg)]
               [] OTHER           -> [gate EXCEPT !.signal = Signal(@.node, neg)]
  BY DEF create_xor
<1> HIDE DEF a, b, made, neg, gate
<1>6. /\ a.neg \in BOOLEAN /\ a.node \in Nat /\ a.node \in 0..LastOf(x)
      /\ b.neg \in BOOLEAN /\ b.node \in Nat /\ b.node \in 0..LastOf(x)
  BY <1>1, SignalFacts
<1>7. \A T : (~(IsOn(T, a) <=> IsOn(T, b))) <=> IF neg THEN a.node \in T <=> b.node \in T ELSE ~(a.node \in T <=> b.node \in T)
  <2>1. CASE a.neg /\ b.neg
    BY <1>3, <2>1 DEF IsOn
  <2>2. CASE a.neg /\ ~b.neg
    BY <1>3, <2>2 DEF IsOn
  <2>3. CASE ~a.neg /\ b.neg
    BY <1>3, <2>3 DEF IsOn
  <2>4. CASE ~a.neg /\ ~b.neg
    BY <1>3, <2>4 DEF IsOn
  <2>5. QED
    BY <2>1, <2>2, <2>3, <2>4
<1>8. CASE a.node = b.node
  <2>1. made = [xag |-> x, signal |-> Constant(neg)]
    BY <1>5, <1>8
  <2>2. /\ Constant(neg) \in SignalsOf(x)
        /\ \A T : 0 \notin T => (IsOn(T, Constant(neg)) <=> neg)
    BY <1>1, ConstantFacts
  <2>3. IsMade(x, made) /\ made.xag = x /\ made.signal = Constant(neg)
    BY <2>1, <2>2, Unmade
  <2>4. \A T : (~(IsOn(T, a) <=> IsOn(T, b))) <=> neg
    BY <1>1, <1>7, <1>8
  <2>5. QED
    BY <1>2, <2>2, <2>3, <2>4 DEF made, Fits
<1>9. CASE a.node # b.node /\ b.node = 0
  <2>1. made = [xag |-> x, signal |-> [node |-> a.node, neg |-> neg]]
    BY <1>5, <1>9 DEF Signal
  <2>2. [node |-> a.node, neg |-> neg] \in SignalsOf(x)
    BY <1>1, <1>6 DEF SignalsOf
  <2>3. IsMade(x, made) /\ made.xag = x /\ made.signal = [node |-> a.node, neg |-> neg]
    BY <2>1, <2>2, Unmade
  <2>4. \A T : IsOn(T, made.signal) <=> IF neg THEN a.node \notin T ELSE a.node \in T
    BY <2>3 DEF IsOn
  <2>5. \A T : 0 \notin T => (IsOn(T, made.signal) <=> ~(IsOn(T, a) <=> IsOn(T, b)))
    BY <1>1, <1>7, <1>9, <2>4
  <2>6. QED
    BY <1>2, <2>3, <2>5 DEF made, Fits
<1>10. CASE a.node # b.node /\ b.node # 0
  <2>1. made = [gate EXCEPT !.signal = Signal(@.node, neg)]
    BY <1>5, <1>10
  <2>2. a.node # 0
    BY <1>4, <1>6, <1>10
  <2>3. /\ plain(a) \in SignalsOf(x) /\ plain(a).node = a.node /\ ~plain(a).neg
        /\ plain(b) \in SignalsOf(x) /\ plain(b).node = b.node /\ ~plain(b).neg
    BY <1>6 DEF SignalsOf, Signal
  <2> HIDE DEF plain
  <2> DEFINE xor == [kind |-> "xor", kids |-> <<plain(a), plain(b)>>]
  <2>4. /\ IsMade(x, gate) /\ ~gate.signal.neg
        /\ \A T : Fits(T, gate.xag) => (gate.signal.node \in T <=> GateIsOn(T, xor))
    BY <1>10, <2>2, <2>3, NewGateFacts DEF IsMade, gate
  <2>5. \A T : GateIsOn(T, xor) <=> ~(a.node \in T <=> b.node \in T)
    <3>1. \A T : GateIsOn(T, xor) <=> ~(IsOn(T, plain(a)) <=> IsOn(T, plain(b)))
      BY DEF GateIsOn
    <3>2. QED
      BY <2>3, <3>1 DEF IsOn
  <2> HIDE DEF xor
  <2>6. made = [xag |-> gate.xag, signal |-> [node |-> gate.signal.node, neg |-> neg]]
    <3> DEFINE g == gate.xag
               u == gate.signal
    <3>1. gate = [xag |-> g, signal |-> u]
      BY <2>4 DEF IsMade
    <3> HIDE DEF g, u
    <3>2. [gate EXCEPT !.signal = Signal(@.node, neg)] = [xag |-> g, signal |-> Signal(u.node, neg)]
      BY <3>1
    <3>3. QED
      BY <2>1, <3>2 DEF g, u, Signal
  <2>7. made.xag = gate.xag /\ made.signal = [node |-> gate.signal.node, neg |-> neg]
    BY <2>6
  <2>8. made.signal \in SignalsOf(made.xag)
    BY <1>1, <2>4, <2>7 DEF IsMade, SignalsOf
  <2>9. IsMade(x, made)
    BY <2>4, <2>6, <2>7, <2>8 DEF IsMade
  <2>10. \A T : IsOn(T, made.signal) <=> IF neg THEN gate.signal.node \notin T ELSE gate.signal.node \in T
    BY <2>7 DEF IsOn
  <2>11. \A T : Fits(T, made.xag) => (IsOn(T, made.signal) <=> ~(IsOn(T, a) <=> IsOn(T, b)))
    BY <1>1, <1>7, <2>4, <2>5, <2>7, <2>10
  <2>12. QED
    BY <1>2, <2>9, <2>11 DEF made
<1>11. QED
  BY <1>8, <1>9, <1>10

Ops == {"and", "or", "xor", "xnor"}
OpIsOn(op, T, s, t) ==
  IF op = "and" THEN IsOn(T, s) /\ IsOn(T, t)
  ELSE IF op = "or" THEN IsOn(T, s) \/ IsOn(T, t)
  ELSE IF op = "xor" THEN ~(IsOn(T, s) <=> IsOn(T, t))
  ELSE IsOn(T, s) <=> IsOn(T, t)

\* What a statement says of values, OpIsOn says of signals.
LEMMA AppliedFacts ==
  ASSUME NEW op \in Ops, NEW T, NEW s, NEW t, NEW p \in BOOLEAN, NEW q \in BOOLEAN,
         p <=> IsOn(T, s), q <=> IsOn(T, t)
  PROVE  Applied(op, p, q) \in BOOLEAN /\ (Applied(op, p, q) <=> OpIsOn(op, T, s, t))
<1>1. CASE op = "and"
  BY <1>1 DEF Applied, OpIsOn
<1>2. CASE op = "or"
  BY <1>2 DEF Applied, OpIsOn
<1>3. CASE op = "xor"
  BY <1>3 DEF Applied, OpIsOn
<1>4. CASE op = "xnor"
  BY <1>4 DEF Applied, OpIsOn
<1>5. QED
  BY <1>1, <1>2, <1>3, <1>4 DEF Ops

\* The complement of what is made.
LEMMA ComplementFacts ==
  ASSUME NEW x, Shaped(x), NEW made, IsMade(x, made)
  PROVE  /\ IsMade(x, Complement(made)) /\ Complement(made).xag = made.xag
         /\ \A T : IsOn(T, Complement(made).signal) <=> ~IsOn(T, made.signal)
<1> DEFINE g == made.xag
           u == made.signal
<1>1. made = [xag |-> g, signal |-> u] /\ Shaped(g) /\ Grows(x, g) /\ u \in SignalsOf(g)
  BY DEF IsMade
<1> HIDE DEF g, u
<1>2. Complement(made) = [xag |-> g, signal |-> Negated(u)]
  BY <1>1 DEF Complement
<1>3. Complement(made).xag = g /\ Complement(made).signal = Negated(u)
  BY <1>2
<1>4. Negated(u) \in SignalsOf(g) /\ \A T : IsOn(T, Negated(u)) <=> ~IsOn(T, u)
  BY <1>1, SignalFacts
<1>5. g = made.xag /\ u = made.signal
  BY DEF g, u
<1>6. QED
  BY <1>1, <1>2, <1>3, <1>4, <1>5 DEF IsMade

\* A gate of any kind does what its statement says.
LEMMA CreateFacts ==
  ASSUME NEW x, Shaped(x), NEW op \in Ops, NEW s \in SignalsOf(x), NEW t \in SignalsOf(x)
  PROVE  LET made == Create(x, op, s, t)
         IN  /\ IsMade(x, made)
             /\ \A T : Fits(T, made.xag) => (IsOn(T, made.signal) <=> OpIsOn(op, T, s, t))
<1>1. CASE op = "and"
  <2>1. Create(x, op, s, t) = create_and(x, s, t)
    BY <1>1 DEF Create
  <2>2. QED
    BY <1>1, <2>1, CreateAndFacts DEF OpIsOn
<1>2. CASE op = "xor"
  <2>1. Create(x, op, s, t) = create_xor(x, s, t)
    BY <1>2 DEF Create
  <2>2. QED
    BY <1>2, <2>1, CreateXorFacts DEF OpIsOn
<1>3. CASE op = "xnor"
  <2> DEFINE made == create_xor(x, s, t)
  <2>1. Create(x, op, s, t) = Complement(made)
    BY <1>3 DEF Create
  <2>2. /\ IsMade(x, made)
        /\ \A T : Fits(T, made.xag) => (IsOn(T, made.signal) <=> ~(IsOn(T, s) <=> IsOn(T, t)))
    BY CreateXorFacts
  <2> HIDE DEF made
  <2>3. \A T : OpIsOn(op, T, s, t) <=> (IsOn(T, s) <=> IsOn(T, t))
    BY <1>3 DEF OpIsOn
  <2>4. QED
    BY <2>1, <2>2, <2>3, ComplementFacts
<1>4. CASE op = "or"
  <2> DEFINE made == create_and(x, Negated(s), Negated(t))
  <2>1. Create(x, op, s, t) = Complement(made)
    BY <1>4 DEF Create, create_or
  <2>2. /\ Negated(s) \in SignalsOf(x) /\ Negated(t) \in SignalsOf(x)
        /\ \A T : IsOn(T, Negated(s)) <=> ~IsOn(T, s)
        /\ \A T : IsOn(T, Negated(t)) <=> ~IsOn(T, t)
    BY SignalFacts
  <2>3. /\ IsMade(x, made)
        /\ \A T : Fits(T, made.xag) => (IsOn(T, made.signal) <=> IsOn(T, Negated(s)) /\ IsOn(T, Negated(t)))
    BY <2>2, CreateAndFacts
  <2> HIDE DEF made
  <2>4. \A T : OpIsOn(op, T, s, t) <=> (IsOn(T, s) \/ IsOn(T, t))
    BY <1>4 DEF OpIsOn
  <2>5. QED
    BY <2>1, <2>2, <2>3, <2>4, ComplementFacts
<1>5. QED
  BY <1>1, <1>2, <1>3, <1>4 DEF Ops

----------------------------------------------------------------------------
(* A function is translated statement by statement. *)

\* The network and the table b after statements that have given K.
IsBuilt(b, K) ==
  /\ b = [xag |-> b.xag, table |-> b.table]
  /\ Shaped(b.xag)
  /\ b.table \in [K -> SignalsOf(b.xag)]

\* One bit of a binary statement.
OneBit(acc, s, bit) ==
  LET made == Create(acc.xag, s.op, acc.table[<<s.of[1], bit>>], acc.table[<<s.of[2], bit>>])
  IN  [xag |-> made.xag, table |-> With(acc.table, <<s.res, bit>>, made.signal)]

\* BitByBit is recursive, and is there.
LEMMA BitByBitSteps ==
  ASSUME NEW b, NEW s, Len(s.bits) \in Nat
  PROVE  /\ BitByBit(b, s)[0] = b
         /\ \A i \in 1..Len(s.bits) : BitByBit(b, s)[i] = OneBit(BitByBit(b, s)[i - 1], s, s.bits[i])
<1> DEFINE n == Len(s.bits)
           At(f, i) == IF i = 0 THEN b ELSE OneBit(f[i - 1], s, s.bits[i])
           Body(f) == [i \in 0..n |-> At(f, i)]
           S == {m \in Nat : \E f : \A i \in 0..m : f[i] = At(f, i)}
<1>1. 0 \in S
  <2>1. \A i \in 0..0 : [k \in {0} |-> b][i] = At([k \in {0} |-> b], i)
    OBVIOUS
  <2>2. QED
    BY <2>1
<1>2. ASSUME NEW m \in S PROVE m + 1 \in S
  <2>1. PICK f : \A i \in 0..m : f[i] = At(f, i)
    OBVIOUS
  <2> DEFINE g == [i \in 0..(m + 1) |-> IF i = m + 1 THEN At(f, m + 1) ELSE f[i]]
  <2>2. ASSUME NEW i \in 0..(m + 1) PROVE g[i] = At(g, i)
    <3>1. i # 0 => g[i - 1] = f[i - 1]
      OBVIOUS
    <3>2. At(g, i) = At(f, i)
      <4> HIDE DEF g
      <4>1. QED
        BY <3>1
    <3>3. g[i] = At(f, i)
      <4>1. CASE i = m + 1
        BY <4>1
      <4>2. CASE i # m + 1
        <5>1. g[i] = f[i] /\ i \in 0..m
          BY <4>2
        <5>2. QED
          BY <2>1, <5>1
      <4>3. QED
        BY <4>1, <4>2
    <3>4. QED
      BY <3>2, <3>3
  <2> HIDE DEF g, At
  <2>3. \E h : \A i \in 0..(m + 1) : h[i] = At(h, i)
    BY <2>2
  <2>4. QED
    BY <2>3
<1>3. S = Nat
  <2>1. S \in SUBSET Nat
    OBVIOUS
  <2> HIDE DEF S
  <2>2. QED
    BY <1>1, <1>2, <2>1, SetNatInduction
<1>4. PICK f : \A i \in 0..n : f[i] = At(f, i)
  BY <1>3
<1>5. \A i \in 0..n : At(f, i) = At(Body(f), i)
  <2>1. ASSUME NEW i \in 0..n PROVE At(f, i) = At(Body(f), i)
    <3>1. i # 0 => i - 1 \in 0..n
      OBVIOUS
    <3>2. i # 0 => Body(f)[i - 1] = f[i - 1]
      <4> HIDE DEF At
      <4>1. QED
        BY <1>4, <3>1
    <3> HIDE DEF Body
    <3>3. QED
      BY <3>2
  <2>2. QED
    BY <2>1
<1>6. Body(f) = Body(Body(f))
  <2> HIDE DEF At
  <2>1. QED
    BY <1>5
<1>7. BitByBit(b, s) = CHOOSE f1 : f1 = Body(f1)
  BY DEF BitByBit, OneBit
<1> DEFINE R == BitByBit(b, s)
<1>8. R = Body(R)
  <2> HIDE DEF Body
  <2>1. QED
    BY <1>6, <1>7
<1> HIDE DEF R
<1>9. \A i \in 0..n : R[i] = At(R, i)
  <2> HIDE DEF At
  <2>1. QED
    BY <1>8
<1>10. R[0] = b
  BY <1>9
<1>11. \A i \in 1..n : R[i] = OneBit(R[i - 1], s, s.bits[i])
  BY <1>9
<1>12. QED
  BY <1>10, <1>11 DEF R

\* The bits a binary statement has made after i of them, and what they are worth.
BitsTo(s, i) == {s.bits[j] : j \in 1..i}
MadeTo(s, i) == {<<s.res, bit>> : bit \in BitsTo(s, i)}
BitsAreRight(b, c, s, i) ==
  \A T : Fits(T, c.xag) =>
    \A bit \in BitsTo(s, i) :
      IsOn(T, c.table[<<s.res, bit>>]) <=> OpIsOn(s.op, T, b.table[<<s.of[1], bit>>], b.table[<<s.of[2], bit>>])

\* A bit more is made right, and what there was is left alone.
LEMMA OneBitKeeps ==
  ASSUME NEW K, NEW b, IsBuilt(b, K), NEW s, s.op \in Ops,
         \A k \in K : k[1] # s.res,
         NEW i \in Nat, NEW bit, BitsTo(s, i + 1) = BitsTo(s, i) \cup {bit},
         <<s.of[1], bit>> \in K, <<s.of[2], bit>> \in K,
         NEW c, IsBuilt(c, K \cup MadeTo(s, i)), Grows(b.xag, c.xag),
         \A k \in K : c.table[k] = b.table[k], BitsAreRight(b, c, s, i)
  PROVE  LET d == OneBit(c, s, bit)
         IN  /\ IsBuilt(d, K \cup MadeTo(s, i + 1)) /\ Grows(b.xag, d.xag)
             /\ \A k \in K : d.table[k] = b.table[k]
             /\ BitsAreRight(b, d, s, i + 1)
<1> DEFINE L == K \cup MadeTo(s, i)
           u == c.table[<<s.of[1], bit>>]
           v == c.table[<<s.of[2], bit>>]
           made == Create(c.xag, s.op, u, v)
           key == <<s.res, bit>>
           table == With(c.table, key, made.signal)
           d == OneBit(c, s, bit)
<1>1. /\ Shaped(b.xag) /\ Shaped(c.xag) /\ c.table \in [L -> SignalsOf(c.xag)]
      /\ u = b.table[<<s.of[1], bit>>] /\ v = b.table[<<s.of[2], bit>>]
      /\ u \in SignalsOf(c.xag) /\ v \in SignalsOf(c.xag)
  BY DEF IsBuilt
<1>2. /\ IsMade(c.xag, made)
      /\ \A T : Fits(T, made.xag) => (IsOn(T, made.signal) <=> OpIsOn(s.op, T, u, v))
  <2> HIDE DEF u, v, L
  <2>1. QED
    BY <1>1, CreateFacts
<1>3. d = [xag |-> made.xag, table |-> table]
  BY DEF OneBit
<1> HIDE DEF d, made, u, v, L
<1>4. /\ Shaped(made.xag) /\ Grows(c.xag, made.xag) /\ made.signal \in SignalsOf(made.xag)
      /\ SignalsOf(c.xag) \subseteq SignalsOf(made.xag)
  BY <1>1, <1>2, SignalsGrow DEF IsMade
<1>5. c.table \in [L -> SignalsOf(made.xag)]
  BY <1>1, <1>4
<1>6. /\ table \in [L \cup {key} -> SignalsOf(made.xag)]
      /\ table[key] = made.signal
      /\ \A k \in L : k # key => table[k] = c.table[k]
  <2> DEFINE m == made.signal
             X == SignalsOf(made.xag)
             t == c.table
  <2>1. m \in X /\ t \in [L -> X]
    BY <1>4, <1>5
  <2> HIDE DEF key, m, X, t
  <2>2. /\ With(t, key, m) \in [L \cup {key} -> X] /\ With(t, key, m)[key] = m
        /\ \A k \in L : k # key => With(t, key, m)[k] = t[k]
    BY <2>1 DEF With
  <2>3. QED
    BY <2>2 DEF m, X, t
<1>7. L \cup {key} = K \cup MadeTo(s, i + 1)
  BY DEF L, MadeTo
<1> HIDE DEF table
<1>8. d.xag = made.xag /\ d.table = table
  BY <1>3
<1>9. IsBuilt(d, K \cup MadeTo(s, i + 1))
  BY <1>3, <1>4, <1>6, <1>7, <1>8 DEF IsBuilt
<1>10. Grows(b.xag, d.xag)
  BY <1>1, <1>4, <1>8, GrowsOn
<1>11. \A k \in K : d.table[k] = b.table[k]
  <2>1. \A k \in K : k \in L /\ k # key
    BY DEF L
  <2>2. QED
    BY <1>6, <1>8, <2>1
<1>12. ASSUME NEW T, Fits(T, d.xag), NEW x \in BitsTo(s, i + 1)
       PROVE  IsOn(T, d.table[<<s.res, x>>]) <=> OpIsOn(s.op, T, b.table[<<s.of[1], x>>], b.table[<<s.of[2], x>>])
  <2>1. CASE x = bit
    BY <1>1, <1>2, <1>6, <1>8, <1>12, <2>1
  <2>2. CASE x # bit
    <3>1. x \in BitsTo(s, i)
      BY <1>12, <2>2
    <3>2. <<s.res, x>> \in L /\ <<s.res, x>> # key
      BY <2>2, <3>1 DEF L, MadeTo
    <3>3. d.table[<<s.res, x>>] = c.table[<<s.res, x>>]
      BY <1>6, <1>8, <3>2
    <3>4. Fits(T, c.xag)
      BY <1>1, <1>4, <1>8, <1>12, FitsBefore
    <3>5. QED
      BY <3>1, <3>3, <3>4 DEF BitsAreRight
  <2>3. QED
    BY <2>1, <2>2
<1>13. BitsAreRight(b, d, s, i + 1)
  BY <1>12 DEF BitsAreRight
<1>14. QED
  BY <1>9, <1>10, <1>11, <1>13 DEF d

\* A binary statement gives the bits it says, each with its gate.
LEMMA BitByBitFacts ==
  ASSUME NEW K, NEW b, IsBuilt(b, K), NEW s, s.op \in Ops, s.bits \in Seq(Int),
         \A k \in K : k[1] # s.res,
         \A bit \in ToSet(s.bits) : <<s.of[1], bit>> \in K /\ <<s.of[2], bit>> \in K
  PROVE  LET d == BitByBit(b, s)[Len(s.bits)]
         IN  /\ IsBuilt(d, K \cup Places(s)) /\ Grows(b.xag, d.xag)
             /\ \A k \in K : d.table[k] = b.table[k]
             /\ BitsAreRight(b, d, s, Len(s.bits))
<1> DEFINE n == Len(s.bits)
           R == BitByBit(b, s)
           Kept(i) == /\ IsBuilt(R[i], K \cup MadeTo(s, i)) /\ Grows(b.xag, R[i].xag)
                      /\ \A k \in K : R[i].table[k] = b.table[k]
                      /\ BitsAreRight(b, R[i], s, i)
           S == {i \in Nat : i <= n => Kept(i)}
<1>1. n \in Nat
  OBVIOUS
<1>2. R[0] = b /\ \A i \in 1..n : R[i] = OneBit(R[i - 1], s, s.bits[i])
  BY <1>1, BitByBitSteps
<1> HIDE DEF R
<1>3. Kept(0)
  <2>1. BitsTo(s, 0) = {} /\ MadeTo(s, 0) = {}
    BY DEF BitsTo, MadeTo
  <2>2. Grows(b.xag, b.xag)
    <3>1. Len(b.xag.gates) \in Nat
      BY DEF IsBuilt, Shaped
    <3>2. QED
      BY <3>1 DEF Grows
  <2>3. BitsAreRight(b, b, s, 0)
    BY <2>1 DEF BitsAreRight
  <2>4. K \cup MadeTo(s, 0) = K
    BY <2>1
  <2>5. QED
    BY <1>2, <2>2, <2>3, <2>4
<1>4. ASSUME NEW i \in Nat, i + 1 <= n, Kept(i) PROVE Kept(i + 1)
  <2> DEFINE bit == s.bits[i + 1]
  <2>1. i + 1 \in 1..n /\ (i + 1) - 1 = i
    BY <1>1, <1>4
  <2>2. bit \in ToSet(s.bits)
    BY <1>1, <2>1 DEF ToSet
  <2>3. BitsTo(s, i + 1) = BitsTo(s, i) \cup {bit}
    <3>1. 1..(i + 1) = 1..i \cup {i + 1}
      OBVIOUS
    <3> HIDE DEF bit
    <3>2. \A j \in 1..(i + 1) : j \in 1..i \/ j = i + 1
      BY <3>1
    <3>3. QED
      BY <3>1 DEF BitsTo, bit
  <2>4. R[i + 1] = OneBit(R[i], s, bit)
    BY <1>2, <2>1
  <2>5. <<s.of[1], bit>> \in K /\ <<s.of[2], bit>> \in K
    BY <2>2
  <2> DEFINE c == R[i]
  <2>6. /\ IsBuilt(c, K \cup MadeTo(s, i)) /\ Grows(b.xag, c.xag)
        /\ \A k \in K : c.table[k] = b.table[k]
        /\ BitsAreRight(b, c, s, i)
    BY <1>4
  <2> DEFINE d == OneBit(c, s, bit)
  <2> HIDE DEF bit, c
  <2>7. /\ IsBuilt(d, K \cup MadeTo(s, i + 1)) /\ Grows(b.xag, d.xag)
        /\ \A k \in K : d.table[k] = b.table[k]
        /\ BitsAreRight(b, d, s, i + 1)
    BY <2>3, <2>5, <2>6, OneBitKeeps, ZenonT(60)
  <2>8. QED
    BY <2>4, <2>7 DEF c
<1> HIDE DEF Kept
<1>5. S = Nat
  <2>1. 0 \in S
    BY <1>3
  <2>2. ASSUME NEW i \in S PROVE i + 1 \in S
    <3>1. i + 1 <= n => i <= n
      BY <1>1
    <3>2. QED
      BY <1>4, <3>1
  <2>3. S \in SUBSET Nat
    OBVIOUS
  <2> HIDE DEF S
  <2>4. QED
    BY <2>1, <2>2, <2>3, SetNatInduction
<1>6. Kept(n)
  BY <1>1, <1>5
<1>7. MadeTo(s, n) = Places(s)
  <2>1. BitsTo(s, n) = ToSet(s.bits)
    BY <1>1 DEF BitsTo, ToSet
  <2>2. QED
    BY <2>1 DEF MadeTo, Places
<1>8. QED
  BY <1>6, <1>7 DEF Kept, R

\* The values of a run are those of the signals, under T.
Agrees(env, b, K, T) ==
  /\ env \in [K -> BOOLEAN]
  /\ \A k \in K : env[k] <=> IsOn(T, b.table[k])

\* A statement that is translated to c when it gives L: the network has grown, and
\* its values agree if those before do.
StatementKept(b, K, s, c, L) ==
  /\ IsBuilt(c, L) /\ Grows(b.xag, c.xag)
  /\ \A T, env : Fits(T, c.xag) /\ Agrees(env, b, K, T) => Agrees(Executed(env, s), c, L, T)

\* A binary statement is kept.
LEMMA BinaryKept ==
  ASSUME NEW K, NEW b, IsBuilt(b, K), NEW s, s.st = "binary", s.op \in Ops, s.bits \in Seq(Int),
         \A k \in K : k[1] # s.res, Reads(s) \subseteq K
  PROVE  StatementKept(b, K, s, Built(b, s), K \cup Gives(s))
<1> DEFINE c == BitByBit(b, s)[Len(s.bits)]
           L == K \cup Places(s)
<1>1. \A bit \in ToSet(s.bits) : <<s.of[1], bit>> \in K /\ <<s.of[2], bit>> \in K
  <2>1. Reads(s) = {<<s.of[i], bit>> : i \in 1..2, bit \in ToSet(s.bits)}
    BY DEF Reads
  <2>2. \A bit \in ToSet(s.bits) : <<s.of[1], bit>> \in Reads(s) /\ <<s.of[2], bit>> \in Reads(s)
    BY <2>1
  <2>3. QED
    BY <2>2
<1>2. Built(b, s) = c /\ Gives(s) = Places(s)
  BY DEF Built, Gives
<1>3. /\ IsBuilt(c, L) /\ Grows(b.xag, c.xag)
      /\ \A k \in K : c.table[k] = b.table[k]
      /\ BitsAreRight(b, c, s, Len(s.bits))
  BY <1>1, BitByBitFacts
<1>4. BitsTo(s, Len(s.bits)) = ToSet(s.bits)
  BY DEF BitsTo, ToSet
<1> HIDE DEF c
<1>5. ASSUME NEW T, NEW env, Fits(T, c.xag), Agrees(env, b, K, T)
      PROVE  Agrees(Executed(env, s), c, L, T)
  <2> DEFINE of(i, bit) == env[<<s.of[i], bit>>]
             e == Executed(env, s)
  <2>1. e = [k \in L |-> IF k[1] = s.res THEN Applied(s.op, of(1, k[2]), of(2, k[2])) ELSE env[k]]
    <3>1. DOMAIN env = K
      BY <1>5 DEF Agrees
    <3>2. QED
      BY <3>1 DEF Executed
  <2> HIDE DEF e
  <2>2. ASSUME NEW k \in L PROVE e[k] \in BOOLEAN /\ (e[k] <=> IsOn(T, c.table[k]))
    <3>1. CASE k \in K
      <4>1. e[k] = env[k]
        BY <2>1, <3>1
      <4>2. QED
        BY <1>3, <1>5, <3>1, <4>1 DEF Agrees
    <3>2. CASE k \notin K
      <4>1. PICK bit \in ToSet(s.bits) : k = <<s.res, bit>>
        BY <3>2 DEF Places
      <4>2. e[k] = Applied(s.op, of(1, bit), of(2, bit))
        BY <2>1, <4>1
      <4> DEFINE p == of(1, bit)
                 q == of(2, bit)
                 u == b.table[<<s.of[1], bit>>]
                 v == b.table[<<s.of[2], bit>>]
      <4>3. p \in BOOLEAN /\ (p <=> IsOn(T, u)) /\ q \in BOOLEAN /\ (q <=> IsOn(T, v))
        BY <1>1, <1>5 DEF Agrees
      <4>4. IsOn(T, c.table[k]) <=> OpIsOn(s.op, T, u, v)
        BY <1>3, <1>4, <1>5, <4>1 DEF BitsAreRight
      <4> HIDE DEF p, q, u, v
      <4>5. Applied(s.op, p, q) \in BOOLEAN /\ (Applied(s.op, p, q) <=> OpIsOn(s.op, T, u, v))
        BY <4>3, AppliedFacts
      <4>6. e[k] = Applied(s.op, p, q)
        BY <4>2 DEF p, q
      <4>7. QED
        BY <4>4, <4>5, <4>6
    <3>3. QED
      BY <3>1, <3>2
  <2>3. e \in [L -> BOOLEAN]
    <3>1. e = [k \in L |-> e[k]]
      BY <2>1
    <3> HIDE DEF L
    <3>2. QED
      BY <2>2, <3>1
  <2>4. QED
    BY <2>2, <2>3 DEF Agrees, e
<1>6. QED
  BY <1>2, <1>3, <1>5 DEF StatementKept

\* A complement is kept.
LEMMA NotKept ==
  ASSUME NEW K, NEW b, IsBuilt(b, K), NEW s, s.st = "not", s.bits \in Seq(Int),
         \A k \in K : k[1] # s.res, Reads(s) \subseteq K
  PROVE  StatementKept(b, K, s, Built(b, s), K \cup Gives(s))
<1> DEFINE L == K \cup Places(s)
           x == b.xag
           t == b.table
           old(k) == <<s.of[1], k[2]>>
           turned == [k \in L |-> IF k[1] = s.res THEN Negated(t[old(k)]) ELSE t[k]]
           c == [xag |-> x, table |-> turned]
<1>1. b = [xag |-> x, table |-> t] /\ Shaped(x) /\ t \in [K -> SignalsOf(x)]
  BY DEF IsBuilt
<1>2. \A bit \in ToSet(s.bits) : <<s.of[1], bit>> \in K
  BY DEF Reads
<1>3. Gives(s) = Places(s)
  BY DEF Gives
<1>4. Built(b, s) = c
  <2>1. Built(b, s) = [b EXCEPT !.table =
                         [k \in DOMAIN @ \cup Places(s) |-> IF k[1] = s.res THEN Negated(@[<<s.of[1], k[2]>>]) ELSE @[k]]]
    BY DEF Built
  <2>2. DOMAIN t = K
    BY <1>1
  <2>3. Built(b, s) = [b EXCEPT !.table = turned]
    BY <2>1, <2>2
  <2> HIDE DEF t, x, turned
  <2>4. QED
    BY <1>1, <2>3
<1> HIDE DEF x, t
<1>5. \A k \in K : k \in L /\ turned[k] = t[k]
  OBVIOUS
<1>6. \A k \in L \ K : old(k) \in K /\ turned[k] = Negated(t[old(k)]) /\ k[1] = s.res
  <2>1. ASSUME NEW k \in L \ K PROVE old(k) \in K /\ turned[k] = Negated(t[old(k)]) /\ k[1] = s.res
    <3>1. PICK bit \in ToSet(s.bits) : k = <<s.res, bit>>
      BY DEF Places
    <3>2. QED
      BY <1>2, <3>1
  <2>2. QED
    BY <2>1
<1>7. turned \in [L -> SignalsOf(x)]
  <2>1. \A k \in L : turned[k] \in SignalsOf(x)
    <3>1. \A k \in K : turned[k] \in SignalsOf(x)
      BY <1>1, <1>5
    <3>2. \A k \in L \ K : turned[k] \in SignalsOf(x)
      <4>1. ASSUME NEW k \in L \ K PROVE turned[k] \in SignalsOf(x)
        <5>1. t[old(k)] \in SignalsOf(x)
          BY <1>1, <1>6
        <5>2. turned[k] = Negated(t[old(k)])
          BY <1>6
        <5> DEFINE u == t[old(k)]
        <5> HIDE DEF turned, u
        <5>3. Negated(u) \in SignalsOf(x)
          BY <1>1, <5>1, SignalFacts DEF u
        <5>4. QED
          BY <5>2, <5>3 DEF u
      <4>2. QED
        BY <4>1
    <3>3. QED
      BY <3>1, <3>2
  <2>2. turned = [k \in L |-> turned[k]]
    OBVIOUS
  <2> HIDE DEF turned, L
  <2>3. QED
    BY <2>1, <2>2
<1>8. c.xag = x /\ c.table = turned
  OBVIOUS
<1>9. IsBuilt(c, L)
  <2> HIDE DEF turned, L
  <2>1. QED
    BY <1>1, <1>7, <1>8 DEF IsBuilt
<1>10. Grows(b.xag, c.xag)
  <2>1. Len(x.gates) \in Nat
    BY <1>1 DEF Shaped
  <2>2. QED
    BY <1>8, <2>1 DEF Grows, x
<1> HIDE DEF turned
<1>11. ASSUME NEW T, NEW env, Agrees(env, b, K, T)
       PROVE  Agrees(Executed(env, s), c, L, T)
  <2> DEFINE e == Executed(env, s)
  <2>1. e = [k \in L |-> IF k[1] = s.res THEN ~env[old(k)] ELSE env[k]]
    <3>1. DOMAIN env = K
      BY <1>11 DEF Agrees
    <3>2. QED
      BY <3>1 DEF Executed
  <2>2. \A k \in K : env[k] \in BOOLEAN /\ (env[k] <=> IsOn(T, t[k]))
    BY <1>11 DEF Agrees, t
  <2> HIDE DEF e
  <2>3. ASSUME NEW k \in L PROVE e[k] \in BOOLEAN /\ (e[k] <=> IsOn(T, c.table[k]))
    <3>1. CASE k \in K
      <4>1. e[k] = env[k]
        BY <2>1, <3>1
      <4>2. QED
        BY <1>5, <1>8, <2>2, <3>1, <4>1
    <3>2. CASE k \notin K
      <4>1. /\ old(k) \in K /\ c.table[k] = Negated(t[old(k)])
            /\ e[k] = ~env[old(k)]
        BY <1>6, <1>8, <2>1, <3>2
      <4>2. t[old(k)] \in SignalsOf(x)
        BY <1>1, <4>1
      <4>3. IsOn(T, c.table[k]) <=> ~IsOn(T, t[old(k)])
        BY <1>1, <4>1, <4>2, SignalFacts
      <4>4. env[old(k)] \in BOOLEAN /\ (env[old(k)] <=> IsOn(T, t[old(k)]))
        BY <2>2, <4>1
      <4> HIDE DEF c
      <4>5. QED
        BY <4>1, <4>3, <4>4
    <3>3. QED
      BY <3>1, <3>2
  <2>4. e \in [L -> BOOLEAN]
    <3>1. e = [k \in L |-> e[k]]
      BY <2>1
    <3> HIDE DEF L
    <3>2. QED
      BY <2>3, <3>1
  <2> HIDE DEF c, L
  <2>5. QED
    BY <2>3, <2>4 DEF Agrees, e
<1>12. QED
  BY <1>3, <1>4, <1>9, <1>10, <1>11 DEF StatementKept

\* A constant, a load and a store put a signal into the table, and its value.
LEMMA AssignmentKept ==
  ASSUME NEW K, NEW b, IsBuilt(b, K), NEW key, NEW u \in SignalsOf(b.xag), NEW s,
         \A T, env : Fits(T, b.xag) /\ Agrees(env, b, K, T) =>
           \E v \in BOOLEAN : Executed(env, s) = With(env, key, v) /\ (v <=> IsOn(T, u))
  PROVE  StatementKept(b, K, s, [b EXCEPT !.table = With(b.table, key, u)], K \cup {key})
<1> DEFINE x == b.xag
           t == b.table
           L == K \cup {key}
           t2 == With(t, key, u)
           c == [xag |-> x, table |-> t2]
<1>1. b = [xag |-> x, table |-> t] /\ Shaped(x) /\ t \in [K -> SignalsOf(x)]
  BY DEF IsBuilt
<1>2. /\ t2 \in [L -> SignalsOf(x)] /\ t2[key] = u
      /\ \A k \in K : k # key => t2[k] = t[k]
  <2>1. u \in SignalsOf(x)
    OBVIOUS
  <2> HIDE DEF x, t
  <2>2. QED
    BY <1>1, <2>1 DEF With
<1>3. [b EXCEPT !.table = t2] = c
  <2> HIDE DEF x, t, t2
  <2>1. QED
    BY <1>1
<1> HIDE DEF x, t, t2
<1>4. c.xag = x /\ c.table = t2
  OBVIOUS
<1>5. IsBuilt(c, L)
  <2> HIDE DEF L
  <2>1. QED
    BY <1>1, <1>2, <1>4 DEF IsBuilt
<1>6. Grows(b.xag, c.xag)
  <2>1. Len(x.gates) \in Nat
    BY <1>1 DEF Shaped
  <2>2. QED
    BY <1>4, <2>1 DEF Grows, x
<1>7. ASSUME NEW T, NEW env, Fits(T, c.xag), Agrees(env, b, K, T)
      PROVE  Agrees(Executed(env, s), c, L, T)
  <2>1. PICK v \in BOOLEAN : Executed(env, s) = With(env, key, v) /\ (v <=> IsOn(T, u))
    BY <1>4, <1>7 DEF x
  <2> DEFINE e == With(env, key, v)
  <2>2. env \in [K -> BOOLEAN] /\ \A k \in K : env[k] <=> IsOn(T, t[k])
    BY <1>7 DEF Agrees, t
  <2>3. Executed(env, s) = e
    BY <2>1
  <2>4. /\ e \in [L -> BOOLEAN] /\ e[key] = v
        /\ \A k \in K : k # key => e[k] = env[k]
    BY <2>1, <2>2 DEF With
  <2> HIDE DEF e
  <2>5. ASSUME NEW k \in L PROVE e[k] <=> IsOn(T, t2[k])
    <3>1. CASE k = key
      BY <1>2, <2>1, <2>4, <3>1
    <3>2. CASE k # key
      <4>1. k \in K
        BY <3>2
      <4>2. e[k] = env[k] /\ t2[k] = t[k]
        BY <1>2, <2>4, <3>2, <4>1
      <4>3. QED
        BY <2>2, <4>1, <4>2
    <3>3. QED
      BY <3>1, <3>2
  <2> HIDE DEF c, L
  <2>6. QED
    BY <1>4, <2>3, <2>4, <2>5 DEF Agrees
<1>8. QED
  <2> DEFINE d == [b EXCEPT !.table = With(b.table, key, u)]
  <2>1. d = c
    BY <1>3 DEF t, t2
  <2> HIDE DEF c, L, d
  <2>2. StatementKept(b, K, s, d, L)
    BY <1>5, <1>6, <1>7, <2>1 DEF StatementKept
  <2>3. QED
    BY <2>2 DEF d, L

\* Every statement but the return is kept.
LEMMA StatementsAreKept ==
  ASSUME NEW K, NEW b, IsBuilt(b, K), NEW s, IsStatement(s), s.st # "return",
         Reads(s) \subseteq K, s.st \in {"binary", "not"} => \A k \in K : k[1] # s.res
  PROVE  StatementKept(b, K, s, Built(b, s), K \cup Gives(s))
<1>1. CASE s.st = "binary"
  BY <1>1, BinaryKept DEF IsStatement, Ops
<1>2. CASE s.st = "not"
  BY <1>2, NotKept DEF IsStatement
<1>3. CASE s.st = "constant"
  <2> DEFINE key == <<s.res, Scalar>>
             u == Constant(s.value)
  <2>1. s.value \in BOOLEAN
    BY <1>3 DEF IsStatement
  <2>2. u \in SignalsOf(b.xag) /\ \A T : 0 \notin T => (IsOn(T, u) <=> s.value)
    BY <2>1, ConstantFacts DEF IsBuilt
  <2>3. Built(b, s) = [b EXCEPT !.table = With(b.table, key, u)] /\ Gives(s) = {key}
    BY <1>3 DEF Built, Gives
  <2>4. \A env : Executed(env, s) = With(env, key, s.value)
    BY <1>3 DEF Executed
  <2> HIDE DEF key, u
  <2>5. \A T, env : Fits(T, b.xag) /\ Agrees(env, b, K, T) =>
          \E v \in BOOLEAN : Executed(env, s) = With(env, key, v) /\ (v <=> IsOn(T, u))
    BY <2>1, <2>2, <2>4 DEF Fits
  <2> DEFINE d == [b EXCEPT !.table = With(b.table, key, u)]
             L == K \cup {key}
  <2>6. StatementKept(b, K, s, d, L)
    <3> HIDE DEF u
    <3>1. QED
      BY <2>2, <2>5, AssignmentKept
  <2> HIDE DEF d, L
  <2>7. QED
    BY <2>3, <2>6 DEF d, L
<1>4. CASE s.st = "load"
  <2> DEFINE key == <<s.res, Scalar>>
             from == <<s.array, s.at>>
             u == b.table[from]
  <2>1. from \in K
    BY <1>4 DEF Reads
  <2>2. u \in SignalsOf(b.xag)
    BY <2>1 DEF IsBuilt
  <2>3. Built(b, s) = [b EXCEPT !.table = With(b.table, key, u)] /\ Gives(s) = {key}
    BY <1>4 DEF Built, Gives
  <2>4. \A env : Executed(env, s) = With(env, key, env[from])
    BY <1>4 DEF Executed
  <2> HIDE DEF key, from
  <2>5. \A T, env : Fits(T, b.xag) /\ Agrees(env, b, K, T) =>
          \E v \in BOOLEAN : Executed(env, s) = With(env, key, v) /\ (v <=> IsOn(T, u))
    BY <2>1, <2>4 DEF Agrees
  <2> DEFINE d == [b EXCEPT !.table = With(b.table, key, u)]
             L == K \cup {key}
  <2>6. StatementKept(b, K, s, d, L)
    <3> HIDE DEF u
    <3>1. QED
      BY <2>2, <2>5, AssignmentKept
  <2> HIDE DEF d, L
  <2>7. QED
    BY <2>3, <2>6 DEF d, L
<1>5. CASE s.st = "store"
  <2> DEFINE key == <<s.array, s.at>>
             from == <<s.v, Scalar>>
             u == b.table[from]
  <2>1. from \in K
    BY <1>5 DEF Reads
  <2>2. u \in SignalsOf(b.xag)
    BY <2>1 DEF IsBuilt
  <2>3. Built(b, s) = [b EXCEPT !.table = With(b.table, key, u)] /\ Gives(s) = {key}
    BY <1>5 DEF Built, Gives
  <2>4. \A env : Executed(env, s) = With(env, key, env[from])
    BY <1>5 DEF Executed
  <2> HIDE DEF key, from
  <2>5. \A T, env : Fits(T, b.xag) /\ Agrees(env, b, K, T) =>
          \E v \in BOOLEAN : Executed(env, s) = With(env, key, v) /\ (v <=> IsOn(T, u))
    BY <2>1, <2>4 DEF Agrees
  <2> DEFINE d == [b EXCEPT !.table = With(b.table, key, u)]
             L == K \cup {key}
  <2>6. StatementKept(b, K, s, d, L)
    <3> HIDE DEF u
    <3>1. QED
      BY <2>2, <2>5, AssignmentKept
  <2> HIDE DEF d, L
  <2>7. QED
    BY <2>3, <2>6 DEF d, L
<1>6. QED
  BY <1>1, <1>2, <1>3, <1>4, <1>5 DEF IsStatement

\* Where the translation and a run of a function begin.
PlaceOf(func, key) == CHOOSE k \in 1..Len(InputBits(func)) : InputBits(func)[k] = key
Untranslated(func) ==
  [xag |-> [pis |-> Len(InputBits(func)), gates |-> <<>>, pos |-> <<>>],
   table |-> [key \in ToSet(InputBits(func)) |-> Signal(PlaceOf(func, key), FALSE)]]
GivenTo(func, input) == [key \in ToSet(InputBits(func)) |-> input[PlaceOf(func, key)]]

\* Both are recursive, and are there: the translation.
LEMMA TranslationSteps ==
  ASSUME NEW func, Len(func.body) \in Nat
  PROVE  /\ Translation(func)[0] = Untranslated(func)
         /\ \A i \in 1..Len(func.body) : Translation(func)[i] = Built(Translation(func)[i - 1], func.body[i])
<1> DEFINE n == Len(func.body)
           At(f, i) == IF i = 0 THEN Untranslated(func) ELSE Built(f[i - 1], func.body[i])
           Body(f) == [i \in 0..n |-> At(f, i)]
           S == {m \in Nat : \E f : \A i \in 0..m : f[i] = At(f, i)}
<1>1. 0 \in S
  <2>1. \A i \in 0..0 : [k \in {0} |-> Untranslated(func)][i] = At([k \in {0} |-> Untranslated(func)], i)
    OBVIOUS
  <2>2. QED
    BY <2>1
<1>2. ASSUME NEW m \in S PROVE m + 1 \in S
  <2>1. PICK f : \A i \in 0..m : f[i] = At(f, i)
    OBVIOUS
  <2> DEFINE g == [i \in 0..(m + 1) |-> IF i = m + 1 THEN At(f, m + 1) ELSE f[i]]
  <2>2. ASSUME NEW i \in 0..(m + 1) PROVE g[i] = At(g, i)
    <3>1. i # 0 => g[i - 1] = f[i - 1]
      OBVIOUS
    <3>2. At(g, i) = At(f, i)
      <4> HIDE DEF g
      <4>1. QED
        BY <3>1
    <3>3. g[i] = At(f, i)
      <4>1. CASE i = m + 1
        BY <4>1
      <4>2. CASE i # m + 1
        <5>1. g[i] = f[i] /\ i \in 0..m
          BY <4>2
        <5>2. QED
          BY <2>1, <5>1
      <4>3. QED
        BY <4>1, <4>2
    <3>4. QED
      BY <3>2, <3>3
  <2> HIDE DEF g, At
  <2>3. \E h : \A i \in 0..(m + 1) : h[i] = At(h, i)
    BY <2>2
  <2>4. QED
    BY <2>3
<1>3. S = Nat
  <2>1. S \in SUBSET Nat
    OBVIOUS
  <2> HIDE DEF S
  <2>2. QED
    BY <1>1, <1>2, <2>1, SetNatInduction
<1>4. PICK f : \A i \in 0..n : f[i] = At(f, i)
  BY <1>3
<1>5. \A i \in 0..n : At(f, i) = At(Body(f), i)
  <2>1. ASSUME NEW i \in 0..n PROVE At(f, i) = At(Body(f), i)
    <3>1. i # 0 => i - 1 \in 0..n
      OBVIOUS
    <3>2. i # 0 => Body(f)[i - 1] = f[i - 1]
      <4> HIDE DEF At
      <4>1. QED
        BY <1>4, <3>1
    <3> HIDE DEF Body
    <3>3. QED
      BY <3>2
  <2>2. QED
    BY <2>1
<1>6. Body(f) = Body(Body(f))
  <2> HIDE DEF At
  <2>1. QED
    BY <1>5
<1>7. Translation(func) = CHOOSE f1 : f1 = Body(f1)
  BY DEF Translation, Untranslated, PlaceOf
<1> DEFINE R == Translation(func)
<1>8. R = Body(R)
  <2> HIDE DEF Body
  <2>1. QED
    BY <1>6, <1>7
<1> HIDE DEF R
<1>9. \A i \in 0..n : R[i] = At(R, i)
  <2> HIDE DEF At
  <2>1. QED
    BY <1>8
<1>10. R[0] = Untranslated(func)
  BY <1>9
<1>11. \A i \in 1..n : R[i] = Built(R[i - 1], func.body[i])
  BY <1>9
<1>12. QED
  BY <1>10, <1>11 DEF R
\* So is a run.
LEMMA ExecutionSteps ==
  ASSUME NEW func, NEW input, Len(func.body) \in Nat
  PROVE  /\ Execution(func, input)[0] = GivenTo(func, input)
         /\ \A i \in 1..Len(func.body) : Execution(func, input)[i] = Executed(Execution(func, input)[i - 1], func.body[i])
<1> DEFINE n == Len(func.body)
           At(f, i) == IF i = 0 THEN GivenTo(func, input) ELSE Executed(f[i - 1], func.body[i])
           Body(f) == [i \in 0..n |-> At(f, i)]
           S == {m \in Nat : \E f : \A i \in 0..m : f[i] = At(f, i)}
<1>1. 0 \in S
  <2>1. \A i \in 0..0 : [k \in {0} |-> GivenTo(func, input)][i] = At([k \in {0} |-> GivenTo(func, input)], i)
    OBVIOUS
  <2>2. QED
    BY <2>1
<1>2. ASSUME NEW m \in S PROVE m + 1 \in S
  <2>1. PICK f : \A i \in 0..m : f[i] = At(f, i)
    OBVIOUS
  <2> DEFINE g == [i \in 0..(m + 1) |-> IF i = m + 1 THEN At(f, m + 1) ELSE f[i]]
  <2>2. ASSUME NEW i \in 0..(m + 1) PROVE g[i] = At(g, i)
    <3>1. i # 0 => g[i - 1] = f[i - 1]
      OBVIOUS
    <3>2. At(g, i) = At(f, i)
      <4> HIDE DEF g
      <4>1. QED
        BY <3>1
    <3>3. g[i] = At(f, i)
      <4>1. CASE i = m + 1
        BY <4>1
      <4>2. CASE i # m + 1
        <5>1. g[i] = f[i] /\ i \in 0..m
          BY <4>2
        <5>2. QED
          BY <2>1, <5>1
      <4>3. QED
        BY <4>1, <4>2
    <3>4. QED
      BY <3>2, <3>3
  <2> HIDE DEF g, At
  <2>3. \E h : \A i \in 0..(m + 1) : h[i] = At(h, i)
    BY <2>2
  <2>4. QED
    BY <2>3
<1>3. S = Nat
  <2>1. S \in SUBSET Nat
    OBVIOUS
  <2> HIDE DEF S
  <2>2. QED
    BY <1>1, <1>2, <2>1, SetNatInduction
<1>4. PICK f : \A i \in 0..n : f[i] = At(f, i)
  BY <1>3
<1>5. \A i \in 0..n : At(f, i) = At(Body(f), i)
  <2>1. ASSUME NEW i \in 0..n PROVE At(f, i) = At(Body(f), i)
    <3>1. i # 0 => i - 1 \in 0..n
      OBVIOUS
    <3>2. i # 0 => Body(f)[i - 1] = f[i - 1]
      <4> HIDE DEF At
      <4>1. QED
        BY <1>4, <3>1
    <3> HIDE DEF Body
    <3>3. QED
      BY <3>2
  <2>2. QED
    BY <2>1
<1>6. Body(f) = Body(Body(f))
  <2> HIDE DEF At
  <2>1. QED
    BY <1>5
<1>7. Execution(func, input) = CHOOSE f1 : f1 = Body(f1)
  BY DEF Execution, GivenTo, PlaceOf
<1> DEFINE R == Execution(func, input)
<1>8. R = Body(R)
  <2> HIDE DEF Body
  <2>1. QED
    BY <1>6, <1>7
<1> HIDE DEF R
<1>9. \A i \in 0..n : R[i] = At(R, i)
  <2> HIDE DEF At
  <2>1. QED
    BY <1>8
<1>10. R[0] = GivenTo(func, input)
  BY <1>9
<1>11. \A i \in 1..n : R[i] = Executed(R[i - 1], func.body[i])
  BY <1>9
<1>12. QED
  BY <1>10, <1>11 DEF R

\* The input bits are a sequence.
LEMMA FlattenIsSequence ==
  ASSUME NEW Set, NEW ss \in Seq(Seq(Set))
  PROVE  FlattenSeq(ss) \in Seq(Set)
<1> DEFINE n == Len(ss)
           At(f, i) == IF i = 1 THEN ss[i] ELSE f[i - 1] \o ss[i]
           Body(f) == [i \in 1..n |-> At(f, i)]
           S == {m \in Nat : \E f : \A i \in 1..m : f[i] = At(f, i)}
<1>1. 0 \in S
  <2>1. \A i \in 1..0 : ss[i] = At(ss, i)
    OBVIOUS
  <2>2. QED
    BY <2>1
<1>2. ASSUME NEW m \in S PROVE m + 1 \in S
  <2>1. PICK f : \A i \in 1..m : f[i] = At(f, i)
    OBVIOUS
  <2> DEFINE g == [i \in 1..(m + 1) |-> IF i = m + 1 THEN At(f, m + 1) ELSE f[i]]
  <2>2. ASSUME NEW i \in 1..(m + 1) PROVE g[i] = At(g, i)
    <3>1. i # 1 => g[i - 1] = f[i - 1]
      OBVIOUS
    <3>2. At(g, i) = At(f, i)
      <4> HIDE DEF g
      <4>1. QED
        BY <3>1
    <3>3. g[i] = At(f, i)
      <4>1. CASE i = m + 1
        BY <4>1
      <4>2. CASE i # m + 1
        <5>1. g[i] = f[i] /\ i \in 1..m
          BY <4>2
        <5>2. QED
          BY <2>1, <5>1
      <4>3. QED
        BY <4>1, <4>2
    <3>4. QED
      BY <3>2, <3>3
  <2> HIDE DEF g, At
  <2>3. \E h : \A i \in 1..(m + 1) : h[i] = At(h, i)
    BY <2>2
  <2>4. QED
    BY <2>3
<1>3. S = Nat
  <2>1. S \in SUBSET Nat
    OBVIOUS
  <2> HIDE DEF S
  <2>2. QED
    BY <1>1, <1>2, <2>1, SetNatInduction
<1>4. PICK f : \A i \in 1..n : f[i] = At(f, i)
  <2>1. n \in Nat
    OBVIOUS
  <2> HIDE DEF n, At
  <2>2. QED
    BY <1>3, <2>1
<1>5. \A i \in 1..n : At(f, i) = At(Body(f), i)
  <2>1. ASSUME NEW i \in 1..n PROVE At(f, i) = At(Body(f), i)
    <3>1. i # 1 => i - 1 \in 1..n
      OBVIOUS
    <3>2. i # 1 => Body(f)[i - 1] = f[i - 1]
      <4> HIDE DEF At
      <4>1. QED
        BY <1>4, <3>1
    <3> HIDE DEF Body
    <3>3. QED
      BY <3>2
  <2>2. QED
    BY <2>1
<1>6. Body(f) = Body(Body(f))
  <2> HIDE DEF At
  <2>1. QED
    BY <1>5
<1> DEFINE R == CHOOSE f1 : f1 = Body(f1)
<1>7. R = Body(R)
  <2> HIDE DEF Body
  <2>1. QED
    BY <1>6
<1>8. FlattenSeq(ss) = IF n = 0 THEN ss ELSE R[n]
  BY DEF FlattenSeq
<1> HIDE DEF R
<1>9. \A i \in 1..n : R[i] = At(R, i)
  <2> HIDE DEF At
  <2>1. QED
    BY <1>7
<1> DEFINE Q == {m \in Nat : m + 1 <= n => R[m + 1] \in Seq(Set)}
<1>10. n \in Nat /\ \A i \in 1..n : ss[i] \in Seq(Set)
  OBVIOUS
<1>11. 0 \in Q
  <2>1. 1 <= n => R[1] = ss[1]
    BY <1>9, <1>10
  <2>2. QED
    BY <1>10, <2>1
<1>12. ASSUME NEW m \in Q PROVE m + 1 \in Q
  <2>1. SUFFICES ASSUME (m + 1) + 1 <= n PROVE R[(m + 1) + 1] \in Seq(Set)
    OBVIOUS
  <2>2. R[(m + 1) + 1] = R[m + 1] \o ss[(m + 1) + 1]
    <3>1. (m + 1) + 1 \in 1..n /\ (m + 1) + 1 # 1 /\ ((m + 1) + 1) - 1 = m + 1
      BY <1>10, <2>1
    <3>2. QED
      BY <1>9, <3>1
  <2>3. R[m + 1] \in Seq(Set) /\ ss[(m + 1) + 1] \in Seq(Set)
    BY <1>10, <2>1
  <2>4. QED
    BY <2>2, <2>3
<1>13. Q = Nat
  <2>1. Q \in SUBSET Nat
    OBVIOUS
  <2> HIDE DEF Q
  <2>2. QED
    BY <1>11, <1>12, <2>1, SetNatInduction
<1>14. CASE n = 0
  <2>1. ss = <<>>
    BY <1>14
  <2>2. QED
    BY <1>8, <1>14, <2>1
<1>15. CASE n # 0
  <2>1. n - 1 \in Nat /\ (n - 1) + 1 = n
    BY <1>10, <1>15
  <2>2. n - 1 \in Q
    BY <1>13, <2>1
  <2>3. QED
    BY <1>8, <1>15, <2>1, <2>2
<1>16. QED
  BY <1>14, <1>15

\* Each of its keys has a place in it.
LEMMA InputBitsFacts ==
  ASSUME NEW func, IsFunction(func)
  PROVE  /\ Len(InputBits(func)) \in Nat
         /\ ToSet(InputBits(func)) = {InputBits(func)[k] : k \in 1..Len(InputBits(func))}
         /\ \A key \in ToSet(InputBits(func)) : PlaceOf(func, key) \in 1..Len(InputBits(func))
<1> DEFINE n == Len(func.args)
           ss == [i \in 1..n |-> [j \in 1..func.args[i] |-> <<i, j - 1>>]]
           Pair == Nat \X Int
<1>1. func.args \in Seq(Nat) /\ n \in Nat /\ \A i \in 1..n : func.args[i] \in Nat
  BY DEF IsFunction
<1>2. ss \in Seq(Seq(Pair))
  <2>1. ASSUME NEW i \in 1..n PROVE [j \in 1..func.args[i] |-> <<i, j - 1>>] \in Seq(Pair)
    <3>1. func.args[i] \in Nat
      BY <1>1
    <3>2. \A j \in 1..func.args[i] : <<i, j - 1>> \in Pair
      BY <3>1
    <3> DEFINE w == func.args[i]
               f == [j \in 1..w |-> <<i, j - 1>>]
    <3>3. f \in [1..w -> Pair]
      BY <3>2
    <3> HIDE DEF w, f, Pair
    <3>4. f \in Seq(Pair)
      BY <3>1, <3>3, SeqDef DEF w
    <3>5. QED
      BY <3>4 DEF f, w
  <2>2. ss \in [1..n -> Seq(Pair)]
    BY <2>1
  <2> HIDE DEF ss, Pair
  <2>3. QED
    BY <1>1, <2>2, SeqDef
<1>3. InputBits(func) = FlattenSeq(ss)
  BY DEF InputBits
<1> HIDE DEF ss, Pair
<1>4. InputBits(func) \in Seq(Pair)
  BY <1>2, <1>3, FlattenIsSequence
<1>5. Len(InputBits(func)) \in Nat /\ DOMAIN InputBits(func) = 1..Len(InputBits(func))
  BY <1>4
<1>6. ToSet(InputBits(func)) = {InputBits(func)[k] : k \in 1..Len(InputBits(func))}
  BY <1>5 DEF ToSet
<1>7. QED
  BY <1>5, <1>6 DEF PlaceOf

\* What is known after each statement.
LEMMA KnownSteps ==
  ASSUME NEW func
  PROVE  /\ Known(func, 0) = ToSet(InputBits(func))
         /\ \A i \in Nat : Known(func, i + 1) = Known(func, i) \cup Gives(func.body[i + 1])
<1>1. Known(func, 0) = ToSet(InputBits(func))
  <2>1. UNION {Gives(func.body[l]) : l \in 1..0} = {}
    OBVIOUS
  <2>2. QED
    BY <2>1 DEF Known
<1>2. ASSUME NEW i \in Nat PROVE Known(func, i + 1) = Known(func, i) \cup Gives(func.body[i + 1])
  <2> DEFINE G(l) == Gives(func.body[l])
             I == ToSet(InputBits(func))
  <2>1. 1..(i + 1) = 1..i \cup {i + 1}
    OBVIOUS
  <2> HIDE DEF G
  <2>2. UNION {G(l) : l \in 1..i \cup {i + 1}} = (UNION {G(l) : l \in 1..i}) \cup G(i + 1)
    OBVIOUS
  <2>3. UNION {G(l) : l \in 1..(i + 1)} = (UNION {G(l) : l \in 1..i}) \cup G(i + 1)
    BY <2>1, <2>2
  <2> HIDE DEF I
  <2>4. Known(func, i + 1) = I \cup UNION {G(l) : l \in 1..(i + 1)}
    BY DEF Known, G, I
  <2>5. Known(func, i) = I \cup UNION {G(l) : l \in 1..i}
    BY DEF Known, G, I
  <2>6. QED
    BY <2>3, <2>4, <2>5 DEF G
<1>3. QED
  BY <1>1, <1>2

\* What has been translated before the return: a network without outputs, and every
\* value given.
TranslatedTo(func, i) ==
  LET b == Translation(func)[i]
  IN  IsBuilt(b, Known(func, i)) /\ b.xag.pis = Len(InputBits(func)) /\ b.xag.pos = <<>>

\* It begins with the inputs,
LEMMA TranslationBegins ==
  ASSUME NEW func, IsFunction(func)
  PROVE  TranslatedTo(func, 0)
<1> DEFINE n == Len(InputBits(func))
           I == ToSet(InputBits(func))
           x == [pis |-> n, gates |-> <<>>, pos |-> <<>>]
           t == [key \in I |-> Signal(PlaceOf(func, key), FALSE)]
           b == [xag |-> x, table |-> t]
<1>1. Translation(func)[0] = b
  BY TranslationSteps DEF IsFunction, Untranslated
<1>2. n \in Nat /\ \A key \in I : PlaceOf(func, key) \in 1..n
  BY InputBitsFacts
<1> HIDE DEF n, I
<1>3. Shaped(x)
  <2>1. Len(<<>>) = 0 /\ <<>> \in Seq(GateSet)
    OBVIOUS
  <2>2. QED
    BY <1>2, <2>1 DEF Shaped
<1>4. t \in [I -> SignalsOf(x)]
  <2>1. LastOf(x) = n
    BY <1>2 DEF LastOf
  <2>2. \A key \in I : Signal(PlaceOf(func, key), FALSE) \in SignalsOf(x)
    BY <1>2, <2>1 DEF SignalsOf, Signal
  <2> HIDE DEF x
  <2>3. QED
    BY <2>2
<1>5. x.pis = n /\ x.pos = <<>>
  OBVIOUS
<1> HIDE DEF x, t
<1>6. b.xag = x /\ b.table = t
  OBVIOUS
<1>7. IsBuilt(b, I)
  BY <1>3, <1>4, <1>6 DEF IsBuilt
<1> HIDE DEF b
<1>8. QED
  BY <1>1, <1>5, <1>6, <1>7, KnownSteps DEF TranslatedTo, I, n

\* goes on with every statement,
LEMMA TranslationGoesOn ==
  ASSUME NEW func, IsFunction(func), NEW i \in Nat, i + 1 < Len(func.body), TranslatedTo(func, i)
  PROVE  /\ TranslatedTo(func, i + 1)
         /\ StatementKept(Translation(func)[i], Known(func, i), func.body[i + 1],
                          Translation(func)[i + 1], Known(func, i + 1))
<1> DEFINE b == Translation(func)[i]
           c == Translation(func)[i + 1]
           K == Known(func, i)
           L == Known(func, i + 1)
           s == func.body[i + 1]
<1>1. Len(func.body) \in Nat /\ i + 1 \in 1..Len(func.body) /\ i + 1 # Len(func.body) /\ (i + 1) - 1 = i
  BY DEF IsFunction
<1>2. c = Built(b, s)
  BY <1>1, TranslationSteps
<1>3. L = K \cup Gives(s)
  BY KnownSteps
<1>4. /\ IsStatement(s) /\ Reads(s) \subseteq K /\ s.st # "return"
      /\ s.st \in {"binary", "not"} => \A k \in K : k[1] # s.res
  BY <1>1 DEF IsFunction
<1>5. IsBuilt(b, K) /\ b.xag.pis = Len(InputBits(func)) /\ b.xag.pos = <<>>
  BY DEF TranslatedTo
<1> HIDE DEF b, c, K, L, s
<1>6. StatementKept(b, K, s, c, L)
  BY <1>2, <1>3, <1>4, <1>5, StatementsAreKept
<1>7. IsBuilt(c, L) /\ c.xag.pis = Len(InputBits(func)) /\ c.xag.pos = <<>>
  BY <1>5, <1>6 DEF StatementKept, Grows
<1>8. QED
  BY <1>6, <1>7 DEF TranslatedTo, b, c, K, L, s

\* and comes to the return.
LEMMA AllIsTranslated ==
  ASSUME NEW func, IsFunction(func)
  PROVE  \A i \in Nat : i < Len(func.body) => TranslatedTo(func, i)
<1> DEFINE S == {i \in Nat : i < Len(func.body) => TranslatedTo(func, i)}
<1>1. 0 \in S
  BY TranslationBegins
<1>2. ASSUME NEW i \in S PROVE i + 1 \in S
  <2>1. Len(func.body) \in Nat
    BY DEF IsFunction
  <2>2. i + 1 < Len(func.body) => i < Len(func.body)
    BY <2>1
  <2>3. QED
    BY <2>2, TranslationGoesOn
<1>3. S = Nat
  <2>1. S \in SUBSET Nat
    OBVIOUS
  <2> HIDE DEF S
  <2>2. QED
    BY <1>1, <1>2, <2>1, SetNatInduction
<1>4. QED
  BY <1>3

\* Under T the inputs are true that are, and so are the values of every statement.
LEMMA RunAgrees ==
  ASSUME NEW func, IsFunction(func), NEW T, NEW input,
         \A k \in 1..Len(InputBits(func)) : input[k] \in BOOLEAN /\ (input[k] <=> k \in T)
  PROVE  \A i \in Nat : i < Len(func.body) /\ Fits(T, Translation(func)[i].xag) =>
           Agrees(Execution(func, input)[i], Translation(func)[i], Known(func, i), T)
<1> DEFINE n == Len(func.body)
           R == Translation(func)
           E == Execution(func, input)
           K(i) == Known(func, i)
           S == {i \in Nat : i < n /\ Fits(T, R[i].xag) => Agrees(E[i], R[i], K(i), T)}
<1>1. n \in Nat
  BY DEF IsFunction
<1>2. E[0] = GivenTo(func, input) /\ \A i \in 1..n : E[i] = Executed(E[i - 1], func.body[i])
  BY <1>1, ExecutionSteps
<1>3. 0 \in S
  <2> DEFINE I == ToSet(InputBits(func))
  <2>1. K(0) = I /\ \A key \in I : PlaceOf(func, key) \in 1..Len(InputBits(func))
    BY KnownSteps, InputBitsFacts
  <2>2. R[0].table = [key \in I |-> Signal(PlaceOf(func, key), FALSE)]
    <3>1. R[0] = Untranslated(func)
      BY <1>1, TranslationSteps
    <3> HIDE DEF R
    <3>2. QED
      BY <3>1 DEF Untranslated
  <2>3. E[0] = [key \in I |-> input[PlaceOf(func, key)]]
    BY <1>2 DEF GivenTo
  <2> HIDE DEF I, E, R, K
  <2>4. E[0] \in [I -> BOOLEAN]
    BY <2>1, <2>3
  <2>5. \A key \in I : E[0][key] <=> IsOn(T, R[0].table[key])
    <3>1. ASSUME NEW key \in I PROVE E[0][key] <=> IsOn(T, R[0].table[key])
      <4>1. R[0].table[key] = [node |-> PlaceOf(func, key), neg |-> FALSE]
        BY <2>2 DEF Signal
      <4>2. IsOn(T, R[0].table[key]) <=> PlaceOf(func, key) \in T
        BY <4>1 DEF IsOn
      <4>3. QED
        BY <2>1, <2>3, <4>2
    <3>2. QED
      BY <3>1
  <2>6. QED
    BY <2>1, <2>4, <2>5 DEF Agrees
<1>4. ASSUME NEW i \in S PROVE i + 1 \in S
  <2>1. SUFFICES ASSUME i + 1 < n, Fits(T, R[i + 1].xag) PROVE Agrees(E[i + 1], R[i + 1], K(i + 1), T)
    OBVIOUS
  <2>2. i < n /\ i \in Nat /\ i + 1 \in 1..n /\ (i + 1) - 1 = i
    BY <1>1, <2>1
  <2>3. TranslatedTo(func, i)
    BY <2>2, AllIsTranslated
  <2>4. StatementKept(R[i], K(i), func.body[i + 1], R[i + 1], K(i + 1))
    BY <2>1, <2>2, <2>3, TranslationGoesOn
  <2>5. E[i + 1] = Executed(E[i], func.body[i + 1])
    BY <1>2, <2>2
  <2> HIDE DEF E, R, K
  <2>6. Shaped(R[i].xag) /\ Shaped(R[i + 1].xag)
    BY <2>3, <2>4 DEF TranslatedTo, StatementKept, IsBuilt, R
  <2>7. Fits(T, R[i].xag)
    BY <2>1, <2>4, <2>6, FitsBefore DEF StatementKept
  <2>8. Agrees(E[i], R[i], K(i), T)
    BY <2>2, <2>7
  <2>9. QED
    BY <2>1, <2>4, <2>5, <2>8 DEF StatementKept
<1>5. S = Nat
  <2>1. S \in SUBSET Nat
    OBVIOUS
  <2> HIDE DEF S
  <2>2. QED
    BY <1>3, <1>4, <2>1, SetNatInduction
<1>6. QED
  BY <1>5

\* The return makes the outputs, and leaves the gates as they are.
LEMMA ReturnFacts ==
  ASSUME NEW func, IsFunction(func)
  PROVE  LET n == Len(func.body)
             b == Translation(func)[n - 1]
             s == func.body[n]
         IN  /\ n - 1 \in Nat /\ n - 1 < n /\ (n - 1) + 1 = n
             /\ TranslatedTo(func, n - 1)
             /\ s.width \in Nat
             /\ \A j \in 1..s.width : <<s.array, j - 1>> \in Known(func, n - 1)
             /\ XagOf(func) = [pis |-> b.xag.pis, gates |-> b.xag.gates,
                               pos |-> [j \in 1..s.width |-> b.table[<<s.array, j - 1>>]]]
             /\ \A input : Returned(func, input) =
                             [j \in 1..s.width |-> Execution(func, input)[n - 1][<<s.array, j - 1>>]]
<1> DEFINE n == Len(func.body)
           b == Translation(func)[n - 1]
           s == func.body[n]
           x == b.xag
           t == b.table
           pos == [j \in 1..s.width |-> t[<<s.array, j - 1>>]]
<1>1. n \in Nat \ {0} /\ n \in 1..n /\ n - 1 \in Nat /\ n - 1 < n /\ (n - 1) + 1 = n
  BY DEF IsFunction
<1>2. /\ IsStatement(s) /\ s.st = "return" /\ Reads(s) \subseteq Known(func, n - 1)
  BY <1>1 DEF IsFunction
<1>3. TranslatedTo(func, n - 1)
  BY <1>1, AllIsTranslated
<1>4. s.width \in Nat
  BY <1>2 DEF IsStatement
<1>5. \A j \in 1..s.width : <<s.array, j - 1>> \in Known(func, n - 1)
  <2>1. Reads(s) = {<<s.array, j - 1>> : j \in 1..s.width}
    BY <1>2 DEF Reads
  <2> HIDE DEF s, n
  <2>2. QED
    BY <1>2, <2>1
<1>6. Translation(func)[n] = [b EXCEPT !.xag.pos = @ \o pos]
  <2>1. Translation(func)[n] = Built(b, s)
    BY <1>1, TranslationSteps, Zenon
  <2> HIDE DEF b, s, n
  <2>2. QED
    BY <1>2, <2>1 DEF Built
<1>7. /\ b = [xag |-> x, table |-> t]
      /\ x = [pis |-> x.pis, gates |-> x.gates, pos |-> x.pos] /\ x.pos = <<>>
  BY <1>3, Zenon DEF TranslatedTo, IsBuilt, Shaped
<1>8. XagOf(func) = [pis |-> x.pis, gates |-> x.gates, pos |-> pos]
  <2>1. XagOf(func) = [b EXCEPT !.xag.pos = @ \o pos].xag
    BY <1>6 DEF XagOf
  <2>2. <<>> \o pos = pos
    <3>1. pos \in Seq({t[<<s.array, j - 1>>] : j \in 1..s.width})
      <4> DEFINE V == {t[<<s.array, j - 1>>] : j \in 1..s.width}
                 w == s.width
      <4>1. pos \in [1..w -> V]
        OBVIOUS
      <4> HIDE DEF V, w, pos
      <4>2. QED
        BY <1>4, <4>1, SeqDef DEF V, w
    <3> HIDE DEF pos
    <3>2. QED
      BY <3>1, EmptySeq
  <2> DEFINE p == x.pis
             g == x.gates
             o == x.pos
  <2>3. b = [xag |-> [pis |-> p, gates |-> g, pos |-> o], table |-> t] /\ o = <<>>
    BY <1>7
  <2> HIDE DEF b, x, t, pos, p, g, o
  <2>4. [b EXCEPT !.xag.pos = @ \o pos].xag = [pis |-> p, gates |-> g, pos |-> o \o pos]
    BY <2>3, Zenon
  <2>5. o \o pos = pos
    BY <2>2, <2>3, Zenon
  <2>6. XagOf(func) = [pis |-> p, gates |-> g, pos |-> pos]
    BY <2>1, <2>4, <2>5, Zenon
  <2>7. QED
    BY <2>6 DEF p, g
<1>9. ASSUME NEW input
      PROVE  Returned(func, input) = [j \in 1..s.width |-> Execution(func, input)[n - 1][<<s.array, j - 1>>]]
  <2> DEFINE E == Execution(func, input)
             r == [j \in 1..s.width |-> E[n - 1][<<s.array, j - 1>>]]
  <2>1. E[n] = Executed(E[n - 1], s)
    BY <1>1, ExecutionSteps
  <2>2. Executed(E[n - 1], s) = With(E[n - 1], Result, r)
    <3> HIDE DEF n, E, s
    <3>1. QED
      BY <1>2 DEF Executed
  <2>3. Returned(func, input) = E[n][Result]
    BY DEF Returned
  <2> HIDE DEF E, n, r
  <2>4. \A e : With(e, Result, r)[Result] = r
    BY DEF With
  <2>5. Returned(func, input) = r
    BY <2>1, <2>2, <2>3, <2>4
  <2>6. QED
    BY <2>5 DEF r, E, n
<1>10. QED
  BY <1>1, <1>3, <1>4, <1>5, <1>8, <1>9

\* The network of a function is one.
LEMMA FunctionHasNetwork ==
  ASSUME NEW func, IsFunction(func)
  PROVE  IsNetwork(XagOf(func))
<1> DEFINE n == Len(func.body)
           b == Translation(func)[n - 1]
           s == func.body[n]
           t == b.table
           w == s.width
           pos == [j \in 1..w |-> t[<<s.array, j - 1>>]]
           x == b.xag
           K == Known(func, n - 1)
           y == [pis |-> x.pis, gates |-> x.gates, pos |-> pos]
<1>1. /\ TranslatedTo(func, n - 1) /\ w \in Nat
      /\ \A j \in 1..w : <<s.array, j - 1>> \in K
      /\ XagOf(func) = y
  BY ReturnFacts
<1>2. Shaped(x) /\ t \in [K -> SignalsOf(x)]
  BY <1>1 DEF TranslatedTo, IsBuilt
<1> HIDE DEF n, b, s, t, x, w, K
<1>3. pos \in Seq(SignalsOf(x))
  <2>1. pos \in [1..w -> SignalsOf(x)]
    BY <1>1, <1>2
  <2> HIDE DEF pos
  <2>2. QED
    BY <1>1, <2>1, SeqDef
<1> HIDE DEF pos
<1>4. y.pis = x.pis /\ y.gates = x.gates /\ y.pos = pos /\ y = [pis |-> y.pis, gates |-> y.gates, pos |-> y.pos]
  OBVIOUS
<1> HIDE DEF y
<1>5. /\ x.pis \in Nat /\ Len(x.gates) \in Nat /\ x.gates \in Seq(GateSet)
  BY <1>2 DEF Shaped
<1>6. SignalsOf(x) = [node : InputNodes(y) \cup GateNodes(y), neg : BOOLEAN]
  <2>1. InputNodes(y) \cup GateNodes(y) = 0..LastOf(x)
    BY <1>4, <1>5 DEF InputNodes, GateNodes, LastOf
  <2>2. QED
    BY <2>1 DEF SignalsOf
<1>7. ASSUME NEW m \in GateNodes(y)
      PROVE  /\ Kids(y, m)[1].node \in 1..(m - 1)
             /\ Kids(y, m)[2].node \in 1..(m - 1)
             /\ Kids(y, m)[1].node # Kids(y, m)[2].node
  <2> DEFINE i == m - x.pis
  <2>1. i \in 1..Len(x.gates) /\ m = x.pis + i /\ ~(m <= x.pis)
    BY <1>4, <1>5 DEF GateNodes
  <2>2. Kids(y, m) = x.gates[i].kids
    BY <1>4, <2>1 DEF Kids
  <2> HIDE DEF i
  <2>3. /\ x.gates[i].kids[1].node \in 1..(x.pis + i - 1)
        /\ x.gates[i].kids[2].node \in 1..(x.pis + i - 1)
        /\ x.gates[i].kids[1].node # x.gates[i].kids[2].node
    BY <1>2, <2>1 DEF Shaped
  <2>4. m - 1 = x.pis + i - 1
    BY <1>5, <2>1
  <2>5. QED
    BY <2>2, <2>3, <2>4
<1>8. QED
  BY <1>1, <1>3, <1>4, <1>5, <1>6, <1>7 DEF IsNetwork, GateSet

\* And it computes the function: if T are the nodes that are true, the outputs that
\* are true are those of which the function returns TRUE.
LEMMA NetworkComputes ==
  ASSUME NEW func, IsFunction(func), NEW T, Fits(T, XagOf(func)), NEW input,
         \A k \in 1..XagOf(func).pis : input[k] \in BOOLEAN /\ (input[k] <=> k \in T)
  PROVE  \A j \in DOMAIN XagOf(func).pos :
           /\ Returned(func, input)[j] \in BOOLEAN
           /\ Returned(func, input)[j] <=> IsOn(T, XagOf(func).pos[j])
<1> DEFINE n == Len(func.body)
           b == Translation(func)[n - 1]
           s == func.body[n]
           t == b.table
           x == b.xag
           K == Known(func, n - 1)
           env == Execution(func, input)[n - 1]
           key(j) == <<s.array, j - 1>>
           y == XagOf(func)
<1>1. /\ TranslatedTo(func, n - 1) /\ n - 1 \in Nat /\ n - 1 < n
      /\ \A j \in 1..s.width : key(j) \in K
      /\ y = [pis |-> x.pis, gates |-> x.gates, pos |-> [j \in 1..s.width |-> t[key(j)]]]
      /\ Returned(func, input) = [j \in 1..s.width |-> env[key(j)]]
  BY ReturnFacts
<1>2. y.pis = x.pis /\ y.gates = x.gates
  <2> DEFINE p == x.pis
             g == x.gates
             o == [j \in 1..s.width |-> t[key(j)]]
  <2>1. y = [pis |-> p, gates |-> g, pos |-> o]
    BY <1>1
  <2> HIDE DEF y, p, g, o
  <2>2. y.pis = p /\ y.gates = g
    BY <2>1
  <2>3. QED
    BY <2>2 DEF p, g
<1>3. Fits(T, x)
  <2>1. Fits(T, y)
    OBVIOUS
  <2> HIDE DEF y, x
  <2>2. QED
    BY <1>2, <2>1 DEF Fits
<1>4. x.pis = Len(InputBits(func))
  BY <1>1 DEF TranslatedTo
<1>5. Agrees(env, b, K, T)
  BY <1>1, <1>2, <1>3, <1>4, RunAgrees
<1> HIDE DEF y, x, s, env, K, n
<1>6. \A k \in K : env[k] \in BOOLEAN /\ (env[k] <=> IsOn(T, t[k]))
  BY <1>5 DEF Agrees
<1> HIDE DEF t, key
<1>7. /\ DOMAIN y.pos = 1..s.width
      /\ \A j \in 1..s.width : y.pos[j] = t[key(j)] /\ Returned(func, input)[j] = env[key(j)]
  BY <1>1
<1>8. QED
  BY <1>1, <1>6, <1>7 DEF y

----------------------------------------------------------------------------
(* One node. *)

Left(n)  == Kids(xag, n)[1]
Right(n) == Kids(xag, n)[2]

LEMMA BitAssigned == \A k : Bit(k) \subseteq Assignments
BY DEF Bit

LEMMA GateAssigned ==
  ASSUME NEW n, NEW A \in SUBSET Assignments, NEW B \in SUBSET Assignments
  PROVE  GateValue(n, A, B) \in SUBSET Assignments
BY DEF GateValue, Turned, Differ

LEMMA TurnedAssigned ==
  ASSUME NEW A \in SUBSET Assignments, NEW neg
  PROVE  Turned(A, neg) \in SUBSET Assignments
BY DEF Turned

\* A turned node that is copied and turned back.
LEMMA TurnedTwice ==
  ASSUME NEW A \in SUBSET Assignments, NEW B \in SUBSET Assignments,
         NEW p \in BOOLEAN, NEW q \in BOOLEAN
  PROVE  Turned(Differ(A, Turned(B, q)), p # q) = Turned(Differ(A, B), p)
<1>1. Differ(A, Assignments \ B) = Assignments \ Differ(A, B)
  BY DEF Differ
<1>2. Assignments \ (Assignments \ Differ(A, B)) = Differ(A, B)
  BY DEF Differ
<1>3. CASE q
  BY <1>1, <1>2, <1>3 DEF Turned
<1>4. CASE ~q
  BY <1>4 DEF Turned
<1>5. QED
  BY <1>3, <1>4

LEMMA DifferAssigned ==
  ASSUME NEW A \in SUBSET Assignments, NEW B \in SUBSET Assignments
  PROVE  /\ Differ(A, B) \in SUBSET Assignments
         /\ Differ({}, A) = A
         /\ Differ(A, A) = {}
BY DEF Differ

LEMMA NetworkFacts ==
  ASSUME IsNetwork(xag)
  PROVE  /\ xag.pis \in Nat
         /\ Inputs = 0..xag.pis
         /\ Len(xag.gates) \in Nat
         /\ Len(xag.pos) \in Nat
         /\ DOMAIN xag.pos = 1..Len(xag.pos)
         /\ \A j \in 1..Len(xag.pos) :
              /\ xag.pos[j].node \in Inputs \cup GateNodes(xag)
              /\ xag.pos[j].neg \in BOOLEAN
         /\ \A n \in GateNodes(xag) :
              /\ n \in Nat \ Inputs
              /\ Left(n).node \in 1..(n - 1)
              /\ Right(n).node \in 1..(n - 1)
              /\ Left(n).node # Right(n).node
              /\ Left(n).neg \in BOOLEAN /\ Right(n).neg \in BOOLEAN
         /\ Outputs \subseteq GateNodes(xag)
<1>1. /\ xag.pis \in Nat
      /\ Len(xag.gates) \in Nat
      /\ Len(xag.pos) \in Nat
      /\ DOMAIN xag.pos = 1..Len(xag.pos)
      /\ Inputs = 0..xag.pis
  BY DEF IsNetwork, Inputs, InputNodes
<1>2. \A j \in 1..Len(xag.pos) :
        /\ xag.pos[j].node \in Inputs \cup GateNodes(xag)
        /\ xag.pos[j].neg \in BOOLEAN
  <2>1. \A j \in 1..Len(xag.pos) :
          xag.pos[j] \in [node : InputNodes(xag) \cup GateNodes(xag), neg : BOOLEAN]
    <3> DEFINE R == [node : InputNodes(xag) \cup GateNodes(xag), neg : BOOLEAN]
               pos == xag.pos
    <3>1. pos \in Seq(R)
      BY DEF IsNetwork
    <3> HIDE DEF R, pos
    <3>2. \A j \in 1..Len(pos) : pos[j] \in R
      BY <3>1, ElementOfSeq
    <3>3. QED
      BY <3>2 DEF R, pos
  <2>2. QED
    BY <2>1 DEF Inputs
<1>3. \A n \in GateNodes(xag) :
        /\ n \in Nat \ Inputs
        /\ Left(n).node \in 1..(n - 1)
        /\ Right(n).node \in 1..(n - 1)
        /\ Left(n).node # Right(n).node
  BY <1>1 DEF IsNetwork, GateNodes, Left, Right
<1>4. Outputs \subseteq GateNodes(xag)
  BY <1>2 DEF Outputs, OutputNodes, Inputs
<1>5. ASSUME NEW n \in GateNodes(xag)
      PROVE  Left(n).neg \in BOOLEAN /\ Right(n).neg \in BOOLEAN
  <2> DEFINE R == [kind : {"and", "xor"}, kids : Signals \X Signals]
             gates == xag.gates
             k == n - xag.pis
  <2>1. gates \in Seq(R)
    BY DEF IsNetwork
  <2>2. k \in 1..Len(gates) /\ ~(n <= xag.pis)
    BY <1>1 DEF GateNodes
  <2> HIDE DEF R, gates, k
  <2>3. gates[k] \in R
    BY <2>1, <2>2, ElementOfSeq
  <2>4. Kids(xag, n) \in Signals \X Signals
    BY <2>2, <2>3 DEF R, gates, k, Kids
  <2>5. QED
    BY <2>4 DEF Left, Right, Signals
<1>6. QED
  BY <1>1, <1>2, <1>3, <1>4, <1>5

\* compute_node changes the qubit t alone, and adds the gate's value to it.
LEMMA AddNodeEffect ==
  ASSUME NEW c \in Seq(SUBSET Assignments), NEW n, NEW t \in DOMAIN c,
         top[Left(n).node] \in DOMAIN c \ {t},
         top[Right(n).node] \in DOMAIN c \ {t},
         top[Left(n).node] # top[Right(n).node],
         Left(n).neg \in BOOLEAN, Right(n).neg \in BOOLEAN
  PROVE  AddNode(c, n, t) =
           [c EXCEPT ![t] = Differ(@, GateValue(n, c[top[Left(n).node]], c[top[Right(n).node]]))]
<1> DEFINE a == Left(n)
           b == Right(n)
           q1 == top[a.node]
           q2 == top[b.node]
           A == c[q1]
           B == c[q2]
           T == c[t]
           G == GateValue(n, A, B)
           flip(d) == [q \in DOMAIN d |->
                         IF (q = q1 /\ a.neg) \/ (q = q2 /\ b.neg) THEN Assignments \ d[q] ELSE d[q]]
           flipped == flip(c)
           added == [flipped EXCEPT ![t] = Differ(@, flipped[q1] \cap flipped[q2])]
           xored == apply_cnot(apply_cnot(c, q1, t), q2, t)
<1>1. /\ A \in SUBSET Assignments /\ B \in SUBSET Assignments /\ T \in SUBSET Assignments
      /\ \A q \in DOMAIN c : c[q] \in SUBSET Assignments
      /\ c = [q \in DOMAIN c |-> c[q]]
  BY SMTT(40)
<1>2. CASE xag.gates[n - xag.pis].kind = "and"
  <2> DEFINE made == flip(added)
  <2>1. AddNode(c, n, t) = made
    BY <1>2 DEF AddNode, apply_toffoli, Left, Right
  <2>2. G = flipped[q1] \cap flipped[q2]
    BY <1>1, <1>2 DEF GateValue, Turned, Left, Right
  <2>3. DOMAIN added = DOMAIN c
    BY SMTT(40)
  <2>4. ASSUME NEW q \in DOMAIN c
        PROVE  made[q] = IF q = t THEN Differ(T, G) ELSE c[q]
    <3> HIDE DEF G
    <3>1. CASE q = t
      BY <2>2, <3>1, SMTT(40)
    <3>2. CASE q # t
      BY <1>1, <3>2, SMTT(40)
    <3>3. QED
      BY <3>1, <3>2
  <2>5. made = [q \in DOMAIN c |-> made[q]]
    BY <2>3
  <2> HIDE DEF made, G, T
  <2>6. made = [c EXCEPT ![t] = Differ(T, G)]
    BY <1>1, <2>4, <2>5
  <2>7. QED
    BY <2>1, <2>6 DEF G, T
<1>3. CASE xag.gates[n - xag.pis].kind # "and"
  <2>1. AddNode(c, n, t) = IF a.neg # b.neg THEN apply_x(xored, t) ELSE xored
    BY <1>3 DEF AddNode, Left, Right
  <2>2. xored = [c EXCEPT ![t] = Differ(Differ(T, A), B)]
    BY DEF apply_cnot
  <2>3. Differ(Differ(T, A), B) = Differ(T, Differ(A, B))
    BY DEF Differ
  <2>4. Assignments \ Differ(T, Differ(A, B)) = Differ(T, Assignments \ Differ(A, B))
    BY <1>1 DEF Differ
  <2>5. apply_x(xored, t) = [c EXCEPT ![t] = Assignments \ Differ(Differ(T, A), B)]
    BY <2>2 DEF apply_x
  <2>6. GateValue(n, A, B) = IF a.neg # b.neg THEN Assignments \ Differ(A, B) ELSE Differ(A, B)
    <3>1. GateValue(n, A, B) = Differ(Turned(A, a.neg), Turned(B, b.neg))
      BY <1>3 DEF GateValue, Left, Right
    <3>2. a.neg \in BOOLEAN /\ b.neg \in BOOLEAN
      OBVIOUS
    <3>3. QED
      BY <1>1, <3>1, <3>2 DEF Turned, Differ
  <2> HIDE DEF xored
  <2>7. QED
    BY <2>1, <2>2, <2>3, <2>4, <2>5, <2>6
<1>4. QED
  BY <1>2, <1>3

----------------------------------------------------------------------------
(* Every network has a valuation. *)

Nodes == Inputs \cup GateNodes(xag)

\* The node j is the first output of.
FirstOutput(j) == \A i \in 1..(j - 1) : xag.pos[i].node # xag.pos[j].node

LEMMA FirstFacts ==
  ASSUME IsNetwork(xag), NEW j \in 1..Len(xag.pos)
  PROVE  LET f == First(xag.pos[j].node)
         IN  /\ f \in 1..Len(xag.pos) /\ f <= j
             /\ xag.pos[f].node = xag.pos[j].node
             /\ FirstOutput(j) <=> j = f
<1> DEFINE n == xag.pos[j].node
           T == {i \in 1..Len(xag.pos) : xag.pos[i].node = n}
           f == First(n)
<1>1. Len(xag.pos) \in Nat
  BY NetworkFacts
<1>2. T \in SUBSET Nat /\ j \in T
  BY <1>1
<1>3. \E x \in T : \A y \in T : x <= y
  <2> HIDE DEF T
  <2>1. QED
    BY <1>2, LeastNumber
<1>4. f \in T /\ \A y \in T : f <= y
  BY <1>3 DEF First, Min
<1>5. FirstOutput(j) <=> j = f
  BY <1>1, <1>2, <1>4 DEF FirstOutput
<1>6. QED
  BY <1>4, <1>5

\* The values of the nodes if each gate is computed on a qubit that holds B[n].
ValueFrom(V, B, n) == Differ(B[n], GateValue(n, V[Left(n).node], V[Right(n).node]))

\* The first m nodes have the values they should have.
ValuesUpTo(V, B, m) ==
  /\ V \in [0..m -> SUBSET Assignments]
  /\ V[0] = B[0]
  /\ \A n \in 1..m :
       /\ n \in Inputs => V[n] = Bit(n)
       /\ n \in GateNodes(xag) => V[n] = ValueFrom(V, B, n)

LastNode == xag.pis + Len(xag.gates)

LEMMA NodesAreNumbered ==
  ASSUME IsNetwork(xag)
  PROVE  /\ LastNode \in Nat /\ Nodes = 0..LastNode
         /\ \A n \in GateNodes(xag) : n \in 1..LastNode
         /\ \A n \in 1..xag.pis : n \in 1..LastNode /\ n \in Inputs
BY NetworkFacts DEF Nodes, GateNodes, LastNode

LEMMA ValuesExist ==
  ASSUME IsNetwork(xag), NEW B \in [Nodes -> SUBSET Assignments]
  PROVE  \E V : ValuesUpTo(V, B, LastNode)
<1> DEFINE S == {m \in Nat : m <= LastNode => \E V : ValuesUpTo(V, B, m)}
<1>1. 0 \in S
  <2>1. B[0] \in SUBSET Assignments
    BY NodesAreNumbered
  <2>2. ValuesUpTo([n \in 0..0 |-> B[0]], B, 0)
    BY <2>1 DEF ValuesUpTo
  <2>3. QED
    BY <2>2
<1>2. ASSUME NEW m \in S
      PROVE  m + 1 \in S
  <2>1. m \in Nat
    OBVIOUS
  <2>2. SUFFICES ASSUME m + 1 <= LastNode
                 PROVE  \E W : ValuesUpTo(W, B, m + 1)
    OBVIOUS
  <2>3. PICK V : ValuesUpTo(V, B, m)
    BY <2>1, <2>2, NodesAreNumbered
  <2> DEFINE top_value == IF m + 1 \in Inputs THEN Bit(m + 1)
                          ELSE IF m + 1 \in GateNodes(xag) THEN ValueFrom(V, B, m + 1) ELSE {}
             W == [n \in 0..(m + 1) |-> IF n = m + 1 THEN top_value ELSE V[n]]
  <2>4. \A n \in GateNodes(xag) : n <= m + 1 =>
          /\ Left(n).node \in 0..m /\ Right(n).node \in 0..m
          /\ n \notin Inputs
    BY <2>1, NetworkFacts
  <2>5. top_value \in SUBSET Assignments
    <3>1. CASE m + 1 \in Inputs
      BY <3>1, BitAssigned
    <3>2. CASE m + 1 \in GateNodes(xag)
      <4>1. /\ V[Left(m + 1).node] \in SUBSET Assignments
            /\ V[Right(m + 1).node] \in SUBSET Assignments
        BY <2>1, <2>3, <2>4, <3>2 DEF ValuesUpTo
      <4>2. B[m + 1] \in SUBSET Assignments
        BY <3>2 DEF Nodes
      <4>3. ValueFrom(V, B, m + 1) \in SUBSET Assignments
        BY <4>1, <4>2, GateAssigned, DifferAssigned DEF ValueFrom
      <4>4. QED
        BY <2>4, <3>2, <4>3
    <3>3. CASE m + 1 \notin Inputs \cup GateNodes(xag)
      BY <3>3
    <3>4. QED
      BY <3>1, <3>2, <3>3
  <2> HIDE DEF top_value
  <2>6. W \in [0..(m + 1) -> SUBSET Assignments] /\ W[0] = V[0]
    BY <2>1, <2>3, <2>5 DEF ValuesUpTo
  <2>7. \A n \in GateNodes(xag) : n <= m + 1 => ValueFrom(W, B, n) = ValueFrom(V, B, n)
    BY <2>1, <2>4 DEF ValueFrom
  <2>8. ASSUME NEW n \in 1..(m + 1)
        PROVE  /\ n \in Inputs => W[n] = Bit(n)
               /\ n \in GateNodes(xag) => W[n] = ValueFrom(W, B, n)
    <3>1. CASE n = m + 1
      BY <2>1, <2>4, <2>7, <3>1 DEF top_value
    <3>2. CASE n \in 1..m
      <4>1. W[n] = V[n]
        BY <2>1, <3>2
      <4>2. QED
        BY <2>1, <2>3, <2>7, <3>2, <4>1 DEF ValuesUpTo
    <3>3. QED
      BY <2>1, <3>1, <3>2
  <2> HIDE DEF W
  <2>9. ValuesUpTo(W, B, m + 1)
    BY <2>3, <2>6, <2>8 DEF ValuesUpTo
  <2>10. QED
    BY <2>9
<1>3. S \in SUBSET Nat
  OBVIOUS
<1>4. S = Nat
  <2> HIDE DEF S
  <2>1. QED
    BY <1>1, <1>2, <1>3, SetNatInduction
<1>5. LastNode \in S
  <2>1. LastNode \in Nat
    BY NodesAreNumbered
  <2> HIDE DEF S
  <2>2. QED
    BY <1>4, <2>1
<1>6. QED
  BY <1>5, NodesAreNumbered

\* What the qubit of a node holds before its gates: an output is computed on
\* whatever the caller has in it, and the constant is.
Base == [n \in Nodes |-> IF n \in Outputs \cup {0} THEN Given(First(n)) ELSE {}]

Valuation(V) == ValuesUpTo(V, Base, LastNode)

LEMMA BaseAssigned == Base \in [Nodes -> SUBSET Assignments]
BY BitAssigned DEF Base, Given

LEMMA ValuationExists ==
  ASSUME IsNetwork(xag)
  PROVE  \E V : Valuation(V)
BY ValuesExist, BaseAssigned DEF Valuation

LEMMA ValuationFacts ==
  ASSUME IsNetwork(xag), NEW V, Valuation(V)
  PROVE  /\ \A n \in Nodes : V[n] \in SUBSET Assignments
         /\ V[0] = Given(First(0))
         /\ \A k \in 1..xag.pis : V[k] = Bit(k)
         /\ \A n \in GateNodes(xag) :
              V[n] = Differ(Base[n], GateValue(n, V[Left(n).node], V[Right(n).node]))
<1>1. 0 \in Nodes /\ Base[0] = Given(First(0))
  BY NodesAreNumbered DEF Base
<1>2. QED
  BY <1>1, NodesAreNumbered DEF Valuation, ValuesUpTo, ValueFrom

\* The values of the network are there too, although NodeValue is recursive.
LEMMA NodeValueFacts ==
  ASSUME IsNetwork(xag)
  PROVE  /\ NodeValue[0] = {}
         /\ \A k \in 1..xag.pis : NodeValue[k] = Bit(k)
         /\ \A n \in GateNodes(xag) :
              NodeValue[n] = GateValue(n, NodeValue[Left(n).node], NodeValue[Right(n).node])
<1> DEFINE None == [n \in Nodes |-> {}]
           Body(F) == [n \in Nodes |-> IF n = 0 THEN {} ELSE IF n \in Inputs THEN Bit(n)
                                       ELSE GateValue(n, F[Left(n).node], F[Right(n).node])]
<1>1. None \in [Nodes -> SUBSET Assignments]
  OBVIOUS
<1>2. PICK V : ValuesUpTo(V, None, LastNode)
  <2> HIDE DEF None
  <2>1. QED
    BY <1>1, ValuesExist
<1>3. /\ V = [n \in Nodes |-> V[n]]
      /\ \A n \in Nodes : V[n] \in SUBSET Assignments
      /\ V[0] = {}
      /\ \A k \in 1..xag.pis : V[k] = Bit(k)
      /\ \A n \in GateNodes(xag) : V[n] = Differ({}, GateValue(n, V[Left(n).node], V[Right(n).node]))
  <2>1. \A n \in GateNodes(xag) \cup {0} : n \in Nodes /\ None[n] = {}
    BY NodesAreNumbered DEF Nodes
  <2>2. QED
    BY <1>2, <2>1, NodesAreNumbered DEF ValuesUpTo, ValueFrom
<1>4. \A n \in GateNodes(xag) : V[n] = GateValue(n, V[Left(n).node], V[Right(n).node])
  BY <1>3 DEF Differ
<1>5. V = Body(V)
  <2>1. ASSUME NEW n \in Nodes
        PROVE  V[n] = Body(V)[n]
    <3>1. n = 0 \/ n \in 1..xag.pis \/ n \in GateNodes(xag)
      BY NetworkFacts DEF Nodes
    <3>2. n \in GateNodes(xag) => n # 0 /\ n \notin Inputs
      BY NetworkFacts
    <3>3. n \in 1..xag.pis => n # 0 /\ n \in Inputs
      BY NodesAreNumbered
    <3>4. QED
      BY <1>3, <1>4, <3>1, <3>2, <3>3
  <2>2. Body(V) = [n \in Nodes |-> Body(V)[n]]
    OBVIOUS
  <2> HIDE DEF Body
  <2>3. QED
    BY <1>3, <2>1, <2>2
<1>6. NodeValue = CHOOSE F : F = Body(F)
  BY DEF NodeValue, Nodes, Left, Right
<1>7. NodeValue = Body(NodeValue)
  <2> HIDE DEF Body
  <2>1. QED
    BY <1>5, <1>6
<1>8. QED
  <2>1. \A n \in Nodes : NodeValue[n] = Body(NodeValue)[n]
    BY <1>7
  <2>2. /\ 0 \in Nodes
        /\ \A k \in 1..xag.pis : k \in Nodes /\ k # 0 /\ k \in Inputs
        /\ \A n \in GateNodes(xag) : n \in Nodes /\ n # 0 /\ n \notin Inputs
    BY NodesAreNumbered, NetworkFacts DEF Nodes
  <2>3. QED
    BY <2>1, <2>2

----------------------------------------------------------------------------
(* What the function returns is what the network says. *)

\* The nodes that are true for an assignment.
TrueFor(v) == {n \in 0..LastNode : v \in NodeValue[n]}

\* They fit the network.
LEMMA TrueForFits ==
  ASSUME IsNetwork(xag), NEW v \in Assignments
  PROVE  Fits(TrueFor(v), xag)
<1> DEFINE T == TrueFor(v)
<1>1. \A n \in 0..LastNode : n \in T <=> v \in NodeValue[n]
  BY DEF TrueFor
<1>2. LastNode \in Nat /\ xag.pis \in Nat /\ Len(xag.gates) \in Nat
  BY NodesAreNumbered, NetworkFacts
<1>3. 0 \notin T
  BY <1>1, <1>2, NodeValueFacts
<1>4. ASSUME NEW i \in 1..Len(xag.gates)
      PROVE  xag.pis + i \in T <=> GateIsOn(T, xag.gates[i])
  <2> DEFINE n == xag.pis + i
             g == xag.gates[i]
  <2>1. n \in GateNodes(xag) /\ n - xag.pis = i /\ ~(n <= xag.pis)
    BY <1>2 DEF GateNodes
  <2>2. Kids(xag, n) = g.kids /\ Left(n) = g.kids[1] /\ Right(n) = g.kids[2]
    BY <2>1 DEF Kids, Left, Right
  <2>3. Left(n).node \in 1..(n - 1) /\ Right(n).node \in 1..(n - 1) /\ n \in 0..LastNode /\ n \in Nat
    BY <2>1, NetworkFacts, NodesAreNumbered
  <2>4. Left(n).node \in 0..LastNode /\ Right(n).node \in 0..LastNode
    BY <1>2, <2>3
  <2> DEFINE A == NodeValue[Left(n).node]
             B == NodeValue[Right(n).node]
  <2>5. NodeValue[n] = GateValue(n, A, B)
    BY <2>1, NodeValueFacts
  <2> HIDE DEF T
  <2>6. /\ Left(n).node \in T <=> v \in A
        /\ Right(n).node \in T <=> v \in B
        /\ n \in T <=> v \in NodeValue[n]
    BY <1>1, <2>3, <2>4
  <2> HIDE DEF n, g, A, B
  <2>7. /\ v \in Turned(A, Left(n).neg) <=> IsOn(T, Left(n))
        /\ v \in Turned(B, Right(n).neg) <=> IsOn(T, Right(n))
    BY <2>6 DEF Turned, IsOn
  <2> DEFINE a == Turned(A, Left(n).neg)
             b == Turned(B, Right(n).neg)
  <2>8. GateValue(n, A, B) = IF g.kind = "and" THEN a \cap b ELSE (a \ b) \cup (b \ a)
    <3>1. xag.gates[n - xag.pis] = g
      BY <2>1 DEF g, n
    <3>2. QED
      BY <3>1 DEF GateValue, Differ, Left, Right
  <2>9. v \in GateValue(n, A, B) <=> IF g.kind = "and" THEN v \in a /\ v \in b ELSE ~(v \in a <=> v \in b)
    <3> HIDE DEF a, b
    <3>1. QED
      BY <2>8
  <2>10. GateIsOn(T, g) <=> IF g.kind = "and" THEN v \in a /\ v \in b ELSE ~(v \in a <=> v \in b)
    <3> HIDE DEF a, b
    <3>1. v \in a <=> IsOn(T, g.kids[1])
      BY <2>2, <2>7 DEF a
    <3>2. v \in b <=> IsOn(T, g.kids[2])
      BY <2>2, <2>7 DEF b
    <3>3. QED
      BY <3>1, <3>2 DEF GateIsOn
  <2>11. xag.pis + i \in T <=> GateIsOn(T, xag.gates[i])
    BY <2>5, <2>6, <2>9, <2>10 DEF n, g
  <2>12. QED
    BY <2>11 DEF T
<1>5. QED
  BY <1>3, <1>4 DEF Fits

\* For every assignment the outputs of the network are what the function returns for
\* the input bits in it.
LEMMA ReturnedIsNetwork ==
  ASSUME NEW f, IsFunction(f), xag = XagOf(f), NEW v \in Assignments
  PROVE  \A j \in DOMAIN xag.pos :
           Returned(f, [k \in 1..xag.pis |-> v \in Bit(k)])[j]
             = (v \in Turned(NodeValue[xag.pos[j].node], xag.pos[j].neg))
<1> DEFINE input == [k \in 1..xag.pis |-> v \in Bit(k)]
           T == TrueFor(v)
<1>1. IsNetwork(xag)
  BY FunctionHasNetwork
<1>2. Fits(T, xag)
  BY <1>1, TrueForFits
<1>3. \A n \in 0..LastNode : n \in T <=> v \in NodeValue[n]
  BY DEF TrueFor
<1> HIDE DEF T
<1>4. \A k \in 1..xag.pis : input[k] \in BOOLEAN /\ (input[k] <=> k \in T)
  <2>1. ASSUME NEW k \in 1..xag.pis PROVE input[k] \in BOOLEAN /\ (input[k] <=> k \in T)
    <3>1. k \in 0..LastNode /\ NodeValue[k] = Bit(k)
      BY <1>1, NodesAreNumbered, NodeValueFacts
    <3>2. k \in T <=> v \in Bit(k)
      BY <1>3, <3>1
    <3>3. CASE v \in Bit(k)
      <4>1. input[k] = TRUE
        BY <3>3
      <4>2. QED
        BY <3>2, <3>3, <4>1
    <3>4. CASE v \notin Bit(k)
      <4>1. input[k] = (v \in Bit(k))
        OBVIOUS
      <4> DEFINE B == Bit(k)
      <4> HIDE DEF B
      <4>2. (v \in B) = FALSE
        BY <3>4 DEF B
      <4>3. input[k] = FALSE
        <5> HIDE DEF input
        <5>1. QED
          BY <4>1, <4>2 DEF B
      <4>4. QED
        BY <3>2, <3>4, <4>3
    <3>5. QED
      BY <3>3, <3>4
  <2>2. QED
    BY <2>1
<1> HIDE DEF input
<1>5. \A j \in DOMAIN xag.pos : /\ Returned(f, input)[j] \in BOOLEAN
                                /\ Returned(f, input)[j] <=> IsOn(T, xag.pos[j])
  BY <1>2, <1>4, NetworkComputes
<1>6. ASSUME NEW j \in DOMAIN xag.pos
      PROVE  IsOn(T, xag.pos[j]) <=> v \in Turned(NodeValue[xag.pos[j].node], xag.pos[j].neg)
  <2>1. xag.pos[j].node \in Nodes
    BY <1>1, <1>6, NetworkFacts DEF Nodes
  <2>2. xag.pos[j].node \in 0..LastNode
    BY <1>1, <2>1, NodesAreNumbered
  <2>3. xag.pos[j].node \in T <=> v \in NodeValue[xag.pos[j].node]
    BY <1>3, <2>2
  <2>4. QED
    BY <2>3 DEF IsOn, Turned
<1>7. ASSUME NEW j \in DOMAIN xag.pos
      PROVE  Returned(f, input)[j] = (v \in Turned(NodeValue[xag.pos[j].node], xag.pos[j].neg))
  BY <1>5, <1>6, <1>7
<1>8. QED
  BY <1>7 DEF input

----------------------------------------------------------------------------
(* The nodes that are held. *)

LEMMA HeldNone == \A s : Held(s, 0) = {}
BY DEF Held

LEMMA HeldStep ==
  ASSUME NEW s, NEW i \in Nat
  PROVE  Held(s, i + 1) = IF s[i + 1].compute THEN Held(s, i) \cup {s[i + 1].node}
                                              ELSE Held(s, i) \ {s[i + 1].node}
<1> DEFINE n0 == s[i + 1].node
           Is(n, j) == \E k \in 1..j : /\ s[k].node = n /\ s[k].compute
                                      /\ \A l \in (k + 1)..j : s[l].node # n
<1>1. \A n, j : n \in Held(s, j) <=> Is(n, j)
  BY DEF Held
<1>2. ASSUME NEW n, n # n0
      PROVE  Is(n, i + 1) <=> Is(n, i)
  <2>1. ASSUME NEW k \in 1..i, s[k].node = n, s[k].compute, \A l \in (k + 1)..i : s[l].node # n
        PROVE  Is(n, i + 1)
    <3>1. k \in 1..(i + 1) /\ \A l \in (k + 1)..(i + 1) : s[l].node # n
      BY <1>2, <2>1
    <3>2. QED
      BY <2>1, <3>1
  <2>2. ASSUME NEW k \in 1..(i + 1), s[k].node = n, s[k].compute,
               \A l \in (k + 1)..(i + 1) : s[l].node # n
        PROVE  Is(n, i)
    <3>1. k \in 1..i /\ \A l \in (k + 1)..i : s[l].node # n
      BY <1>2, <2>2
    <3>2. QED
      BY <2>2, <3>1
  <2>3. QED
    BY <2>1, <2>2
<1>3. Is(n0, i + 1) <=> s[i + 1].compute
  <2>1. ASSUME NEW k \in 1..(i + 1), s[k].node = n0, s[k].compute,
               \A l \in (k + 1)..(i + 1) : s[l].node # n0
        PROVE  s[i + 1].compute
    <3>1. k = i + 1
      BY <2>1
    <3>2. QED
      BY <2>1, <3>1
  <2>2. ASSUME s[i + 1].compute
        PROVE  Is(n0, i + 1)
    <3>1. i + 1 \in 1..(i + 1) /\ \A l \in ((i + 1) + 1)..(i + 1) : s[l].node # n0
      OBVIOUS
    <3>2. QED
      BY <2>2, <3>1
  <2>3. QED
    BY <2>1, <2>2
<1> HIDE DEF Is, n0
<1>4. QED
  BY <1>1, <1>2, <1>3 DEF n0

----------------------------------------------------------------------------
(* The inductive invariant. *)

NodesHeld == Held(steps, at - 1)

\* The nodes that have a qubit now.
Living == (1..xag.pis) \cup {n \in {0} : HasConstant} \cup NodesHeld

Ranges ==
  /\ at \in 1..(Len(steps) + 1)
  /\ content \in Seq(SUBSET Assignments)
  /\ free \in Seq(Nat)
  /\ outs \in Seq(Nat)
  /\ Len(outs) <= Len(xag.pos)
  /\ outs # <<>> => at = Len(steps) + 1
  /\ phase = "done" => at = Len(steps) + 1 /\ Len(outs) = Len(xag.pos)

\* Nodes have qubits of their own, and the free ones are nobody's.
QubitsApart ==
  /\ Living \subseteq DOMAIN top
  /\ \A n \in Living : top[n] \in DOMAIN content
  /\ \A n, m \in Living : top[n] = top[m] => n = m
  /\ \A i \in DOMAIN free : free[i] \in DOMAIN content
  /\ \A i \in DOMAIN free : \A n \in Living : top[n] # free[i]
  /\ \A i \in DOMAIN free : \A j \in DOMAIN outs : outs[j] # free[i]
  /\ \A j \in DOMAIN outs : outs[j] \in DOMAIN content
  /\ \A i, j \in DOMAIN free : free[i] = free[j] => i = j

\* Every qubit is a node's, free, or an output.
QubitsKnown ==
  \A q \in DOMAIN content : \/ \E n \in Living : q = top[n]
                            \/ \E i \in DOMAIN free : q = free[i]
                            \/ \E j \in DOMAIN outs : q = outs[j]

InputsKept == \A k \in 1..xag.pis : top[k] = k /\ content[k] = Bit(k)

FreeIsClean == \A i \in DOMAIN free : content[free[i]] = {}

\* A node that has been named as an output is turned if that output is.
NodeTurned(n) == n \in DOMAIN seen /\ seen[n]

\* Output j is a node's own qubit, or a copy of it that is added to what the
\* caller has in the output.
OutputValue(V, j) ==
  LET n == xag.pos[j].node
  IN  IF n \in 1..xag.pis \/ ~FirstOutput(j) THEN Differ(Given(j), V[n]) ELSE V[n]

\* The nodes that have a qubit have their values in them, and so have the outputs.
QubitsHaveTheirValues ==
  \E V : /\ Valuation(V)
         /\ \A n \in Living : content[top[n]] = Turned(V[n], NodeTurned(n))
         /\ \A j \in DOMAIN outs : content[outs[j]] = Turned(OutputValue(V, j), xag.pos[j].neg)

\* The outputs that have been gone through are outputs.
OutputsNamed ==
  /\ DOMAIN seen \subseteq Living
  /\ \A j \in 1..Len(outs) : xag.pos[j].node \in DOMAIN seen
  /\ \A n \in DOMAIN seen : \E j \in 1..Len(outs) : xag.pos[j].node = n
  /\ \A n \in DOMAIN seen : n \in 1..xag.pis \/ \E j \in DOMAIN outs : outs[j] = top[n]
  /\ \A n \in DOMAIN seen : seen[n] \in BOOLEAN /\ (n \in 1..xag.pis => ~seen[n])
  /\ \A j \in DOMAIN outs : \A n \in Living : outs[j] = top[n] => n \in DOMAIN seen

CInv ==
  /\ phase \in {"pebble", "emit", "done"}
  /\ phase = "pebble" => QubitsInit
  /\ phase # "pebble" =>
       /\ Pebbled /\ Ranges /\ QubitsApart /\ QubitsKnown /\ InputsKept
       /\ FreeIsClean /\ QubitsHaveTheirValues /\ OutputsNamed

LEMMA SameNetwork ==
  ASSUME xag' = xag
  PROVE  /\ Assignments' = Assignments
         /\ \A k : Bit(k)' = Bit(k)
         /\ Inputs' = Inputs /\ Outputs' = Outputs /\ GateNodes(xag)' = GateNodes(xag)
         /\ HasConstant' = HasConstant
         /\ \A V : Valuation(V)' <=> Valuation(V)
         /\ \A S, neg : Turned(S, neg)' = Turned(S, neg)
         /\ \A j : Given(j)' = Given(j)
<1>1. /\ Assignments' = Assignments
      /\ Inputs' = Inputs /\ Outputs' = Outputs /\ GateNodes(xag)' = GateNodes(xag)
      /\ HasConstant' = HasConstant
  BY DEF Assignments, Inputs, Outputs, HasConstant
<1>2. \A k : Bit(k)' = Bit(k)
  BY <1>1 DEF Bit
<1>3. \A n : Given(First(n))' = Given(First(n))
  BY <1>2 DEF Given, First
<1>4. Nodes' = Nodes /\ Base' = Base /\ LastNode' = LastNode
  BY <1>1, <1>3 DEF Base, Nodes, LastNode
<1>5. \A n, A, B : GateValue(n, A, B)' = GateValue(n, A, B)
  BY <1>1 DEF GateValue, Turned
<1>6. \A V, B, n : ValueFrom(V, B, n)' = ValueFrom(V, B, n)
  BY <1>5 DEF ValueFrom, Left, Right
<1>7. \A V, B, m : ValuesUpTo(V, B, m)' <=> ValuesUpTo(V, B, m)
  BY <1>1, <1>2, <1>6 DEF ValuesUpTo
<1>8. \A V : Valuation(V)' <=> Valuation(V)
  BY <1>4, <1>7 DEF Valuation
<1>9. QED
  BY <1>1, <1>2, <1>3, <1>8 DEF Turned, Given

LEMMA StepTypes ==
  ASSUME Pebbled
  PROVE  /\ Len(steps) \in Nat
         /\ \A i \in 1..Len(steps) : steps[i].node \in GateNodes(xag) /\ steps[i].compute \in BOOLEAN
<1> DEFINE R == [node : GateNodes(xag), compute : BOOLEAN]
<1>1. steps \in Seq(R)
  BY DEF Pebbled, IsPebbling
<1> HIDE DEF R
<1>2. Len(steps) \in Nat /\ \A i \in 1..Len(steps) : steps[i] \in R
  BY <1>1, ElementOfSeq
<1>3. QED
  BY <1>2 DEF R

\* The next step of a pebbling.
LEMMA StepFacts ==
  ASSUME Pebbled, at \in 1..Len(steps)
  PROVE  /\ Step.node \in GateNodes(xag)
         /\ Left(Step.node).node \in (1..xag.pis) \cup NodesHeld
         /\ Right(Step.node).node \in (1..xag.pis) \cup NodesHeld
         /\ IF Step.compute THEN Step.node \notin NodesHeld
                            ELSE Step.node \in NodesHeld \ Outputs
         /\ Held(steps, at) = IF Step.compute THEN NodesHeld \cup {Step.node}
                                              ELSE NodesHeld \ {Step.node}
<1> DEFINE n == Step.node
<1>1. n \in GateNodes(xag)
  BY StepTypes DEF Step
<1>2. /\ {Left(n).node, Right(n).node} \subseteq InputNodes(xag) \cup NodesHeld
      /\ IF Step.compute THEN n \notin NodesHeld ELSE n \in NodesHeld \ Outputs
  BY DEF Pebbled, IsPebbling, Step, Left, Right, NodesHeld, Outputs
<1>3. Left(n).node \in Nat \ {0} /\ Right(n).node \in Nat \ {0}
  BY <1>1, NetworkFacts DEF Pebbled
<1>4. Left(n).node \in (1..xag.pis) \cup NodesHeld /\ Right(n).node \in (1..xag.pis) \cup NodesHeld
  BY <1>2, <1>3, NetworkFacts DEF InputNodes, Pebbled
<1>5. at - 1 \in Nat /\ (at - 1) + 1 = at
  OBVIOUS
<1>6. Held(steps, at) = IF Step.compute THEN NodesHeld \cup {n} ELSE NodesHeld \ {n}
  BY <1>5, HeldStep DEF NodesHeld, Step
<1>7. QED
  BY <1>1, <1>2, <1>4, <1>6

LEMMA HeldAreGates ==
  ASSUME Pebbled, at \in 1..(Len(steps) + 1)
  PROVE  NodesHeld \subseteq GateNodes(xag)
BY StepTypes DEF NodesHeld, Held

LEMMA SameOutputs ==
  ASSUME xag' = xag
  PROVE  \A V, j : OutputValue(V, j)' = OutputValue(V, j)
<1>1. \A j : FirstOutput(j)' <=> FirstOutput(j)
  BY DEF FirstOutput
<1>2. QED
  BY <1>1, SameNetwork DEF OutputValue

LEMMA LivingNodes ==
  ASSUME Pebbled, at \in 1..(Len(steps) + 1)
  PROVE  Living \subseteq Nodes
BY HeldAreGates, NetworkFacts DEF Living, Pebbled, Nodes

\* No node is held and an input.
LEMMA LivingFacts ==
  ASSUME Pebbled, at \in 1..(Len(steps) + 1)
  PROVE  /\ \A n \in NodesHeld : n \in Nat \ Inputs
         /\ 1..xag.pis \subseteq Living
         /\ NodesHeld \subseteq Living
         /\ \A n \in GateNodes(xag) : n \in Living => n \in NodesHeld
BY HeldAreGates, NetworkFacts DEF Living, Pebbled

\* Until the outputs are gone through no node is turned.
LEMMA NothingTurned ==
  ASSUME OutputsNamed, outs = <<>>
  PROVE  \A n : ~NodeTurned(n)
BY DEF OutputsNamed, NodeTurned

----------------------------------------------------------------------------
(* Each step keeps the invariant. *)

LEMMA PrepareKeeps ==
  ASSUME CInv, Pebbled, Prepare
  PROVE  CInv'
<1> USE NetworkFacts
<1> DEFINE pis == xag.pis
           inputs == [k \in 1..pis |-> Bit(k)]
<1>1. /\ phase = "pebble" /\ at = 1 /\ free = <<>> /\ outs = <<>> /\ seen = <<>>
      /\ phase' = "emit" /\ at' = 1 /\ free' = <<>> /\ outs' = <<>> /\ seen' = <<>>
      /\ xag' = xag /\ steps' = steps /\ Pebbled'
      /\ content' = IF HasConstant THEN Append(inputs, Given(First(0))) ELSE inputs
      /\ top' = [n \in (IF HasConstant THEN Inputs ELSE Inputs \ {0}) |-> IF n = 0 THEN pis + 1 ELSE n]
  BY DEF CInv, Prepare, QubitsInit, Pebbled
<1>2. pis \in Nat /\ Inputs = 0..pis /\ Len(steps) \in Nat /\ Len(xag.pos) \in Nat
  BY DEF Pebbled, IsPebbling
<1>3. NodesHeld' = {}
  BY <1>1, HeldNone DEF NodesHeld
<1>4. Living' = (1..pis) \cup {n \in {0} : HasConstant}
  BY <1>1, <1>3, SameNetwork DEF Living
<1>5. /\ inputs \in Seq(SUBSET Assignments) /\ Len(inputs) = pis
      /\ \A k \in 1..pis : inputs[k] = Bit(k)
  BY <1>2, BitAssigned
<1> HIDE DEF inputs
<1>6. /\ content' \in Seq(SUBSET Assignments)
      /\ DOMAIN content' = (1..pis) \cup {n \in {pis + 1} : HasConstant}
      /\ \A k \in 1..pis : content'[k] = Bit(k)
  <2>1. CASE HasConstant
    <3>1. Given(First(0)) \in SUBSET Assignments
      BY BitAssigned DEF Given
    <3>2. QED
      BY <1>1, <1>2, <1>5, <2>1, <3>1
  <2>2. CASE ~HasConstant
    <3>1. content' = inputs /\ {n \in {pis + 1} : HasConstant} = {}
      BY <1>1, <2>2
    <3>2. DOMAIN inputs = 1..pis
      BY <1>5
    <3>3. QED
      BY <1>5, <3>1, <3>2
  <2>3. QED
    BY <2>1, <2>2
<1>7. /\ Living' \subseteq DOMAIN top'
      /\ \A n \in Living' : top'[n] = IF n = 0 THEN pis + 1 ELSE n
  BY <1>1, <1>2, <1>4
<1>8. Ranges'
  BY <1>1, <1>2, <1>6, SameNetwork DEF Ranges
<1>9. QubitsApart'
  BY <1>1, <1>2, <1>4, <1>6, <1>7, SMTT(40) DEF QubitsApart
<1>10. QubitsKnown'
  BY <1>1, <1>2, <1>4, <1>6, <1>7 DEF QubitsKnown
<1>11. InputsKept'
  BY <1>1, <1>2, <1>4, <1>6, <1>7, SameNetwork, SMTT(40) DEF InputsKept
<1>12. FreeIsClean' /\ OutputsNamed'
  BY <1>1 DEF FreeIsClean, OutputsNamed
<1>13. QubitsHaveTheirValues'
  <2>1. PICK V : Valuation(V)
    BY ValuationExists DEF Pebbled
  <2>2. ASSUME NEW n \in Living'
        PROVE  content'[top'[n]] = V[n]
    <3>1. CASE n \in 1..pis
      BY <1>2, <1>6, <1>7, <2>1, <2>2, <3>1, ValuationFacts DEF Pebbled
    <3>2. CASE n = 0 /\ HasConstant
      <4>1. content' = Append(inputs, Given(First(0))) /\ top'[0] = pis + 1
        BY <1>1, <1>7, <2>2, <3>2
      <4>2. content'[pis + 1] = Given(First(0))
        BY <1>2, <1>5, <4>1
      <4>3. QED
        BY <2>1, <3>2, <4>1, <4>2, ValuationFacts DEF Pebbled
    <3>3. QED
      BY <1>4, <2>2, <3>1, <3>2
  <2>3. \A n : ~NodeTurned(n)'
    BY <1>1 DEF NodeTurned
  <2>4. \A n \in Living' : content'[top'[n]] = Turned(V[n], NodeTurned(n))'
    BY <2>2, <2>3 DEF Turned
  <2>5. \A j \in DOMAIN outs' : FALSE
    BY <1>1
  <2>6. Valuation(V)'
    BY <1>1, <2>1, SameNetwork
  <2>7. QED
    BY <2>4, <2>5, <2>6 DEF QubitsHaveTheirValues
<1>14. QED
  BY <1>1, <1>8, <1>9, <1>10, <1>11, <1>12, <1>13 DEF CInv

\* The qubit a node is computed on is nobody's, and it holds what it should.
LEMMA NodeQubitFacts ==
  ASSUME Pebbled, Ranges, QubitsApart, FreeIsClean, NEW n \in GateNodes(xag)
  PROVE  LET new == NodeQubit(n)
         IN  /\ new.content \in Seq(SUBSET Assignments)
             /\ new.qubit \in DOMAIN new.content
             /\ DOMAIN new.content = DOMAIN content \cup {new.qubit}
             /\ \A q \in DOMAIN content : q # new.qubit => new.content[q] = content[q]
             /\ new.content[new.qubit] = Base[n]
             /\ \A m \in Living : top[m] # new.qubit
             /\ new.free \in Seq(Nat)
             /\ \A i \in DOMAIN new.free : /\ new.free[i] # new.qubit
                                           /\ \E j \in DOMAIN free : new.free[i] = free[j]
             /\ \A i, j \in DOMAIN new.free : new.free[i] = new.free[j] => i = j
             /\ \A j \in DOMAIN free : \/ free[j] = new.qubit
                                       \/ \E i \in DOMAIN new.free : free[j] = new.free[i]
<1> DEFINE new == NodeQubit(n)
           fresh == Len(content) + 1
<1>1. /\ content \in Seq(SUBSET Assignments) /\ Len(content) \in Nat /\ DOMAIN content = 1..Len(content)
      /\ free \in Seq(Nat)
      /\ \A i \in DOMAIN free : free[i] \in DOMAIN content
      /\ \A m \in Living : top[m] \in DOMAIN content
  BY DEF Ranges, QubitsApart
<1>2. Base[n] = (IF n \in Outputs THEN Given(First(n)) ELSE {}) /\ Base[n] \in SUBSET Assignments
  <2>1. n \in Nodes /\ n # 0
    BY NetworkFacts DEF Nodes, Pebbled
  <2>2. QED
    BY <2>1, BaseAssigned DEF Base
<1>3. CASE new.qubit = fresh /\ new.content = Append(content, Base[n]) /\ new.free = free
  <2>1. /\ new.content \in Seq(SUBSET Assignments)
        /\ DOMAIN new.content = DOMAIN content \cup {new.qubit}
        /\ \A q \in DOMAIN content : new.content[q] = content[q]
        /\ new.content[new.qubit] = Base[n]
    BY <1>1, <1>3, <1>2
  <2>2. fresh \notin DOMAIN content
    BY <1>1
  <2> HIDE DEF new
  <2>3. QED
    BY <1>1, <1>3, <2>1, <2>2 DEF new, QubitsApart
<1>4. CASE n \notin Outputs /\ free # <<>>
  <2>1. new = [qubit |-> Head(free), content |-> content, free |-> Tail(free)]
    BY <1>4 DEF NodeQubit
  <2>2. /\ Head(free) = free[1] /\ 1 \in DOMAIN free
        /\ Tail(free) \in Seq(Nat)
        /\ \A i \in DOMAIN Tail(free) : i + 1 \in DOMAIN free /\ Tail(free)[i] = free[i + 1] /\ i \in Nat \ {0}
        /\ \A j \in DOMAIN free : j = 1 \/ (j - 1 \in DOMAIN Tail(free) /\ Tail(free)[j - 1] = free[j])
    BY <1>1, <1>4, SMTT(40)
  <2>3. Base[n] = {}
    BY <1>4, <1>2
  <2>4. new.content = content /\ new.qubit = free[1] /\ new.free = Tail(free)
    BY <2>1, <2>2
  <2>5. content[free[1]] = {} /\ free[1] \in DOMAIN content /\ \A m \in Living : top[m] # free[1]
    BY <2>2 DEF FreeIsClean, QubitsApart
  <2>6. \A i, j \in DOMAIN free : free[i] = free[j] => i = j
    BY DEF QubitsApart
  <2> DEFINE rest == Tail(free)
  <2>7. \A i \in DOMAIN rest : rest[i] # free[1] /\ \E j \in DOMAIN free : rest[i] = free[j]
    BY <2>2, <2>6
  <2>8. \A i, j \in DOMAIN rest : rest[i] = rest[j] => i = j
    BY <2>2, <2>6
  <2>9. \A j \in DOMAIN free : free[j] = free[1] \/ \E i \in DOMAIN rest : free[j] = rest[i]
    BY <2>2
  <2> HIDE DEF new, rest
  <2>10. QED
    BY <1>1, <2>2, <2>3, <2>4, <2>5, <2>7, <2>8, <2>9 DEF new, rest
<1>5. QED
  BY <1>3, <1>4, <1>2 DEF NodeQubit

LEMMA ComputeKeeps ==
  ASSUME CInv, Compute
  PROVE  CInv'
<1> DEFINE n == Step.node
           new == NodeQubit(n)
           l == Left(n).node
           r == Right(n).node
<1>1. /\ phase = "emit" /\ at \in 1..Len(steps) /\ Step.compute
      /\ Pebbled /\ Ranges /\ QubitsApart /\ QubitsKnown /\ InputsKept
      /\ FreeIsClean /\ QubitsHaveTheirValues /\ OutputsNamed
  BY DEF CInv, Compute, Ranges
<1>2. /\ content' = AddNode(new.content, n, new.qubit)
      /\ free' = new.free
      /\ top' = With(top, n, new.qubit)
      /\ at' = at + 1
      /\ xag' = xag /\ steps' = steps /\ phase' = phase /\ outs' = outs /\ seen' = seen
  BY DEF Compute
<1>3. outs = <<>> /\ Len(steps) \in Nat /\ Pebbled'
  BY <1>1, <1>2, StepTypes DEF Ranges, Pebbled
<1>4. /\ n \in GateNodes(xag) /\ n \notin NodesHeld /\ n \notin Living
      /\ n \in Nat \ Inputs
      /\ l \in (1..xag.pis) \cup NodesHeld /\ r \in (1..xag.pis) \cup NodesHeld
      /\ l \in Living /\ r \in Living /\ l # r
      /\ Held(steps, at) = NodesHeld \cup {n}
  BY <1>1, StepFacts, LivingFacts, NetworkFacts DEF Pebbled, Ranges
<1>5. /\ NodesHeld' = NodesHeld \cup {n}
      /\ Living' = Living \cup {n}
  <2>1. at' - 1 = at
    BY <1>1, <1>2
  <2>2. NodesHeld' = Held(steps, at)
    BY <1>2, <2>1 DEF NodesHeld
  <2>3. QED
    BY <1>2, <1>4, <2>2, SameNetwork DEF Living
<1>6. /\ new.content \in Seq(SUBSET Assignments)
      /\ new.qubit \in DOMAIN new.content
      /\ DOMAIN new.content = DOMAIN content \cup {new.qubit}
      /\ \A q \in DOMAIN content : q # new.qubit => new.content[q] = content[q]
      /\ new.content[new.qubit] = Base[n]
      /\ \A m \in Living : top[m] # new.qubit
      /\ new.free \in Seq(Nat)
      /\ \A i \in DOMAIN new.free : /\ new.free[i] # new.qubit
                                    /\ \E j \in DOMAIN free : new.free[i] = free[j]
      /\ \A i, j \in DOMAIN new.free : new.free[i] = new.free[j] => i = j
      /\ \A j \in DOMAIN free : \/ free[j] = new.qubit
                                \/ \E i \in DOMAIN new.free : free[j] = new.free[i]
  BY <1>1, <1>4, NodeQubitFacts
<1> HIDE DEF new
<1> DEFINE t == new.qubit
           A == new.content[top[l]]
           B == new.content[top[r]]
           G == GateValue(n, A, B)
           c == new.content
<1>7. /\ top[l] \in DOMAIN content /\ top[r] \in DOMAIN content
      /\ top[l] # top[r] /\ top[l] # t /\ top[r] # t
  BY <1>1, <1>4, <1>6 DEF QubitsApart
<1>8. content' = [c EXCEPT ![t] = Differ(@, G)]
  <2>1. /\ c \in Seq(SUBSET Assignments) /\ t \in DOMAIN c
        /\ top[l] \in DOMAIN c \ {t} /\ top[r] \in DOMAIN c \ {t} /\ top[l] # top[r]
    BY <1>6, <1>7
  <2> HIDE DEF n, c, t
  <2>2. Left(n).neg \in BOOLEAN /\ Right(n).neg \in BOOLEAN
    BY <1>1, <1>4, NetworkFacts DEF Pebbled
  <2> HIDE DEF n, c, t
  <2>3. AddNode(c, n, t) = [c EXCEPT ![t] = Differ(@, GateValue(n, c[top[l]], c[top[r]]))]
    BY <2>1, <2>2, AddNodeEffect
  <2>4. QED
    BY <1>2, <2>3 DEF c, t
<1>9. /\ A = content[top[l]] /\ B = content[top[r]]
      /\ A \in SUBSET Assignments /\ B \in SUBSET Assignments
  <2>1. A = content[top[l]] /\ B = content[top[r]]
    BY <1>6, <1>7
  <2>2. content[top[l]] \in SUBSET Assignments /\ content[top[r]] \in SUBSET Assignments
    BY <1>1, <1>7 DEF Ranges
  <2>3. QED
    BY <2>1, <2>2
<1>10. Differ(c[t], G) \in SUBSET Assignments
  <2>1. c[t] \in SUBSET Assignments
    BY <1>6
  <2>2. QED
    BY <1>9, <2>1, GateAssigned, DifferAssigned
<1>11. /\ content' \in Seq(SUBSET Assignments)
       /\ DOMAIN content' = DOMAIN content \cup {t}
       /\ \A q \in DOMAIN content : q # t => content'[q] = content[q]
       /\ content'[t] = Differ(Base[n], G)
  <2> HIDE DEF G, A, B, n
  <2>1. QED
    BY <1>6, <1>8, <1>10
<1>12. /\ DOMAIN top' = DOMAIN top \cup {n}
       /\ top'[n] = t
       /\ \A m \in Living : top'[m] = top[m]
  BY <1>1, <1>2, <1>4 DEF With, QubitsApart
<1> HIDE DEF t, c, n, A, B, G
<1>13. Ranges'
  BY <1>1, <1>2, <1>3, <1>6, <1>11, SameNetwork DEF Ranges
<1>14. QubitsApart'
  <2>1. /\ Living' \subseteq DOMAIN top'
        /\ \A m \in Living' : top'[m] \in DOMAIN content'
        /\ \A m, k \in Living' : top'[m] = top'[k] => m = k
    BY <1>1, <1>5, <1>6, <1>11, <1>12 DEF QubitsApart, t
  <2>2. /\ \A i \in DOMAIN free' : free'[i] \in DOMAIN content'
        /\ \A i \in DOMAIN free' : \A m \in Living' : top'[m] # free'[i]
    BY <1>1, <1>2, <1>5, <1>6, <1>11, <1>12 DEF QubitsApart, t
  <2>3. /\ \A i \in DOMAIN free' : \A j \in DOMAIN outs' : outs'[j] # free'[i]
        /\ \A j \in DOMAIN outs' : outs'[j] \in DOMAIN content'
        /\ \A i, j \in DOMAIN free' : free'[i] = free'[j] => i = j
    BY <1>2, <1>3, <1>6
  <2>4. QED
    BY <2>1, <2>2, <2>3 DEF QubitsApart
<1>15. QubitsKnown'
  <2> SUFFICES ASSUME NEW q \in DOMAIN content', q # t
               PROVE  \/ \E m \in Living' : q = top'[m]
                      \/ \E i \in DOMAIN free' : q = free'[i]
    BY <1>3, <1>5, <1>12 DEF QubitsKnown
  <2>1. (\E m \in Living : q = top[m]) \/ \E i \in DOMAIN free : q = free[i]
    BY <1>1, <1>3, <1>11 DEF QubitsKnown
  <2>2. QED
    BY <1>2, <1>5, <1>6, <1>12, <2>1 DEF t
<1>16. InputsKept'
  <2>1. ASSUME NEW k \in 1..xag.pis
        PROVE  top'[k] = k /\ content'[k] = Bit(k)
    <3>1. k \in Living /\ top[k] = k /\ content[k] = Bit(k)
      BY <1>1, LivingFacts DEF InputsKept, Ranges
    <3>2. k \in DOMAIN content /\ k # t
      BY <1>1, <1>6, <3>1 DEF QubitsApart, t
    <3>3. QED
      BY <1>11, <1>12, <3>1, <3>2
  <2>2. QED
    BY <1>2, <2>1, SameNetwork DEF InputsKept
<1>17. FreeIsClean'
  BY <1>1, <1>2, <1>6, <1>11 DEF FreeIsClean, QubitsApart, t
<1>18. QubitsHaveTheirValues'
  <2>1. PICK V : Valuation(V) /\ \A m \in Living : content[top[m]] = Turned(V[m], NodeTurned(m))
    BY <1>1 DEF QubitsHaveTheirValues
  <2>2. \A m : ~NodeTurned(m) /\ ~NodeTurned(m)'
    BY <1>1, <1>2, <1>3, NothingTurned DEF NodeTurned
  <2>3. \A m \in Living : content[top[m]] = V[m]
    BY <2>1, <2>2 DEF Turned
  <2>4. A = V[l] /\ B = V[r]
    BY <1>4, <1>9, <2>3
  <2>5. content'[t] = V[n]
    BY <1>1, <1>4, <1>11, <2>1, <2>4, ValuationFacts DEF Pebbled, G, n
  <2>6. \A m \in Living : content'[top'[m]] = V[m]
    BY <1>1, <1>6, <1>11, <1>12, <2>3 DEF QubitsApart, t
  <2>7. \A m \in Living' : content'[top'[m]] = V[m]
    BY <1>5, <1>12, <2>5, <2>6
  <2>8. \A m \in Living' : content'[top'[m]] = Turned(V[m], NodeTurned(m))'
    BY <2>2, <2>7 DEF Turned
  <2>9. QED
    BY <1>2, <1>3, <2>1, <2>8, SameNetwork DEF QubitsHaveTheirValues
<1>19. OutputsNamed'
  BY <1>1, <1>2, <1>3, <1>5, <1>12, SameNetwork DEF OutputsNamed
<1>20. QED
  BY <1>1, <1>2, <1>3, <1>13, <1>14, <1>15, <1>16, <1>17, <1>18, <1>19 DEF CInv

LEMMA UncomputeKeeps ==
  ASSUME CInv, Uncompute
  PROVE  CInv'
<1> DEFINE n == Step.node
           l == Left(n).node
           r == Right(n).node
           t == top[n]
           A == content[top[l]]
           B == content[top[r]]
           G == GateValue(n, A, B)
<1>1. /\ phase = "emit" /\ at \in 1..Len(steps) /\ ~Step.compute
      /\ Pebbled /\ Ranges /\ QubitsApart /\ QubitsKnown /\ InputsKept
      /\ FreeIsClean /\ QubitsHaveTheirValues /\ OutputsNamed
  BY DEF CInv, Uncompute, Ranges
<1>2. /\ content' = AddNode(content, n, t)
      /\ free' = <<t>> \o free
      /\ at' = at + 1
      /\ xag' = xag /\ steps' = steps /\ phase' = phase /\ top' = top /\ outs' = outs /\ seen' = seen
  BY DEF Uncompute
<1>3. outs = <<>> /\ Len(steps) \in Nat /\ Pebbled'
  BY <1>1, <1>2, StepTypes DEF Ranges, Pebbled
<1>4. /\ n \in GateNodes(xag) /\ n \in NodesHeld /\ n \notin Outputs /\ n \in Living
      /\ n \in Nat \ Inputs
      /\ l \in (1..xag.pis) \cup NodesHeld /\ r \in (1..xag.pis) \cup NodesHeld
      /\ l \in Living /\ r \in Living /\ l # r /\ l # n /\ r # n
      /\ Held(steps, at) = NodesHeld \ {n}
  <2>1. /\ n \in GateNodes(xag) /\ n \in NodesHeld /\ n \notin Outputs
        /\ l \in (1..xag.pis) \cup NodesHeld /\ r \in (1..xag.pis) \cup NodesHeld
        /\ Held(steps, at) = NodesHeld \ {n}
    BY <1>1, StepFacts
  <2>2. n \in Nat \ Inputs /\ l # r /\ l # n /\ r # n
    BY <1>1, <2>1, NetworkFacts DEF Pebbled
  <2>3. n \in Living /\ l \in Living /\ r \in Living
    BY <1>1, <2>1, LivingFacts DEF Ranges
  <2>4. QED
    BY <2>1, <2>2, <2>3
<1>5. /\ NodesHeld' = NodesHeld \ {n}
      /\ Living' = Living \ {n}
  <2>1. at' - 1 = at
    BY <1>1, <1>2
  <2>2. NodesHeld' = Held(steps, at)
    BY <1>2, <2>1 DEF NodesHeld
  <2>3. n \notin (1..xag.pis) \cup {0}
    BY <1>1, <1>4, NetworkFacts DEF Pebbled
  <2>4. QED
    BY <1>2, <1>4, <2>2, <2>3, SameNetwork DEF Living
<1>6. /\ content \in Seq(SUBSET Assignments)
      /\ t \in DOMAIN content /\ top[l] \in DOMAIN content /\ top[r] \in DOMAIN content
      /\ top[l] # top[r] /\ top[l] # t /\ top[r] # t
  BY <1>1, <1>4 DEF QubitsApart, Ranges
<1>7. content' = [content EXCEPT ![t] = Differ(@, G)]
  <2>1. Left(n).neg \in BOOLEAN /\ Right(n).neg \in BOOLEAN
    BY <1>1, <1>4, NetworkFacts DEF Pebbled
  <2> HIDE DEF n, t
  <2>2. AddNode(content, n, t) = [content EXCEPT ![t] = Differ(@, GateValue(n, content[top[l]], content[top[r]]))]
    BY <1>6, <2>1, AddNodeEffect
  <2>3. QED
    BY <1>2, <2>2
\* The qubit holds the node's value, and that value is what the gates add to 0.
<1>8. PICK V : Valuation(V) /\ \A m \in Living : content[top[m]] = V[m]
  <2>1. \A m : ~NodeTurned(m)
    BY <1>1, <1>3, NothingTurned
  <2>2. QED
    BY <1>1, <2>1 DEF QubitsHaveTheirValues, Turned
<1>9. A \in SUBSET Assignments /\ B \in SUBSET Assignments /\ content[t] \in SUBSET Assignments
  BY <1>6
<1>10. G \in SUBSET Assignments
  BY <1>9, GateAssigned
<1>11. content[t] = G
  <2>1. A = V[l] /\ B = V[r] /\ content[t] = V[n]
    BY <1>4, <1>8
  <2>2. V[n] = Differ({}, G)
    <3>1. n \in Nodes /\ n # 0
      BY <1>1, <1>4, NetworkFacts DEF Nodes, Pebbled
    <3>2. Base[n] = {}
      BY <1>4, <3>1 DEF Base
    <3>3. V[n] = Differ(Base[n], GateValue(n, V[l], V[r]))
      BY <1>1, <1>4, <1>8, ValuationFacts DEF Pebbled
    <3>4. QED
      BY <2>1, <3>2, <3>3
  <2>3. QED
    BY <1>10, <2>1, <2>2, DifferAssigned
<1>12. /\ content' \in Seq(SUBSET Assignments)
       /\ DOMAIN content' = DOMAIN content
       /\ \A q \in DOMAIN content : q # t => content'[q] = content[q]
       /\ content'[t] = {}
  <2>1. Differ(content[t], G) = {}
    BY <1>10, <1>11, DifferAssigned
  <2> HIDE DEF G, n, t
  <2>2. QED
    BY <1>6, <1>7, <2>1
<1>13. /\ free' \in Seq(Nat)
       /\ 1 \in DOMAIN free' /\ free'[1] = t
       /\ \A i \in DOMAIN free' : i = 1 \/ (i - 1 \in DOMAIN free /\ free'[i] = free[i - 1] /\ i \in Nat)
       /\ \A i \in DOMAIN free : i + 1 \in DOMAIN free' /\ free'[i + 1] = free[i]
  <2>1. free \in Seq(Nat) /\ t \in Nat
    BY <1>1, <1>6 DEF Ranges
  <2> HIDE DEF t
  <2>2. QED
    BY <1>2, <2>1, SMTT(40)
<1>14. \A i \in DOMAIN free : free[i] # t
  BY <1>1, <1>4 DEF QubitsApart
<1> HIDE DEF t, n, A, B, G
<1>15. Ranges'
  BY <1>1, <1>2, <1>3, <1>12, <1>13, SameNetwork DEF Ranges
<1>16. QubitsApart'
  <2>1. /\ Living' \subseteq DOMAIN top'
        /\ \A m \in Living' : top'[m] \in DOMAIN content'
        /\ \A m, k \in Living' : top'[m] = top'[k] => m = k
    BY <1>1, <1>2, <1>5, <1>12 DEF QubitsApart
  <2>2. \A m \in Living' : top'[m] # t
    BY <1>1, <1>2, <1>4, <1>5 DEF QubitsApart, t
  <2>3. \A i \in DOMAIN free' : /\ free'[i] \in DOMAIN content'
                                /\ \A m \in Living' : top'[m] # free'[i]
    BY <1>1, <1>2, <1>5, <1>6, <1>12, <1>13, <2>2, SMTT(40) DEF QubitsApart
  <2>4. \A i, j \in DOMAIN free' : free'[i] = free'[j] => i = j
    <3>1. \A i, j \in DOMAIN free : free[i] = free[j] => i = j
      BY <1>1 DEF QubitsApart
    <3>2. QED
      BY <1>13, <1>14, <3>1
  <2>5. /\ \A i \in DOMAIN free' : \A j \in DOMAIN outs' : outs'[j] # free'[i]
        /\ \A j \in DOMAIN outs' : outs'[j] \in DOMAIN content'
    BY <1>2, <1>3
  <2>6. QED
    BY <2>1, <2>3, <2>4, <2>5 DEF QubitsApart
<1>17. QubitsKnown'
  <2> SUFFICES ASSUME NEW q \in DOMAIN content', q # t
               PROVE  \/ \E m \in Living' : q = top'[m]
                      \/ \E i \in DOMAIN free' : q = free'[i]
    BY <1>13 DEF QubitsKnown
  <2>1. (\E m \in Living : q = top[m]) \/ \E i \in DOMAIN free : q = free[i]
    BY <1>1, <1>3, <1>12 DEF QubitsKnown
  <2>2. CASE \E m \in Living : q = top[m]
    <3>1. PICK m \in Living : q = top[m]
      BY <2>2
    <3>2. m \in Living' /\ q = top'[m]
      BY <1>2, <1>5, <3>1 DEF t
    <3>3. QED
      BY <3>2
  <2>3. CASE \E i \in DOMAIN free : q = free[i]
    BY <1>13, <2>3
  <2>4. QED
    BY <2>1, <2>2, <2>3
<1>18. InputsKept'
  <2>1. ASSUME NEW k \in 1..xag.pis
        PROVE  top'[k] = k /\ content'[k] = Bit(k)
    <3>1. k \in Living /\ k # n /\ top[k] = k /\ content[k] = Bit(k)
      <4>1. k \in Inputs
        BY <1>1, NetworkFacts DEF Pebbled
      <4>2. QED
        BY <1>1, <1>4, <4>1, LivingFacts DEF InputsKept, Ranges
    <3>2. k \in DOMAIN content /\ k # t
      BY <1>1, <1>4, <3>1 DEF QubitsApart, t
    <3>3. QED
      BY <1>2, <1>12, <3>1, <3>2
  <2>2. QED
    BY <1>2, <2>1, SameNetwork DEF InputsKept
<1>19. FreeIsClean'
  BY <1>1, <1>12, <1>13, <1>14, SMTT(40) DEF FreeIsClean, QubitsApart
<1>20. QubitsHaveTheirValues'
  <2>1. \A m \in Living' : content'[top'[m]] = V[m]
    BY <1>1, <1>2, <1>4, <1>5, <1>8, <1>12 DEF QubitsApart, t
  <2>2. \A m : ~NodeTurned(m)'
    BY <1>1, <1>2, <1>3, NothingTurned DEF NodeTurned
  <2>3. \A m \in Living' : content'[top'[m]] = Turned(V[m], NodeTurned(m))'
    BY <2>1, <2>2 DEF Turned
  <2>4. QED
    BY <1>2, <1>3, <1>8, <2>3, SameNetwork DEF QubitsHaveTheirValues
<1>21. OutputsNamed'
  <2>1. \A m \in DOMAIN seen : m \in 1..xag.pis
    BY <1>1, <1>3 DEF OutputsNamed
  <2>2. \A m \in 1..xag.pis : m \in Living'
    <3>1. \A m \in 1..xag.pis : m # n
      BY <1>1, <1>4, NetworkFacts DEF Pebbled
    <3>2. QED
      BY <1>1, <1>5, <3>1, LivingFacts DEF Ranges
  <2>3. QED
    BY <1>1, <1>2, <1>3, <2>1, <2>2 DEF OutputsNamed
<1>22. QED
  BY <1>1, <1>2, <1>3, <1>15, <1>16, <1>17, <1>18, <1>19, <1>20, <1>21 DEF CInv

\* When the steps are done, a node that an output refers to has a qubit.
LEMMA OutputFacts ==
  ASSUME Pebbled, Ranges, Outputting
  PROVE  /\ at = Len(steps) + 1
         /\ Len(outs) + 1 \in 1..Len(xag.pos)
         /\ Output.node \in Living
         /\ Output.node \in 1..xag.pis => Referred
         /\ ~Referred => Output.node \notin 1..xag.pis
<1>1. /\ at = Len(steps) + 1 /\ Len(steps) \in Nat
      /\ Len(outs) \in Nat /\ Len(outs) + 1 \in 1..Len(xag.pos)
  BY StepTypes, NetworkFacts DEF Ranges, Outputting, Pebbled
<1>2. NodesHeld = Outputs
  <2>1. at - 1 = Len(steps)
    BY <1>1
  <2>2. QED
    BY <2>1 DEF NodesHeld, Pebbled, IsPebbling, Outputs
<1>3. Output.node \in Inputs \cup GateNodes(xag)
  BY <1>1, NetworkFacts DEF Output, Pebbled
<1>4. Output.node \in GateNodes(xag) => Output.node \in Outputs
  BY <1>1, NetworkFacts DEF Output, Outputs, OutputNodes, Pebbled, Inputs
<1>5. Output.node = 0 => HasConstant
  BY <1>1 DEF Output, HasConstant
<1>6. Inputs = 0..xag.pis /\ xag.pis \in Nat
  BY NetworkFacts DEF Pebbled
<1>7. Output.node \in Living
  BY <1>2, <1>3, <1>4, <1>5, <1>6 DEF Living
<1>8. QED
  BY <1>1, <1>6, <1>7 DEF Referred

LEMMA CopyOutputKeeps ==
  ASSUME CInv, CopyOutput
  PROVE  CInv'
<1> DEFINE n == Output.node
           known == n \in DOMAIN seen
           new == Len(content) + 1
           given == Given(Len(outs) + 1)
           copied == apply_cnot(Append(content, given), top[n], new)
<1>1. /\ phase = "emit" /\ Outputting /\ Referred
      /\ Pebbled /\ Ranges /\ QubitsApart /\ QubitsKnown /\ InputsKept
      /\ FreeIsClean /\ QubitsHaveTheirValues /\ OutputsNamed
  BY DEF CInv, CopyOutput, Outputting
<1>2. /\ content' = IF Output.neg # (known /\ seen[n]) THEN apply_x(copied, new) ELSE copied
      /\ outs' = Append(outs, new)
      /\ seen' = IF known THEN seen ELSE With(seen, n, FALSE)
      /\ xag' = xag /\ steps' = steps /\ phase' = phase /\ at' = at /\ top' = top /\ free' = free
  BY DEF CopyOutput
<1>3. /\ at = Len(steps) + 1 /\ Len(steps) \in Nat /\ Len(outs) \in Nat
      /\ Len(outs) + 1 \in 1..Len(xag.pos) /\ Len(xag.pos) \in Nat
      /\ n \in Living /\ Pebbled'
      /\ n \in DOMAIN seen \/ n \in 1..xag.pis
  BY <1>1, <1>2, OutputFacts, StepTypes, NetworkFacts DEF Pebbled, Ranges, Referred
<1>4. NodesHeld' = NodesHeld /\ Living' = Living
  BY <1>2, SameNetwork DEF NodesHeld, Living
<1>5. /\ content \in Seq(SUBSET Assignments) /\ Len(content) \in Nat
      /\ DOMAIN content = 1..Len(content)
      /\ top[n] \in DOMAIN content /\ given \in SUBSET Assignments
  BY <1>1, <1>3, BitAssigned DEF QubitsApart, Ranges, Given
<1>6. /\ content' \in Seq(SUBSET Assignments)
      /\ DOMAIN content' = DOMAIN content \cup {new}
      /\ \A q \in DOMAIN content : content'[q] = content[q]
      /\ new \notin DOMAIN content /\ new \in Nat
      /\ content'[new] = IF Output.neg # (known /\ seen[n]) THEN Assignments \ Differ(given, content[top[n]])
                                                            ELSE Differ(given, content[top[n]])
  <2> DEFINE longer == Append(content, given)
             value == Differ(given, content[top[n]])
  <2>1. /\ longer \in Seq(SUBSET Assignments) /\ new \in DOMAIN longer
        /\ DOMAIN longer = DOMAIN content \cup {new}
        /\ \A q \in DOMAIN content : longer[q] = content[q]
        /\ longer[new] = given
        /\ new \notin DOMAIN content /\ new \in Nat
    BY <1>5
  <2>2. content[top[n]] \in SUBSET Assignments
    BY <1>5
  <2>3. value \in SUBSET Assignments /\ Assignments \ value \in SUBSET Assignments
    BY <1>5, <2>2, DifferAssigned
  <2> HIDE DEF longer, new, given, n
  <2>4. copied = [longer EXCEPT ![new] = value]
    BY <1>5, <2>1 DEF apply_cnot, longer
  <2>5. apply_x(copied, new) = [longer EXCEPT ![new] = Assignments \ value]
    BY <2>1, <2>4 DEF apply_x
  <2> DEFINE v == IF Output.neg # (known /\ seen[n]) THEN Assignments \ value ELSE value
  <2>6. content' = [longer EXCEPT ![new] = v] /\ v \in SUBSET Assignments
    BY <1>2, <2>3, <2>4, <2>5
  <2> HIDE DEF copied, v
  <2>7. /\ content' \in Seq(SUBSET Assignments)
        /\ DOMAIN content' = DOMAIN content \cup {new}
        /\ \A q \in DOMAIN content : content'[q] = content[q]
        /\ content'[new] = v
    BY <2>1, <2>6
  <2>8. QED
    BY <2>1, <2>7 DEF v, value
<1>7. /\ outs' \in Seq(Nat) /\ Len(outs') = Len(outs) + 1 /\ outs' # <<>>
      /\ DOMAIN outs' = DOMAIN outs \cup {Len(outs) + 1} /\ DOMAIN outs = 1..Len(outs)
      /\ outs'[Len(outs) + 1] = new
      /\ \A j \in DOMAIN outs : outs'[j] = outs[j]
  <2>1. new \in Nat
    BY <1>5
  <2> HIDE DEF new
  <2>2. QED
    BY <1>1, <1>2, <2>1, SMTT(40) DEF Ranges
<1>8. DOMAIN seen' = DOMAIN seen \cup {n}
  BY <1>2 DEF With
<1>9. xag' = xag /\ steps' = steps /\ phase' = phase /\ at' = at /\ top' = top /\ free' = free
  BY <1>2
<1>10. \A m \in Living : NodeTurned(m)' = NodeTurned(m)
  BY <1>1, <1>2, <1>3 DEF NodeTurned, OutputsNamed, With
<1>11. content'[new] = Turned(Differ(Given(Len(outs) + 1), content[top[n]]), Output.neg # NodeTurned(n))
  BY <1>6 DEF Turned, NodeTurned
<1>12. Output.neg \in BOOLEAN /\ NodeTurned(n) \in BOOLEAN
  BY <1>1, <1>3, NetworkFacts DEF Output, Pebbled, NodeTurned, OutputsNamed
<1> HIDE DEF new, n, given, copied, known
<1>13. Ranges'
  BY <1>1, <1>9, <1>3, <1>6, <1>7, SameNetwork DEF Ranges
<1>14. QubitsApart'
  BY <1>1, <1>9, <1>4, <1>6, <1>7 DEF QubitsApart
<1>15. QubitsKnown'
  BY <1>1, <1>9, <1>4, <1>6, <1>7 DEF QubitsKnown
<1>16. InputsKept'
  <2>1. \A k \in 1..xag.pis : k \in Living /\ top[k] = k /\ k \in DOMAIN content
    <3>1. \A k \in 1..xag.pis : k \in Living /\ top[k] = k
      BY <1>1, LivingFacts DEF InputsKept, Ranges
    <3>2. \A k \in 1..xag.pis : top[k] \in DOMAIN content
      BY <1>1, <3>1 DEF QubitsApart
    <3>3. QED
      BY <3>1, <3>2
  <2>2. QED
    BY <1>1, <1>9, <1>6, <2>1, SameNetwork DEF InputsKept
<1>17. FreeIsClean'
  BY <1>1, <1>9, <1>6 DEF FreeIsClean, QubitsApart
<1>18. QubitsHaveTheirValues'
  <2>1. PICK V : /\ Valuation(V)
                 /\ \A m \in Living : content[top[m]] = Turned(V[m], NodeTurned(m))
                 /\ \A j \in DOMAIN outs : content[outs[j]] = Turned(OutputValue(V, j), xag.pos[j].neg)
    BY <1>1 DEF QubitsHaveTheirValues
  <2>2. PICK k : k = Len(outs) + 1
    OBVIOUS
  <2>3. \A m \in Living : content'[top'[m]] = Turned(V[m], NodeTurned(m))'
    BY <1>1, <1>6, <1>9, <1>10, <2>1, SameNetwork DEF QubitsApart
  <2>4. \A j \in DOMAIN outs : content'[outs'[j]] = Turned(OutputValue(V, j), xag.pos[j].neg)'
    <3>1. \A j \in DOMAIN outs : outs[j] \in DOMAIN content
      BY <1>1 DEF QubitsApart
    <3>2. QED
      BY <1>6, <1>7, <1>9, <2>1, <3>1, SameNetwork, SameOutputs
  <2>5. content'[outs'[k]] = Turned(OutputValue(V, k), xag.pos[k].neg)'
    <3>1. n \in 1..xag.pis \/ ~FirstOutput(k)
      <4>1. CASE n \in DOMAIN seen
        <5>1. PICK i \in 1..Len(outs) : xag.pos[i].node = n
          BY <1>1, <4>1 DEF OutputsNamed
        <5>2. QED
          BY <1>3, <2>2, <5>1 DEF FirstOutput, Output, n
      <4>2. QED
        BY <1>3, <4>1
    <3>2. OutputValue(V, k) = Differ(Given(k), V[n]) /\ Output.neg = xag.pos[k].neg
      BY <2>2, <3>1 DEF OutputValue, Output, n
    <3>3. V[n] \in SUBSET Assignments /\ Given(k) \in SUBSET Assignments
      BY <1>1, <1>3, <2>1, ValuationFacts, LivingNodes, BitAssigned DEF Given, Pebbled, Ranges
    <3>4. content'[new] = Turned(Differ(Given(k), Turned(V[n], NodeTurned(n))), xag.pos[k].neg # NodeTurned(n))
      BY <1>3, <1>11, <2>1, <2>2, <3>2
    <3>5. content'[new] = Turned(Differ(Given(k), V[n]), xag.pos[k].neg)
      BY <1>12, <3>2, <3>3, <3>4, TurnedTwice
    <3>6. /\ OutputValue(V, k)' = OutputValue(V, k) /\ xag.pos[k].neg' = xag.pos[k].neg
          /\ \A S, neg : Turned(S, neg)' = Turned(S, neg)
      BY <1>9, SameNetwork, SameOutputs
    <3>7. outs'[k] = new
      BY <1>7, <2>2
    <3>8. QED
      BY <3>2, <3>5, <3>6, <3>7
  <2>6. QED
    BY <1>4, <1>7, <1>9, <2>1, <2>3, <2>4, <2>5, <2>2, SameNetwork DEF QubitsHaveTheirValues
<1>19. OutputsNamed'
  <2>1. DOMAIN seen' \subseteq Living'
    BY <1>1, <1>3, <1>4, <1>8 DEF OutputsNamed
  <2>2. \A j \in 1..Len(outs') : xag'.pos[j].node \in DOMAIN seen'
    <3>1. \A j \in 1..Len(outs) : xag.pos[j].node \in DOMAIN seen'
      BY <1>1, <1>8 DEF OutputsNamed
    <3>2. xag.pos[Len(outs) + 1].node \in DOMAIN seen'
      BY <1>8 DEF Output, n
    <3>3. QED
      BY <1>3, <1>7, <1>9, <3>1, <3>2, SMTT(40)
  <2>3. \A m \in DOMAIN seen' : m \in 1..xag'.pis \/ \E j \in DOMAIN outs' : outs'[j] = top'[m]
    <3>1. \A m \in DOMAIN seen : m \in 1..xag.pis \/ \E j \in DOMAIN outs : outs[j] = top[m]
      BY <1>1 DEF OutputsNamed
    <3>2. n \in 1..xag.pis \/ n \in DOMAIN seen
      BY <1>3
    <3>3. QED
      BY <1>7, <1>8, <1>9, <3>1, <3>2
  <2>4. \A m \in DOMAIN seen' : \E j \in 1..Len(outs') : xag'.pos[j].node = m
    <3>1. \A m \in DOMAIN seen : \E j \in 1..Len(outs) : xag.pos[j].node = m
      BY <1>1 DEF OutputsNamed
    <3>2. xag.pos[Len(outs) + 1].node = n
      BY DEF Output, n
    <3>3. QED
      BY <1>3, <1>7, <1>8, <1>9, <3>1, <3>2
  <2>5. \A m \in DOMAIN seen' : seen'[m] \in BOOLEAN /\ (m \in 1..xag'.pis => ~seen'[m])
    BY <1>1, <1>2, <1>3, <1>8 DEF OutputsNamed, With, known
  <2>6. \A j \in DOMAIN outs' : \A m \in Living' : outs'[j] = top'[m] => m \in DOMAIN seen'
    BY <1>1, <1>4, <1>6, <1>7, <1>8, <1>9 DEF OutputsNamed, QubitsApart
  <2>7. QED
    BY <2>1, <2>2, <2>3, <2>4, <2>5, <2>6 DEF OutputsNamed
<1>20. QED
  BY <1>1, <1>9, <1>3, <1>13, <1>14, <1>15, <1>16, <1>17, <1>18, <1>19 DEF CInv

LEMMA NameOutputKeeps ==
  ASSUME CInv, NameOutput
  PROVE  CInv'
<1> DEFINE n == Output.node
           t == top[n]
<1>1. /\ phase = "emit" /\ Outputting /\ ~Referred
      /\ Pebbled /\ Ranges /\ QubitsApart /\ QubitsKnown /\ InputsKept
      /\ FreeIsClean /\ QubitsHaveTheirValues /\ OutputsNamed
  BY DEF CInv, NameOutput, Outputting
<1>2. /\ content' = IF Output.neg THEN apply_x(content, t) ELSE content
      /\ outs' = Append(outs, t)
      /\ seen' = With(seen, n, Output.neg)
      /\ xag' = xag /\ steps' = steps /\ phase' = phase /\ at' = at /\ top' = top /\ free' = free
  BY DEF NameOutput
<1>3. /\ at = Len(steps) + 1 /\ Len(steps) \in Nat /\ Len(outs) \in Nat
      /\ Len(outs) + 1 \in 1..Len(xag.pos) /\ Len(xag.pos) \in Nat
      /\ n \in Living /\ Pebbled'
      /\ n \notin 1..xag.pis
  BY <1>1, <1>2, OutputFacts, StepTypes, NetworkFacts DEF Pebbled, Ranges
<1>4. NodesHeld' = NodesHeld /\ Living' = Living
  BY <1>2, SameNetwork DEF NodesHeld, Living
<1>5. /\ content \in Seq(SUBSET Assignments) /\ Len(content) \in Nat
      /\ DOMAIN content = 1..Len(content)
      /\ t \in DOMAIN content /\ t \in Nat
  BY <1>1, <1>3 DEF QubitsApart, Ranges
<1>6. /\ content' \in Seq(SUBSET Assignments)
      /\ DOMAIN content' = DOMAIN content
      /\ \A q \in DOMAIN content : q # t => content'[q] = content[q]
  <2> HIDE DEF t
  <2>1. CASE Output.neg
    <3>1. content' = [content EXCEPT ![t] = Assignments \ @]
      BY <1>2, <2>1 DEF apply_x
    <3>2. Assignments \ content[t] \in SUBSET Assignments
      BY <1>5
    <3>3. QED
      BY <1>5, <3>1, <3>2
  <2>2. CASE ~Output.neg
    BY <1>2, <1>5, <2>2
  <2>3. QED
    BY <2>1, <2>2
<1>7. /\ outs' \in Seq(Nat) /\ Len(outs') = Len(outs) + 1 /\ outs' # <<>>
      /\ DOMAIN outs' = DOMAIN outs \cup {Len(outs) + 1} /\ DOMAIN outs = 1..Len(outs)
      /\ outs'[Len(outs) + 1] = t
      /\ \A j \in DOMAIN outs : outs'[j] = outs[j]
  <2> HIDE DEF t
  <2>1. QED
    BY <1>1, <1>2, <1>5, SMTT(40) DEF Ranges
<1>8. DOMAIN seen' = DOMAIN seen \cup {n}
  BY <1>2 DEF With
<1>9. /\ \A i \in DOMAIN free : free[i] # t
      /\ \A k \in 1..xag.pis : k # t /\ k \in DOMAIN content
  <2>1. \A k \in 1..xag.pis : k \in Living /\ top[k] = k /\ k # n
    BY <1>1, <1>3, LivingFacts DEF InputsKept, Ranges
  <2>2. QED
    BY <1>1, <1>3, <2>1 DEF QubitsApart
<1>10. xag' = xag /\ steps' = steps /\ phase' = phase /\ at' = at /\ top' = top /\ free' = free
  BY <1>2
<1>11. n \notin DOMAIN seen
  BY <1>1 DEF Referred
<1>12. content'[t] = IF Output.neg THEN Assignments \ content[t] ELSE content[t]
  <2> HIDE DEF t
  <2>1. QED
    BY <1>2, <1>5 DEF apply_x
<1>13. n \in DOMAIN seen' /\ seen'[n] = Output.neg
  BY <1>2 DEF With
<1>14. \A m : m # n => (m \in DOMAIN seen' <=> m \in DOMAIN seen) /\ (m \in DOMAIN seen => seen'[m] = seen[m])
  BY <1>2, <1>8 DEF With
<1>15. Output.neg \in BOOLEAN
  BY <1>1, <1>3, NetworkFacts DEF Output, Pebbled
<1> HIDE DEF n, t
<1>16. Ranges'
  BY <1>1, <1>2, <1>3, <1>6, <1>7, SameNetwork DEF Ranges
<1>17. QubitsApart'
  <2>1. \A j \in DOMAIN outs' : /\ outs'[j] \in DOMAIN content'
                                /\ \A i \in DOMAIN free' : outs'[j] # free'[i]
    BY <1>1, <1>5, <1>6, <1>7, <1>9, <1>10 DEF QubitsApart
  <2>2. QED
    BY <1>1, <1>4, <1>6, <1>10, <2>1 DEF QubitsApart
<1>18. QubitsKnown'
  BY <1>1, <1>2, <1>4, <1>6, <1>7 DEF QubitsKnown
<1>19. InputsKept'
  BY <1>1, <1>2, <1>6, <1>9, SameNetwork DEF InputsKept
<1>20. FreeIsClean'
  BY <1>1, <1>2, <1>6, <1>9 DEF FreeIsClean, QubitsApart
<1>21. QubitsHaveTheirValues'
  <2>1. PICK V : /\ Valuation(V)
                 /\ \A m \in Living : content[top[m]] = Turned(V[m], NodeTurned(m))
                 /\ \A j \in DOMAIN outs : content[outs[j]] = Turned(OutputValue(V, j), xag.pos[j].neg)
    BY <1>1 DEF QubitsHaveTheirValues
  <2>2. PICK k : k = Len(outs) + 1
    OBVIOUS
  \* The node's qubit holds its value, turned if the output is.
  <2>3. content'[t] = Turned(V[n], xag.pos[k].neg)
    <3>1. content[t] = V[n]
      BY <1>3, <1>11, <2>1 DEF t, NodeTurned, Turned
    <3>2. Output.neg = xag.pos[k].neg
      BY <2>2 DEF Output
    <3>3. QED
      BY <1>12, <3>1, <3>2 DEF Turned
  <2>4. \A m \in Living : content'[top'[m]] = Turned(V[m], NodeTurned(m))'
    <3>1. \A m : m = n => NodeTurned(m)' = xag.pos[k].neg
      BY <1>13, <1>15, <2>2 DEF NodeTurned, Output
    <3>2. \A m : m # n => NodeTurned(m)' = NodeTurned(m)
      BY <1>14 DEF NodeTurned
    <3>3. \A m \in Living : m # n => top[m] # t /\ top[m] \in DOMAIN content
      BY <1>1, <1>3 DEF QubitsApart, t
    <3>4. ASSUME NEW m \in Living
          PROVE  content'[top'[m]] = Turned(V[m], NodeTurned(m)')
      <4>1. CASE m = n
        BY <1>10, <2>3, <3>1, <4>1 DEF t
      <4>2. CASE m # n
        BY <1>6, <1>10, <2>1, <3>2, <3>3, <4>2
      <4>3. QED
        BY <4>1, <4>2
    <3>5. QED
      BY <1>10, <3>4, SameNetwork
  <2>5. \A j \in DOMAIN outs : content'[outs'[j]] = Turned(OutputValue(V, j), xag.pos[j].neg)'
    <3>1. \A j \in DOMAIN outs : outs[j] \in DOMAIN content /\ outs[j] # t
      BY <1>1, <1>3, <1>11 DEF QubitsApart, OutputsNamed, t
    <3>2. QED
      BY <1>6, <1>7, <1>10, <2>1, <3>1, SameNetwork, SameOutputs
  <2>6. content'[outs'[k]] = Turned(OutputValue(V, k), xag.pos[k].neg)'
    <3>1. n \notin 1..xag.pis /\ FirstOutput(k)
      BY <1>1, <1>3, <1>11, <2>2 DEF FirstOutput, OutputsNamed, Output, n
    <3>2. OutputValue(V, k) = V[n]
      BY <2>2, <3>1 DEF OutputValue, Output, n
    <3>3. /\ OutputValue(V, k)' = OutputValue(V, k) /\ xag.pos[k].neg' = xag.pos[k].neg
          /\ \A S, neg : Turned(S, neg)' = Turned(S, neg)
      BY <1>10, SameNetwork, SameOutputs
    <3>4. outs'[k] = t
      BY <1>7, <2>2
    <3>5. QED
      BY <2>3, <3>2, <3>3, <3>4
  <2>7. QED
    BY <1>4, <1>7, <1>10, <2>1, <2>2, <2>4, <2>5, <2>6, SameNetwork DEF QubitsHaveTheirValues
<1>22. OutputsNamed'
  <2>1. DOMAIN seen' \subseteq Living'
    BY <1>1, <1>3, <1>4, <1>8 DEF OutputsNamed
  <2>2. \A j \in 1..Len(outs') : xag'.pos[j].node \in DOMAIN seen'
    <3>1. \A j \in 1..Len(outs) : xag.pos[j].node \in DOMAIN seen'
      BY <1>1, <1>8 DEF OutputsNamed
    <3>2. xag.pos[Len(outs) + 1].node \in DOMAIN seen'
      BY <1>8 DEF Output, n
    <3>3. QED
      BY <1>3, <1>7, <1>10, <3>1, <3>2, SMTT(40)
  <2>3. \A m \in DOMAIN seen' : m \in 1..xag'.pis \/ \E j \in DOMAIN outs' : outs'[j] = top'[m]
    <3>1. \A m \in DOMAIN seen : m \in 1..xag.pis \/ \E j \in DOMAIN outs : outs[j] = top[m]
      BY <1>1 DEF OutputsNamed
    <3>2. outs'[Len(outs) + 1] = top[n]
      BY <1>7 DEF t
    <3>3. QED
      BY <1>7, <1>8, <1>10, <3>1, <3>2
  <2>4. \A m \in DOMAIN seen' : \E j \in 1..Len(outs') : xag'.pos[j].node = m
    <3>1. \A m \in DOMAIN seen : \E j \in 1..Len(outs) : xag.pos[j].node = m
      BY <1>1 DEF OutputsNamed
    <3>2. xag.pos[Len(outs) + 1].node = n
      BY DEF Output, n
    <3>3. QED
      BY <1>3, <1>7, <1>8, <1>10, <3>1, <3>2
  <2>5. \A m \in DOMAIN seen' : seen'[m] \in BOOLEAN /\ (m \in 1..xag'.pis => ~seen'[m])
    BY <1>1, <1>3, <1>8, <1>10, <1>13, <1>14, <1>15 DEF OutputsNamed
  <2>6. \A j \in DOMAIN outs' : \A m \in Living' : outs'[j] = top'[m] => m \in DOMAIN seen'
    <3>1. \A j \in DOMAIN outs : \A m \in Living : outs[j] = top[m] => m \in DOMAIN seen
      BY <1>1 DEF OutputsNamed
    <3>2. \A m \in Living : t = top[m] => m = n
      BY <1>1, <1>3 DEF QubitsApart, t
    <3>3. QED
      BY <1>4, <1>7, <1>8, <1>10, <3>1, <3>2
  <2>7. QED
    BY <2>1, <2>2, <2>3, <2>4, <2>5, <2>6 DEF OutputsNamed
<1>23. QED
  BY <1>1, <1>2, <1>3, <1>16, <1>17, <1>18, <1>19, <1>20, <1>21, <1>22 DEF CInv

LEMMA FinishKeeps ==
  ASSUME CInv, Finish
  PROVE  CInv'
<1>1. /\ Pebbled /\ Ranges /\ QubitsApart /\ QubitsKnown /\ InputsKept
      /\ FreeIsClean /\ QubitsHaveTheirValues /\ OutputsNamed
      /\ phase' = "done" /\ at > Len(steps) /\ Len(outs) = Len(xag.pos)
      /\ xag' = xag /\ steps' = steps /\ at' = at /\ content' = content /\ top' = top
      /\ free' = free /\ outs' = outs /\ seen' = seen
  BY DEF CInv, Finish
<1>2. at' = Len(steps') + 1
  BY <1>1, StepTypes DEF Ranges
<1>3. /\ Pebbled' /\ NodesHeld' = NodesHeld /\ Living' = Living
      /\ Assignments' = Assignments /\ \A k : Bit(k)' = Bit(k)
  BY <1>1, SameNetwork DEF Pebbled, NodesHeld, Living
<1>4. Ranges'
  BY <1>1, <1>2, <1>3 DEF Ranges
<1>5. QubitsApart' /\ QubitsKnown' /\ InputsKept' /\ FreeIsClean' /\ OutputsNamed'
  BY <1>1, <1>3 DEF QubitsApart, QubitsKnown, InputsKept, FreeIsClean, OutputsNamed
<1>6. QubitsHaveTheirValues'
  <2>1. \A n : NodeTurned(n)' = NodeTurned(n)
    BY <1>1 DEF NodeTurned
  <2>2. QED
    BY <1>1, <1>3, <2>1, SameNetwork, SameOutputs DEF QubitsHaveTheirValues
<1>7. QED
  BY <1>1, <1>3, <1>4, <1>5, <1>6 DEF CInv

LEMMA StutterKeeps ==
  ASSUME CInv, UNCHANGED <<xag, steps, qvars>>
  PROVE  CInv'
<1>1. /\ xag' = xag /\ steps' = steps /\ phase' = phase /\ at' = at /\ content' = content
      /\ top' = top /\ free' = free /\ outs' = outs /\ seen' = seen
  BY DEF qvars
<1>2. /\ Pebbled' <=> Pebbled
      /\ NodesHeld' = NodesHeld /\ Living' = Living
      /\ Assignments' = Assignments /\ \A k : Bit(k)' = Bit(k)
      /\ QubitsInit' <=> QubitsInit
  BY <1>1, SameNetwork DEF Pebbled, NodesHeld, Living, QubitsInit
<1>3. /\ Ranges' <=> Ranges
      /\ QubitsApart' <=> QubitsApart
      /\ QubitsKnown' <=> QubitsKnown
      /\ InputsKept' <=> InputsKept
      /\ FreeIsClean' <=> FreeIsClean
      /\ OutputsNamed' <=> OutputsNamed
  BY <1>1, <1>2 DEF Ranges, QubitsApart, QubitsKnown, InputsKept, FreeIsClean, OutputsNamed
<1>4. QubitsHaveTheirValues' <=> QubitsHaveTheirValues
  <2>1. \A n : NodeTurned(n)' = NodeTurned(n)
    BY <1>1 DEF NodeTurned
  <2>2. QED
    BY <1>1, <1>2, <2>1, SameNetwork, SameOutputs DEF QubitsHaveTheirValues
<1>5. QED
  BY <1>1, <1>2, <1>3, <1>4 DEF CInv

LEMMA NextKeeps ==
  ASSUME CInv, [CircuitNext]_<<xag, steps, qvars>>
  PROVE  CInv'
<1>1. CASE Strategy
  BY <1>1 DEF CInv, Strategy, qvars, QubitsInit
<1>2. CASE Pebbled /\ Prepare
  BY <1>2, PrepareKeeps
<1>3. CASE Compute
  BY <1>3, ComputeKeeps
<1>4. CASE Uncompute
  BY <1>4, UncomputeKeeps
<1>5. CASE CopyOutput
  BY <1>5, CopyOutputKeeps
<1>6. CASE NameOutput
  BY <1>6, NameOutputKeeps
<1>7. CASE Finish
  BY <1>7, FinishKeeps
<1>8. CASE UNCHANGED <<xag, steps, qvars>>
  BY <1>8, StutterKeeps
<1>9. QED
  BY <1>1, <1>2, <1>3, <1>4, <1>5, <1>6, <1>7, <1>8 DEF CircuitNext, Emit

LEMMA InvGivesClean ==
  ASSUME CInv
  PROVE  AncillasComeBackClean
<1>1. CASE phase = "pebble"
  <2>1. free = <<>> /\ phase # "done"
    BY <1>1 DEF CInv, QubitsInit
  <2>2. ToSet(free) = {}
    BY <2>1 DEF ToSet
  <2>3. QED
    BY <2>1, <2>2 DEF AncillasComeBackClean
<1>2. CASE phase # "pebble"
  <2>1. /\ Pebbled /\ Ranges /\ QubitsApart /\ QubitsKnown /\ InputsKept
        /\ FreeIsClean /\ OutputsNamed
    BY <1>2 DEF CInv
  <2>2. \A q \in ToSet(free) : content[q] = {}
    BY <2>1 DEF FreeIsClean, ToSet
  <2>3. ASSUME phase = "done", NEW q \in DOMAIN content
        PROVE  IF q <= xag.pis THEN content[q] = Bit(q) ELSE q \notin ToSet(outs) => content[q] = {}
    <3>1. q \in Nat \ {0} /\ xag.pis \in Nat
      BY <2>1, NetworkFacts DEF Ranges, Pebbled
    <3>2. CASE q <= xag.pis
      BY <2>1, <3>1, <3>2 DEF InputsKept
    <3>3. CASE ~(q <= xag.pis) /\ q \notin ToSet(outs)
      <4>1. \A j \in DOMAIN outs : q # outs[j]
        BY <3>3 DEF ToSet
      \* A node that still has a qubit is one an output refers to.
      <4>2. ASSUME NEW n \in Living, q = top[n]
            PROVE  FALSE
        <5>1. n \notin 1..xag.pis
          BY <2>1, <3>1, <3>3, <4>2 DEF InputsKept
        <5>2. NodesHeld = Outputs
          <6>1. at - 1 = Len(steps)
            BY <2>1, <2>3, StepTypes DEF Ranges
          <6>2. QED
            BY <2>1, <6>1 DEF NodesHeld, Pebbled, IsPebbling, Outputs
        <5>3. PICK j \in 1..Len(xag.pos) : xag.pos[j].node = n
          <6>1. CASE n = 0 /\ HasConstant
            BY <6>1 DEF HasConstant
          <6>2. CASE n \in Outputs
            BY <2>1, <6>2, NetworkFacts DEF Outputs, OutputNodes, Pebbled
          <6>3. QED
            BY <4>2, <5>1, <5>2, <6>1, <6>2 DEF Living
        <5>4. n \in DOMAIN seen
          BY <2>1, <2>3, <5>3 DEF OutputsNamed, Ranges
        <5>5. QED
          BY <2>1, <4>1, <4>2, <5>1, <5>4 DEF OutputsNamed
      <4>3. \E i \in DOMAIN free : q = free[i]
        BY <2>1, <2>3, <4>1, <4>2 DEF QubitsKnown
      <4>4. QED
        BY <2>1, <3>3, <4>3 DEF FreeIsClean
    <3>4. QED
      BY <3>2, <3>3
  <2>4. QED
    BY <2>2, <2>3 DEF AncillasComeBackClean
<1>3. QED
  BY <1>1, <1>2

\* Whatever the network, the pebbling and the caller's bits: an ancilla is 0
\* whenever it is free, and when the circuit ends the inputs are what they were
\* and every other qubit that is not an output is 0.
THEOREM CleanAncillas == CircuitSpec => []AncillasComeBackClean
<1>1. QubitsInit => CInv
  BY DEF CInv, QubitsInit
<1>2. CInv /\ [CircuitNext]_<<xag, steps, qvars>> => CInv'
  BY NextKeeps
<1>3. CInv => AncillasComeBackClean
  BY InvGivesClean
<1>4. QED
  BY <1>1, <1>2, <1>3, PTL DEF CircuitSpec

----------------------------------------------------------------------------
(* The outputs are what the network says. *)

LEMMA SameMembers ==
  ASSUME NEW n, NEW v \in Assignments, NEW A, NEW B, NEW C, NEW D,
         Left(n).neg \in BOOLEAN, Right(n).neg \in BOOLEAN,
         v \in A <=> v \in C, v \in B <=> v \in D
  PROVE  v \in GateValue(n, A, B) <=> v \in GateValue(n, C, D)
<1>1. /\ v \in Turned(A, Left(n).neg) <=> v \in Turned(C, Left(n).neg)
      /\ v \in Turned(B, Right(n).neg) <=> v \in Turned(D, Right(n).neg)
  BY DEF Turned
<1>2. QED
  BY <1>1 DEF GateValue, Differ, Left, Right

\* The caller's bits come into a node through the outputs it is built on, and
\* through itself if it is one: without the former a node has its own value,
\* added to what the caller has there.
LEMMA CallersBits ==
  ASSUME IsNetwork(xag), NEW V, Valuation(V), NEW v \in Assignments
  PROVE  \A n \in Nodes \ {0} :
           (\A k \in Outputs : k < n => v \notin Base[k])
             => (v \in V[n] <=> v \in Differ(Base[n], NodeValue[n]))
<1> DEFINE Holds(n) == (\A k \in Outputs : k < n => v \notin Base[k])
                         => (v \in V[n] <=> v \in Differ(Base[n], NodeValue[n]))
           S == {m \in Nat : \A n \in (Nodes \ {0}) \cap (1..m) : Holds(n)}
<1>1. 0 \in S
  OBVIOUS
<1>2. ASSUME NEW m \in S
      PROVE  m + 1 \in S
  <2>1. m \in Nat /\ \A n \in (Nodes \ {0}) \cap (1..m) : Holds(n)
    OBVIOUS
  <2>2. SUFFICES ASSUME NEW n \in Nodes, n = m + 1
                 PROVE  Holds(n)
    BY <2>1
  <2>3. CASE n \in 1..xag.pis
    <3>1. Base[n] = {} /\ V[n] = Bit(n) /\ NodeValue[n] = Bit(n)
      BY <2>3, NetworkFacts, ValuationFacts, NodeValueFacts DEF Base
    <3>2. QED
      BY <3>1 DEF Differ
  <2>4. CASE n \in GateNodes(xag)
    <3>1. SUFFICES ASSUME \A k \in Outputs : k < n => v \notin Base[k]
                   PROVE  v \in V[n] <=> v \in Differ(Base[n], NodeValue[n])
      OBVIOUS
    <3>2. ASSUME NEW l \in Nodes, l \in 1..(n - 1)
          PROVE  v \in V[l] <=> v \in NodeValue[l]
      <4>1. Holds(l) /\ l < n
        BY <2>1, <2>2, <3>2
      <4>2. \A k \in Outputs : k < l => k < n
        BY <2>1, <2>2, <3>2, NetworkFacts
      <4>3. v \in V[l] <=> v \in Differ(Base[l], NodeValue[l])
        BY <3>1, <4>1, <4>2
      <4>4. v \notin Base[l]
        <5>1. l # 0
          BY <2>1, <2>2, <3>2
        <5>2. l \notin Outputs => Base[l] = {}
          BY <3>2, <5>1 DEF Base
        <5>3. QED
          BY <3>1, <4>1, <5>2
      <4>5. QED
        BY <4>3, <4>4 DEF Differ
    <3> DEFINE a == Left(n).node
               b == Right(n).node
    <3>3. /\ a \in Nodes /\ a \in 1..(n - 1) /\ b \in Nodes /\ b \in 1..(n - 1)
          /\ Left(n).neg \in BOOLEAN /\ Right(n).neg \in BOOLEAN
      BY <2>4, NetworkFacts, NodesAreNumbered
    <3>4. (v \in V[a] <=> v \in NodeValue[a]) /\ (v \in V[b] <=> v \in NodeValue[b])
      BY <3>2, <3>3
    <3>5. V[n] = Differ(Base[n], GateValue(n, V[a], V[b]))
      BY <2>4, ValuationFacts
    <3>6. NodeValue[n] = GateValue(n, NodeValue[a], NodeValue[b])
      BY <2>4, NodeValueFacts
    <3> HIDE DEF a, b
    <3>7. v \in GateValue(n, V[a], V[b]) <=> v \in NodeValue[n]
      BY <3>3, <3>4, <3>6, SameMembers
    <3>8. QED
      BY <3>5, <3>7 DEF Differ
  <2>5. QED
    BY <2>1, <2>2, <2>3, <2>4, NetworkFacts DEF Nodes
<1>3. S \in SUBSET Nat
  OBVIOUS
<1>4. S = Nat
  <2> HIDE DEF S
  <2>1. QED
    BY <1>1, <1>2, <1>3, SetNatInduction
<1>5. QED
  <2> SUFFICES ASSUME NEW n \in Nodes \ {0}
               PROVE  Holds(n)
    OBVIOUS
  <2>1. n \in Nat \ {0} /\ n \in 1..n
    BY NodesAreNumbered
  <2>2. n \in S
    BY <1>4, <2>1
  <2>3. QED
    BY <2>1, <2>2

\* An output has the value it should have, for every assignment that is asked for.
LEMMA OutputHasItsValue ==
  ASSUME IsNetwork(xag), NEW V, Valuation(V), NEW j \in 1..Len(xag.pos), NEW v \in Asked
  PROVE  v \in OutputValue(V, j) <=> v \in Differ(Given(j), NodeValue[xag.pos[j].node])
<1> DEFINE n == xag.pos[j].node
           f == First(n)
<1>1. /\ v \in Assignments
      /\ Len(xag.pos) \in Nat
      /\ f \in 1..Len(xag.pos) /\ f <= j
      /\ FirstOutput(j) <=> j = f
      /\ n \in Nodes
  BY FirstFacts, NetworkFacts DEF Asked, Nodes
\* If there are several outputs the caller's bits are 0.
<1>2. CASE \A i \in 1..Len(xag.pos) : v \notin Given(i)
  <2>1. \A k \in Outputs : v \notin Base[k]
    <3>1. \A k \in Outputs : \E i \in 1..Len(xag.pos) : xag.pos[i].node = k
      BY NetworkFacts DEF Outputs, OutputNodes
    <3>2. \A k \in Outputs : First(k) \in 1..Len(xag.pos)
      BY <3>1, FirstFacts
    <3>3. \A k \in Outputs : k \in Nodes /\ Base[k] = Given(First(k))
      BY NetworkFacts DEF Base, Nodes
    <3>4. QED
      BY <1>2, <3>2, <3>3
  <2>2. v \notin Given(j) /\ v \notin Given(f)
    BY <1>1, <1>2
  <2>3. v \in V[n] <=> v \in NodeValue[n]
    <3>1. CASE n = 0
      BY <2>2, <3>1, ValuationFacts, NodeValueFacts
    <3>2. CASE n # 0
      <4>1. v \notin Base[n]
        BY <1>1, <2>1, <3>2 DEF Base
      <4>2. v \in V[n] <=> v \in Differ(Base[n], NodeValue[n])
        BY <1>1, <2>1, <3>2, CallersBits
      <4>3. QED
        BY <4>1, <4>2 DEF Differ
    <3>3. QED
      BY <3>1, <3>2
  <2>4. QED
    BY <2>2, <2>3 DEF OutputValue, Differ
\* If there is one output, nothing else is an output.
<1>3. CASE Len(xag.pos) = 1
  <2>1. j = 1 /\ f = 1 /\ FirstOutput(j)
    BY <1>1, <1>3
  <2>2. CASE n \in 1..xag.pis
    BY <2>2, ValuationFacts, NodeValueFacts DEF OutputValue
  <2>3. CASE n = 0
    <3>1. n \notin 1..xag.pis /\ V[n] = Given(j) /\ NodeValue[n] = {}
      BY <2>1, <2>3, ValuationFacts, NodeValueFacts
    <3>2. QED
      BY <2>1, <3>1 DEF OutputValue, Differ
  <2>4. CASE n \in GateNodes(xag)
    <3>1. n \notin 1..xag.pis /\ n # 0 /\ n \in Nat /\ n \notin Inputs
      BY <2>4, NetworkFacts
    <3>2. Outputs \subseteq {n} /\ n \in Outputs
      BY <1>3, <2>1, <3>1 DEF Outputs, OutputNodes, Inputs
    <3>3. Base[n] = Given(j)
      BY <1>1, <2>1, <3>2 DEF Base
    <3>4. \A k \in Outputs : ~(k < n)
      BY <3>1, <3>2
    <3>5. v \in V[n] <=> v \in Differ(Given(j), NodeValue[n])
      BY <1>1, <3>1, <3>3, <3>4, CallersBits
    <3>6. QED
      BY <2>1, <3>1, <3>5 DEF OutputValue
  <2>5. QED
    BY <1>1, <2>2, <2>3, <2>4, NetworkFacts DEF Nodes
<1>4. QED
  BY <1>2, <1>3 DEF Asked

LEMMA InvGivesOutputs ==
  ASSUME CInv
  PROVE  OutputsAreTheNetwork
<1> SUFFICES ASSUME phase = "done", NEW j \in DOMAIN outs
             PROVE  content[outs[j]] \cap Asked
                      = Differ(Given(j), Turned(NodeValue[xag.pos[j].node], xag.pos[j].neg)) \cap Asked
  BY DEF OutputsAreTheNetwork
<1>1. Pebbled /\ Ranges /\ QubitsHaveTheirValues
  BY DEF CInv
<1>2. IsNetwork(xag) /\ j \in 1..Len(xag.pos) /\ xag.pos[j].neg \in BOOLEAN
  BY <1>1, NetworkFacts, SMTT(40) DEF Pebbled, Ranges
<1>3. PICK V : Valuation(V) /\ content[outs[j]] = Turned(OutputValue(V, j), xag.pos[j].neg)
  BY <1>1 DEF QubitsHaveTheirValues
<1>4. ASSUME NEW v \in Asked
      PROVE  v \in content[outs[j]]
               <=> v \in Differ(Given(j), Turned(NodeValue[xag.pos[j].node], xag.pos[j].neg))
  <2>1. v \in Assignments
    BY DEF Asked
  <2>2. v \in OutputValue(V, j) <=> v \in Differ(Given(j), NodeValue[xag.pos[j].node])
    BY <1>2, <1>3, OutputHasItsValue
  <2>3. QED
    BY <1>2, <1>3, <2>1, <2>2 DEF Turned, Differ
<1>5. QED
  BY <1>4

\* Whatever the network and the pebbling, the circuit leaves in the outputs what
\* the network says, added to the caller's bit if there is one output, and on
\* qubits that are 0 if there are several.
THEOREM CircuitComputesTheNetwork == CircuitSpec => []OutputsAreTheNetwork
<1>1. QubitsInit => CInv
  BY DEF CInv, QubitsInit
<1>2. CInv /\ [CircuitNext]_<<xag, steps, qvars>> => CInv'
  BY NextKeeps
<1>3. CInv => OutputsAreTheNetwork
  BY InvGivesOutputs
<1>4. QED
  BY <1>1, <1>2, <1>3, PTL DEF CircuitSpec

=============================================================================
