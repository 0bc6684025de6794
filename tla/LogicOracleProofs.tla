-------------------------- MODULE LogicOracleProofs --------------------------
(***************************************************************************)
(* The greedy strategy makes a pebbling of every network, and the oracle   *)
(* that is synthesized along it is right, whatever the functions, the      *)
(* networks and the order of the calls are.                                *)
(*                                                                         *)
(* The invariant PebblingInv says where the strategy is in its recursion:  *)
(* the calls of the stack are a chain from the pebbles there are to the    *)
(* outputs (Planned), each of which will find what it builds on (Good).  A *)
(* cut keeps the chain because the half it grows is closed (Halved), and a *)
(* set of few nodes is done when its counts are (Counted): a gate has as   *)
(* many references as gates of the set that are still to give theirs up.   *)
(***************************************************************************)
EXTENDS LogicOracle, OracleCircuitProofs

----------------------------------------------------------------------------
(* A search reaches the least set that is closed under its edges. *)

Grown(S, N, edges) == S \cup ((UNION {edges[n] : n \in S}) \cap N)
Rounds(F, m, from, N, edges) ==
  /\ F \in [0..m -> SUBSET N]
  /\ \A k \in 0..m : F[k] = IF k = 0 THEN from ELSE Grown(F[k - 1], N, edges)

\* What a round adds has an edge from something before.
LEMMA GrownElements ==
  ASSUME NEW S, NEW N, NEW edges, NEW x
  PROVE  x \in Grown(S, N, edges) <=> x \in S \/ (x \in N /\ \E n \in S : x \in edges[n])
<1>1. x \in UNION {edges[n] : n \in S} <=> \E n \in S : x \in edges[n]
  BY Zenon
<1> DEFINE U == UNION {edges[n] : n \in S}
<1>2. Grown(S, N, edges) = S \cup (U \cap N)
  BY DEF Grown
<1>3. x \in U <=> \E n \in S : x \in edges[n]
  BY <1>1
<1> HIDE DEF U
<1>4. x \in Grown(S, N, edges) <=> x \in S \/ (x \in U /\ x \in N)
  BY <1>2, Zenon
<1>5. QED
  BY <1>3, <1>4, Zenon

\* There is a search of any number of rounds.
LEMMA RoundsExist ==
  ASSUME NEW N, NEW from \in SUBSET N, NEW edges
  PROVE  \A m \in Nat : \E F : Rounds(F, m, from, N, edges)
<1> DEFINE S == {m \in Nat : \E F : Rounds(F, m, from, N, edges)}
<1>1. 0 \in S
  <2>1. Rounds([k \in 0..0 |-> from], 0, from, N, edges)
    BY DEF Rounds
  <2>2. QED
    BY <2>1
<1>2. ASSUME NEW m \in S PROVE m + 1 \in S
  <2>1. PICK F : Rounds(F, m, from, N, edges)
    OBVIOUS
  <2> DEFINE G == [k \in 0..(m + 1) |-> IF k = m + 1 THEN Grown(F[m], N, edges) ELSE F[k]]
  <2>2. Grown(F[m], N, edges) \in SUBSET N
    <3>1. F[m] \in SUBSET N
      BY <2>1 DEF Rounds
    <3>2. QED
      BY <3>1, GrownElements
  <2>3. G \in [0..(m + 1) -> SUBSET N]
    BY <2>1, <2>2 DEF Rounds
  <2>4. ASSUME NEW k \in 0..(m + 1) PROVE G[k] = IF k = 0 THEN from ELSE Grown(G[k - 1], N, edges)
    <3>1. CASE k = m + 1
      <4>1. k # 0 /\ k - 1 = m /\ G[k - 1] = F[m]
        BY <3>1
      <4>2. QED
        BY <3>1, <4>1
    <3>2. CASE k # m + 1
      <4>1. k \in 0..m /\ (k # 0 => k - 1 \in 0..m)
        BY <3>2
      <4>2. G[k] = F[k] /\ (k # 0 => G[k - 1] = F[k - 1])
        BY <3>2, <4>1
      <4>3. QED
        BY <2>1, <4>1, <4>2 DEF Rounds
    <3>3. QED
      BY <3>1, <3>2
  <2> HIDE DEF G
  <2>5. Rounds(G, m + 1, from, N, edges)
    BY <2>3, <2>4 DEF Rounds
  <2>6. QED
    BY <2>5
<1>3. S = Nat
  <2>1. S \in SUBSET Nat
    OBVIOUS
  <2> HIDE DEF S
  <2>2. QED
    BY <1>1, <1>2, <2>1, SetNatInduction
<1>4. QED
  BY <1>3

\* And just one.
LEMMA RoundsAgree ==
  ASSUME NEW N, NEW from \in SUBSET N, NEW edges, NEW m \in Nat, NEW l \in Nat, m <= l,
         NEW F, NEW G, Rounds(F, m, from, N, edges), Rounds(G, l, from, N, edges)
  PROVE  F[m] = G[m]
<1> DEFINE S == {k \in Nat : k <= m => F[k] = G[k]}
<1>1. 0 \in S
  BY DEF Rounds
<1>2. ASSUME NEW k \in S PROVE k + 1 \in S
  <2>1. SUFFICES ASSUME k + 1 <= m PROVE F[k + 1] = G[k + 1]
    OBVIOUS
  <2>2. F[k] = G[k]
    BY <2>1
  <2>3. k + 1 \in 0..m /\ k + 1 \in 0..l /\ k + 1 # 0 /\ (k + 1) - 1 = k
    BY <2>1
  <2>4. F[k + 1] = Grown(F[k], N, edges) /\ G[k + 1] = Grown(G[k], N, edges)
    BY <2>3 DEF Rounds
  <2>5. QED
    BY <2>2, <2>4
<1>3. S = Nat
  <2>1. S \in SUBSET Nat
    OBVIOUS
  <2> HIDE DEF S
  <2>2. QED
    BY <1>1, <1>2, <2>1, SetNatInduction
<1>4. m \in S
  BY <1>3
<1>5. QED
  BY <1>4

\* What Reached finds is what the last of its rounds has.
LEMMA ReachedInRounds ==
  ASSUME NEW N, NEW from \in SUBSET N, NEW edges, Cardinality(N) \in Nat
  PROVE  \E F : Rounds(F, Cardinality(N), from, N, edges) /\ Reached(from, N, edges) = F[Cardinality(N)]
<1> DEFINE Body(f) == [k \in Nat |-> IF k = 0 THEN from ELSE f[k - 1] \cup ((UNION {edges[n] : n \in f[k - 1]}) \cap N)]
           Chosen(m) == CHOOSE F : Rounds(F, m, from, N, edges)
           All == [k \in Nat |-> Chosen(k)[k]]
           Found == CHOOSE f : f = Body(f)
<1>1. \A m \in Nat : Rounds(Chosen(m), m, from, N, edges)
  BY RoundsExist
<1> HIDE DEF Chosen
<1>2. ASSUME NEW k \in Nat PROVE All[k] = Body(All)[k] /\ All[k] \in SUBSET N
  <2>1. Rounds(Chosen(k), k, from, N, edges)
    BY <1>1
  <2>2. CASE k = 0
    BY <2>1, <2>2 DEF Rounds
  <2>3. CASE k # 0
    <3>1. k - 1 \in Nat /\ Rounds(Chosen(k - 1), k - 1, from, N, edges)
      BY <1>1, <2>3
    <3>2. Chosen(k - 1)[k - 1] = Chosen(k)[k - 1]
      BY <2>1, <3>1, RoundsAgree
    <3>3. Chosen(k)[k] = Grown(Chosen(k)[k - 1], N, edges) /\ Chosen(k)[k] \in SUBSET N
      BY <2>1, <2>3 DEF Rounds
    <3>4. QED
      BY <2>3, <3>1, <3>2, <3>3 DEF Grown
  <2>4. QED
    BY <2>2, <2>3
<1>3. All = Body(All)
  BY <1>2
<1> HIDE DEF All
<1>4. Found = Body(Found)
  <2> HIDE DEF Body
  <2>1. QED
    BY <1>3
<1>5. Reached(from, N, edges) = Found[Cardinality(N)]
  BY DEF Reached
<1> HIDE DEF Found
<1>6. \A k \in Nat : Found[k] = IF k = 0 THEN from ELSE Grown(Found[k - 1], N, edges)
  BY <1>4 DEF Grown
<1> DEFINE S == {k \in Nat : Found[k] \in SUBSET N}
<1>7. 0 \in S
  BY <1>6
<1>8. ASSUME NEW k \in S PROVE k + 1 \in S
  <2>1. k + 1 \in Nat /\ k + 1 # 0 /\ (k + 1) - 1 = k
    OBVIOUS
  <2>2. Found[k + 1] = Grown(Found[k], N, edges)
    BY <1>6, <2>1
  <2>3. QED
    BY <2>2, GrownElements
<1>9. S = Nat
  <2>1. S \in SUBSET Nat
    OBVIOUS
  <2> HIDE DEF S
  <2>2. QED
    BY <1>7, <1>8, <2>1, SetNatInduction
<1> DEFINE c == Cardinality(N)
           F == [k \in 0..c |-> Found[k]]
<1>10. Rounds(F, c, from, N, edges)
  <2>1. F \in [0..c -> SUBSET N]
    BY <1>9
  <2>2. ASSUME NEW k \in 0..c PROVE F[k] = IF k = 0 THEN from ELSE Grown(F[k - 1], N, edges)
    <3>1. k \in Nat /\ (k # 0 => k - 1 \in 0..c)
      OBVIOUS
    <3>2. F[k] = Found[k] /\ (k # 0 => F[k - 1] = Found[k - 1])
      BY <3>1
    <3>3. QED
      BY <1>6, <3>1, <3>2
  <2> HIDE DEF F
  <2>3. QED
    BY <2>1, <2>2 DEF Rounds
<1>11. QED
  BY <1>5, <1>10

\* It is the least set with the beginning in it that no edge leaves.
LEMMA ReachedFacts ==
  ASSUME NEW N, IsFiniteSet(N), NEW from \in SUBSET N, NEW edges
  PROVE  LET R == Reached(from, N, edges)
         IN  /\ from \subseteq R /\ R \subseteq N
             /\ \A n \in R : edges[n] \cap N \subseteq R
             /\ \A T \in SUBSET N :
                  from \subseteq T /\ (\A n \in T : edges[n] \cap N \subseteq T) => R \subseteq T
<1> DEFINE c == Cardinality(N)
           R == Reached(from, N, edges)
           Closed(T) == \A n \in T : edges[n] \cap N \subseteq T
<1>1. c \in Nat
  BY FS_CardinalityType
<1>2. PICK F : Rounds(F, c, from, N, edges) /\ R = F[c]
  BY <1>1, ReachedInRounds
<1> HIDE DEF c
<1>3. \A k \in 0..c : F[k] \in SUBSET N /\ IsFiniteSet(F[k]) /\ Cardinality(F[k]) \in Nat
  <2>1. \A k \in 0..c : F[k] \in SUBSET N
    BY <1>2 DEF Rounds
  <2>2. QED
    BY <2>1, FS_Subset, FS_CardinalityType
<1>4. F[0] = from /\ \A k \in Nat : k + 1 <= c => F[k + 1] = Grown(F[k], N, edges)
  <2>1. ASSUME NEW k \in Nat, k + 1 <= c PROVE F[k + 1] = Grown(F[k], N, edges)
    <3>1. k + 1 \in 0..c /\ k + 1 # 0 /\ (k + 1) - 1 = k
      BY <1>1, <2>1
    <3>2. QED
      BY <1>2, <3>1 DEF Rounds
  <2>2. F[0] = from
    BY <1>1, <1>2 DEF Rounds
  <2>3. QED
    BY <2>1, <2>2
<1> DEFINE S == {k \in Nat : k <= c =>
                   /\ from \subseteq F[k]
                   /\ Closed(F[k]) \/ Cardinality(F[k]) >= k
                   /\ \A T \in SUBSET N : from \subseteq T /\ Closed(T) => F[k] \subseteq T}
<1>5. 0 \in S
  <2>1. Cardinality(F[0]) >= 0
    BY <1>1, <1>3
  <2>2. QED
    BY <1>4, <2>1
<1>6. ASSUME NEW k \in S PROVE k + 1 \in S
  <2>1. SUFFICES ASSUME k + 1 <= c
                 PROVE  /\ from \subseteq F[k + 1]
                        /\ Closed(F[k + 1]) \/ Cardinality(F[k + 1]) >= k + 1
                        /\ \A T \in SUBSET N : from \subseteq T /\ Closed(T) => F[k + 1] \subseteq T
    OBVIOUS
  <2>2. k \in Nat /\ k \in 0..c /\ k + 1 \in 0..c
    BY <1>1, <2>1
  <2>3. /\ from \subseteq F[k]
        /\ Closed(F[k]) \/ Cardinality(F[k]) >= k
        /\ \A T \in SUBSET N : from \subseteq T /\ Closed(T) => F[k] \subseteq T
    BY <2>2
  <2>4. F[k + 1] = Grown(F[k], N, edges)
    BY <1>4, <2>1, <2>2
  <2>5. CASE Closed(F[k])
    <3>1. F[k] \in SUBSET N
      BY <1>3, <2>2
    <3>2. ASSUME NEW x PROVE x \in F[k + 1] <=> x \in F[k]
      <4>1. x \in F[k + 1] <=> x \in F[k] \/ (x \in N /\ \E n \in F[k] : x \in edges[n])
        BY <2>4, GrownElements
      <4>2. ASSUME x \in N, NEW n \in F[k], x \in edges[n] PROVE x \in F[k]
        BY <2>5, <4>2
      <4>3. QED
        BY <4>1, <4>2
    <3>3. F[k + 1] = F[k]
      BY <3>2
    <3>4. QED
      BY <2>3, <2>5, <3>3
  <2>6. CASE ~Closed(F[k])
    <3>1. F[k] \subseteq F[k + 1] /\ F[k + 1] # F[k]
      BY <1>3, <2>2, <2>4, <2>6, GrownElements
    <3>2. Cardinality(F[k]) < Cardinality(F[k + 1])
      <4>1. IsFiniteSet(F[k + 1])
        BY <1>3, <2>2
      <4>2. QED
        BY <3>1, <4>1, <1>3, <2>2, FS_Subset
    <3>3. Cardinality(F[k + 1]) >= k + 1
      BY <1>3, <2>2, <2>3, <2>6, <3>2
    <3>4. ASSUME NEW T \in SUBSET N, from \subseteq T, Closed(T) PROVE F[k + 1] \subseteq T
      <4>1. F[k] \subseteq T
        BY <2>3, <3>4
      <4>2. QED
        BY <1>3, <2>2, <2>4, <3>4, <4>1, GrownElements
    <3> HIDE DEF Closed
    <3>5. QED
      BY <2>3, <3>1, <3>3, <3>4
  <2>7. QED
    BY <2>5, <2>6
<1>7. S = Nat
  <2>1. S \in SUBSET Nat
    OBVIOUS
  <2> HIDE DEF S
  <2>2. QED
    BY <1>5, <1>6, <2>1, SetNatInduction
<1>8. /\ from \subseteq F[c]
      /\ Closed(F[c]) \/ Cardinality(F[c]) >= c
      /\ \A T \in SUBSET N : from \subseteq T /\ Closed(T) => F[c] \subseteq T
  <2>1. c \in S
    BY <1>1, <1>7
  <2>2. QED
    BY <1>1, <2>1
<1>9. Closed(F[c])
  <2>1. CASE Cardinality(F[c]) >= c
    <3>1. F[c] \in SUBSET N /\ Cardinality(F[c]) \in Nat
      BY <1>1, <1>3
    <3>2. Cardinality(F[c]) <= c /\ (Cardinality(F[c]) = c => F[c] = N)
      BY <3>1, FS_Subset DEF c
    <3>3. F[c] = N
      BY <1>1, <2>1, <3>1, <3>2
    <3>4. QED
      BY <3>3
  <2>2. QED
    BY <1>8, <2>1
<1>10. R = F[c] /\ F[c] \in SUBSET N
  BY <1>1, <1>2, <1>3
<1> HIDE DEF R
<1>11. QED
  BY <1>8, <1>9, <1>10 DEF R

----------------------------------------------------------------------------
(* The network as the pebbling sees it. *)

Gates == ToSet(View)
\* The gates the view has before its i-th.
Before(i) == {View[k] : k \in 1..(i - 1)}

Lowered ==
  /\ func \in Functions
  /\ xag = XagOf(func)
  /\ net = construct_connectivity(xag)

Wired ==
  /\ Len(View) \in Nat
  /\ View \in Seq(GateNodes(xag))
  /\ Gates = {View[i] : i \in 1..Len(View)}
  /\ \A i, j \in 1..Len(View) : View[i] = View[j] => i = j
  /\ IsFiniteSet(Gates) /\ IsFiniteSet(Inputs)
  /\ Gates \subseteq GateNodes(xag) /\ Gates \cap Inputs = {}
  /\ Outputs \subseteq Gates
  /\ \A n \in Inputs : Fanins(n) = {}
  /\ \A n \in Gates :
       /\ Fanins(n) = {Left(n).node, Right(n).node}
       /\ Left(n).node # Right(n).node
       /\ Left(n).node \in Nat /\ Right(n).node \in Nat
       /\ Fanins(n) \subseteq Inputs \cup Gates
  /\ \A i \in 1..Len(View) : Fanins(View[i]) \subseteq Inputs \cup Before(i)
  /\ \A n \in Inputs \cup Gates :
       /\ Fanouts(n) = {m \in Gates : n \in Fanins(m)}
       /\ net.near[n] = Fanins(n) \cup Fanouts(n)
       /\ net.fanin[n] = Fanins(n)

\* The network of a function is one, with the view mockturtle gives it.
LEMMA LoweredIsNetwork ==
  ASSUME Lowered
  PROVE  IsNetwork(xag) /\ IsView(xag, topo_view(xag))
BY FunctionsAssumption, ViewsAssumption, FunctionHasNetwork DEF Lowered

\* Its connectivity is that of its gates.
LEMMA LoweredIsWired ==
  ASSUME Lowered
  PROVE  Wired
<1> DEFINE V == topo_view(xag)
           nodes == Inputs \cup ToSet(V)
           fanin == [n \in nodes |-> BuiltOn(xag, n)]
           fanout == [n \in nodes |-> {m \in nodes : n \in fanin[m]}]
           near == [n \in nodes |-> fanin[n] \cup fanout[n]]
<1>1. IsNetwork(xag) /\ IsView(xag, V)
  BY LoweredIsNetwork
<1>2. net = [view |-> V, fanin |-> fanin, fanout |-> fanout, near |-> near]
  BY DEF Lowered, construct_connectivity, Inputs
<1>3. View = V /\ net.fanin = fanin /\ net.fanout = fanout /\ net.near = near
  BY <1>2 DEF View
<1>4. /\ V \in Seq(GateNodes(xag)) /\ Len(V) \in Nat /\ DOMAIN V = 1..Len(V)
      /\ \A i, j \in 1..Len(V) : V[i] = V[j] => i = j
      /\ Outputs \subseteq ToSet(V)
      /\ \A i \in 1..Len(V) : BuiltOn(xag, V[i]) \subseteq Inputs \cup {V[k] : k \in 1..(i - 1)}
  BY <1>1 DEF IsView, Outputs, Inputs
<1>5. ToSet(V) = {V[i] : i \in 1..Len(V)} /\ ToSet(V) \subseteq GateNodes(xag)
  <2>1. \A i \in 1..Len(V) : V[i] \in GateNodes(xag)
    BY <1>4, ElementOfSeq
  <2>2. QED
    BY <1>4, <2>1 DEF ToSet
<1>6. /\ xag.pis \in Nat /\ Inputs = 0..xag.pis
      /\ \A n \in GateNodes(xag) :
           /\ n \in Nat \ Inputs
           /\ Left(n).node \in 1..(n - 1)
           /\ Right(n).node \in 1..(n - 1)
           /\ Left(n).node # Right(n).node
  BY <1>1, NetworkFacts
<1>7. IsFiniteSet(Inputs) /\ IsFiniteSet(ToSet(V))
  <2>1. IsFiniteSet(0..xag.pis)
    BY <1>6, FS_Interval
  <2>2. IsFiniteSet(GateNodes(xag))
    <3> DEFINE a == xag.pis + 1
               b == xag.pis + Len(xag.gates)
    <3>1. a \in Int /\ b \in Int
      BY <1>1, <1>6, NetworkFacts
    <3>2. GateNodes(xag) = a..b
      BY DEF GateNodes
    <3> HIDE DEF a, b
    <3>3. QED
      BY <3>1, <3>2, FS_Interval
  <2>3. QED
    BY <1>5, <1>6, <2>1, <2>2, FS_Subset
<1>8. \A n \in Inputs : BuiltOn(xag, n) = {}
  <2>1. \A n \in Inputs : Kids(xag, n) = <<>>
    BY <1>6 DEF Kids
  <2>2. QED
    BY <2>1 DEF BuiltOn, ToSet
<1>9. ASSUME NEW n \in GateNodes(xag)
      PROVE  BuiltOn(xag, n) = {Left(n).node, Right(n).node}
  <2> DEFINE R == [kind : {"and", "xor"}, kids : Signals \X Signals]
             gates == xag.gates
             k == n - xag.pis
  <2>1. gates \in Seq(R)
    BY <1>1 DEF IsNetwork
  <2>2. k \in 1..Len(gates) /\ ~(n <= xag.pis)
    BY <1>1, <1>6, NetworkFacts DEF GateNodes
  <2> HIDE DEF R, gates, k
  <2>3. gates[k] \in R
    BY <2>1, <2>2, ElementOfSeq
  <2>4. Kids(xag, n) \in Signals \X Signals
    BY <2>2, <2>3 DEF R, gates, k, Kids
  <2>5. DOMAIN Kids(xag, n) = 1..2
    BY <2>4
  <2>6. ToSet(Kids(xag, n)) = {Left(n), Right(n)}
    BY <2>5 DEF ToSet, Left, Right
  <2>7. QED
    BY <2>6 DEF BuiltOn
<1>10. \A n \in ToSet(V) : BuiltOn(xag, n) \subseteq Inputs \cup ToSet(V)
  BY <1>4, <1>5
<1>11. \A n \in Inputs \cup ToSet(V) : Fanins(n) = BuiltOn(xag, n)
  BY <1>3 DEF Fanins
<1>12. ASSUME NEW n \in Inputs \cup ToSet(V)
       PROVE  Fanouts(n) = {m \in ToSet(V) : n \in Fanins(m)}
  <2>1. Fanouts(n) = {m \in nodes : n \in fanin[m]}
    BY <1>3 DEF Fanouts
  <2>2. \A m \in nodes : fanin[m] = BuiltOn(xag, m)
    OBVIOUS
  <2>3. QED
    BY <1>8, <1>11, <2>1, <2>2
<1>13. \A n \in Inputs \cup ToSet(V) : net.near[n] = Fanins(n) \cup Fanouts(n) /\ net.fanin[n] = Fanins(n)
  BY <1>3 DEF Fanins, Fanouts
<1>14. Gates = ToSet(V)
  BY <1>3 DEF Gates
<1>15. \A i \in 1..Len(V) : Fanins(V[i]) \subseteq Inputs \cup Before(i)
  BY <1>3, <1>4, <1>5, <1>11 DEF Before
<1>16. \A n \in Gates :
         /\ Fanins(n) = {Left(n).node, Right(n).node}
         /\ Left(n).node # Right(n).node
         /\ Left(n).node \in Nat /\ Right(n).node \in Nat
         /\ Fanins(n) \subseteq Inputs \cup Gates
  BY <1>5, <1>6, <1>9, <1>10, <1>11, <1>14
<1> HIDE DEF V
<1>17. \A n \in Inputs : Fanins(n) = {}
  BY <1>8, <1>11
<1>18. Gates \cap Inputs = {}
  BY <1>5, <1>6, <1>14
<1>19. /\ Len(View) \in Nat /\ View \in Seq(GateNodes(xag))
       /\ Gates = {View[i] : i \in 1..Len(View)}
       /\ \A i, j \in 1..Len(View) : View[i] = View[j] => i = j
       /\ \A i \in 1..Len(View) : Fanins(View[i]) \subseteq Inputs \cup Before(i)
  BY <1>3, <1>4, <1>5, <1>14, <1>15
<1>20. /\ IsFiniteSet(Gates) /\ IsFiniteSet(Inputs)
       /\ Gates \subseteq GateNodes(xag) /\ Outputs \subseteq Gates
  BY <1>4, <1>5, <1>7, <1>14
<1>21. \A n \in Inputs \cup Gates :
         /\ Fanouts(n) = {m \in Gates : n \in Fanins(m)}
         /\ net.near[n] = Fanins(n) \cup Fanouts(n)
         /\ net.fanin[n] = Fanins(n)
  BY <1>12, <1>13, <1>14
<1>22. QED
  BY <1>16, <1>17, <1>18, <1>19, <1>20, <1>21 DEF Wired

----------------------------------------------------------------------------
(* What a call makes of its nodes. *)

\* The gates of a call that lead to a target: each is one or has a fanout that
\* leads there, and they are the fewest with all their fanins among the nodes.
LEMMA LiveNodes ==
  ASSUME Wired, NEW N \in SUBSET (Inputs \cup Gates), NEW T
  PROVE  LET live == live_node(N, T)
         IN  /\ (T \cap N) \ Inputs \subseteq live /\ live \subseteq N \ Inputs
             /\ \A n \in live : Fanins(n) \cap N \subseteq live \cup Inputs
             /\ \A n \in live \ T : Fanouts(n) \cap live # {}
             /\ \A X \in SUBSET (N \ Inputs) :
                  /\ (T \cap N) \ Inputs \subseteq X
                  /\ \A n \in X : Fanins(n) \cap (N \ Inputs) \subseteq X
                  => live \subseteq X
<1> DEFINE live == live_node(N, T)
           M == N \ Inputs
           from == (T \cap N) \ Inputs
           alive == {n \in live : n \in T \/ Fanouts(n) \cap live # {}}
<1>1. live = Reached(from, M, net.fanin)
  BY DEF live_node
<1>2. IsFiniteSet(M) /\ M \subseteq Gates
  <2>1. M \subseteq Gates
    OBVIOUS
  <2>2. QED
    BY <2>1, FS_Subset DEF Wired
<1>3. from \in SUBSET M
  OBVIOUS
<1>4. \A n \in M : net.fanin[n] = Fanins(n)
  BY <1>2 DEF Wired
<1> HIDE DEF live, M, from
<1>5. /\ from \subseteq live /\ live \subseteq M
      /\ \A n \in live : net.fanin[n] \cap M \subseteq live
      /\ \A X \in SUBSET M : from \subseteq X /\ (\A n \in X : net.fanin[n] \cap M \subseteq X) => live \subseteq X
  <2>1. LET R == Reached(from, M, net.fanin)
        IN  /\ from \subseteq R /\ R \subseteq M
            /\ \A n \in R : net.fanin[n] \cap M \subseteq R
            /\ \A X \in SUBSET M :
                 from \subseteq X /\ (\A n \in X : net.fanin[n] \cap M \subseteq X) => R \subseteq X
    BY <1>2, <1>3, ReachedFacts
  <2>2. QED
    BY <1>1, <2>1
<1>6. \A n \in live : Fanins(n) \cap M \subseteq live
  BY <1>4, <1>5
<1>7. \A X \in SUBSET M : from \subseteq X /\ (\A n \in X : Fanins(n) \cap M \subseteq X) => live \subseteq X
  BY <1>4, <1>5
<1>8. live \subseteq alive
  <2>1. alive \in SUBSET M /\ from \subseteq alive
    BY <1>5 DEF from
  <2>2. ASSUME NEW n \in alive, NEW m \in Fanins(n) \cap M PROVE m \in alive
    <3>1. n \in live /\ m \in live
      BY <1>6, <2>2
    <3>2. n \in Gates /\ m \in Gates
      BY <1>2, <1>5, <3>1
    <3>3. n \in Fanouts(m)
      BY <2>2, <3>2 DEF Wired
    <3>4. QED
      BY <3>1, <3>3
  <2> HIDE DEF alive
  <2>3. QED
    BY <1>7, <2>1, <2>2
<1>9. \A n \in live : Fanins(n) \cap N \subseteq live \cup Inputs
  BY <1>6 DEF M
<1>10. \A n \in live \ T : Fanouts(n) \cap live # {}
  BY <1>8
<1>11. QED
  BY <1>5, <1>7, <1>9, <1>10 DEF live, M, from

\* The components are a partition, and no gate has a fanin in another one.
LEMMA Components ==
  ASSUME Wired, NEW N \in SUBSET (Inputs \cup Gates)
  PROVE  LET K == compute_connected_components(N)
         IN  /\ IsFiniteSet(K)
             /\ \A k \in K : k \subseteq N \ Inputs
             /\ \A n \in N \ Inputs : \E k \in K : n \in k
             /\ \A k \in K : \A n \in k : Fanins(n) \cap N \subseteq k \cup Inputs
             /\ \A k, l \in K : k # l => k \cap l = {}
<1> DEFINE M == N \ Inputs
           K == compute_connected_components(N)
           Comp(n) == Reached({n}, M, net.near)
           Near(n) == Fanins(n) \cup Fanouts(n)
<1>1. IsFiniteSet(M) /\ M \subseteq Gates
  <2>1. M \subseteq Gates
    OBVIOUS
  <2>2. QED
    BY <2>1, FS_Subset DEF Wired
<1>2. K = {Comp(n) : n \in M}
  BY DEF compute_connected_components
<1>3. \A n \in M : net.near[n] = Near(n)
  BY <1>1 DEF Wired
<1> HIDE DEF M, K, Comp
<1>4. ASSUME NEW n \in M
      PROVE  /\ n \in Comp(n) /\ Comp(n) \subseteq M
             /\ \A m \in Comp(n) : Near(m) \cap M \subseteq Comp(n)
             /\ \A X \in SUBSET M : n \in X /\ (\A m \in X : Near(m) \cap M \subseteq X) => Comp(n) \subseteq X
  <2>1. {n} \in SUBSET M
    OBVIOUS
  <2>2. /\ {n} \subseteq Comp(n) /\ Comp(n) \subseteq M
        /\ \A m \in Comp(n) : net.near[m] \cap M \subseteq Comp(n)
        /\ \A X \in SUBSET M : {n} \subseteq X /\ (\A m \in X : net.near[m] \cap M \subseteq X) => Comp(n) \subseteq X
    <3> DEFINE from == {n}
    <3>1. from \in SUBSET M
      BY <2>1
    <3> HIDE DEF from
    <3>2. LET R == Reached(from, M, net.near)
          IN  /\ from \subseteq R /\ R \subseteq M
              /\ \A j \in R : net.near[j] \cap M \subseteq R
              /\ \A X \in SUBSET M :
                   from \subseteq X /\ (\A j \in X : net.near[j] \cap M \subseteq X) => R \subseteq X
      <4>1. IsFiniteSet(M)
        BY <1>1
      <4> DEFINE edges == net.near
      <4> HIDE DEF edges
      <4>2. LET R == Reached(from, M, edges)
            IN  /\ from \subseteq R /\ R \subseteq M
                /\ \A j \in R : edges[j] \cap M \subseteq R
                /\ \A X \in SUBSET M :
                     from \subseteq X /\ (\A j \in X : edges[j] \cap M \subseteq X) => R \subseteq X
        BY <4>1, <3>1, ReachedFacts
      <4>3. QED
        BY <4>2 DEF edges
    <3>3. QED
      BY <3>2 DEF Comp, from
  <2> HIDE DEF Near
  <2>3. QED
    BY <1>3, <2>2
<1>5. \A m, n \in M : m \in Near(n) <=> n \in Near(m)
  BY <1>1 DEF Wired
<1> HIDE DEF Near
<1>6. ASSUME NEW a \in M, NEW b \in M, Comp(a) \cap Comp(b) # {}
      PROVE  Comp(a) \subseteq Comp(b)
  <2>1. CASE a \in Comp(b)
    BY <1>4, <2>1
  <2>2. CASE a \notin Comp(b)
    <3> DEFINE X == Comp(a) \ Comp(b)
    <3>1. X \in SUBSET M /\ a \in X
      BY <1>4, <2>2
    <3>2. ASSUME NEW m \in X, NEW l \in Near(m) \cap M PROVE l \in X
      <4>1. l \in Comp(a) /\ m \in M /\ m \in Near(l)
        BY <1>4, <1>5, <3>1, <3>2
      <4>2. l \notin Comp(b)
        BY <1>4, <3>2, <4>1
      <4>3. QED
        BY <4>1, <4>2
    <3>3. Comp(a) \subseteq X
      <4> HIDE DEF X
      <4>1. QED
        BY <1>4, <3>1, <3>2
    <3>4. QED
      BY <1>6, <3>3
  <2>3. QED
    BY <2>1, <2>2
<1>7. \A k, l \in K : k # l => k \cap l = {}
  <2>1. SUFFICES ASSUME NEW a \in M, NEW b \in M, Comp(a) \cap Comp(b) # {}
                 PROVE  Comp(a) = Comp(b)
    BY <1>2
  <2>2. Comp(a) \subseteq Comp(b)
    BY <1>6, <2>1
  <2>3. Comp(b) \subseteq Comp(a)
    BY <1>6, <2>1
  <2>4. QED
    BY <2>2, <2>3
<1>8. IsFiniteSet(K)
  <2>1. K \in SUBSET (SUBSET M)
    BY <1>2, <1>4
  <2>2. IsFiniteSet(SUBSET M)
    BY <1>1, FS_SUBSET
  <2>3. QED
    BY <2>1, <2>2, FS_Subset
<1>9. \A k \in K : k \subseteq M
  BY <1>2, <1>4
<1>10. \A n \in M : \E k \in K : n \in k
  BY <1>2, <1>4
<1>11. ASSUME NEW k \in K, NEW n \in k PROVE Fanins(n) \cap N \subseteq k \cup Inputs
  <2>1. PICK a \in M : k = Comp(a)
    BY <1>2
  <2>2. Near(n) \cap M \subseteq k
    BY <1>4, <2>1
  <2>3. QED
    BY <2>2 DEF Near, M
<1>12. QED
  BY <1>7, <1>8, <1>9, <1>10, <1>11 DEF M, K

\* The calls of an order of the components are those of all of them.
LEMMA OrderIsComplete ==
  ASSUME NEW S, IsFiniteSet(S), NEW order \in SetToSeqs(S)
  PROVE  /\ Len(order) \in Nat /\ DOMAIN order = 1..Len(order)
         /\ \A i \in 1..Len(order) : order[i] \in S
         /\ \A i, j \in 1..Len(order) : i # j => order[i] # order[j]
         /\ \A s \in S : \E i \in 1..Len(order) : order[i] = s
<1> DEFINE c == Cardinality(S)
           D == 1..c
<1>1. c \in Nat
  BY FS_CardinalityType
<1>2. order \in [D -> S] /\ \A i, j \in D : i # j => order[i] # order[j]
  BY DEF SetToSeqs
<1>3. order \in Injection(D, S)
  BY <1>2 DEF Injection, IsInjective
<1>4. Cardinality(D) = c
  BY <1>1, FS_Interval
<1>5. order \in Surjection(D, S)
  BY <1>3, <1>4, FS_Injection
<1>6. Len(order) = c
  BY <1>1, <1>2
<1>7. \A s \in S : \E i \in D : order[i] = s
  BY <1>5 DEF Surjection
<1> HIDE DEF c
<1>8. QED
  BY <1>1, <1>2, <1>6, <1>7

----------------------------------------------------------------------------
(* What a call needs, and what the calls of the stack come to. *)

Calls == [do : {"pebble", "conquer", "halve", "set"}, nodes : SUBSET (Inputs \cup Gates),
          start : SUBSET (Inputs \cup Gates), target : SUBSET Gates, reverse : BOOLEAN]

\* Of the nodes of a call its targets are computed before it, or after it.
Settled(c)  == IF c.reverse THEN c.target ELSE {}
After(c, P) == IF c.reverse THEN P \ c.target ELSE P \cup c.target

\* An output is uncomputed by no call.
Sound(c) ==
  /\ c.target \subseteq c.nodes
  /\ Inputs \subseteq c.start /\ c.start \cap c.nodes \subseteq Inputs
  /\ Outputs \cap c.nodes \subseteq c.target
  /\ c.reverse => Outputs \cap c.nodes = {}

\* With the gates of P computed the call has its start, the nodes N build on that and
\* on each other, and of them just those are computed that should be.
FitsIn(c, N, P) ==
  /\ c.start \ Inputs \subseteq P
  /\ \A n \in N : Fanins(n) \subseteq c.nodes \cup c.start
  /\ N \cap P = Settled(c)
Good(c, P) ==
  /\ Sound(c)
  /\ IF c.do = "pebble" THEN FitsIn(c, live_node(c.nodes, c.target), P)
     ELSE /\ FitsIn(c, c.nodes, P)
          /\ c.nodes \cap Inputs = {}
          /\ \A n \in c.nodes \ c.target : Fanouts(n) \cap c.nodes # {}

\* The calls lead from the configuration P[1] to the last one.
Chain(calls, P) ==
  \A i \in 1..Len(calls) : Good(calls[i], P[i]) /\ P[i + 1] = After(calls[i], P[i])

\* A call may be replaced by a chain that leads where it does.
LEMMA ChainReplaced ==
  ASSUME NEW S, NEW s \in Seq(S), s # <<>>, NEW new \in Seq(S), NEW P, NEW Q,
         Chain(s, P), Chain(new, Q), Q[Len(new) + 1] = P[2]
  PROVE  \E R : /\ Chain(new \o Tail(s), R)
                /\ R[1] = Q[1]
                /\ R[Len(new \o Tail(s)) + 1] = P[Len(s) + 1]
<1> DEFINE k == Len(new)
           l == Len(s)
           t == new \o Tail(s)
           R == [i \in 1..(k + l) |-> IF i <= k THEN Q[i] ELSE P[i - k + 1]]
<1>1. k \in Nat /\ l \in Nat \ {0} /\ Tail(s) \in Seq(S) /\ Len(Tail(s)) = l - 1
  BY EmptySeq, LenProperties, HeadTailProperties
<1>2. /\ Len(t) = k + l - 1
      /\ \A i \in 1..(k + l - 1) : t[i] = IF i <= k THEN new[i] ELSE s[i - k + 1]
  <2>1. Len(t) = k + (l - 1) /\ \A i \in 1..Len(t) : t[i] = IF i <= k THEN new[i] ELSE Tail(s)[i - k]
    BY <1>1, ConcatProperties
  <2>2. \A i \in 1..(l - 1) : Tail(s)[i] = s[i + 1]
    BY <1>1, HeadTailProperties
  <2> HIDE DEF k, l, t
  <2>3. ASSUME NEW i \in 1..(k + l - 1), ~(i <= k) PROVE i - k \in 1..(l - 1) /\ (i - k) + 1 = i - k + 1
    BY <1>1, <2>3
  <2>4. QED
    BY <1>1, <2>1, <2>2, <2>3
<1> HIDE DEF k, l, t
<1>3. \A i \in 1..k : R[i] = Q[i] /\ R[i + 1] = Q[i + 1]
  <2>1. ASSUME NEW i \in 1..k PROVE R[i] = Q[i] /\ R[i + 1] = Q[i + 1]
    <3>1. i \in 1..(k + l) /\ i + 1 \in 1..(k + l) /\ i <= k
      BY <1>1
    <3>2. CASE i + 1 <= k
      BY <3>1, <3>2
    <3>3. CASE i = k
      <4>1. (i + 1) - k + 1 = 2 /\ ~(i + 1 <= k)
        BY <1>1, <3>3
      <4>2. R[i + 1] = P[2]
        BY <3>1, <4>1
      <4>3. QED
        BY <3>1, <3>3, <4>2 DEF k
    <3>4. QED
      BY <1>1, <3>1, <3>2, <3>3
  <2>2. QED
    BY <2>1
<1>4. \A i \in (k + 1)..(k + l) : R[i] = P[i - k + 1]
  BY <1>1
<1>5. R[1] = Q[1]
  <2>1. CASE k = 0
    <3>1. R[1] = P[2]
      BY <1>1, <2>1
    <3>2. QED
      BY <2>1, <3>1 DEF k
  <2>2. CASE k # 0
    BY <1>1, <1>3, <2>2
  <2>3. QED
    BY <2>1, <2>2
<1>6. R[k + l] = P[l + 1]
  BY <1>1
<1> HIDE DEF R
<1>7. ASSUME NEW i \in 1..(k + l - 1)
      PROVE  Good(t[i], R[i]) /\ R[i + 1] = After(t[i], R[i])
  <2>1. CASE i <= k
    <3>1. i \in 1..k /\ t[i] = new[i]
      BY <1>1, <1>2, <2>1
    <3>2. QED
      BY <1>3, <3>1 DEF Chain, k
  <2>2. CASE ~(i <= k)
    <3> DEFINE j == i - k + 1
    <3>1. j \in 1..l /\ t[i] = s[j]
      BY <1>1, <1>2, <2>2
    <3>2. R[i] = P[j] /\ R[i + 1] = P[j + 1]
      <4>1. i \in (k + 1)..(k + l) /\ i + 1 \in (k + 1)..(k + l) /\ (i + 1) - k + 1 = j + 1
        BY <1>1, <2>2
      <4>2. QED
        BY <1>4, <4>1
    <3> HIDE DEF j
    <3>3. QED
      BY <3>1, <3>2 DEF Chain, l
  <2>3. QED
    BY <2>1, <2>2
<1>8. Len(t) + 1 = k + l
  BY <1>1, <1>2
<1>9. Chain(t, R)
  BY <1>2, <1>7 DEF Chain
<1>10. QED
  BY <1>5, <1>6, <1>8, <1>9 DEF t, l

\* The calls of greedy_pebble.
LEMMA GreedyChain ==
  ASSUME Wired, NEW c \in Calls, c.do = "pebble", NEW P \in SUBSET Gates, Good(c, P),
         NEW order \in SetToSeqs(compute_connected_components(c.nodes))
  PROVE  LET new == [i \in 1..Len(order) |->
                       LET live == live_node(order[i], c.target)
                       IN  Conquer(Call(live, c.start, live \cap c.target, c.reverse))]
         IN  /\ new \in Seq(Calls)
             /\ \A i \in 1..Len(new) : new[i].do = "conquer"
             /\ \E Q : Chain(new, Q) /\ Q[1] = P /\ Q[Len(new) + 1] = After(c, P)
<1> DEFINE K == compute_connected_components(c.nodes)
           N == c.nodes
           T == c.target
           k == Len(order)
           live(i) == live_node(order[i], T)
           new == [i \in 1..k |-> Conquer(Call(live(i), c.start, live(i) \cap T, c.reverse))]
           made(i) == [do |-> "conquer", nodes |-> live(i), start |-> c.start, target |-> live(i) \cap T, reverse |-> c.reverse]
           D(j) == {n \in T : \E i \in 1..(j - 1) : n \in order[i]}
           Q == [j \in 1..(k + 1) |-> IF c.reverse THEN P \ D(j) ELSE P \cup D(j)]
<1>1. /\ N \in SUBSET (Inputs \cup Gates) /\ c.start \in SUBSET (Inputs \cup Gates)
      /\ T \in SUBSET Gates /\ c.reverse \in BOOLEAN /\ T \subseteq N
      /\ Sound(c) /\ FitsIn(c, live_node(N, T), P)
  BY DEF Calls, Good, Sound
<1>2. /\ IsFiniteSet(K)
      /\ \A l \in K : l \subseteq N \ Inputs
      /\ \A n \in N \ Inputs : \E l \in K : n \in l
      /\ \A l \in K : \A n \in l : Fanins(n) \cap N \subseteq l \cup Inputs
      /\ \A l, m \in K : l # m => l \cap m = {}
  BY <1>1, Components
<1> HIDE DEF K
<1>3. /\ k \in Nat /\ \A i \in 1..k : order[i] \in K
      /\ \A i, j \in 1..k : i # j => order[i] # order[j]
      /\ \A l \in K : \E i \in 1..k : order[i] = l
  BY <1>2, OrderIsComplete DEF K
<1> HIDE DEF k, live
<1>4. ASSUME NEW i \in 1..k
      PROVE  /\ live(i) \subseteq order[i] /\ order[i] \subseteq N \ Inputs
             /\ live(i) \cap T = order[i] \cap T
             /\ \A n \in live(i) : Fanins(n) \cap order[i] \subseteq live(i) \cup Inputs
             /\ \A n \in live(i) \ T : Fanouts(n) \cap live(i) # {}
             /\ live(i) \subseteq live_node(N, T)
  <2> DEFINE O == order[i]
             L == live_node(N, T)
  <2>1. O \subseteq N \ Inputs /\ O \in SUBSET (Inputs \cup Gates)
    BY <1>1, <1>2, <1>3
  <2> HIDE DEF O
  <2>2. /\ (T \cap O) \ Inputs \subseteq live(i) /\ live(i) \subseteq O \ Inputs
        /\ \A n \in live(i) : Fanins(n) \cap O \subseteq live(i) \cup Inputs
        /\ \A n \in live(i) \ T : Fanouts(n) \cap live(i) # {}
        /\ \A X \in SUBSET (O \ Inputs) :
             /\ (T \cap O) \ Inputs \subseteq X
             /\ \A n \in X : Fanins(n) \cap (O \ Inputs) \subseteq X
             => live(i) \subseteq X
    BY <2>1, LiveNodes DEF live, O
  <2>3. /\ (T \cap N) \ Inputs \subseteq L /\ L \subseteq N \ Inputs
        /\ \A n \in L : Fanins(n) \cap N \subseteq L \cup Inputs
    BY <1>1, LiveNodes
  <2> HIDE DEF L
  <2>4. live(i) \subseteq L
    <3> DEFINE X == L \cap O
    <3>1. X \in SUBSET (O \ Inputs) /\ (T \cap O) \ Inputs \subseteq X
      BY <2>1, <2>3
    <3>2. \A n \in X : Fanins(n) \cap (O \ Inputs) \subseteq X
      BY <2>1, <2>3
    <3>3. live(i) \subseteq X
      <4> HIDE DEF X
      <4>1. QED
        BY <2>2, <3>1, <3>2
    <3>4. QED
      BY <3>3
  <2>5. T \cap Inputs = {}
    BY <1>1 DEF Wired
  <2>6. QED
    BY <2>1, <2>2, <2>4, <2>5 DEF O, L
<1>5. \A i, j \in 1..k : i # j => order[i] \cap order[j] = {}
  BY <1>2, <1>3
<1>6. \A i \in 1..k : new[i] = made(i) /\ made(i) \in Calls
  <2>1. ASSUME NEW i \in 1..k PROVE new[i] = made(i) /\ made(i) \in Calls
    <3>1. new[i] = made(i)
      BY DEF Conquer, Call
    <3>2. live(i) \in SUBSET (Inputs \cup Gates)
      BY <1>1, <1>4
    <3>3. QED
      BY <1>1, <3>1, <3>2 DEF Calls
  <2>2. QED
    BY <2>1
<1>7. new \in Seq(Calls) /\ Len(new) = k
  <2> HIDE DEF made
  <2>1. DOMAIN new = 1..k /\ \A i \in 1..k : new[i] \in Calls
    BY <1>6
  <2>2. new = [i \in 1..k |-> new[i]]
    BY <2>1
  <2> HIDE DEF new
  <2>3. new \in [1..k -> Calls]
    BY <2>1, <2>2
  <2>4. QED
    BY <1>3, <2>3
<1> HIDE DEF new
<1>8. ASSUME NEW i \in 1..k
      PROVE  Good(made(i), Q[i]) /\ Q[i + 1] = After(made(i), Q[i])
  <2> DEFINE M == live(i)
             C == made(i)
  <2>1. i \in 1..(k + 1) /\ i + 1 \in 1..(k + 1) /\ (i + 1) - 1 = i
    BY <1>3
  <2>2. D(i + 1) = D(i) \cup (order[i] \cap T)
    BY <1>3, <2>1
  <2>3. D(i) \subseteq T /\ D(i) \cap order[i] = {}
    BY <1>3, <1>5, <2>1
  <2> HIDE DEF D, Q
  <2>4. Q[i] = (IF c.reverse THEN P \ D(i) ELSE P \cup D(i)) /\ Q[i + 1] = (IF c.reverse THEN P \ D(i + 1) ELSE P \cup D(i + 1))
    BY <2>1 DEF Q
  <2>5. Q[i + 1] = After(C, Q[i])
    BY <1>4, <2>2, <2>4 DEF After
  <2>6. /\ M \subseteq order[i] /\ M \subseteq live_node(N, T) /\ M \subseteq N \ Inputs
        /\ M \cap T = order[i] \cap T
    BY <1>4
  <2>7. Sound(C)
    BY <1>1, <2>6 DEF Sound
  <2>8. c.start \ Inputs \subseteq Q[i]
    <3>1. c.start \ Inputs \subseteq P /\ (c.start \ Inputs) \cap T = {}
      BY <1>1 DEF FitsIn, Sound
    <3>2. QED
      BY <2>3, <2>4, <3>1
  <2>9. ASSUME NEW n \in M PROVE Fanins(n) \subseteq M \cup c.start
    <3>1. Fanins(n) \subseteq N \cup c.start /\ Inputs \subseteq c.start
      BY <1>1, <2>6 DEF FitsIn, Sound
    <3>2. Fanins(n) \cap N \subseteq order[i] \cup Inputs
      BY <1>2, <1>3, <2>6
    <3>3. Fanins(n) \cap order[i] \subseteq M \cup Inputs
      BY <1>4
    <3>4. QED
      BY <3>1, <3>2, <3>3
  <2>10. M \cap Q[i] = Settled(C)
    <3>1. live_node(N, T) \cap P = (IF c.reverse THEN T ELSE {})
      BY <1>1 DEF FitsIn, Settled
    <3>2. CASE c.reverse
      <4>1. M \cap Q[i] = M \cap P
        BY <2>3, <2>4, <2>6, <3>2
      <4>2. M \cap P = M \cap T
        BY <2>6, <3>1, <3>2
      <4>3. QED
        BY <3>2, <4>1, <4>2 DEF Settled
    <3>3. CASE ~c.reverse
      <4>1. M \cap Q[i] = {}
        BY <2>3, <2>4, <2>6, <3>1, <3>3
      <4>2. QED
        BY <3>3, <4>1 DEF Settled
    <3>4. QED
      BY <3>2, <3>3
  <2>11. FitsIn(C, M, Q[i])
    BY <2>8, <2>9, <2>10 DEF FitsIn
  <2>12. \A n \in M \ (M \cap T) : Fanouts(n) \cap M # {}
    BY <1>4
  <2>13. QED
    BY <2>5, <2>6, <2>7, <2>11, <2>12 DEF Good
<1>9. Q[1] = P
  BY <1>3
<1>10. Q[k + 1] = After(c, P)
  <2>1. D(k + 1) = T
    <3>1. \A n \in T : n \in N \ Inputs
      BY <1>1 DEF Wired
    <3>2. \A n \in T : \E i \in 1..k : n \in order[i]
      BY <1>2, <1>3, <3>1
    <3>3. (k + 1) - 1 = k
      BY <1>3
    <3>4. QED
      BY <3>2, <3>3
  <2> HIDE DEF D
  <2>2. Q[k + 1] = IF c.reverse THEN P \ D(k + 1) ELSE P \cup D(k + 1)
    BY <1>3
  <2>3. QED
    BY <2>1, <2>2 DEF After
<1> HIDE DEF Q
<1>11. Chain(new, Q)
  <2> HIDE DEF made
  <2>1. QED
    BY <1>6, <1>7, <1>8 DEF Chain
<1>12. \A i \in 1..Len(new) : new[i].do = "conquer"
  <2>1. \A i \in 1..k : made(i).do = "conquer"
    OBVIOUS
  <2> HIDE DEF made
  <2>2. QED
    BY <1>6, <1>7, <2>1
<1>13. QED
  BY <1>7, <1>9, <1>10, <1>11, <1>12 DEF new, k, live

----------------------------------------------------------------------------
(* The cut. *)

\* The half A is closed towards start, and C is all that is ready behind it.
Halved(c) ==
  /\ half.A \subseteq c.nodes /\ half.C \subseteq c.nodes /\ half.A \cap half.C = {}
  /\ \A n \in half.A \cup half.C : Fanins(n) \subseteq half.A \cup c.start
  /\ \A n \in c.nodes : Fanins(n) \subseteq half.A \cup c.start => n \in half.A \cup half.C
  /\ Cardinality(c.nodes) - Cardinality(c.target) > recursive_target_size

\* The nodes of a cut: those in front, the separator, and those behind.
FrontNodes(c) == half.A \ Separator(c)
BackNodes(c)  == (c.nodes \ half.A) \ Separator(c)

\* The separator holds back what is behind: no gate of the back builds on the front.
LEMMA CutFacts ==
  ASSUME Wired, NEW c \in Calls, c.do # "pebble", NEW P \in SUBSET Gates, Good(c, P), Halved(c)
  PROVE  LET S == Separator(c)
             A == FrontNodes(c)
             B == BackNodes(c)
             live == live_node(B, c.target \cap B)
         IN  /\ S \subseteq c.nodes /\ A \subseteq c.nodes /\ B \subseteq c.nodes
             /\ A \cap S = {} /\ B \cap (A \cup S) = {} /\ c.nodes = A \cup B \cup S
             /\ \A n \in A \cup S : Fanins(n) \subseteq A \cup S \cup c.start
             /\ live \subseteq B /\ c.target \cap B \subseteq live
             /\ \A n \in live : Fanins(n) \subseteq B \cup S \cup c.start
<1> DEFINE N == c.nodes
           T == c.target
           C == half.C \ RN(c.start, N)
           W == (N \ half.A) \ C
           S == Separator(c)
           A == FrontNodes(c)
           B == BackNodes(c)
           live == live_node(B, T \cap B)
<1>1. /\ N \subseteq Gates /\ T \subseteq N /\ c.start \cap N = {}
      /\ c.start \subseteq Inputs \cup Gates
      /\ c.start \ Inputs \subseteq P
      /\ \A n \in N : Fanins(n) \subseteq N \cup c.start
  <2>1. N \subseteq Inputs \cup Gates /\ c.start \subseteq Inputs \cup Gates
    BY DEF Calls
  <2>2. Sound(c) /\ FitsIn(c, N, P) /\ N \cap Inputs = {}
    BY DEF Good
  <2>3. QED
    BY <2>1, <2>2 DEF Sound, FitsIn
<1>2. /\ half.A \subseteq N /\ C \subseteq N /\ half.A \cap C = {}
      /\ \A n \in half.A \cup C : Fanins(n) \subseteq half.A \cup c.start
  BY DEF Halved
<1>3. S = RP(W, N) \cup (T \cap C)
  BY DEF Separator
<1>4. RP(W, N) = {n \in N \ (W \cup Inputs) : Fanouts(n) \cap W # {}}
  BY DEF RP
<1> HIDE DEF C, N, T
<1>5. /\ S \subseteq half.A \cup C
      /\ \A n \in N \ W : Fanouts(n) \cap W # {} => n \in S
      /\ T \cap C \subseteq S
  BY <1>1, <1>2, <1>3, <1>4 DEF Wired
<1> HIDE DEF S, W
<1>6. A = half.A \ S /\ B = (N \ half.A) \ S
  BY DEF FrontNodes, BackNodes, S, N
<1> HIDE DEF A, B, live
<1>7. /\ S \subseteq N /\ A \subseteq N /\ B \subseteq N
      /\ A \cap S = {} /\ B \cap (A \cup S) = {} /\ N = A \cup B \cup S
      /\ half.A \subseteq A \cup S
      /\ B = (W \cap B) \cup (C \cap B) /\ T \cap B \subseteq W
  BY <1>1, <1>2, <1>5, <1>6 DEF W
<1>8. \A n \in A \cup S : Fanins(n) \subseteq A \cup S \cup c.start
  BY <1>2, <1>5, <1>6, <1>7
<1>9. /\ (T \cap B) \ Inputs \subseteq live /\ live \subseteq B \ Inputs
      /\ \A X \in SUBSET (B \ Inputs) :
           /\ ((T \cap B) \cap B) \ Inputs \subseteq X
           /\ \A n \in X : Fanins(n) \cap (B \ Inputs) \subseteq X
           => live \subseteq X
  <2> DEFINE t == T \cap B
  <2>1. B \in SUBSET (Inputs \cup Gates)
    BY <1>1, <1>7
  <2> HIDE DEF t
  <2>2. /\ (t \cap B) \ Inputs \subseteq live_node(B, t) /\ live_node(B, t) \subseteq B \ Inputs
        /\ \A X \in SUBSET (B \ Inputs) :
             /\ (t \cap B) \ Inputs \subseteq X
             /\ \A n \in X : Fanins(n) \cap (B \ Inputs) \subseteq X
             => live_node(B, t) \subseteq X
    BY <2>1, LiveNodes
  <2>3. QED
    BY <2>2 DEF t, live
<1>10. live \subseteq W
  <2> DEFINE X == W \cap B
  <2>1. X \in SUBSET (B \ Inputs) /\ ((T \cap B) \cap B) \ Inputs \subseteq X
    BY <1>1, <1>7 DEF Wired
  <2>2. ASSUME NEW n \in X, NEW m \in Fanins(n) \cap (B \ Inputs) PROVE m \in X
    <3>1. n \in Gates /\ m \in Gates
      BY <1>1, <1>7, <2>2
    <3>2. n \in Fanouts(m)
      BY <2>2, <3>1 DEF Wired
    <3>3. m \in W
      BY <1>1, <1>5, <1>7, <2>2, <3>2
    <3>4. QED
      BY <2>2, <3>3
  <2>3. live \subseteq X
    <3> HIDE DEF X
    <3>1. QED
      BY <1>9, <2>1, <2>2
  <2>4. QED
    BY <2>3
<1>11. ASSUME NEW n \in live PROVE Fanins(n) \subseteq B \cup S \cup c.start
  <2>1. n \in W /\ n \in N /\ n \in Gates
    BY <1>1, <1>7, <1>9, <1>10
  <2>2. ASSUME NEW m \in Fanins(n), m \in N PROVE m \in B \cup S
    <3>1. m \in Gates /\ n \in Fanouts(m)
      BY <1>1, <2>1, <2>2 DEF Wired
    <3>2. CASE m \in W
      BY <1>6, <1>7, <3>2 DEF W
    <3>3. CASE m \notin W
      BY <1>5, <2>1, <2>2, <3>1, <3>3
    <3>4. QED
      BY <3>2, <3>3
  <2>3. Fanins(n) \subseteq N \cup c.start
    BY <1>1, <2>1
  <2>4. QED
    BY <2>2, <2>3
<1>12. T \cap B \subseteq live
  BY <1>1, <1>9 DEF Wired
<1>13. live \subseteq B
  BY <1>9
<1>14. QED
  BY <1>7, <1>8, <1>11, <1>12, <1>13 DEF S, A, B, N, T, live

\* A call of the front is fit, whatever of its nodes are the targets.
LEMMA FrontFits ==
  ASSUME Wired, NEW c \in Calls, c.do = "pebble", Sound(c), NEW P,
         c.start \ Inputs \subseteq P,
         \A n \in c.nodes \ Inputs : Fanins(n) \subseteq c.nodes \cup c.start,
         (c.nodes \ Inputs) \cap P = Settled(c)
  PROVE  Good(c, P)
<1> DEFINE live == live_node(c.nodes, c.target)
<1>1. c.nodes \in SUBSET (Inputs \cup Gates) /\ c.target \subseteq c.nodes \ Inputs
  BY DEF Calls, Sound, Wired
<1>2. (c.target \cap c.nodes) \ Inputs \subseteq live /\ live \subseteq c.nodes \ Inputs
  BY <1>1, LiveNodes
<1> HIDE DEF live
<1>3. \A n \in live : Fanins(n) \subseteq c.nodes \cup c.start
  BY <1>2
<1>4. live \cap P = Settled(c)
  BY <1>1, <1>2 DEF Settled
<1>5. FitsIn(c, live, P)
  BY <1>3, <1>4 DEF FitsIn
<1>6. QED
  BY <1>5 DEF Good, live

\* The calls of a cut.
LEMMA CutChain ==
  ASSUME Wired, NEW c \in Calls, c.do # "pebble", NEW P \in SUBSET Gates, Good(c, P), Halved(c)
  PROVE  /\ Cut(c) \in Seq(Calls)
         /\ \A i \in 1..Len(Cut(c)) : Cut(c)[i].do = "pebble"
         /\ \E Q : Chain(Cut(c), Q) /\ Q[1] = P /\ Q[Len(Cut(c)) + 1] = After(c, P)
<1> DEFINE N == c.nodes
           T == c.target
           s == c.start
           S == Separator(c)
           A == FrontNodes(c)
           B == BackNodes(c)
           live == live_node(B, T \cap B)
           undo(r)  == Call((A \cup S) \ T, (T \cap (A \cup S)) \cup s, S \ T, r)
           front(r) == Call(A \cup S, s, S \cup (T \cap A), r)
           back(r)  == Call(B, S \cup s, T \cap B, r)
<1>1. /\ N \subseteq Gates /\ T \subseteq N /\ s \cap N = {} /\ s \subseteq Inputs \cup Gates /\ Inputs \subseteq s
      /\ s \ Inputs \subseteq P /\ N \cap P = Settled(c)
      /\ c.reverse \in BOOLEAN
      /\ Outputs \cap N \subseteq T /\ (c.reverse => Outputs \cap N = {})
      /\ Gates \cap Inputs = {}
  <2>1. N \subseteq Inputs \cup Gates /\ s \subseteq Inputs \cup Gates /\ c.reverse \in BOOLEAN
    BY DEF Calls
  <2>2. Sound(c) /\ FitsIn(c, N, P) /\ N \cap Inputs = {}
    BY DEF Good
  <2>3. QED
    BY <2>1, <2>2 DEF Sound, FitsIn, Wired
<1>2. /\ S \subseteq N /\ A \subseteq N /\ B \subseteq N
      /\ A \cap S = {} /\ B \cap (A \cup S) = {} /\ N = A \cup B \cup S
      /\ \A n \in A \cup S : Fanins(n) \subseteq A \cup S \cup s
      /\ live \subseteq B /\ T \cap B \subseteq live
      /\ \A n \in live : Fanins(n) \subseteq B \cup S \cup s
  BY CutFacts
<1>3. Cut(c) = IF c.reverse THEN <<undo(FALSE), back(TRUE), front(TRUE)>>
               ELSE <<front(FALSE), back(FALSE), undo(TRUE)>>
  BY DEF Cut, FrontNodes, BackNodes
<1> HIDE DEF N, T, s, S, A, B, live
<1>4. \A r \in BOOLEAN : undo(r) \in Calls /\ front(r) \in Calls /\ back(r) \in Calls
  BY <1>1, <1>2 DEF Call, Calls
<1>5. \A r \in BOOLEAN : Sound(undo(r)) /\ (~r \/ c.reverse => Sound(front(r)) /\ Sound(back(r)))
  BY <1>1, <1>2 DEF Call, Sound
<1>6. ASSUME NEW r \in BOOLEAN, NEW R, s \ Inputs \subseteq R, T \cap (A \cup S) \subseteq R,
             ((A \cup S) \ T) \cap R = IF r THEN S \ T ELSE {}
      PROVE  Good(undo(r), R)
  <2> DEFINE d == undo(r)
  <2>1. /\ d.do = "pebble" /\ d.nodes = (A \cup S) \ T /\ d.start = (T \cap (A \cup S)) \cup s
        /\ d.target = S \ T /\ d.reverse = r
    BY DEF Call
  <2>2. d \in Calls /\ Sound(d)
    BY <1>4, <1>5
  <2> HIDE DEF d
  <2>3. d.start \ Inputs \subseteq R
    BY <1>6, <2>1
  <2>4. \A n \in d.nodes \ Inputs : Fanins(n) \subseteq d.nodes \cup d.start
    BY <1>2, <2>1
  <2>5. (d.nodes \ Inputs) \cap R = Settled(d)
    BY <1>1, <1>2, <1>6, <2>1 DEF Settled
  <2>6. Good(d, R)
    BY <2>1, <2>2, <2>3, <2>4, <2>5, FrontFits
  <2>7. QED
    BY <2>6 DEF d
<1>7. ASSUME NEW r \in BOOLEAN, ~r \/ c.reverse, NEW R, s \ Inputs \subseteq R,
             (A \cup S) \cap R = IF r THEN S \cup (T \cap A) ELSE {}
      PROVE  Good(front(r), R)
  <2> DEFINE d == front(r)
  <2>1. /\ d.do = "pebble" /\ d.nodes = A \cup S /\ d.start = s
        /\ d.target = S \cup (T \cap A) /\ d.reverse = r
    BY DEF Call
  <2>2. d \in Calls /\ Sound(d)
    BY <1>4, <1>5, <1>7
  <2> HIDE DEF d
  <2>3. d.start \ Inputs \subseteq R
    BY <1>7, <2>1
  <2>4. \A n \in d.nodes \ Inputs : Fanins(n) \subseteq d.nodes \cup d.start
    BY <1>2, <2>1
  <2>5. (d.nodes \ Inputs) \cap R = Settled(d)
    BY <1>1, <1>2, <1>7, <2>1 DEF Settled
  <2>6. Good(d, R)
    BY <2>1, <2>2, <2>3, <2>4, <2>5, FrontFits
  <2>7. QED
    BY <2>6 DEF d
<1>8. ASSUME NEW r \in BOOLEAN, ~r \/ c.reverse, NEW R, s \ Inputs \subseteq R, S \subseteq R,
             B \cap R = IF r THEN T \cap B ELSE {}
      PROVE  Good(back(r), R)
  <2> DEFINE d == back(r)
  <2>1. /\ d.do = "pebble" /\ d.nodes = B /\ d.start = S \cup s
        /\ d.target = T \cap B /\ d.reverse = r
    BY DEF Call
  <2>2. d \in Calls /\ Sound(d)
    BY <1>4, <1>5, <1>8
  <2> HIDE DEF d
  <2>3. d.start \ Inputs \subseteq R
    BY <1>8, <2>1
  <2>4. live_node(d.nodes, d.target) = live
    BY <2>1 DEF live
  <2>5. \A n \in live : Fanins(n) \subseteq d.nodes \cup d.start
    BY <1>2, <1>8, <2>1
  <2>6. live \cap R = Settled(d)
    BY <1>2, <1>8, <2>1 DEF Settled
  <2>7. FitsIn(d, live, R)
    BY <2>3, <2>5, <2>6 DEF FitsIn
  <2>8. Good(d, R)
    BY <2>1, <2>2, <2>4, <2>7 DEF Good
  <2>9. QED
    BY <2>8 DEF d
<1>9. \A r \in BOOLEAN : undo(r).do = "pebble" /\ front(r).do = "pebble" /\ back(r).do = "pebble"
  BY DEF Call
<1>10. \A r \in BOOLEAN : \A R :
         /\ After(undo(r), R) = IF r THEN R \ (S \ T) ELSE R \cup (S \ T)
         /\ After(front(r), R) = IF r THEN R \ (S \cup (T \cap A)) ELSE R \cup (S \cup (T \cap A))
         /\ After(back(r), R) = IF r THEN R \ (T \cap B) ELSE R \cup (T \cap B)
  BY DEF Call, After
<1> HIDE DEF undo, front, back
<1>11. ASSUME NEW x \in Calls, NEW y \in Calls, NEW z \in Calls, NEW P2, NEW P3, NEW P4,
              Cut(c) = <<x, y, z>>, x.do = "pebble", y.do = "pebble", z.do = "pebble",
              Good(x, P), P2 = After(x, P), Good(y, P2), P3 = After(y, P2), Good(z, P3), P4 = After(z, P3),
              P4 = After(c, P)
       PROVE  /\ Cut(c) \in Seq(Calls)
              /\ \A i \in 1..Len(Cut(c)) : Cut(c)[i].do = "pebble"
              /\ \E Q : Chain(Cut(c), Q) /\ Q[1] = P /\ Q[Len(Cut(c)) + 1] = After(c, P)
  <2> DEFINE t == <<x, y, z>>
             Q == <<P, P2, P3, P4>>
  <2>1. Len(t) = 3 /\ t[1] = x /\ t[2] = y /\ t[3] = z /\ t \in Seq(Calls)
    BY <1>11
  <2>2. Q[1] = P /\ Q[2] = P2 /\ Q[3] = P3 /\ Q[4] = P4
    OBVIOUS
  <2> HIDE DEF t, Q
  <2>3. 1..Len(t) = {1, 2, 3}
    BY <2>1
  <2>4. Chain(t, Q)
    <3>1. Good(t[1], Q[1]) /\ Q[1 + 1] = After(t[1], Q[1])
      BY <1>11, <2>1, <2>2
    <3>2. Good(t[2], Q[2]) /\ Q[2 + 1] = After(t[2], Q[2])
      BY <1>11, <2>1, <2>2
    <3>3. Good(t[3], Q[3]) /\ Q[3 + 1] = After(t[3], Q[3])
      <4>1. 3 + 1 = 4
        OBVIOUS
      <4>2. Q[3 + 1] = P4
        BY <2>2, <4>1
      <4>3. Good(t[3], Q[3]) /\ P4 = After(t[3], Q[3])
        BY <1>11, <2>1, <2>2
      <4>4. QED
        BY <4>2, <4>3
    <3>4. QED
      BY <2>3, <3>1, <3>2, <3>3 DEF Chain
  <2>5. Cut(c) = t
    BY <1>11 DEF t
  <2>6. \A i \in 1..Len(t) : t[i].do = "pebble"
    BY <1>11, <2>1, <2>3
  <2>7. QED
    BY <1>11, <2>1, <2>2, <2>4, <2>5, <2>6
<1>12. CASE ~c.reverse
  <2> DEFINE P2 == P \cup (S \cup (T \cap A))
             P3 == P2 \cup (T \cap B)
             P4 == P3 \ (S \ T)
  <2>1. N \cap P = {}
    BY <1>1, <1>12 DEF Settled
  <2>2. /\ (A \cup S) \cap P = {} /\ s \ Inputs \subseteq P
        /\ s \ Inputs \subseteq P2 /\ S \subseteq P2 /\ B \cap P2 = {}
        /\ s \ Inputs \subseteq P3 /\ T \cap (A \cup S) \subseteq P3
        /\ ((A \cup S) \ T) \cap P3 = S \ T
    BY <1>1, <1>2, <2>1
  <2>3. P4 = After(c, P)
    BY <1>1, <1>2, <1>12, <2>1 DEF After, T
  <2>4. /\ P2 = After(front(FALSE), P) /\ P3 = After(back(FALSE), P2)
        /\ P4 = After(undo(TRUE), P3)
    BY <1>10
  <2> HIDE DEF P2, P3, P4
  <2>5. Good(front(FALSE), P)
    BY <1>7, <2>2
  <2>6. Good(back(FALSE), P2)
    BY <1>8, <2>2
  <2>7. Good(undo(TRUE), P3)
    BY <1>6, <2>2
  <2>8. Cut(c) = <<front(FALSE), back(FALSE), undo(TRUE)>>
    BY <1>3, <1>12
  <2>9. QED
    BY <1>4, <1>9, <1>11, <2>3, <2>4, <2>5, <2>6, <2>7, <2>8
<1>13. CASE c.reverse
  <2> DEFINE P2 == P \cup (S \ T)
             P3 == P2 \ (T \cap B)
             P4 == P3 \ (S \cup (T \cap A))
  <2>1. N \cap P = T
    BY <1>1, <1>13 DEF Settled, T
  <2>2. /\ s \ Inputs \subseteq P /\ T \cap (A \cup S) \subseteq P /\ ((A \cup S) \ T) \cap P = {}
        /\ s \ Inputs \subseteq P2 /\ S \subseteq P2 /\ B \cap P2 = T \cap B
        /\ s \ Inputs \subseteq P3 /\ (A \cup S) \cap P3 = S \cup (T \cap A)
    BY <1>1, <1>2, <2>1
  <2>3. P4 = After(c, P)
    BY <1>1, <1>2, <1>13, <2>1 DEF After, T
  <2>4. /\ P2 = After(undo(FALSE), P) /\ P3 = After(back(TRUE), P2)
        /\ P4 = After(front(TRUE), P3)
    BY <1>10
  <2> HIDE DEF P2, P3, P4
  <2>5. Good(undo(FALSE), P)
    BY <1>6, <2>2
  <2>6. Good(back(TRUE), P2)
    BY <1>8, <1>13, <2>2
  <2>7. Good(front(TRUE), P3)
    BY <1>7, <1>13, <2>2
  <2>8. Cut(c) = <<undo(FALSE), back(TRUE), front(TRUE)>>
    BY <1>3, <1>13
  <2>9. QED
    BY <1>4, <1>9, <1>11, <2>3, <2>4, <2>5, <2>6, <2>7, <2>8
<1>14. QED
  BY <1>1, <1>12, <1>13

----------------------------------------------------------------------------
(* The inductive invariant. *)

\* The pebbles the call on top began with: a set has moved those of its nodes.
Begun == IF stack # <<>> /\ Top.do = "set" THEN (computed \ Top.nodes) \cup Settled(Top) ELSE computed

\* The calls of the stack lead from the pebbles there are to the outputs.
Planned ==
  /\ stack \in Seq(Calls)
  /\ \A i \in 2..Len(stack) : stack[i].do \in {"pebble", "conquer"}
  /\ \E P : Chain(stack, P) /\ P[1] = Begun /\ P[Len(stack) + 1] = Outputs

\* In compute_set_steps.  Released gates have given up their references, the ones
\* in run.drop excepted: targets that are there, and gates that are gone again.
Released(c) == {n \in c.nodes \cap Before(run.at) : (~c.reverse /\ n \in c.target) \/ n \notin computed}
Referrers(c, f) == {m \in Fanouts(f) \cap c.nodes : m \notin Released(c) \/ <<m, f>> \in ToSet(run.drop)}

Distinct(s) == \A i, j \in 1..Len(s) : s[i] = s[j] => i = j
Counted(c) ==
  /\ run \in [at : 1..(Len(View) + 1), drop : Seq(Gates \X (Inputs \cup Gates)), ref : [c.nodes -> Nat]]
  /\ Distinct(run.drop)
  /\ \A e \in ToSet(run.drop) : e[1] \in Released(c) /\ e[2] \in Fanins(e[1])
  /\ \A f \in c.nodes : run.ref[f] = Cardinality(Referrers(c, f))
  /\ \A n \in c.nodes \cap Before(run.at) :
       /\ n \notin computed => Referrers(c, n) = {}
       /\ n \in computed /\ (c.reverse \/ n \notin c.target) => Referrers(c, n) # {}
       /\ n \in c.target /\ ~c.reverse => n \in computed
  /\ \A n \in c.nodes \ Before(run.at) : n \in computed <=> (c.reverse /\ n \in c.target)

\* The steps so far are the beginning of a pebbling.
Legal(x, s) ==
  /\ s \in Seq([node : GateNodes(x), compute : BOOLEAN])
  /\ \A i \in 1..Len(s) :
       LET n == s[i].node
           held == Held(s, i - 1)
       IN  /\ {Kids(x, n)[1].node, Kids(x, n)[2].node} \subseteq InputNodes(x) \cup held
           /\ IF s[i].compute THEN n \notin held ELSE n \in held \ OutputNodes(x)
Recorded == Legal(xag, steps) /\ Held(steps, Len(steps)) = computed

PebblingInv ==
  /\ Lowered
  /\ computed \in SUBSET Gates
  /\ Recorded
  /\ Planned
  /\ stack # <<>> /\ Top.do = "halve" => Halved(Top)
  /\ stack # <<>> /\ Top.do = "set" => Counted(Top)

\* As long as the function is lowered all that is said of its network is the same.
LEMMA SameNet ==
  ASSUME func' = func, xag' = xag, net' = net
  PROVE  /\ Lowered' = Lowered
         /\ Inputs' = Inputs /\ Outputs' = Outputs /\ View' = View /\ Gates' = Gates /\ Calls' = Calls
         /\ \A i : Before(i)' = Before(i)
         /\ \A n : Fanins(n)' = Fanins(n) /\ Fanouts(n)' = Fanouts(n)
         /\ \A calls, P : Chain(calls, P)' <=> Chain(calls, P)
<1>1. Lowered' = Lowered
  BY DEF Lowered
<1>2. Inputs' = Inputs /\ Outputs' = Outputs /\ View' = View /\ Gates' = Gates
  BY DEF Inputs, Outputs, View, Gates
<1>3. Calls' = Calls
  BY <1>2 DEF Calls
<1>4. /\ \A i : Before(i)' = Before(i)
      /\ \A n : Fanins(n)' = Fanins(n) /\ Fanouts(n)' = Fanouts(n)
  BY <1>2 DEF Before, Fanins, Fanouts
<1>5. \A N, T : live_node(N, T)' = live_node(N, T)
  BY <1>2 DEF live_node
<1>6. \A c, P : Good(c, P)' <=> Good(c, P)
  <2>1. \A c : Sound(c)' <=> Sound(c)
    BY <1>2 DEF Sound
  <2>2. \A c, N, P : FitsIn(c, N, P)' <=> FitsIn(c, N, P)
    BY <1>2, <1>4 DEF FitsIn, Settled
  <2>3. QED
    BY <1>2, <1>4, <1>5, <2>1, <2>2 DEF Good
<1>7. \A calls, P : Chain(calls, P)' <=> Chain(calls, P)
  BY <1>6 DEF Chain, After
<1>8. QED
  BY <1>1, <1>2, <1>3, <1>4, <1>7

\* What stays when no pebble moves.
LEMMA NoPebbleMoves ==
  ASSUME PebblingInv, UNCHANGED <<func, xag, net, computed, steps>>
  PROVE  Lowered' /\ (computed \in SUBSET Gates)' /\ Recorded'
BY SameNet DEF PebblingInv, Recorded

\* The pebbles the call on top began with are on gates.
LEMMA BaseOfGates ==
  ASSUME PebblingInv
  PROVE  /\ Begun \in SUBSET Gates
         /\ stack # <<>> => Top \in Calls /\ stack \in Seq(Calls) /\ Wired
<1>1. Wired /\ stack \in Seq(Calls)
  BY LoweredIsWired DEF PebblingInv, Planned
<1>2. stack # <<>> => Top \in Calls
  <2>1. SUFFICES ASSUME stack # <<>> PROVE stack[1] \in Calls
    BY DEF Top
  <2>2. Len(stack) \in Nat /\ Len(stack) # 0
    BY <1>1, <2>1, EmptySeq, LenProperties
  <2>3. QED
    BY <1>1, <2>2, ElementOfSeq
<1>3. computed \in SUBSET Gates
  BY DEF PebblingInv
<1>4. CASE stack # <<>>
  <2>1. Settled(Top) \subseteq Gates
    BY <1>2, <1>4 DEF Settled, Calls
  <2>2. QED
    BY <1>1, <1>2, <1>3, <2>1 DEF Begun
<1>5. CASE stack = <<>>
  BY <1>1, <1>3, <1>5 DEF Begun
<1>6. QED
  BY <1>4, <1>5

\* The call on top finds its pebbles.
LEMMA TopIsGood ==
  ASSUME PebblingInv, stack # <<>>
  PROVE  Good(Top, Begun)
<1>1. Len(stack) \in Nat /\ 1 \in 1..Len(stack)
  <2>1. Len(stack) \in Nat /\ Len(stack) # 0
    BY BaseOfGates, EmptySeq, LenProperties
  <2>2. QED
    BY <2>1
<1>2. QED
  BY <1>1 DEF PebblingInv, Planned, Chain, Top

\* The call on top is replaced by calls that come to the same.
LEMMA TopReplaced ==
  ASSUME PebblingInv, stack # <<>>, NEW new \in Seq(Calls),
         \A i \in 1..Len(new) : new[i].do \in {"pebble", "conquer"},
         NEW Q, Chain(new, Q), Q[1] = Begun, Q[Len(new) + 1] = After(Top, Begun)
  PROVE  /\ new \o Below \in Seq(Calls)
         /\ \A i \in 1..Len(new \o Below) : (new \o Below)[i].do \in {"pebble", "conquer"}
         /\ \E R : /\ Chain(new \o Below, R)
                   /\ R[1] = Begun
                   /\ R[Len(new \o Below) + 1] = Outputs
<1>1. stack \in Seq(Calls)
  BY BaseOfGates
<1>2. PICK P : Chain(stack, P) /\ P[1] = Begun /\ P[Len(stack) + 1] = Outputs
  BY DEF PebblingInv, Planned
<1>3. Len(stack) \in Nat /\ Len(stack) # 0 /\ 1 \in 1..Len(stack)
  <2>1. Len(stack) \in Nat /\ Len(stack) # 0
    BY <1>1, EmptySeq, LenProperties
  <2>2. QED
    BY <2>1
<1>4. P[2] = After(Top, Begun)
  <2>1. P[1 + 1] = After(stack[1], P[1])
    BY <1>2, <1>3 DEF Chain
  <2>2. 1 + 1 = 2
    OBVIOUS
  <2>3. QED
    BY <1>2, <2>1, <2>2 DEF Top
<1>5. \E R : /\ Chain(new \o Tail(stack), R)
             /\ R[1] = Q[1]
             /\ R[Len(new \o Tail(stack)) + 1] = P[Len(stack) + 1]
  BY <1>1, <1>2, <1>4, ChainReplaced
<1>6. Tail(stack) \in Seq(Calls) /\ Len(Tail(stack)) = Len(stack) - 1
      /\ \A i \in 1..(Len(stack) - 1) : Tail(stack)[i] = stack[i + 1]
  BY <1>1, HeadTailProperties
<1>7. new \o Tail(stack) \in Seq(Calls)
  BY <1>6, ConcatProperties
<1>8. ASSUME NEW i \in 1..Len(new \o Tail(stack)) PROVE (new \o Tail(stack))[i].do \in {"pebble", "conquer"}
  <2> DEFINE k == Len(new)
             l == Len(stack)
             rest == Tail(stack)
             t == new \o rest
  <2>1. k \in Nat /\ l \in Nat \ {0} /\ Len(t) = k + (l - 1)
        /\ \A j \in 1..Len(t) : t[j] = IF j <= k THEN new[j] ELSE rest[j - k]
    BY <1>3, <1>6, LenProperties, ConcatProperties
  <2>2. i \in 1..Len(t)
    OBVIOUS
  <2> HIDE DEF k, l, t, rest
  <2>3. CASE i <= k
    <3>1. t[i] = new[i] /\ i \in 1..k
      BY <2>1, <2>2, <2>3
    <3>2. QED
      BY <3>1 DEF k, t, rest
  <2>4. CASE ~(i <= k)
    <3>1. i - k \in 1..(l - 1) /\ t[i] = rest[i - k] /\ (i - k) + 1 \in 2..l
      BY <2>1, <2>2, <2>4
    <3>2. t[i] = stack[(i - k) + 1]
      BY <1>6, <3>1 DEF rest, l
    <3>3. \A j \in 2..l : stack[j].do \in {"pebble", "conquer"}
      BY DEF PebblingInv, Planned, l
    <3>4. QED
      BY <3>1, <3>2, <3>3 DEF t, rest
  <2>5. QED
    BY <2>3, <2>4
<1>9. QED
  BY <1>2, <1>5, <1>7, <1>8 DEF Below

\* It is, in an action that moves no pebble.
LEMMA ReplaceKeeps ==
  ASSUME PebblingInv, stack # <<>>, Top.do # "set", UNCHANGED <<func, xag, net, computed, steps>>,
         NEW new \in Seq(Calls), stack' = new \o Below,
         \A i \in 1..Len(new) : new[i].do \in {"pebble", "conquer"},
         \E Q : Chain(new, Q) /\ Q[1] = Begun /\ Q[Len(new) + 1] = After(Top, Begun)
  PROVE  PebblingInv'
<1>1. PICK Q : Chain(new, Q) /\ Q[1] = Begun /\ Q[Len(new) + 1] = After(Top, Begun)
  OBVIOUS
<1>2. /\ stack' \in Seq(Calls)
      /\ \A i \in 1..Len(stack') : stack'[i].do \in {"pebble", "conquer"}
      /\ \E R : Chain(stack', R) /\ R[1] = Begun /\ R[Len(stack') + 1] = Outputs
  BY <1>1, TopReplaced
<1>3. stack' # <<>> => stack'[1].do \in {"pebble", "conquer"}
  <2>1. SUFFICES ASSUME stack' # <<>> PROVE 1 \in 1..Len(stack')
    BY <1>2
  <2>2. Len(stack') \in Nat /\ Len(stack') # 0
    BY <1>2, <2>1, EmptySeq, LenProperties
  <2>3. QED
    BY <2>2
<1>4. Begun' = Begun
  <2>1. Begun = computed
    BY DEF Begun
  <2>2. Begun' = computed'
    BY <1>3 DEF Begun, Top
  <2>3. QED
    BY <2>1, <2>2
<1>5. Planned'
  <2>1. (stack \in Seq(Calls))'
    BY <1>2, SameNet
  <2>2. (\A i \in 2..Len(stack) : stack[i].do \in {"pebble", "conquer"})'
    <3>1. Len(stack') \in Nat
      BY <1>2, LenProperties
    <3>2. QED
      BY <1>2, <3>1
  <2>3. (\E P : Chain(stack, P) /\ P[1] = Begun /\ P[Len(stack) + 1] = Outputs)'
    BY <1>2, <1>4, SameNet
  <2>4. QED
    BY <2>1, <2>2, <2>3 DEF Planned
<1>6. QED
  BY <1>3, <1>5, NoPebbleMoves DEF PebblingInv, Top

----------------------------------------------------------------------------
(* The calls. *)

\* The first call has all gates, and the outputs as its targets.
LEMMA PebblingStarts ==
  ASSUME PebblingInit
  PROVE  PebblingInv
<1> DEFINE c == Call(Inputs \cup ToSet(View), Inputs, Outputs, FALSE)
           P == <<{}, Outputs>>
<1>1. Lowered
  BY DEF PebblingInit, Lowered
<1>2. Wired
  BY <1>1, LoweredIsWired
<1>3. /\ c.do = "pebble" /\ c.nodes = Inputs \cup Gates /\ c.start = Inputs
      /\ c.target = Outputs /\ c.reverse = FALSE
  BY DEF Call, Gates
<1>4. c \in Calls
  <2>1. Outputs \subseteq Gates
    BY <1>2 DEF Wired
  <2>2. \A r \in BOOLEAN : Call(Inputs \cup Gates, Inputs, Outputs, r) \in Calls
    BY <2>1 DEF Call, Calls
  <2>3. QED
    BY <2>2 DEF Gates
<1>5. stack = <<c>> /\ computed = {} /\ steps = <<>>
  BY DEF PebblingInit
<1>6. Recorded
  <2>1. Held(<<>>, 0) = {}
    BY HeldNone
  <2>2. Len(steps) = 0 /\ steps \in Seq([node : GateNodes(xag), compute : BOOLEAN])
    BY <1>5
  <2>3. QED
    BY <1>5, <2>1, <2>2 DEF Recorded, Legal
<1> HIDE DEF c
<1>7. Good(c, {})
  <2>1. Sound(c)
    BY <1>2, <1>3 DEF Sound, Wired
  <2> DEFINE live == live_node(c.nodes, c.target)
  <2>2. live \subseteq Gates
    <3>1. c.nodes \in SUBSET (Inputs \cup Gates) /\ c.nodes \ Inputs \subseteq Gates
      BY <1>3
    <3>2. live \subseteq c.nodes \ Inputs
      BY <1>2, <3>1, LiveNodes
    <3>3. QED
      BY <3>1, <3>2
  <2> HIDE DEF live
  <2>3. FitsIn(c, live, {})
    BY <1>2, <1>3, <2>2 DEF FitsIn, Settled, Wired
  <2>4. QED
    BY <1>3, <2>1, <2>3 DEF Good, live
<1>8. Planned
  <2>1. Len(stack) = 1 /\ stack[1] = c /\ stack # <<>> /\ stack \in Seq(Calls)
    BY <1>4, <1>5
  <2>2. P[1] = {} /\ P[1 + 1] = Outputs
    OBVIOUS
  <2>3. After(c, {}) = Outputs
    BY <1>3 DEF After
  <2> HIDE DEF P
  <2>4. Chain(stack, P)
    <3>1. Good(stack[1], P[1]) /\ P[1 + 1] = After(stack[1], P[1])
      BY <1>7, <2>1, <2>2, <2>3
    <3>2. \A i \in 1..Len(stack) : i = 1
      BY <2>1
    <3>3. QED
      BY <3>1, <3>2 DEF Chain
  <2>5. Begun = {}
    BY <1>3, <1>5, <2>1 DEF Begun, Top
  <2>6. \A i \in 2..Len(stack) : stack[i].do \in {"pebble", "conquer"}
    BY <2>1
  <2>7. \E R : Chain(stack, R) /\ R[1] = Begun /\ R[Len(stack) + 1] = Outputs
    BY <2>1, <2>2, <2>4, <2>5
  <2>8. QED
    BY <2>1, <2>6, <2>7 DEF Planned
<1>9. Top.do = "pebble"
  BY <1>3, <1>5 DEF Top
<1>10. QED
  BY <1>1, <1>5, <1>6, <1>8, <1>9 DEF PebblingInv

\* greedy_pebble: the calls of the components come to the call of all.
LEMMA GreedyKeeps ==
  ASSUME PebblingInv, greedy_pebble
  PROVE  PebblingInv'
<1>1. Wired /\ Top \in Calls /\ Begun \in SUBSET Gates /\ Good(Top, Begun) /\ Top.do = "pebble" /\ stack # <<>>
  BY BaseOfGates, TopIsGood DEF greedy_pebble
<1>2. PICK order \in SetToSeqs(compute_connected_components(Top.nodes)) :
        stack' = [i \in 1..Len(order) |->
                    LET live == live_node(order[i], Top.target)
                    IN  Conquer(Call(live, Top.start, live \cap Top.target, Top.reverse))] \o Below
  BY DEF greedy_pebble
<1> DEFINE new == [i \in 1..Len(order) |->
                     LET live == live_node(order[i], Top.target)
                     IN  Conquer(Call(live, Top.start, live \cap Top.target, Top.reverse))]
<1>3. /\ new \in Seq(Calls)
      /\ \A i \in 1..Len(new) : new[i].do = "conquer"
      /\ \E Q : Chain(new, Q) /\ Q[1] = Begun /\ Q[Len(new) + 1] = After(Top, Begun)
  BY <1>1, GreedyChain
<1>4. stack' = new \o Below
  BY <1>2
<1> HIDE DEF new
<1>5. \A i \in 1..Len(new) : new[i].do \in {"pebble", "conquer"}
  BY <1>3
<1>6. UNCHANGED <<func, xag, net, computed, steps>>
  BY DEF greedy_pebble
<1>7. QED
  BY <1>1, <1>3, <1>4, <1>5, <1>6, ReplaceKeeps

\* The cut: its three calls come to the call they are made of.
LEMMA CutInTwoKeeps ==
  ASSUME PebblingInv, CutInTwo
  PROVE  PebblingInv'
<1>1. Wired /\ Top \in Calls /\ Begun \in SUBSET Gates /\ Good(Top, Begun) /\ Top.do = "halve" /\ stack # <<>>
  BY BaseOfGates, TopIsGood DEF CutInTwo
<1>2. Halved(Top)
  BY <1>1 DEF PebblingInv
<1>3. /\ Cut(Top) \in Seq(Calls)
      /\ \A i \in 1..Len(Cut(Top)) : Cut(Top)[i].do = "pebble"
      /\ \E Q : Chain(Cut(Top), Q) /\ Q[1] = Begun /\ Q[Len(Cut(Top)) + 1] = After(Top, Begun)
  BY <1>1, <1>2, CutChain
<1>4. stack' = Cut(Top) \o Below /\ UNCHANGED <<func, xag, net, computed, steps>>
  BY DEF CutInTwo
<1>5. \A i \in 1..Len(Cut(Top)) : Cut(Top)[i].do \in {"pebble", "conquer"}
  BY <1>3
<1>6. QED
  BY <1>1, <1>3, <1>4, <1>5, ReplaceKeeps

\* divide_and_conquer goes on with its call.
LEMMA Relabelled ==
  ASSUME PebblingInv, stack # <<>>, Top.do = "conquer", NEW do \in {"halve", "set"},
         UNCHANGED <<func, xag, net, computed, steps>>, stack' = <<[Top EXCEPT !.do = do]>> \o Below
  PROVE  /\ stack' # <<>> /\ Top' = [Top EXCEPT !.do = do] /\ Top \in Calls
         /\ Good(Top, computed) /\ Planned'
<1> DEFINE d == [Top EXCEPT !.do = do]
           l == Len(stack)
<1>1. Top \in Calls /\ stack \in Seq(Calls) /\ Wired /\ Good(Top, Begun)
  BY BaseOfGates, TopIsGood
<1>2. Begun = computed
  BY DEF Begun
<1>3. /\ d \in Calls /\ d.do = do /\ d.nodes = Top.nodes /\ d.start = Top.start
      /\ d.target = Top.target /\ d.reverse = Top.reverse
  BY <1>1 DEF Calls
<1> HIDE DEF d
<1>4. l \in Nat \ {0}
  BY <1>1, EmptySeq, LenProperties
<1>5. Tail(stack) \in Seq(Calls) /\ Len(Tail(stack)) = l - 1
      /\ \A i \in 1..(l - 1) : Tail(stack)[i] = stack[i + 1]
  BY <1>1, HeadTailProperties
<1>6. stack' = <<d>> \o Tail(stack)
  BY DEF Below, d
<1>7. Len(<<d>>) = 1 /\ <<d>>[1] = d /\ <<d>> \in Seq(Calls)
  BY <1>3
<1>8. stack' \in Seq(Calls) /\ Len(stack') = l /\ stack'[1] = d /\ \A i \in 2..l : stack'[i] = stack[i]
  <2> DEFINE rest == Tail(stack)
             one == <<d>>
             t == one \o rest
  <2>1. t \in Seq(Calls) /\ Len(t) = 1 + (l - 1) /\ \A i \in 1..Len(t) : t[i] = IF i <= 1 THEN one[i] ELSE rest[i - 1]
    BY <1>5, <1>7, ConcatProperties
  <2>2. one[1] = d /\ stack' = t /\ \A i \in 1..(l - 1) : rest[i] = stack[i + 1]
    BY <1>5, <1>6, <1>7, Zenon
  <2> HIDE DEF rest, one, t, l
  <2>3. t[1] = d /\ Len(t) = l
    BY <1>4, <2>1, <2>2
  <2>4. ASSUME NEW i \in 2..l PROVE t[i] = stack[i]
    <3>1. i - 1 \in 1..(l - 1) /\ (i - 1) + 1 = i /\ i \in 1..Len(t) /\ ~(i <= 1)
      BY <1>4, <2>3
    <3>2. QED
      BY <2>1, <2>2, <3>1
  <2>5. QED
    BY <2>1, <2>2, <2>3, <2>4, Zenon
<1>9. PICK P : Chain(stack, P) /\ P[1] = Begun /\ P[l + 1] = Outputs
  BY DEF PebblingInv, Planned
<1>10. \A R : (Good(Top, R) <=> Good(d, R)) /\ After(Top, R) = After(d, R)
  <2>1. Sound(d) <=> Sound(Top)
    BY <1>3 DEF Sound
  <2>2. \A N, R : FitsIn(d, N, R) <=> FitsIn(Top, N, R)
    BY <1>3 DEF FitsIn, Settled
  <2>3. QED
    BY <1>3, <2>1, <2>2 DEF Good, After
<1>11. Chain(stack', P)
  <2>1. \A i \in 1..l : i = 1 \/ i \in 2..l
    BY <1>4
  <2>2. \A i \in 1..l : Good(stack[i], P[i]) /\ P[i + 1] = After(stack[i], P[i])
    BY <1>9 DEF Chain
  <2>3. 1 \in 1..l
    BY <1>4
  <2>4. Good(d, P[1]) /\ P[1 + 1] = After(d, P[1])
    BY <1>10, <2>2, <2>3 DEF Top
  <2> HIDE DEF l
  <2>5. \A i \in 1..l : Good(stack'[i], P[i]) /\ P[i + 1] = After(stack'[i], P[i])
    BY <1>8, <2>1, <2>2, <2>4
  <2>6. QED
    BY <1>8, <2>5 DEF Chain
<1>12. stack' # <<>> /\ Top' = d
  <2>1. Top' = stack'[1]
    BY DEF Top
  <2>2. stack' # <<>>
    BY <1>4, <1>8, EmptySeq
  <2>3. QED
    BY <1>8, <2>1, <2>2
<1>13. Begun' = Begun
  <2>1. Begun' = IF Top'.do = "set" THEN (computed' \ Top'.nodes) \cup Settled(Top)' ELSE computed'
    BY <1>12 DEF Begun
  <2>2. Settled(Top)' = Settled(Top)
    BY <1>3, <1>12 DEF Settled
  <2>3. FitsIn(Top, Top.nodes, computed)
    BY <1>1, <1>2 DEF Good
  <2>4. Top.nodes \cap computed = Settled(Top)
    BY <2>3 DEF FitsIn
  <2>5. QED
    BY <1>2, <1>3, <1>12, <2>1, <2>2, <2>4
<1>14. Planned'
  <2>1. (stack \in Seq(Calls))'
    BY <1>8, SameNet
  <2>2. (\A i \in 2..Len(stack) : stack[i].do \in {"pebble", "conquer"})'
    BY <1>8 DEF PebblingInv, Planned
  <2>3. (\E R : Chain(stack, R) /\ R[1] = Begun /\ R[Len(stack) + 1] = Outputs)'
    <3>1. Chain(stack', P) /\ P[1] = Begun' /\ P[Len(stack') + 1] = Outputs
      BY <1>8, <1>9, <1>11, <1>13
    <3>2. Outputs' = Outputs /\ \A calls, R : Chain(calls, R)' <=> Chain(calls, R)
      BY SameNet
    <3>3. QED
      BY <3>1, <3>2
  <2>4. QED
    BY <2>1, <2>2, <2>3 DEF Planned
<1>15. QED
  BY <1>1, <1>2, <1>12, <1>14 DEF d

\* A cut begins with an empty half.
LEMMA DivideKeeps ==
  ASSUME PebblingInv, Divide
  PROVE  PebblingInv'
<1>1. /\ stack' # <<>> /\ Top' = [Top EXCEPT !.do = "halve"] /\ Top \in Calls
      /\ Good(Top, computed) /\ Planned'
  BY Relabelled DEF Divide
<1>2. /\ Top'.do = "halve" /\ Top'.nodes = Top.nodes /\ Top'.start = Top.start
      /\ Top'.target = Top.target
  BY <1>1 DEF Calls
<1>3. half'.A = {} /\ half'.C = RN(Top.start, Top.nodes)
  BY DEF Divide
<1>4. Wired /\ Top.nodes \subseteq Gates /\ Top.nodes \cap Top.start = {} /\ Top.target \subseteq Top.nodes
  <2>1. Wired /\ Top.do = "conquer" /\ Sound(Top) /\ Top.nodes \cap Inputs = {}
    BY <1>1, LoweredIsWired DEF PebblingInv, Divide, Good
  <2>2. QED
    BY <1>1, <2>1 DEF Sound, Calls
<1>5. Halved(Top)'
  <2>1. /\ half'.C \subseteq Top.nodes
        /\ \A n \in half'.C : Fanins(n) \subseteq Top.start
    BY <1>3 DEF RN
  <2>2. ASSUME NEW n \in Top.nodes, Fanins(n) \subseteq Top.start PROVE n \in half'.C
    <3>1. Left(n).node \in Fanins(n) /\ n \notin Top.start
      BY <1>4 DEF Wired
    <3>2. Fanins(n) # {}
      BY <3>1
    <3>3. QED
      BY <1>3, <2>2, <3>1, <3>2 DEF RN
  <2>3. Cardinality(Top.nodes) - Cardinality(Top.target) > recursive_target_size
    <3>1. Cardinality(Top.nodes) \in Nat /\ Cardinality(Top.target) \in Nat
      BY <1>4, FS_Subset, FS_CardinalityType DEF Wired
    <3>2. ~(Cardinality(Top.nodes) - Cardinality(Top.target) <= recursive_target_size)
      BY DEF Divide, FewEnough
    <3>3. QED
      BY <3>1, <3>2 DEF recursive_target_size
  <2>4. \A n : Fanins(n)' = Fanins(n)
    BY SameNet DEF Divide
  <2>5. (Cardinality(Top.nodes) - Cardinality(Top.target) > recursive_target_size)'
    BY <1>2, <2>3 DEF recursive_target_size
  <2>6. QED
    BY <1>2, <1>3, <2>1, <2>2, <2>4, <2>5 DEF Halved
<1>6. Lowered' /\ (computed \in SUBSET Gates)' /\ Recorded'
  BY NoPebbleMoves DEF Divide
<1>7. QED
  BY <1>1, <1>2, <1>5, <1>6 DEF PebblingInv

\* The half stays closed, and its candidates stay all that is ready.
LEMMA GrowKeeps ==
  ASSUME PebblingInv, Grow
  PROVE  PebblingInv'
<1>1. Wired /\ Top \in Calls /\ Good(Top, Begun) /\ stack # <<>> /\ Top.do = "halve" /\ Halved(Top)
  BY BaseOfGates, TopIsGood DEF PebblingInv, Grow
<1>2. Top.nodes \subseteq Gates /\ Top.nodes \cap Top.start = {}
  BY <1>1 DEF Good, Sound, Calls
<1>3. PICK next \in half.C :
        half' = [A |-> half.A \cup {next},
                 C |-> (half.C \ {next}) \cup Ready(next, half.A \cup {next}, Top.start, Top.nodes)]
  BY DEF Grow, NextNodes
<1> DEFINE A == half.A \cup {next}
           R == Ready(next, A, Top.start, Top.nodes)
<1>4. half'.A = A /\ half'.C = (half.C \ {next}) \cup R
  BY <1>3
<1>5. UNCHANGED <<func, xag, net, stack, computed, steps>> /\ Top' = Top
  BY DEF Grow, Top
<1>6. /\ R \subseteq Fanouts(next) \cap Top.nodes
      /\ \A f \in R : Fanins(f) \subseteq A \cup Top.start
  BY DEF Ready
<1> HIDE DEF A, R
<1>7. half.A \cap half.C = {} /\ next \in Top.nodes /\ next \notin half.A /\ next \in Gates
  BY <1>1, <1>2, <1>3 DEF Halved
<1>8. ASSUME NEW f \in R PROVE f \notin A
  <2>1. f \in Gates /\ next \in Fanins(f)
    BY <1>1, <1>2, <1>6, <1>7 DEF Wired
  <2>2. f # next
    <3>1. PICK i \in 1..Len(View) : f = View[i]
      BY <1>1, <2>1 DEF Wired
    <3>2. Fanins(f) \subseteq Inputs \cup Before(i)
      BY <1>1, <3>1 DEF Wired
    <3>3. f \notin Inputs /\ f \notin Before(i)
      BY <1>1, <2>1, <3>1 DEF Wired, Before
    <3>4. QED
      BY <2>1, <3>2, <3>3
  <2>3. f \notin half.A
    BY <1>1, <1>2, <1>7, <2>1 DEF Halved
  <2>4. QED
    BY <2>2, <2>3 DEF A
<1>9. Halved(Top)'
  <2>1. /\ A \subseteq Top.nodes /\ half'.C \subseteq Top.nodes /\ A \cap half'.C = {}
        /\ \A n \in A \cup half'.C : Fanins(n) \subseteq A \cup Top.start
    BY <1>1, <1>3, <1>4, <1>6, <1>7, <1>8 DEF Halved, A
  <2>2. ASSUME NEW n \in Top.nodes, Fanins(n) \subseteq A \cup Top.start PROVE n \in A \cup half'.C
    <3>1. CASE next \in Fanins(n)
      <4>1. n \in Fanouts(next)
        BY <1>1, <1>2, <1>7, <3>1 DEF Wired
      <4>2. n \in R
        BY <2>2, <4>1 DEF R, Ready
      <4>3. QED
        BY <1>4, <4>2
    <3>2. CASE next \notin Fanins(n)
      <4>1. Fanins(n) \subseteq half.A \cup Top.start
        BY <2>2, <3>2 DEF A
      <4>2. n \in half.A \cup half.C
        BY <1>1, <4>1 DEF Halved
      <4>3. QED
        BY <1>4, <4>2 DEF A
    <3>3. QED
      BY <3>1, <3>2
  <2>3. \A n : Fanins(n)' = Fanins(n)
    BY <1>5, SameNet
  <2>4. Cardinality(Top.nodes) - Cardinality(Top.target) > recursive_target_size
    BY <1>1 DEF Halved
  <2>5. QED
    BY <1>4, <1>5, <2>1, <2>2, <2>3, <2>4 DEF Halved
<1>10. Planned'
  <2>1. Begun' = Begun
    BY <1>5 DEF Begun, Settled
  <2>2. /\ Calls' = Calls /\ Outputs' = Outputs
        /\ \A calls, P : Chain(calls, P)' <=> Chain(calls, P)
    BY <1>5, SameNet
  <2>3. (\E P : Chain(stack, P) /\ P[1] = Begun /\ P[Len(stack) + 1] = Outputs)'
    BY <1>5, <2>1, <2>2 DEF PebblingInv, Planned
  <2>4. QED
    BY <1>5, <2>2, <2>3 DEF PebblingInv, Planned
<1>11. Lowered' /\ (computed \in SUBSET Gates)' /\ Recorded'
  BY <1>5, NoPebbleMoves
<1>12. QED
  BY <1>1, <1>5, <1>9, <1>10, <1>11 DEF PebblingInv

----------------------------------------------------------------------------
(* The set of few nodes: what its steps rest on. *)

\* The members of a sequence, and of one behind another.
LEMMA MembersOfSeq ==
  ASSUME NEW S, NEW s \in Seq(S)
  PROVE  ToSet(s) = {s[i] : i \in 1..Len(s)} /\ ToSet(s) \subseteq S /\ Len(s) \in Nat
<1>1. DOMAIN s = 1..Len(s) /\ \A i \in 1..Len(s) : s[i] \in S
  BY ElementOfSeq, LenProperties
<1>2. QED
  BY <1>1, LenProperties DEF ToSet

\* A set has one element less without one of its own.
LEMMA OneLess ==
  ASSUME NEW S, NEW s \in Seq(S), s # <<>>, Distinct(s)
  PROVE  /\ Tail(s) \in Seq(S) /\ Distinct(Tail(s))
         /\ Head(s) \in ToSet(s) /\ ToSet(Tail(s)) = ToSet(s) \ {Head(s)}
<1> DEFINE t == Tail(s)
           l == Len(s)
<1>1. l \in Nat \ {0}
  BY EmptySeq, LenProperties
<1>2. t \in Seq(S) /\ Len(t) = l - 1 /\ \A i \in 1..(l - 1) : t[i] = s[i + 1]
  BY HeadTailProperties
<1>3. Head(s) = s[1]
  OBVIOUS
<1>4. /\ ToSet(s) = {s[i] : i \in 1..l} /\ ToSet(t) = {t[i] : i \in 1..(l - 1)}
  BY <1>2, MembersOfSeq
<1> HIDE DEF t, l
<1>5. \A i \in 1..(l - 1) : i + 1 \in 1..l /\ i + 1 # 1
  BY <1>1
<1>6. Distinct(t)
  <2>1. SUFFICES ASSUME NEW i \in 1..(l - 1), NEW j \in 1..(l - 1), t[i] = t[j] PROVE i = j
    BY <1>2 DEF Distinct
  <2>2. s[i + 1] = s[j + 1]
    BY <1>2, <2>1
  <2>3. i + 1 = j + 1
    BY <1>5, <2>2 DEF Distinct, l
  <2>4. QED
    BY <2>3
<1>7. 1 \in 1..l
  BY <1>1
<1>8. ToSet(t) = ToSet(s) \ {s[1]}
  <2>1. ASSUME NEW x \in ToSet(t) PROVE x \in ToSet(s) \ {s[1]}
    <3>1. PICK i \in 1..(l - 1) : x = s[i + 1]
      BY <1>2, <1>4
    <3>2. s[i + 1] # s[1]
      BY <1>5, <1>7 DEF Distinct, l
    <3>3. QED
      BY <1>4, <1>5, <3>1, <3>2
  <2>2. ASSUME NEW x \in ToSet(s), x # s[1] PROVE x \in ToSet(t)
    <3>1. PICK i \in 1..l : x = s[i]
      BY <1>4
    <3>2. i - 1 \in 1..(l - 1) /\ (i - 1) + 1 = i
      BY <1>1, <2>2, <3>1
    <3>3. QED
      BY <1>2, <1>4, <3>1, <3>2
  <2>3. QED
    BY <2>1, <2>2
<1>9. QED
  BY <1>2, <1>3, <1>4, <1>6, <1>7, <1>8 DEF t, l

\* A sequence behind another one has the elements of both.
LEMMA Joined ==
  ASSUME NEW S, NEW s \in Seq(S), NEW t \in Seq(S), Distinct(s), Distinct(t), ToSet(s) \cap ToSet(t) = {}
  PROVE  s \o t \in Seq(S) /\ Distinct(s \o t) /\ ToSet(s \o t) = ToSet(s) \cup ToSet(t)
<1> DEFINE u == s \o t
           k == Len(s)
           l == Len(t)
<1>1. k \in Nat /\ l \in Nat
  BY LenProperties
<1>2. u \in Seq(S) /\ Len(u) = k + l /\ \A i \in 1..(k + l) : u[i] = IF i <= k THEN s[i] ELSE t[i - k]
  BY ConcatProperties
<1>3. /\ ToSet(s) = {s[i] : i \in 1..k} /\ ToSet(t) = {t[i] : i \in 1..l}
      /\ ToSet(u) = {u[i] : i \in 1..(k + l)}
  <2>1. ToSet(s) = {s[i] : i \in 1..k} /\ ToSet(t) = {t[i] : i \in 1..l}
    BY MembersOfSeq
  <2>2. ToSet(u) = {u[i] : i \in 1..Len(u)} /\ Len(u) = k + l
    BY <1>2, MembersOfSeq, ZenonT(40)
  <2>3. QED
    BY <2>1, <2>2, Zenon
<1>4. /\ \A i, j \in 1..k : s[i] = s[j] => i = j
      /\ \A i, j \in 1..l : t[i] = t[j] => i = j
  BY Zenon DEF Distinct
<1> HIDE DEF u, k, l
<1>5. \A i \in 1..(k + l) : \/ i \in 1..k /\ u[i] = s[i]
                            \/ i - k \in 1..l /\ u[i] = t[i - k] /\ ~(i <= k)
  <2>1. SUFFICES ASSUME NEW i \in 1..(k + l)
        PROVE  \/ i \in 1..k /\ u[i] = s[i]
               \/ i - k \in 1..l /\ u[i] = t[i - k] /\ ~(i <= k)
    OBVIOUS
  <2>2. CASE i <= k
    BY <1>1, <1>2, <2>2
  <2>3. CASE ~(i <= k)
    BY <1>1, <1>2, <2>3
  <2>4. QED
    BY <2>2, <2>3
<1>6. Distinct(u)
  <2>1. SUFFICES ASSUME NEW i \in 1..(k + l), NEW j \in 1..(k + l), u[i] = u[j] PROVE i = j
    BY <1>2 DEF Distinct
  <2>2. CASE i \in 1..k /\ u[i] = s[i] /\ j \in 1..k /\ u[j] = s[j]
    BY <1>4, <2>1, <2>2
  <2>3. CASE i - k \in 1..l /\ u[i] = t[i - k] /\ j - k \in 1..l /\ u[j] = t[j - k]
    <3>1. i - k = j - k
      BY <1>4, <2>1, <2>3
    <3>2. QED
      BY <1>1, <3>1
  <2>4. CASE i \in 1..k /\ u[i] = s[i] /\ j - k \in 1..l /\ u[j] = t[j - k]
    BY <1>3, <2>1, <2>4
  <2>5. CASE i - k \in 1..l /\ u[i] = t[i - k] /\ j \in 1..k /\ u[j] = s[j]
    BY <1>3, <2>1, <2>5
  <2>6. QED
    BY <1>5, <2>2, <2>3, <2>4, <2>5
<1>7. ToSet(u) \subseteq ToSet(s) \cup ToSet(t)
  BY <1>3, <1>5
<1>8. ToSet(s) \subseteq ToSet(u)
  <2>1. \A i \in 1..k : i \in 1..(k + l) /\ u[i] = s[i]
    BY <1>1, <1>2
  <2>2. QED
    BY <1>3, <2>1
<1>9. ToSet(t) \subseteq ToSet(u)
  <2>1. ASSUME NEW i \in 1..l PROVE k + i \in 1..(k + l) /\ u[k + i] = t[i]
    <3>1. k + i \in 1..(k + l) /\ ~(k + i <= k) /\ (k + i) - k = i
      BY <1>1
    <3>2. QED
      BY <1>2, <3>1
  <2>2. QED
    BY <1>3, <2>1
<1>10. QED
  BY <1>2, <1>6, <1>7, <1>8, <1>9 DEF u

\* A gate comes behind what it builds on.
LEMMA ViewOrder ==
  ASSUME Wired
  PROVE  /\ \A k : \A n \in Before(k) : k \in 1..(Len(View) + 1) => n \in Gates /\ Fanins(n) \cap Gates \subseteq Before(k)
         /\ \A n \in Gates : n \notin Fanins(n)
         /\ Before(1) = {} /\ Before(Len(View) + 1) = Gates
         /\ \A k \in 1..Len(View) :
              /\ View[k] \in Gates /\ View[k] \notin Before(k)
              /\ Before(k + 1) = Before(k) \cup {View[k]}
              /\ Fanins(View[k]) \cap Gates \subseteq Before(k)
              /\ \A m \in Fanouts(View[k]) : m \in Gates /\ m \notin Before(k + 1)
<1> DEFINE l == Len(View)
<1>1. /\ l \in Nat /\ Gates = {View[i] : i \in 1..l}
      /\ \A i, j \in 1..l : View[i] = View[j] => i = j
      /\ \A i \in 1..l : Fanins(View[i]) \subseteq Inputs \cup Before(i)
      /\ Gates \cap Inputs = {}
      /\ \A n \in Gates : Fanouts(n) = {m \in Gates : n \in Fanins(m)}
  BY DEF Wired
<1> HIDE DEF l
<1>2. ASSUME NEW k \in 1..(l + 1), NEW i \in 1..l PROVE View[i] \in Before(k) <=> i < k
  <2>1. ASSUME i < k PROVE View[i] \in Before(k)
    <3>1. i \in 1..(k - 1)
      BY <1>1, <2>1
    <3>2. QED
      BY <3>1 DEF Before
  <2>2. ASSUME View[i] \in Before(k) PROVE i < k
    <3>1. PICK j \in 1..(k - 1) : View[i] = View[j]
      BY <2>2 DEF Before
    <3>2. j \in 1..l
      BY <1>1
    <3>3. QED
      BY <1>1, <3>1, <3>2
  <2>3. QED
    BY <2>1, <2>2
<1>3. ASSUME NEW i \in 1..l, NEW m \in Fanins(View[i]) \cap Gates PROVE \E j \in 1..l : j < i /\ m = View[j]
  <2>1. m \in Before(i)
    BY <1>1
  <2>2. PICK j \in 1..(i - 1) : m = View[j]
    BY <2>1 DEF Before
  <2>3. QED
    BY <1>1, <2>2
<1>4. ASSUME NEW k \in 1..(l + 1), NEW n \in Before(k)
      PROVE  n \in Gates /\ Fanins(n) \cap Gates \subseteq Before(k)
  <2>1. PICK i \in 1..(k - 1) : n = View[i]
    BY DEF Before
  <2>2. i \in 1..l /\ i < k
    BY <1>1
  <2>3. ASSUME NEW m \in Fanins(n) \cap Gates PROVE m \in Before(k)
    <3>1. PICK j \in 1..l : j < i /\ m = View[j]
      BY <1>3, <2>1, <2>2
    <3>2. j < k
      BY <1>1, <2>2, <3>1
    <3>3. QED
      BY <1>2, <3>1, <3>2
  <2>4. QED
    BY <1>1, <2>1, <2>2, <2>3
<1>5. ASSUME NEW n \in Gates PROVE n \notin Fanins(n)
  <2>1. PICK i \in 1..l : n = View[i]
    BY <1>1
  <2>2. SUFFICES ASSUME n \in Fanins(n) PROVE FALSE
    OBVIOUS
  <2>3. PICK j \in 1..l : j < i /\ n = View[j]
    BY <1>3, <2>1, <2>2
  <2>4. i = j
    BY <1>1, <2>1, <2>3
  <2>5. QED
    BY <1>1, <2>3, <2>4
<1>6. Before(1) = {}
  BY DEF Before
<1>7. Before(l + 1) = Gates
  <2>1. 1..((l + 1) - 1) = 1..l
    BY <1>1
  <2>2. QED
    BY <1>1, <2>1 DEF Before
<1>8. ASSUME NEW k \in 1..l
      PROVE  /\ View[k] \in Gates /\ View[k] \notin Before(k)
             /\ Before(k + 1) = Before(k) \cup {View[k]}
             /\ Fanins(View[k]) \cap Gates \subseteq Before(k)
             /\ \A m \in Fanouts(View[k]) : m \in Gates /\ m \notin Before(k + 1)
  <2>1. View[k] \in Gates
    BY <1>1
  <2>2. k \in 1..(l + 1) /\ k + 1 \in 1..(l + 1) /\ ~(k < k)
    BY <1>1
  <2>3. View[k] \notin Before(k)
    BY <1>2, <2>2
  <2>4. Before(k + 1) = Before(k) \cup {View[k]}
    <3>1. 1..((k + 1) - 1) = 1..(k - 1) \cup {k}
      BY <1>1
    <3>2. QED
      BY <3>1 DEF Before
  <2>5. Fanins(View[k]) \cap Gates \subseteq Before(k)
    BY <1>1
  <2>6. ASSUME NEW m \in Fanouts(View[k]) PROVE m \in Gates /\ m \notin Before(k + 1)
    <3>1. m \in Gates /\ View[k] \in Fanins(m)
      BY <1>1, <2>1, <2>6
    <3>2. PICK i \in 1..l : m = View[i]
      BY <1>1, <3>1
    <3>3. PICK j \in 1..l : j < i /\ View[k] = View[j]
      BY <1>3, <2>1, <3>1, <3>2
    <3>4. ~(i < k + 1)
      BY <1>1, <3>3
    <3>5. QED
      BY <1>2, <2>2, <3>1, <3>2, <3>4
  <2>7. QED
    BY <2>1, <2>3, <2>4, <2>5, <2>6
<1>9. QED
  BY <1>4, <1>5, <1>6, <1>7, <1>8 DEF l

\* The edges of a gate lead to its two fanins.
LEMMA EdgesFacts ==
  ASSUME Wired, NEW n \in Gates
  PROVE  /\ Edges(n) \in Seq(Gates \X (Inputs \cup Gates)) /\ Distinct(Edges(n))
         /\ ToSet(Edges(n)) = {<<n, f>> : f \in Fanins(n)}
<1> DEFINE a == Left(n).node
           b == Right(n).node
           e == Edges(n)
           E == Gates \X (Inputs \cup Gates)
<1>1. Fanins(n) = {a, b} /\ a # b /\ {a, b} \subseteq Inputs \cup Gates
  BY DEF Wired
<1>2. e = IF a < b THEN <<<<n, a>>, <<n, b>>>> ELSE <<<<n, b>>, <<n, a>>>>
  BY DEF Edges, Left, Right
<1> HIDE DEF a, b, e
<1>3. ASSUME NEW x, NEW y, x # y, {x, y} = Fanins(n), {x, y} \subseteq Inputs \cup Gates, e = <<<<n, x>>, <<n, y>>>>
      PROVE  e \in Seq(E) /\ Distinct(e) /\ ToSet(e) = {<<n, f>> : f \in Fanins(n)}
  <2> DEFINE p == <<n, x>>
             q == <<n, y>>
             t == <<p, q>>
  <2>1. p # q /\ p \in E /\ q \in E
    BY <1>3
  <2>2. {p, q} = {<<n, f>> : f \in Fanins(n)}
    BY <1>3
  <2> HIDE DEF p, q, E
  <2>3. Len(t) = 2 /\ t[1] = p /\ t[2] = q /\ t \in Seq(E) /\ DOMAIN t = {1, 2}
    BY <2>1
  <2> HIDE DEF t
  <2>4. Distinct(t)
    <3>1. 1..Len(t) = {1, 2}
      BY <2>3
    <3>2. QED
      BY <2>1, <2>3, <3>1 DEF Distinct
  <2>5. ToSet(t) = {p, q}
    BY <2>3 DEF ToSet
  <2>6. e = t
    BY <1>3 DEF t, p, q
  <2>7. QED
    BY <2>2, <2>3, <2>4, <2>5, <2>6
<1>4. e \in Seq(E) /\ Distinct(e) /\ ToSet(e) = {<<n, f>> : f \in Fanins(n)}
  <2> HIDE DEF E
  <2>1. {b, a} = {a, b}
    OBVIOUS
  <2>2. CASE a < b
    BY <1>1, <1>2, <1>3, <2>2
  <2>3. CASE ~(a < b)
    BY <1>1, <1>2, <1>3, <2>1, <2>3
  <2>4. QED
    BY <2>2, <2>3
<1>5. QED
  BY <1>4 DEF e

----------------------------------------------------------------------------
(* compute_set_steps. *)

\* What holds while a set of few nodes is computed.
LEMMA SetFacts ==
  ASSUME PebblingInv, stack # <<>>, Top.do = "set"
  PROVE  /\ Wired /\ Top \in Calls /\ Counted(Top) /\ Top.nodes \subseteq Gates /\ Top.target \subseteq Top.nodes
         /\ Outputs \cap Top.nodes \subseteq Top.target /\ (Top.reverse => Outputs \cap Top.nodes = {})
         /\ \A n \in Top.nodes : Fanins(n) \subseteq Inputs \cup computed \cup Top.nodes
         /\ \A n \in Top.nodes \ Top.target : Fanouts(n) \cap Top.nodes # {}
         /\ computed \in SUBSET Gates
<1>1. Wired /\ Top \in Calls /\ Good(Top, Begun)
  BY BaseOfGates, TopIsGood
<1>2. Sound(Top) /\ FitsIn(Top, Top.nodes, Begun) /\ Top.nodes \cap Inputs = {}
      /\ \A n \in Top.nodes \ Top.target : Fanouts(n) \cap Top.nodes # {}
  BY <1>1 DEF Good
<1>3. Top.target \subseteq Top.nodes /\ Top.nodes \subseteq Gates
  BY <1>1, <1>2 DEF Sound, Calls
<1>4. Begun \subseteq computed \cup Top.nodes
  BY <1>3 DEF Begun, Settled
<1>5. \A n \in Top.nodes : Fanins(n) \subseteq Inputs \cup computed \cup Top.nodes
  BY <1>2, <1>4 DEF FitsIn
<1>6. QED
  BY <1>1, <1>2, <1>3, <1>5 DEF Sound, PebblingInv

\* What refers to a gate can be counted.
LEMMA ReferrersAreFinite ==
  ASSUME Wired, NEW c, NEW f \in Inputs \cup Gates
  PROVE  IsFiniteSet(Referrers(c, f))
<1>1. Referrers(c, f) \subseteq Gates
  BY DEF Referrers, Wired
<1>2. QED
  BY <1>1, FS_Subset DEF Wired

\* What a gate builds on is there as long as it refers to it.
LEMMA FaninsAreThere ==
  ASSUME PebblingInv, stack # <<>>, Top.do = "set",
         NEW n \in Top.nodes, n \notin Released(Top), Fanins(n) \cap Gates \subseteq Before(run.at)
  PROVE  Fanins(n) \subseteq Inputs \cup computed
<1>1. SUFFICES ASSUME NEW m \in Fanins(n), m \in Top.nodes PROVE m \in computed
  BY SetFacts
<1>2. m \in Gates /\ n \in Gates /\ m \in Before(run.at) /\ n \in Fanouts(m)
  BY <1>1, SetFacts DEF Wired
<1>3. n \in Referrers(Top, m)
  BY <1>2 DEF Referrers
<1>4. QED
  BY <1>1, <1>2, <1>3, SetFacts DEF Counted

\* A pebble is set or taken away.
LEMMA PebbleMoves ==
  ASSUME PebblingInv, UNCHANGED <<func, xag, net>>, NEW n \in Gates, NEW compute \in BOOLEAN,
         compute_node(n, compute), compute => n \notin computed, ~compute => n \in computed \ Outputs,
         Fanins(n) \subseteq Inputs \cup computed
  PROVE  /\ computed' = (IF compute THEN computed \cup {n} ELSE computed \ {n})
         /\ Lowered' /\ (computed \in SUBSET Gates)' /\ Recorded'
<1> DEFINE s == [node |-> n, compute |-> compute]
           l == Len(steps)
           S == [node : GateNodes(xag), compute : BOOLEAN]
<1>1. Wired /\ Lowered /\ computed \in SUBSET Gates /\ Legal(xag, steps) /\ Held(steps, l) = computed
  BY LoweredIsWired DEF PebblingInv, Recorded
<1>2. steps' = Append(steps, s) /\ computed' = (IF compute THEN computed \cup {n} ELSE computed \ {n})
  <2>1. CASE compute
    BY <2>1 DEF compute_node
  <2>2. CASE ~compute
    BY <2>2 DEF compute_node
  <2>3. QED
    BY <2>1, <2>2
<1>3. s.node = n /\ s.compute = compute /\ s \in S
  BY <1>1 DEF Wired
<1>4. steps \in Seq(S) /\ l \in Nat
  BY <1>1, LenProperties DEF Legal
<1> HIDE DEF s, S
<1>5. /\ steps' \in Seq(S) /\ Len(steps') = l + 1 /\ steps'[l + 1] = s
      /\ \A i \in 1..l : steps'[i] = steps[i]
  BY <1>2, <1>3, <1>4, AppendProperties
<1> HIDE DEF l
<1>6. \A i \in 0..l : Held(steps', i) = Held(steps, i)
  <2>1. SUFFICES ASSUME NEW i \in 0..l PROVE Held(steps', i) = Held(steps, i)
    OBVIOUS
  <2>2. \A k \in 1..i : k \in 1..l /\ \A j \in (k + 1)..i : j \in 1..l
    BY <1>4
  <2>3. \A k \in 1..i : steps'[k] = steps[k] /\ \A j \in (k + 1)..i : steps'[j] = steps[j]
    BY <1>5, <2>2
  <2>4. {steps'[k].node : k \in 1..i} = {steps[k].node : k \in 1..i}
    BY <2>3
  <2>5. QED
    BY <2>3, <2>4 DEF Held
<1>7. Held(steps', l + 1) = computed'
  <2>1. Held(steps', l) = computed
    <3>1. l \in 0..l
      BY <1>4
    <3>2. QED
      BY <1>1, <1>6, <3>1 DEF l
  <2>2. Held(steps', l + 1) = IF steps'[l + 1].compute THEN Held(steps', l) \cup {steps'[l + 1].node}
                              ELSE Held(steps', l) \ {steps'[l + 1].node}
    BY <1>4, HeldStep
  <2>3. QED
    BY <1>2, <1>3, <1>5, <2>1, <2>2
<1>8. Legal(xag, steps')
  <2> DEFINE Fine(t, i) ==
               LET m == t[i].node
                   held == Held(t, i - 1)
               IN  /\ {Kids(xag, m)[1].node, Kids(xag, m)[2].node} \subseteq InputNodes(xag) \cup held
                   /\ IF t[i].compute THEN m \notin held ELSE m \in held \ OutputNodes(xag)
  <2>1. \A i \in 1..l : Fine(steps, i)
    BY <1>1 DEF Legal, l
  <2>2. ASSUME NEW i \in 1..l PROVE Fine(steps', i)
    <3>1. steps'[i] = steps[i] /\ Held(steps', i - 1) = Held(steps, i - 1)
      <4>1. i - 1 \in 0..l
        BY <1>4
      <4>2. QED
        BY <1>5, <1>6, <4>1
    <3>2. Fine(steps, i)
      BY <2>1
    <3>3. QED
      BY <3>1, <3>2
  <2>3. Fine(steps', l + 1)
    <3>1. Held(steps', (l + 1) - 1) = computed
      <4>1. (l + 1) - 1 = l /\ l \in 0..l
        BY <1>4
      <4>2. QED
        BY <1>1, <1>6, <4>1 DEF l
    <3>2. {Kids(xag, n)[1].node, Kids(xag, n)[2].node} \subseteq InputNodes(xag) \cup computed
      BY <1>1 DEF Wired, Left, Right, Inputs
    <3>3. IF compute THEN n \notin computed ELSE n \in computed \ OutputNodes(xag)
      BY DEF Outputs
    <3>4. QED
      BY <1>3, <1>5, <3>1, <3>2, <3>3
  <2>4. \A i \in 1..(l + 1) : i \in 1..l \/ i = l + 1
    BY <1>4
  <2> HIDE DEF Fine
  <2>5. \A i \in 1..(l + 1) : Fine(steps', i)
    BY <2>2, <2>3, <2>4
  <2>6. QED
    BY <1>5, <2>5 DEF Legal, Fine, S
<1>9. Recorded'
  <2>1. Legal(xag, steps)'
    BY <1>8
  <2>2. QED
    BY <1>5, <1>7, <2>1 DEF Recorded
<1>10. Lowered' /\ (computed \in SUBSET Gates)'
  BY <1>1, <1>2, SameNet
<1>11. QED
  BY <1>2, <1>9, <1>10

\* A step of a set keeps the invariant if it keeps the counts.
LEMMA SetStepKeeps ==
  ASSUME PebblingInv, stack # <<>>, Top.do = "set", UNCHANGED <<func, xag, net, stack>>,
         computed' \ Top.nodes = computed \ Top.nodes, (computed \in SUBSET Gates)', Recorded',
         Counted(Top)'
  PROVE  PebblingInv'
<1>1. Top' = Top
  BY DEF Top
<1>2. Begun' = Begun
  BY <1>1 DEF Begun, Settled
<1>3. /\ Lowered' = Lowered /\ Calls' = Calls /\ Outputs' = Outputs
      /\ \A calls, P : Chain(calls, P)' <=> Chain(calls, P)
  BY SameNet
<1>4. Planned'
  <2>1. (\E P : Chain(stack, P) /\ P[1] = Begun /\ P[Len(stack) + 1] = Outputs)'
    BY <1>2, <1>3 DEF PebblingInv, Planned
  <2>2. QED
    BY <1>3, <2>1 DEF PebblingInv, Planned
<1>5. QED
  BY <1>1, <1>3, <1>4 DEF PebblingInv

\* When a set begins none of its gates is released.
LEMMA SetBeginsKeeps ==
  ASSUME PebblingInv, compute_set_steps
  PROVE  PebblingInv'
<1>1. /\ stack' # <<>> /\ Top' = [Top EXCEPT !.do = "set"] /\ Top \in Calls
      /\ Good(Top, computed) /\ Planned'
  BY Relabelled DEF compute_set_steps
<1> DEFINE c == Top
           N == c.nodes
<1>2. Wired /\ Top.do = "conquer"
  BY LoweredIsWired DEF PebblingInv, compute_set_steps
<1>3. /\ Top'.do = "set" /\ Top'.nodes = N /\ Top'.target = c.target /\ Top'.reverse = c.reverse
  BY <1>1 DEF Calls
<1>4. Sound(c) /\ FitsIn(c, N, computed) /\ N \subseteq Gates
  BY <1>1, <1>2 DEF Good, Calls
<1>5. /\ UNCHANGED <<func, xag, net, computed, steps>>
      /\ run' = [at |-> 1, drop |-> <<>>, ref |-> [n \in N |-> Cardinality(Fanouts(n) \cap N)]]
  BY DEF compute_set_steps
<1>6. /\ Before(1) = {} /\ Before(1)' = Before(1) /\ Gates' = Gates /\ Inputs' = Inputs /\ View' = View
      /\ \A n : Fanouts(n)' = Fanouts(n) /\ Fanins(n)' = Fanins(n)
  BY <1>2, <1>5, ViewOrder, SameNet
<1>7. run'.at = 1 /\ run'.drop = <<>> /\ run'.ref = [n \in N |-> Cardinality(Fanouts(n) \cap N)]
  BY <1>5
<1>8. Released(Top)' = {}
  <2>1. Before(run.at)' = {}
    BY <1>6, <1>7 DEF Before
  <2>2. QED
    BY <2>1 DEF Released
<1>9. \A f \in N : Referrers(Top, f)' = Fanouts(f) \cap N
  BY <1>3, <1>6, <1>8 DEF Referrers
<1>10. Counted(Top)'
  <2>1. ASSUME NEW f \in N PROVE Cardinality(Fanouts(f) \cap N) \in Nat
    <3>1. IsFiniteSet(Fanouts(f) \cap N)
      BY <1>2, <1>4, FS_Subset DEF Wired
    <3>2. QED
      BY <3>1, FS_CardinalityType
  <2>2. Len(View) \in Nat /\ 1 \in 1..(Len(View) + 1)
    BY <1>2 DEF Wired
  <2>3. run' \in [at : 1..(Len(View) + 1), drop : Seq(Gates \X (Inputs \cup Gates)), ref : [N -> Nat]]
    <3>1. [n \in N |-> Cardinality(Fanouts(n) \cap N)] \in [N -> Nat]
      BY <2>1
    <3>2. <<>> \in Seq(Gates \X (Inputs \cup Gates))
      BY EmptySeq
    <3> DEFINE ref == [n \in N |-> Cardinality(Fanouts(n) \cap N)]
    <3> HIDE DEF ref
    <3>3. ref \in [N -> Nat] /\ run' = [at |-> 1, drop |-> <<>>, ref |-> ref]
      BY <1>5, <3>1 DEF ref
    <3>4. QED
      BY <2>2, <3>2, <3>3
  <2>4. Distinct(run.drop)'
    BY <1>7 DEF Distinct
  <2>5. ToSet(run.drop)' = {}
    BY <1>7 DEF ToSet
  <2>6. \A f \in N : run'.ref[f] = Cardinality(Referrers(Top, f)')
    BY <1>7, <1>9
  <2>7. Before(run.at)' = {}
    BY <1>6, <1>7 DEF Before
  <2>8. \A n \in N : n \in computed <=> (c.reverse /\ n \in c.target)
    BY <1>4 DEF FitsIn, Settled
  <2>9. QED
    BY <1>3, <1>5, <1>6, <2>3, <2>4, <2>5, <2>6, <2>7, <2>8 DEF Counted
<1>11. Lowered' /\ (computed \in SUBSET Gates)' /\ Recorded'
  BY <1>5, NoPebbleMoves
<1>12. QED
  BY <1>1, <1>3, <1>10, <1>11 DEF PebblingInv

----------------------------------------------------------------------------
(* The walk along the view. *)

\* The counts stay, whatever becomes of the gate that is visited, if its edges are
\* to be taken away just when it needs its fanins no longer.
LEMMA VisitCounts ==
  ASSUME PebblingInv, Visiting, UNCHANGED <<func, xag, net, stack>>,
         NEW d \in Seq(Gates \X (Inputs \cup Gates)), Distinct(d),
         run' = [run EXCEPT !.at = @ + 1, !.drop = d],
         computed' \ {Visited} = computed \ {Visited},
         Visited \notin Top.nodes => d = <<>>,
         Visited \in Top.nodes =>
           /\ ToSet(d) = IF (~Top.reverse /\ Visited \in Top.target) \/ Visited \notin computed'
                         THEN {<<Visited, f>> : f \in Fanins(Visited)} ELSE {}
           /\ Visited \notin computed' => Referrers(Top, Visited) = {}
           /\ Visited \in computed' /\ (Top.reverse \/ Visited \notin Top.target) => Referrers(Top, Visited) # {}
           /\ Visited \in Top.target /\ ~Top.reverse => Visited \in computed'
  PROVE  Counted(Top)'
<1> DEFINE c == Top
           n == Visited
           N == c.nodes
           gone == (~c.reverse /\ n \in c.target) \/ n \notin computed'
           here == Before(run.at)
           E == Gates \X (Inputs \cup Gates)
<1>1. /\ stack # <<>> /\ c.do = "set" /\ run.drop = <<>> /\ run.at <= Len(View) /\ c' = c
  BY DEF Visiting, Top
<1>2. /\ Wired /\ c \in Calls /\ Counted(c) /\ N \subseteq Gates /\ c.target \subseteq N
  BY <1>1, SetFacts
<1>3. /\ run \in [at : 1..(Len(View) + 1), drop : Seq(E), ref : [N -> Nat]]
      /\ \A f \in N : run.ref[f] = Cardinality(Referrers(c, f))
      /\ \A m \in N \cap here :
           /\ m \notin computed => Referrers(c, m) = {}
           /\ m \in computed /\ (c.reverse \/ m \notin c.target) => Referrers(c, m) # {}
           /\ m \in c.target /\ ~c.reverse => m \in computed
      /\ \A m \in N \ here : m \in computed <=> (c.reverse /\ m \in c.target)
  BY <1>2 DEF Counted
<1>4. run.at \in 1..Len(View) /\ Len(View) \in Nat
  BY <1>1, <1>2, <1>3 DEF Wired
<1>5. /\ run'.at = run.at + 1 /\ run'.drop = d /\ run'.ref = run.ref
      /\ run' \in [at : 1..(Len(View) + 1), drop : Seq(E), ref : [N -> Nat]]
  <2>1. run.at + 1 \in 1..(Len(View) + 1)
    BY <1>4
  <2>2. d \in Seq(E)
    OBVIOUS
  <2> DEFINE R == [N -> Nat]
             S == Seq(E)
             I == 1..(Len(View) + 1)
  <2>3. run \in [at : I, drop : S, ref : R] /\ run.at + 1 \in I /\ d \in S
    BY <1>3, <2>1, <2>2
  <2> HIDE DEF E, N, R, S, I
  <2>4. run'.at = run.at + 1 /\ run'.drop = d /\ run'.ref = run.ref /\ run' \in [at : I, drop : S, ref : R]
    BY <2>3
  <2>5. QED
    BY <2>4 DEF R, S, I
<1>6. /\ n \in Gates /\ n \notin here /\ Before(run.at + 1) = here \cup {n}
  BY <1>2, <1>4, ViewOrder DEF Visited
<1>7. /\ Gates' = Gates /\ Inputs' = Inputs /\ View' = View
      /\ \A f : Fanouts(f)' = Fanouts(f) /\ Fanins(f)' = Fanins(f)
      /\ \A i : Before(i)' = Before(i)
  BY SameNet
<1>8. Before(run.at)' = here \cup {n}
  BY <1>5, <1>6, <1>7 DEF Before
<1>9. Released(Top)' = Released(c) \cup (IF n \in N /\ gone THEN {n} ELSE {})
  <2>1. Released(Top)' = {m \in N \cap (here \cup {n}) : (~c.reverse /\ m \in c.target) \/ m \notin computed'}
    BY <1>1, <1>8 DEF Released
  <2>2. \A m : m # n => (m \in computed' <=> m \in computed)
    OBVIOUS
  <2>3. QED
    BY <1>6, <2>1, <2>2 DEF Released
<1>10. n \notin Released(c)
  BY <1>6 DEF Released
<1>11. ToSet(<<>>) = {}
  BY DEF ToSet
<1>12. n \in N => ToSet(d) = IF gone THEN {<<n, f>> : f \in Fanins(n)} ELSE {}
  OBVIOUS
<1>13. n \notin N => ToSet(d) = {}
  BY <1>11
<1>14. /\ n \in N => /\ n \notin computed' => Referrers(c, n) = {}
                     /\ n \in computed' /\ (c.reverse \/ n \notin c.target) => Referrers(c, n) # {}
                     /\ n \in c.target /\ ~c.reverse => n \in computed'
       /\ \A m : m # n => (m \in computed' <=> m \in computed)
  OBVIOUS
<1>15. run'.drop = d /\ Distinct(d) /\ c' = c
  BY <1>1, <1>5
<1>16. gone <=> (~c.reverse /\ n \in c.target) \/ n \notin computed'
  OBVIOUS
<1> HIDE DEF gone, here, n, N, c
<1>17. ASSUME NEW f \in N PROVE Referrers(Top, f)' = Referrers(c, f)
  <2>1. f \in Gates
    BY <1>2
  <2>2. Referrers(Top, f)' = {m \in Fanouts(f) \cap N : m \notin Released(Top)' \/ <<m, f>> \in ToSet(d)}
    BY <1>7, <1>15 DEF Referrers, N, c
  <2>3. Referrers(c, f) = {m \in Fanouts(f) \cap N : m \notin Released(c)}
    BY <1>1, <1>11 DEF Referrers, N
  <2>4. ASSUME NEW m \in Fanouts(f) \cap N
        PROVE  (m \notin Released(Top)' \/ <<m, f>> \in ToSet(d)) <=> m \notin Released(c)
    <3>1. CASE m = n
      <4>1. f \in Fanins(n)
        BY <1>2, <2>1, <2>4, <3>1 DEF Wired
      <4>2. CASE gone
        BY <1>10, <1>12, <2>4, <3>1, <4>1, <4>2
      <4>3. CASE ~gone
        BY <1>9, <1>10, <3>1, <4>3
      <4>4. QED
        BY <4>2, <4>3
    <3>2. CASE m # n
      <4>1. <<m, f>> \notin ToSet(d)
        BY <1>12, <1>13, <3>2
      <4>2. QED
        BY <1>9, <3>2, <4>1
    <3>3. QED
      BY <3>1, <3>2
  <2>5. QED
    BY <2>2, <2>3, <2>4
<1>18. ASSUME NEW e \in ToSet(d) PROVE e[1] \in Released(Top)' /\ e[2] \in Fanins(e[1])
  <2>1. n \in N /\ gone /\ e \in {<<n, f>> : f \in Fanins(n)}
    BY <1>12, <1>13, <1>18
  <2>2. e[1] = n /\ e[2] \in Fanins(n)
    BY <2>1
  <2>3. QED
    BY <1>9, <2>1, <2>2
<1>19. ASSUME NEW m \in N \cap (here \cup {n})
       PROVE  /\ m \notin computed' => Referrers(c, m) = {}
              /\ m \in computed' /\ (c.reverse \/ m \notin c.target) => Referrers(c, m) # {}
              /\ m \in c.target /\ ~c.reverse => m \in computed'
  BY <1>3, <1>14
<1>20. \A m \in N \ (here \cup {n}) : m \in computed' <=> (c.reverse /\ m \in c.target)
  BY <1>3, <1>14
<1>21. Counted(Top)'
  <2>1. (run \in [at : 1..(Len(View) + 1), drop : Seq(Gates \X (Inputs \cup Gates)), ref : [Top.nodes -> Nat]])'
    BY <1>5, <1>7, <1>15 DEF N, c
  <2>2. Distinct(run.drop)'
    BY <1>15 DEF Distinct
  <2>3. (\A e \in ToSet(run.drop) : e[1] \in Released(Top) /\ e[2] \in Fanins(e[1]))'
    BY <1>7, <1>15, <1>18 DEF ToSet
  <2>4. (\A f \in Top.nodes : run.ref[f] = Cardinality(Referrers(Top, f)))'
    BY <1>3, <1>5, <1>15, <1>17 DEF N, c
  <2>5. (\A m \in Top.nodes \cap Before(run.at) :
           /\ m \notin computed => Referrers(Top, m) = {}
           /\ m \in computed /\ (Top.reverse \/ m \notin Top.target) => Referrers(Top, m) # {}
           /\ m \in Top.target /\ ~Top.reverse => m \in computed)'
    BY <1>8, <1>15, <1>17, <1>19 DEF N, c
  <2>6. (\A m \in Top.nodes \ Before(run.at) : m \in computed <=> (Top.reverse /\ m \in Top.target))'
    BY <1>8, <1>15, <1>20 DEF N, c
  <2>7. QED
    BY <2>1, <2>2, <2>3, <2>4, <2>5, <2>6 DEF Counted
<1>22. QED
  BY <1>21

\* What is visited.
LEMMA VisitFacts ==
  ASSUME PebblingInv, Visiting
  PROVE  /\ stack # <<>> /\ Top.do = "set" /\ run.drop = <<>>
         /\ Visited \in Gates /\ Visited \notin Released(Top)
         /\ Fanins(Visited) \cap Gates \subseteq Before(run.at)
         /\ Visited \in Top.nodes => (Visited \in computed <=> (Top.reverse /\ Visited \in Top.target))
         /\ \A m \in Fanouts(Visited) : m \notin Released(Top)
         /\ ToSet(<<>>) = {} /\ Distinct(<<>>) /\ <<>> \in Seq(Gates \X (Inputs \cup Gates))
         /\ run = [at |-> run.at, drop |-> run.drop, ref |-> run.ref]
<1>1. stack # <<>> /\ Top.do = "set" /\ run.drop = <<>> /\ run.at <= Len(View)
  BY DEF Visiting
<1>2. Wired /\ Counted(Top)
  BY <1>1, SetFacts
<1>3. run \in [at : 1..(Len(View) + 1), drop : Seq(Gates \X (Inputs \cup Gates)), ref : [Top.nodes -> Nat]]
      /\ \A m \in Top.nodes \ Before(run.at) : m \in computed <=> (Top.reverse /\ m \in Top.target)
  BY <1>2 DEF Counted
<1>4. run.at \in 1..Len(View) /\ run = [at |-> run.at, drop |-> run.drop, ref |-> run.ref]
  BY <1>1, <1>2, <1>3 DEF Wired
<1>5. /\ Visited \in Gates /\ Visited \notin Before(run.at)
      /\ Before(run.at + 1) = Before(run.at) \cup {Visited}
      /\ Fanins(Visited) \cap Gates \subseteq Before(run.at)
      /\ \A m \in Fanouts(Visited) : m \notin Before(run.at + 1)
  BY <1>2, <1>4, ViewOrder DEF Visited
<1>6. Released(Top) \subseteq Before(run.at)
  BY DEF Released
<1>7. ToSet(<<>>) = {} /\ Distinct(<<>>) /\ <<>> \in Seq(Gates \X (Inputs \cup Gates))
  BY EmptySeq DEF ToSet, Distinct
<1>8. QED
  BY <1>1, <1>3, <1>4, <1>5, <1>6, <1>7

\* What is not of the set, or a target that is still referred to, is passed by.
LEMMA PassNodeKeeps ==
  ASSUME PebblingInv, PassNode
  PROVE  PebblingInv'
<1>1. /\ Visiting /\ (Visited \notin Top.nodes \/ Needed)
      /\ run' = [run EXCEPT !.at = @ + 1]
      /\ UNCHANGED <<func, xag, net, stack, computed, steps>>
  BY DEF PassNode
<1>2. /\ stack # <<>> /\ Top.do = "set" /\ run.drop = <<>>
      /\ ToSet(<<>>) = {} /\ Distinct(<<>>) /\ <<>> \in Seq(Gates \X (Inputs \cup Gates))
      /\ Visited \in Top.nodes => (Visited \in computed <=> (Top.reverse /\ Visited \in Top.target))
      /\ run = [at |-> run.at, drop |-> run.drop, ref |-> run.ref]
  BY <1>1, VisitFacts
<1>3. run' = [run EXCEPT !.at = @ + 1, !.drop = <<>>]
  <2> DEFINE r == [at |-> run.at, drop |-> run.drop, ref |-> run.ref]
  <2>1. [r EXCEPT !.at = @ + 1] = [r EXCEPT !.at = @ + 1, !.drop = <<>>]
    BY <1>2
  <2>2. run = r
    BY <1>2
  <2> HIDE DEF r
  <2>3. QED
    BY <1>1, <2>1, <2>2
<1>4. Visited \in Top.nodes => Visited \in Top.target /\ Top.reverse /\ Referrers(Top, Visited) # {}
  <2>1. SUFFICES ASSUME Visited \in Top.nodes, Needed PROVE Referrers(Top, Visited) # {}
    BY <1>1 DEF Needed
  <2>2. run.ref[Visited] = Cardinality(Referrers(Top, Visited)) /\ run.ref[Visited] # 0
    BY <1>2, <2>1, SetFacts DEF Counted, Needed
  <2>3. QED
    BY <2>2, FS_EmptySet
<1>5. Counted(Top)'
  BY <1>1, <1>2, <1>3, <1>4, VisitCounts
<1>6. Lowered' /\ (computed \in SUBSET Gates)' /\ Recorded'
  BY <1>1, NoPebbleMoves
<1>7. QED
  BY <1>1, <1>2, <1>5, <1>6, SetStepKeeps

\* A gate that is no target is computed, and refers to what it builds on.
LEMMA VisitNodeKeeps ==
  ASSUME PebblingInv, VisitNode
  PROVE  PebblingInv'
<1>1. /\ Visiting /\ Visited \in Top.nodes /\ Visited \notin Top.target
      /\ compute_node(Visited, TRUE)
      /\ run' = [run EXCEPT !.at = @ + 1]
      /\ UNCHANGED <<func, xag, net, stack>>
  BY DEF VisitNode
<1>2. /\ stack # <<>> /\ Top.do = "set" /\ run.drop = <<>>
      /\ ToSet(<<>>) = {} /\ Distinct(<<>>) /\ <<>> \in Seq(Gates \X (Inputs \cup Gates))
      /\ Visited \in Gates /\ Visited \notin computed /\ Visited \notin Released(Top)
      /\ Fanins(Visited) \cap Gates \subseteq Before(run.at)
      /\ \A m \in Fanouts(Visited) : m \notin Released(Top)
      /\ run = [at |-> run.at, drop |-> run.drop, ref |-> run.ref]
  BY <1>1, VisitFacts
<1>3. run' = [run EXCEPT !.at = @ + 1, !.drop = <<>>]
  <2> DEFINE r == [at |-> run.at, drop |-> run.drop, ref |-> run.ref]
  <2>1. [r EXCEPT !.at = @ + 1] = [r EXCEPT !.at = @ + 1, !.drop = <<>>]
    BY <1>2
  <2>2. run = r
    BY <1>2
  <2> HIDE DEF r
  <2>3. QED
    BY <1>1, <2>1, <2>2
<1>4. Referrers(Top, Visited) # {}
  <2>1. PICK m \in Fanouts(Visited) \cap Top.nodes : TRUE
    BY <1>1, <1>2, SetFacts
  <2>2. QED
    BY <1>2, <2>1 DEF Referrers
<1>5. Fanins(Visited) \subseteq Inputs \cup computed
  BY <1>1, <1>2, FaninsAreThere
<1>6. computed' = computed \cup {Visited} /\ Lowered' /\ (computed \in SUBSET Gates)' /\ Recorded'
  <2>1. TRUE \in BOOLEAN
    OBVIOUS
  <2>2. QED
    BY <1>1, <1>2, <1>5, <2>1, PebbleMoves
<1>7. Counted(Top)'
  BY <1>1, <1>2, <1>3, <1>4, <1>6, VisitCounts
<1>8. computed' \ Top.nodes = computed \ Top.nodes
  BY <1>1, <1>6
<1>9. QED
  BY <1>1, <1>2, <1>6, <1>7, <1>8, SetStepKeeps

\* A target is set as it should be, and gives up its references.
LEMMA VisitTargetKeeps ==
  ASSUME PebblingInv, VisitTarget
  PROVE  PebblingInv'
<1>1. /\ Visiting /\ Visited \in Top.target /\ ~Needed
      /\ compute_node(Visited, ~Top.reverse)
      /\ run' = [run EXCEPT !.at = @ + 1, !.drop = Edges(Visited)]
      /\ UNCHANGED <<func, xag, net, stack>>
  BY DEF VisitTarget
<1>2. /\ stack # <<>> /\ Top.do = "set"
      /\ Visited \in Gates /\ Visited \notin Released(Top)
      /\ Fanins(Visited) \cap Gates \subseteq Before(run.at)
      /\ Visited \in Top.nodes => (Visited \in computed <=> (Top.reverse /\ Visited \in Top.target))
  BY <1>1, VisitFacts
<1>3. /\ Wired /\ Top \in Calls /\ Counted(Top) /\ Visited \in Top.nodes
      /\ Top.reverse => Outputs \cap Top.nodes = {}
  BY <1>1, <1>2, SetFacts
<1>4. Edges(Visited) \in Seq(Gates \X (Inputs \cup Gates)) /\ Distinct(Edges(Visited))
      /\ ToSet(Edges(Visited)) = {<<Visited, f>> : f \in Fanins(Visited)}
  BY <1>2, <1>3, EdgesFacts
<1>5. Top.reverse => Referrers(Top, Visited) = {}
  <2>1. SUFFICES ASSUME Top.reverse PROVE Referrers(Top, Visited) = {}
    OBVIOUS
  <2>2. run.ref[Visited] = 0 /\ run.ref[Visited] = Cardinality(Referrers(Top, Visited))
    BY <1>1, <1>3, <2>1 DEF Needed, Counted
  <2>3. IsFiniteSet(Referrers(Top, Visited))
    BY <1>2, <1>3, ReferrersAreFinite
  <2>4. QED
    BY <2>2, <2>3, FS_EmptySet
<1>6. Fanins(Visited) \subseteq Inputs \cup computed
  BY <1>2, <1>3, FaninsAreThere
<1>7. Top.reverse \in BOOLEAN /\ (~Top.reverse) \in BOOLEAN
  BY <1>3 DEF Calls
<1>8. /\ computed' = (IF ~Top.reverse THEN computed \cup {Visited} ELSE computed \ {Visited})
      /\ Lowered' /\ (computed \in SUBSET Gates)' /\ Recorded'
  <2>1. (~Top.reverse => Visited \notin computed) /\ (Top.reverse => Visited \in computed \ Outputs)
    BY <1>1, <1>2, <1>3
  <2> DEFINE forwards == ~Top.reverse
  <2>2. /\ forwards \in BOOLEAN /\ compute_node(Visited, forwards)
        /\ forwards => Visited \notin computed
        /\ ~forwards => Visited \in computed \ Outputs
    BY <1>1, <1>7, <2>1
  <2> HIDE DEF forwards
  <2>3. /\ computed' = (IF forwards THEN computed \cup {Visited} ELSE computed \ {Visited})
        /\ Lowered' /\ (computed \in SUBSET Gates)' /\ Recorded'
    BY <1>1, <1>2, <1>6, <2>2, PebbleMoves
  <2>4. QED
    BY <2>3 DEF forwards
<1>9. Visited \in computed' <=> ~Top.reverse
  BY <1>8
<1>10. computed' \ {Visited} = computed \ {Visited} /\ computed' \ Top.nodes = computed \ Top.nodes
  BY <1>3, <1>8
<1>11. Counted(Top)'
  BY <1>1, <1>3, <1>4, <1>5, <1>9, <1>10, VisitCounts
<1>12. QED
  BY <1>1, <1>2, <1>8, <1>10, <1>11, SetStepKeeps

----------------------------------------------------------------------------
(* uncompute_eagerly. *)

\* What is dropped is a reference of a released gate.
LEMMA DropFacts ==
  ASSUME PebblingInv, Dropping
  PROVE  LET p == Head(run.drop)[1]
         IN  /\ stack # <<>> /\ Top.do = "set"
             /\ Head(run.drop) = <<p, Dropped>>
             /\ p \in Released(Top) /\ p \in Top.nodes /\ Dropped \in Fanins(p)
             /\ Tail(run.drop) \in Seq(Gates \X (Inputs \cup Gates)) /\ Distinct(Tail(run.drop))
             /\ <<p, Dropped>> \in ToSet(run.drop)
             /\ ToSet(Tail(run.drop)) = ToSet(run.drop) \ {<<p, Dropped>>}
             /\ Dropped \in Top.nodes =>
                  p \in Referrers(Top, Dropped) /\ Dropped \in Before(run.at) /\ Dropped \in computed
             /\ run \in [at : 1..(Len(View) + 1), drop : Seq(Gates \X (Inputs \cup Gates)), ref : [Top.nodes -> Nat]]
<1> DEFINE e == Head(run.drop)
           p == e[1]
           f == e[2]
           E == Gates \X (Inputs \cup Gates)
<1>1. stack # <<>> /\ Top.do = "set" /\ run.drop # <<>> /\ Dropped = f
  BY DEF Dropping, Dropped
<1>2. Wired /\ Counted(Top) /\ Top.nodes \subseteq Gates
  BY <1>1, SetFacts
<1>3. /\ run \in [at : 1..(Len(View) + 1), drop : Seq(E), ref : [Top.nodes -> Nat]]
      /\ Distinct(run.drop)
      /\ \A x \in ToSet(run.drop) : x[1] \in Released(Top) /\ x[2] \in Fanins(x[1])
      /\ \A n \in Top.nodes \cap Before(run.at) : n \notin computed => Referrers(Top, n) = {}
  BY <1>2 DEF Counted
<1>4. run.drop \in Seq(E)
  BY <1>3
<1>5. /\ Tail(run.drop) \in Seq(E) /\ Distinct(Tail(run.drop))
      /\ e \in ToSet(run.drop) /\ ToSet(Tail(run.drop)) = ToSet(run.drop) \ {e}
  <2> HIDE DEF E
  <2>1. QED
    BY <1>1, <1>3, <1>4, OneLess
<1>6. e \in E
  BY <1>4, <1>5, MembersOfSeq
<1> HIDE DEF e
<1>7. e = <<p, f>> /\ p \in Gates
  BY <1>6
<1>8. p \in Released(Top) /\ f \in Fanins(p) /\ p \in Top.nodes /\ p \in Before(run.at)
  BY <1>3, <1>5 DEF Released
<1>9. ASSUME f \in Top.nodes PROVE p \in Referrers(Top, f) /\ f \in Before(run.at) /\ f \in computed
  <2>1. f \in Gates /\ p \in Fanouts(f)
    BY <1>2, <1>7, <1>8, <1>9 DEF Wired
  <2>2. p \in Referrers(Top, f)
    BY <1>5, <1>7, <1>8, <2>1 DEF Referrers
  <2>3. f \in Before(run.at)
    <3>1. run.at \in 1..(Len(View) + 1)
      BY <1>3
    <3>2. QED
      BY <1>2, <1>8, <2>1, <3>1, ViewOrder
  <2>4. QED
    BY <1>3, <1>9, <2>2, <2>3
<1>10. QED
  BY <1>1, <1>3, <1>5, <1>7, <1>8, <1>9 DEF e

\* A reference that goes is no longer counted.
LEMMA DropEdgeKeeps ==
  ASSUME PebblingInv, DropEdge
  PROVE  PebblingInv'
<1> DEFINE p == Head(run.drop)[1]
           f == Dropped
           N == Top.nodes
           rest == Tail(run.drop)
<1>1. /\ Dropping /\ ~Unneeded
      /\ run' = [run EXCEPT !.drop = Tail(@), !.ref = [g \in DOMAIN @ |-> IF g = Dropped THEN @[g] - 1 ELSE @[g]]]
      /\ UNCHANGED <<func, xag, net, stack, computed, steps>> /\ Top' = Top
  BY DEF DropEdge, Top
<1>2. /\ stack # <<>> /\ Top.do = "set"
      /\ p \in Released(Top) /\ p \in N /\ f \in Fanins(p)
      /\ rest \in Seq(Gates \X (Inputs \cup Gates)) /\ Distinct(rest)
      /\ <<p, f>> \in ToSet(run.drop)
      /\ ToSet(rest) = ToSet(run.drop) \ {<<p, f>>}
      /\ f \in N => p \in Referrers(Top, f) /\ f \in Before(run.at) /\ f \in computed
      /\ run \in [at : 1..(Len(View) + 1), drop : Seq(Gates \X (Inputs \cup Gates)), ref : [N -> Nat]]
  BY <1>1, DropFacts
<1>3. Wired /\ Counted(Top) /\ N \subseteq Gates
  BY <1>2, SetFacts
<1> HIDE DEF p, f, N, rest
<1>4. /\ run'.at = run.at /\ run'.drop = rest
      /\ run' = [at |-> run.at, drop |-> rest, ref |-> run'.ref]
      /\ run'.ref = [g \in N |-> IF g = f THEN run.ref[g] - 1 ELSE run.ref[g]]
  <2> DEFINE S == Seq(Gates \X (Inputs \cup Gates))
             I == 1..(Len(View) + 1)
  <2>1. run \in [at : I, drop : S, ref : [N -> Nat]]
    BY <1>2
  <2> HIDE DEF S, I
  <2>2. DOMAIN run.ref = N
    BY <2>1
  <2>3. QED
    BY <1>1, <2>1, <2>2 DEF f, rest
<1>5. /\ Gates' = Gates /\ Inputs' = Inputs /\ View' = View
      /\ \A g : Fanouts(g)' = Fanouts(g) /\ Fanins(g)' = Fanins(g)
      /\ \A i : Before(i)' = Before(i)
  BY <1>1, SameNet
<1>6. Before(run.at)' = Before(run.at)
  BY <1>4, <1>5 DEF Before
<1>7. Released(Top)' = Released(Top)
  BY <1>1, <1>6 DEF Released
<1>8. \A g \in N : Referrers(Top, g)' = {m \in Fanouts(g) \cap N : m \notin Released(Top) \/ <<m, g>> \in ToSet(rest)}
  BY <1>1, <1>4, <1>5, <1>7, ZenonT(40) DEF Referrers, N
<1>9. ASSUME NEW g \in N PROVE Referrers(Top, g)' = IF g = f THEN Referrers(Top, f) \ {p} ELSE Referrers(Top, g)
  <2>1. Referrers(Top, g) = {m \in Fanouts(g) \cap N : m \notin Released(Top) \/ <<m, g>> \in ToSet(run.drop)}
    BY DEF Referrers, N
  <2>2. \A m : <<m, g>> \in ToSet(rest) <=> <<m, g>> \in ToSet(run.drop) /\ ~(m = p /\ g = f)
    BY <1>2
  <2>3. \A m : (m \notin Released(Top) \/ <<m, g>> \in ToSet(rest))
                 <=> (m \notin Released(Top) \/ <<m, g>> \in ToSet(run.drop)) /\ ~(m = p /\ g = f)
    BY <1>2, <2>2
  <2>4. Referrers(Top, g)' = {m \in Fanouts(g) \cap N : m \notin Released(Top) \/ <<m, g>> \in ToSet(rest)}
    BY <1>8
  <2>5. CASE g = f
    BY <2>1, <2>3, <2>4, <2>5
  <2>6. CASE g # f
    BY <2>1, <2>3, <2>4, <2>6
  <2>7. QED
    BY <2>5, <2>6
<1>10. ASSUME NEW g \in N
       PROVE  /\ IsFiniteSet(Referrers(Top, g)) /\ Cardinality(Referrers(Top, g)) \in Nat
              /\ run.ref[g] = Cardinality(Referrers(Top, g))
  <2>1. IsFiniteSet(Referrers(Top, g))
    BY <1>3, ReferrersAreFinite
  <2>2. QED
    BY <1>3, <2>1, FS_CardinalityType DEF Counted, N
<1>11. ASSUME f \in N
       PROVE  /\ Cardinality(Referrers(Top, f) \ {p}) = Cardinality(Referrers(Top, f)) - 1
              /\ run.ref[f] - 1 \in Nat
  <2>1. p \in Referrers(Top, f) /\ IsFiniteSet(Referrers(Top, f))
    BY <1>2, <1>10, <1>11
  <2>2. Cardinality(Referrers(Top, f) \ {p}) = Cardinality(Referrers(Top, f)) - 1
    BY <2>1, FS_RemoveElement
  <2>3. Cardinality(Referrers(Top, f)) # 0
    BY <2>1, FS_EmptySet
  <2>4. QED
    BY <1>10, <1>11, <2>2, <2>3
<1>12. \A g \in N : run'.ref[g] \in Nat /\ run'.ref[g] = Cardinality(Referrers(Top, g)')
  BY <1>4, <1>9, <1>10, <1>11
<1>13. ASSUME NEW g \in N, g = f, Top.reverse \/ g \notin Top.target PROVE Referrers(Top, g)' # {}
  <2>1. run.ref[g] # 1
    BY <1>1, <1>13 DEF Unneeded, MayGo, f, N
  <2>2. run'.ref[g] # 0
    BY <1>4, <1>10, <1>13, <2>1
  <2>3. Cardinality(Referrers(Top, g)') # 0
    BY <1>12, <1>13, <2>2
  <2>4. Cardinality({}) = 0
    BY FS_EmptySet
  <2>5. QED
    BY <2>3, <2>4
<1>14. Counted(Top)'
  <2>1. (run \in [at : 1..(Len(View) + 1), drop : Seq(Gates \X (Inputs \cup Gates)), ref : [Top.nodes -> Nat]])'
    <3>1. run'.ref \in [N -> Nat]
      BY <1>4, <1>12
    <3>2. run.at \in 1..(Len(View) + 1)
      BY <1>2
    <3> DEFINE S == Seq(Gates \X (Inputs \cup Gates))
    <3>3. rest \in S
      BY <1>2
    <3> HIDE DEF S
    <3>4. run' \in [at : 1..(Len(View) + 1), drop : S, ref : [N -> Nat]]
      BY <1>4, <3>1, <3>2, <3>3
    <3>5. QED
      BY <1>1, <1>5, <3>4 DEF S, N
  <2>2. Distinct(run.drop)'
    BY <1>2, <1>4 DEF Distinct
  <2>3. (\A e \in ToSet(run.drop) : e[1] \in Released(Top) /\ e[2] \in Fanins(e[1]))'
    <3>1. ToSet(run.drop)' = ToSet(rest)
      BY <1>4 DEF ToSet
    <3>2. QED
      BY <1>2, <1>3, <1>5, <1>7, <3>1 DEF Counted
  <2>4. (\A g \in Top.nodes : run.ref[g] = Cardinality(Referrers(Top, g)))'
    BY <1>1, <1>12 DEF N
  <2>5. ASSUME NEW m \in N \cap Before(run.at)
        PROVE  /\ m \notin computed => Referrers(Top, m)' = {}
               /\ m \in computed /\ (Top.reverse \/ m \notin Top.target) => Referrers(Top, m)' # {}
               /\ m \in Top.target /\ ~Top.reverse => m \in computed
    <3>1. /\ m \notin computed => Referrers(Top, m) = {}
          /\ m \in computed /\ (Top.reverse \/ m \notin Top.target) => Referrers(Top, m) # {}
          /\ m \in Top.target /\ ~Top.reverse => m \in computed
      BY <1>3 DEF Counted, N
    <3>2. CASE m = f
      <4>1. m \in N /\ m \in computed
        BY <1>2, <3>2
      <4>2. Top.reverse \/ m \notin Top.target => Referrers(Top, m)' # {}
        BY <1>13, <3>2, <4>1
      <4>3. QED
        BY <3>2, <4>1, <4>2
    <3>3. CASE m # f
      BY <1>9, <3>1, <3>3
    <3>4. QED
      BY <3>2, <3>3
  <2>6. \A m \in N \ Before(run.at) : m \in computed <=> (Top.reverse /\ m \in Top.target)
    BY <1>3 DEF Counted, N
  <2>7. (\A m \in Top.nodes \cap Before(run.at) :
           /\ m \notin computed => Referrers(Top, m) = {}
           /\ m \in computed /\ (Top.reverse \/ m \notin Top.target) => Referrers(Top, m) # {}
           /\ m \in Top.target /\ ~Top.reverse => m \in computed)'
    BY <1>1, <1>6, <2>5 DEF N
  <2>8. (\A m \in Top.nodes \ Before(run.at) : m \in computed <=> (Top.reverse /\ m \in Top.target))'
    BY <1>1, <1>6, <2>6 DEF N
  <2>9. QED
    BY <2>1, <2>2, <2>3, <2>4, <2>7, <2>8 DEF Counted
<1>15. Lowered' /\ (computed \in SUBSET Gates)' /\ Recorded'
  BY <1>1, NoPebbleMoves
<1>16. QED
  BY <1>1, <1>2, <1>14, <1>15, SetStepKeeps

\* A gate that has lost its last reference goes, and gives up its own.
LEMMA DropNodeKeeps ==
  ASSUME PebblingInv, DropNode
  PROVE  PebblingInv'
<1> DEFINE p == Head(run.drop)[1]
           f == Dropped
           N == Top.nodes
           rest == Tail(run.drop)
           drop == Edges(f) \o rest
           E == Gates \X (Inputs \cup Gates)
<1>1. /\ Dropping /\ f \in N /\ run.ref[f] = 1 /\ (Top.reverse \/ f \notin Top.target)
      /\ compute_node(f, FALSE)
      /\ run' = [run EXCEPT !.drop = Edges(Dropped) \o Tail(@), !.ref[Dropped] = 0]
      /\ UNCHANGED <<func, xag, net, stack>> /\ Top' = Top
  BY DEF DropNode, Unneeded, MayGo, Top
<1>2. /\ stack # <<>> /\ Top.do = "set"
      /\ p \in Released(Top) /\ p \in N /\ f \in Fanins(p)
      /\ rest \in Seq(E) /\ Distinct(rest)
      /\ <<p, f>> \in ToSet(run.drop)
      /\ ToSet(rest) = ToSet(run.drop) \ {<<p, f>>}
      /\ p \in Referrers(Top, f) /\ f \in Before(run.at) /\ f \in computed
      /\ run \in [at : 1..(Len(View) + 1), drop : Seq(E), ref : [N -> Nat]]
  BY <1>1, DropFacts
<1>3. /\ Wired /\ Counted(Top) /\ N \subseteq Gates /\ computed \in SUBSET Gates
      /\ Outputs \cap N \subseteq Top.target /\ (Top.reverse => Outputs \cap N = {})
  BY <1>2, SetFacts
<1>4. /\ Edges(f) \in Seq(E) /\ Distinct(Edges(f)) /\ ToSet(Edges(f)) = {<<f, g>> : g \in Fanins(f)}
      /\ f \in Gates /\ f \notin Fanins(f) /\ Fanins(f) \cap Gates \subseteq Before(run.at)
  <2>1. f \in Gates
    BY <1>1, <1>3
  <2>2. run.at \in 1..(Len(View) + 1)
    BY <1>2
  <2>3. f \notin Fanins(f) /\ Fanins(f) \cap Gates \subseteq Before(run.at)
    BY <1>2, <1>3, <2>1, <2>2, ViewOrder
  <2>4. QED
    BY <1>3, <2>1, <2>3, EdgesFacts
<1> HIDE DEF p, f, N, rest
<1>5. f \notin Released(Top)
  BY <1>1, <1>2 DEF Released
<1>6. ASSUME NEW e \in ToSet(run.drop) PROVE e[1] \in Released(Top) /\ e[2] \in Fanins(e[1]) /\ e[1] # f
  BY <1>3, <1>5 DEF Counted
<1>7. drop \in Seq(E) /\ Distinct(drop) /\ ToSet(drop) = {<<f, g>> : g \in Fanins(f)} \cup ToSet(rest)
  <2>1. ToSet(Edges(f)) \cap ToSet(rest) = {}
    <3>1. SUFFICES ASSUME NEW e \in ToSet(Edges(f)), e \in ToSet(rest) PROVE FALSE
      OBVIOUS
    <3>2. e[1] = f
      BY <1>4, <3>1
    <3>3. e[1] # f
      BY <1>2, <1>6, <3>1
    <3>4. QED
      BY <3>2, <3>3
  <2> HIDE DEF E
  <2>2. QED
    BY <1>2, <1>4, <2>1, Joined
<1> HIDE DEF drop
<1>8. /\ run'.at = run.at /\ run'.drop = drop
      /\ run' = [at |-> run.at, drop |-> drop, ref |-> run'.ref]
      /\ run'.ref = [run.ref EXCEPT ![f] = 0]
  <2> DEFINE S == Seq(E)
             I == 1..(Len(View) + 1)
  <2>1. run \in [at : I, drop : S, ref : [N -> Nat]]
    BY <1>2
  <2> HIDE DEF S, I, E
  <2>2. QED
    BY <1>1, <2>1 DEF f, rest, drop
<1>9. /\ Gates' = Gates /\ Inputs' = Inputs /\ View' = View
      /\ \A g : Fanouts(g)' = Fanouts(g) /\ Fanins(g)' = Fanins(g)
      /\ \A i : Before(i)' = Before(i)
  BY <1>1, SameNet
<1>10. Before(run.at)' = Before(run.at)
  BY <1>8, <1>9 DEF Before
<1>11. Fanins(f) \subseteq Inputs \cup computed
  BY <1>1, <1>2, <1>4, <1>5, FaninsAreThere DEF N
<1>12. computed' = computed \ {f} /\ Lowered' /\ (computed \in SUBSET Gates)' /\ Recorded'
  <2>1. FALSE \in BOOLEAN
    OBVIOUS
  <2>2. f \in computed \ Outputs
    BY <1>1, <1>2, <1>3
  <2>3. QED
    BY <1>1, <1>4, <1>11, <2>1, <2>2, PebbleMoves
<1>13. Released(Top)' = Released(Top) \cup {f}
  <2>1. Released(Top)' = {m \in N \cap Before(run.at) : (~Top.reverse /\ m \in Top.target) \/ m \notin computed'}
    BY <1>1, <1>10 DEF Released, N
  <2>2. f \in N \cap Before(run.at) /\ f \notin computed'
    BY <1>1, <1>2, <1>12
  <2>3. Released(Top) = {m \in N \cap Before(run.at) : (~Top.reverse /\ m \in Top.target) \/ m \notin computed}
    BY DEF Released, N
  <2>4. QED
    BY <1>12, <2>1, <2>2, <2>3
<1>14. \A g \in N : Referrers(Top, g)' = {m \in Fanouts(g) \cap N : m \notin Released(Top)' \/ <<m, g>> \in ToSet(drop)}
  BY <1>1, <1>8, <1>9 DEF Referrers, N
<1>15. \A g \in N : Referrers(Top, g) = {m \in Fanouts(g) \cap N : m \notin Released(Top) \/ <<m, g>> \in ToSet(run.drop)}
  BY DEF Referrers, N
<1>16. ASSUME NEW g \in N PROVE Referrers(Top, g)' = IF g = f THEN Referrers(Top, f) \ {p} ELSE Referrers(Top, g)
  <2>1. ASSUME NEW m \in Fanouts(g) \cap N
        PROVE  (m \notin Released(Top)' \/ <<m, g>> \in ToSet(drop))
                 <=> (m \notin Released(Top) \/ <<m, g>> \in ToSet(run.drop)) /\ ~(m = p /\ g = f)
    <3>1. m \in Gates /\ g \in Gates /\ g \in Fanins(m)
      BY <1>3, <2>1 DEF Wired
    <3>2. CASE m = f
      <4>1. <<m, g>> \in ToSet(drop)
        BY <1>7, <3>1, <3>2
      <4>2. p # f
        BY <1>2, <1>5
      <4>3. QED
        BY <1>5, <3>2, <4>1, <4>2
    <3>3. CASE m # f
      <4>1. m \in Released(Top)' <=> m \in Released(Top)
        BY <1>13, <3>3
      <4>2. <<m, g>> \in ToSet(drop) <=> <<m, g>> \in ToSet(run.drop) /\ ~(m = p /\ g = f)
        BY <1>2, <1>7, <3>3
      <4>3. QED
        BY <1>2, <4>1, <4>2
    <3>4. QED
      BY <3>2, <3>3
  <2>2. Referrers(Top, g)' = {m \in Fanouts(g) \cap N : m \notin Released(Top)' \/ <<m, g>> \in ToSet(drop)}
    BY <1>14
  <2>3. Referrers(Top, g) = {m \in Fanouts(g) \cap N : m \notin Released(Top) \/ <<m, g>> \in ToSet(run.drop)}
    BY <1>15
  <2>4. CASE g = f
    BY <2>1, <2>2, <2>3, <2>4
  <2>5. CASE g # f
    BY <2>1, <2>2, <2>3, <2>5
  <2>6. QED
    BY <2>4, <2>5
<1>17. Referrers(Top, f) \ {p} = {} /\ Cardinality({}) = 0
  <2>1. IsFiniteSet(Referrers(Top, f)) /\ Cardinality(Referrers(Top, f)) = 1
    <3>1. IsFiniteSet(Referrers(Top, f))
      BY <1>3, <1>4, ReferrersAreFinite
    <3>2. run.ref[f] = Cardinality(Referrers(Top, f))
      BY <1>1, <1>3 DEF Counted, N
    <3>3. QED
      BY <1>1, <3>1, <3>2
  <2>2. PICK x : Referrers(Top, f) = {x}
    BY <2>1, FS_Singleton
  <2>3. QED
    BY <1>2, <2>2, FS_EmptySet
<1>18. \A g \in N : run'.ref[g] = Cardinality(Referrers(Top, g)')
  <2>1. run.ref \in [N -> Nat]
    BY <1>2
  <2>2. \A g \in N : run.ref[g] = Cardinality(Referrers(Top, g))
    BY <1>3 DEF Counted, N
  <2>3. QED
    BY <1>8, <1>16, <1>17, <2>1, <2>2
<1>19. Counted(Top)'
  <2>1. (run \in [at : 1..(Len(View) + 1), drop : Seq(Gates \X (Inputs \cup Gates)), ref : [Top.nodes -> Nat]])'
    <3>1. run'.ref \in [N -> Nat]
      <4>1. run.ref \in [N -> Nat]
        BY <1>2
      <4>2. [run.ref EXCEPT ![f] = 0] = [g \in N |-> IF g = f THEN 0 ELSE run.ref[g]]
        BY <4>1
      <4>3. \A g \in N : (IF g = f THEN 0 ELSE run.ref[g]) \in Nat
        BY <4>1
      <4>4. QED
        BY <1>8, <4>2, <4>3
    <3>2. run.at \in 1..(Len(View) + 1)
      BY <1>2
    <3> DEFINE S == Seq(E)
    <3>3. drop \in S
      BY <1>7
    <3> HIDE DEF S
    <3>4. run' \in [at : 1..(Len(View) + 1), drop : S, ref : [N -> Nat]]
      BY <1>8, <3>1, <3>2, <3>3
    <3>5. QED
      BY <1>1, <1>9, <3>4 DEF S, N
  <2>2. Distinct(run.drop)'
    BY <1>7, <1>8 DEF Distinct
  <2>3. (\A e \in ToSet(run.drop) : e[1] \in Released(Top) /\ e[2] \in Fanins(e[1]))'
    <3>1. ToSet(run.drop)' = ToSet(drop)
      BY <1>8 DEF ToSet
    <3>2. ASSUME NEW e \in ToSet(drop) PROVE e[1] \in Released(Top)' /\ e[2] \in Fanins(e[1])
      <4>1. CASE e \in {<<f, g>> : g \in Fanins(f)}
        BY <1>13, <4>1
      <4>2. CASE e \in ToSet(rest)
        BY <1>2, <1>6, <1>13, <4>2
      <4>3. QED
        BY <1>7, <4>1, <4>2
    <3>3. QED
      BY <1>9, <3>1, <3>2
  <2>4. (\A g \in Top.nodes : run.ref[g] = Cardinality(Referrers(Top, g)))'
    BY <1>1, <1>18 DEF N
  <2>5. ASSUME NEW m \in N \cap Before(run.at)
        PROVE  /\ m \notin computed' => Referrers(Top, m)' = {}
               /\ m \in computed' /\ (Top.reverse \/ m \notin Top.target) => Referrers(Top, m)' # {}
               /\ m \in Top.target /\ ~Top.reverse => m \in computed'
    <3>1. /\ m \notin computed => Referrers(Top, m) = {}
          /\ m \in computed /\ (Top.reverse \/ m \notin Top.target) => Referrers(Top, m) # {}
          /\ m \in Top.target /\ ~Top.reverse => m \in computed
      BY <1>3 DEF Counted, N
    <3>2. CASE m = f
      BY <1>1, <1>12, <1>16, <1>17, <3>2
    <3>3. CASE m # f
      BY <1>12, <1>16, <3>1, <3>3
    <3>4. QED
      BY <3>2, <3>3
  <2>6. \A m \in N \ Before(run.at) : m \in computed' <=> (Top.reverse /\ m \in Top.target)
    <3>1. \A m \in N \ Before(run.at) : m \in computed <=> (Top.reverse /\ m \in Top.target)
      BY <1>3 DEF Counted, N
    <3>2. QED
      BY <1>2, <1>12, <3>1
  <2>7. (\A m \in Top.nodes \cap Before(run.at) :
           /\ m \notin computed => Referrers(Top, m) = {}
           /\ m \in computed /\ (Top.reverse \/ m \notin Top.target) => Referrers(Top, m) # {}
           /\ m \in Top.target /\ ~Top.reverse => m \in computed)'
    BY <1>1, <1>10, <2>5 DEF N
  <2>8. (\A m \in Top.nodes \ Before(run.at) : m \in computed <=> (Top.reverse /\ m \in Top.target))'
    BY <1>1, <1>10, <2>6 DEF N
  <2>9. QED
    BY <2>1, <2>2, <2>3, <2>4, <2>7, <2>8 DEF Counted
<1>20. computed' \ Top.nodes = computed \ Top.nodes
  BY <1>1, <1>12 DEF N
<1>21. QED
  BY <1>1, <1>2, <1>12, <1>19, <1>20, SetStepKeeps

----------------------------------------------------------------------------
(* The set is done. *)

\* At the end of the view every gate of the set is released: the last one that is
\* not would have nothing that refers to it.
LEMMA AllReleased ==
  ASSUME PebblingInv, stack # <<>>, Top.do = "set", run.drop = <<>>, run.at > Len(View)
  PROVE  Top.nodes \subseteq Released(Top)
<1> DEFINE l == Len(View)
           N == Top.nodes
           X == {i \in 1..l : View[i] \in N /\ View[i] \notin Released(Top)}
           T == {l - i : i \in X}
<1>1. Wired /\ Counted(Top) /\ N \subseteq Gates
  BY SetFacts
<1>2. /\ l \in Nat /\ Gates = {View[i] : i \in 1..l} /\ run.at = l + 1
  BY <1>1 DEF Wired, Counted
<1>3. Before(run.at) = Gates
  BY <1>1, <1>2, ViewOrder
<1>4. SUFFICES ASSUME X # {} PROVE FALSE
  BY <1>1, <1>2
<1>5. T \in SUBSET Nat /\ T # {}
  BY <1>2, <1>4
<1> HIDE DEF T
<1>6. PICK x \in T : \A y \in T : x <= y
  BY <1>5, LeastNumber
<1> HIDE DEF X
<1>7. PICK i \in X : x = l - i
  BY DEF T
<1>8. \A j \in X : l - i <= l - j
  BY <1>6, <1>7 DEF T
<1>9. i \in 1..l /\ View[i] \in N /\ View[i] \notin Released(Top)
  BY <1>7 DEF X
<1>10. View[i] \in computed /\ (Top.reverse \/ View[i] \notin Top.target)
  BY <1>1, <1>3, <1>9 DEF Released
<1>11. Referrers(Top, View[i]) # {}
  BY <1>1, <1>3, <1>9, <1>10 DEF Counted
<1>12. PICK m \in Fanouts(View[i]) \cap N : m \notin Released(Top)
  <2>1. ToSet(run.drop) = {}
    BY DEF ToSet
  <2>2. QED
    BY <1>11, <2>1 DEF Referrers
<1>13. PICK j \in 1..l : m = View[j]
  BY <1>1, <1>2, <1>12
<1>14. j \in X
  BY <1>12, <1>13 DEF X
<1>15. m \notin Before(i + 1)
  BY <1>1, <1>9, <1>12, ViewOrder
<1>16. ~(j <= i)
  <2>1. SUFFICES ASSUME j <= i PROVE j \in 1..((i + 1) - 1)
    BY <1>13, <1>15 DEF Before
  <2>2. QED
    BY <1>2, <1>9, <2>1
<1>17. QED
  BY <1>2, <1>8, <1>9, <1>14, <1>16

\* A set that is done has its targets computed, or uncomputed, and nothing else.
LEMMA SetDoneKeeps ==
  ASSUME PebblingInv, SetDone
  PROVE  PebblingInv'
<1> DEFINE l == Len(stack)
<1>1. /\ stack # <<>> /\ Top.do = "set" /\ run.drop = <<>> /\ run.at > Len(View)
      /\ stack' = Tail(stack) /\ UNCHANGED <<func, xag, net, computed, steps>>
  BY DEF SetDone, Below
<1>2. /\ Wired /\ Top \in Calls /\ Counted(Top) /\ Top.nodes \subseteq Gates /\ Top.target \subseteq Top.nodes
      /\ stack \in Seq(Calls)
  BY <1>1, SetFacts, BaseOfGates
<1>3. Top.nodes \subseteq Released(Top)
  BY <1>1, AllReleased
<1>4. computed = After(Top, Begun)
  <2>1. \A n \in Top.nodes : n \in computed <=> (~Top.reverse /\ n \in Top.target)
    BY <1>2, <1>3 DEF Released, Counted
  <2>2. Begun = (computed \ Top.nodes) \cup Settled(Top)
    BY <1>1 DEF Begun
  <2>3. CASE Top.reverse
    BY <1>2, <2>1, <2>2, <2>3 DEF After, Settled
  <2>4. CASE ~Top.reverse
    BY <1>2, <2>1, <2>2, <2>4 DEF After, Settled
  <2>5. QED
    BY <2>3, <2>4
<1>5. PICK P : Chain(stack, P) /\ P[1] = Begun /\ P[l + 1] = Outputs
  BY DEF PebblingInv, Planned
<1>6. l \in Nat \ {0} /\ 1 \in 1..l
  <2>1. l \in Nat /\ l # 0
    BY <1>1, <1>2, EmptySeq, LenProperties
  <2>2. QED
    BY <2>1
<1>7. P[2] = computed
  <2>1. P[1 + 1] = After(stack[1], P[1])
    BY <1>5, <1>6 DEF Chain
  <2>2. 1 + 1 = 2
    OBVIOUS
  <2>3. QED
    BY <1>4, <1>5, <2>1, <2>2 DEF Top
<1>8. Tail(stack) \in Seq(Calls) /\ Len(Tail(stack)) = l - 1
      /\ \A i \in 1..(l - 1) : Tail(stack)[i] = stack[i + 1]
  BY <1>1, <1>2, HeadTailProperties
<1> DEFINE R == [i \in 1..l |-> P[i + 1]]
<1>9. Chain(Tail(stack), R) /\ R[1] = computed /\ R[l] = Outputs
  <2>1. \A i \in 1..(l - 1) : i \in 1..l /\ i + 1 \in 1..l
    BY <1>6
  <2>2. R[1] = computed
    <3>1. 1 + 1 = 2
      OBVIOUS
    <3>2. QED
      BY <1>6, <1>7, <3>1
  <2>3. R[l] = Outputs
    BY <1>5, <1>6
  <2>4. ASSUME NEW i \in 1..(l - 1)
        PROVE  Good(Tail(stack)[i], R[i]) /\ R[i + 1] = After(Tail(stack)[i], R[i])
    <3>1. Good(stack[i + 1], P[i + 1]) /\ P[(i + 1) + 1] = After(stack[i + 1], P[i + 1])
      BY <1>5, <2>1 DEF Chain
    <3>2. R[i] = P[i + 1] /\ R[i + 1] = P[(i + 1) + 1]
      BY <2>1
    <3>3. QED
      BY <1>8, <3>1, <3>2
  <2>5. Chain(Tail(stack), R)
    <3> HIDE DEF R, l
    <3>1. QED
      BY <1>8, <2>4 DEF Chain
  <2>6. QED
    BY <2>2, <2>3, <2>5
<1> HIDE DEF R
<1>10. \A i \in 1..Len(stack') : stack'[i].do \in {"pebble", "conquer"}
  <2>1. \A i \in 1..(l - 1) : i + 1 \in 2..l
    BY <1>6
  <2>2. QED
    BY <1>1, <1>8, <2>1 DEF PebblingInv, Planned
<1>11. stack' # <<>> => stack'[1].do \in {"pebble", "conquer"}
  <2>1. SUFFICES ASSUME stack' # <<>> PROVE 1 \in 1..Len(stack')
    BY <1>10
  <2>2. Len(stack') \in Nat /\ Len(stack') # 0
    BY <1>1, <1>8, <2>1, EmptySeq, LenProperties
  <2>3. QED
    BY <2>2
<1>12. Begun' = computed
  BY <1>1, <1>11 DEF Begun, Top
<1>13. Planned'
  <2>1. /\ Calls' = Calls /\ Outputs' = Outputs
        /\ \A calls, Q : Chain(calls, Q)' <=> Chain(calls, Q)
    BY <1>1, SameNet
  <2>2. (stack \in Seq(Calls))'
    BY <1>1, <1>8, <2>1
  <2>3. (\A i \in 2..Len(stack) : stack[i].do \in {"pebble", "conquer"})'
    <3>1. \A i \in 2..Len(stack') : i \in 1..Len(stack')
      BY <1>1, <1>6, <1>8
    <3>2. QED
      BY <1>10, <3>1
  <2>4. (l - 1) + 1 = l /\ Len(stack') = l - 1
    BY <1>1, <1>6, <1>8
  <2>5. Chain(stack', R) /\ R[1] = Begun' /\ R[Len(stack') + 1] = Outputs
    <3> HIDE DEF l
    <3>1. QED
      BY <1>1, <1>9, <1>12, <2>4
  <2>6. (\E Q : Chain(stack, Q) /\ Q[1] = Begun /\ Q[Len(stack) + 1] = Outputs)'
    BY <2>1, <2>5
  <2>7. QED
    BY <2>2, <2>3, <2>6 DEF Planned
<1>14. Lowered' /\ (computed \in SUBSET Gates)' /\ Recorded'
  BY <1>1, NoPebbleMoves
<1>15. QED
  BY <1>11, <1>13, <1>14 DEF PebblingInv, Top

----------------------------------------------------------------------------
(* All steps together. *)

\* Every step of the strategy keeps the invariant.
LEMMA PebblingKeeps ==
  ASSUME PebblingInv, PebblingNext
  PROVE  PebblingInv'
BY GreedyKeeps, SetBeginsKeeps, PassNodeKeeps, VisitNodeKeeps, VisitTargetKeeps, DropEdgeKeeps,
   DropNodeKeeps, SetDoneKeeps, DivideKeeps, GrowKeeps, CutInTwoKeeps DEF PebblingNext

\* The synthesis leaves it alone.
LEMMA PebblingStutters ==
  ASSUME PebblingInv, UNCHANGED pvars
  PROVE  PebblingInv'
<1>1. UNCHANGED <<func, xag, net, stack, computed, steps, half, run>> /\ Top' = Top
  BY DEF pvars, Top
<1>2. Begun' = Begun
  BY <1>1 DEF Begun, Settled
<1>3. /\ Calls' = Calls /\ Outputs' = Outputs /\ Gates' = Gates /\ Inputs' = Inputs /\ View' = View
      /\ \A i : Before(i)' = Before(i)
      /\ \A n : Fanins(n)' = Fanins(n) /\ Fanouts(n)' = Fanouts(n)
      /\ \A calls, P : Chain(calls, P)' <=> Chain(calls, P)
  BY <1>1, SameNet
<1>4. Planned'
  <2>1. (\E P : Chain(stack, P) /\ P[1] = Begun /\ P[Len(stack) + 1] = Outputs)'
    BY <1>1, <1>2, <1>3 DEF PebblingInv, Planned
  <2>2. QED
    BY <1>1, <1>3, <2>1 DEF PebblingInv, Planned
<1>5. Halved(Top)' <=> Halved(Top)
  BY <1>1, <1>3 DEF Halved
<1>6. Counted(Top)' <=> Counted(Top)
  <2>1. Before(run.at)' = Before(run.at)
    BY <1>1, <1>3 DEF Before
  <2>2. Released(Top)' = Released(Top)
    BY <1>1, <2>1 DEF Released
  <2>3. \A f : Referrers(Top, f)' = Referrers(Top, f)
    BY <1>1, <1>3, <2>2 DEF Referrers
  <2>4. QED
    BY <1>1, <1>3, <2>1, <2>2, <2>3 DEF Counted, Distinct
<1>7. Lowered' /\ (computed \in SUBSET Gates)' /\ Recorded'
  BY <1>1, NoPebbleMoves
<1>8. QED
  BY <1>1, <1>4, <1>5, <1>6, <1>7 DEF PebblingInv

\* What the calls find, and what is left in the end.
LEMMA CallsAreServed ==
  ASSUME PebblingInv
  PROVE  EachCallFindsItsPebbles
<1>1. CASE stack = <<>>
  <2>1. Begun = computed
    BY <1>1 DEF Begun
  <2>2. Len(stack) + 1 = 1
    BY <1>1
  <2>3. computed = Outputs
    BY <2>1, <2>2 DEF PebblingInv, Planned
  <2>4. QED
    BY <1>1, <2>3 DEF EachCallFindsItsPebbles
<1>2. CASE stack # <<>> /\ Top.do \in {"pebble", "conquer"}
  <2> DEFINE N == Top.nodes
             T == Top.target
             live == live_node(N, T)
  <2>1. Wired /\ Top \in Calls /\ Good(Top, computed)
    BY <1>2, BaseOfGates, TopIsGood DEF Begun
  <2>2. N \in SUBSET (Inputs \cup Gates) /\ T \subseteq Gates /\ T \subseteq N /\ T \cap Inputs = {}
    BY <2>1 DEF Calls, Good, Sound, Wired
  <2>3. (T \cap N) \ Inputs \subseteq live /\ live \subseteq N \ Inputs
    BY <2>1, <2>2, LiveNodes
  <2> HIDE DEF live
  <2>4. FitsIn(Top, live, computed)
    <3>1. CASE Top.do = "pebble"
      BY <2>1, <3>1 DEF Good, live
    <3>2. CASE Top.do = "conquer"
      <4>1. FitsIn(Top, N, computed)
        BY <2>1, <3>2 DEF Good
      <4>2. QED
        BY <2>2, <2>3, <4>1 DEF FitsIn, Settled
    <3>3. QED
      BY <1>2, <3>1, <3>2
  <2>5. /\ Top.start \ Inputs \subseteq computed
        /\ \A n \in live : Fanins(n) \subseteq N \cup Inputs \cup computed
        /\ live \cap computed = IF Top.reverse THEN T \ Inputs ELSE {}
    <3>1. T \ Inputs = T
      BY <2>2
    <3>2. QED
      BY <2>4, <3>1 DEF FitsIn, Settled
  <2>6. QED
    BY <1>2, <2>5 DEF EachCallFindsItsPebbles, live
<1>3. CASE stack # <<>> /\ Top.do \notin {"pebble", "conquer"}
  BY <1>3 DEF EachCallFindsItsPebbles
<1>4. QED
  BY <1>1, <1>2, <1>3

\* When no call is left the steps are a pebbling of the network.
LEMMA StepsArePebbling ==
  ASSUME PebblingInv, stack = <<>>
  PROVE  Pebbled
<1>1. computed = Outputs
  BY CallsAreServed DEF EachCallFindsItsPebbles
<1>2. Legal(xag, steps) /\ Held(steps, Len(steps)) = OutputNodes(xag)
  BY <1>1 DEF PebblingInv, Recorded, Outputs
<1>3. IsPebbling(xag, steps)
  BY <1>2 DEF Legal, IsPebbling
<1>4. IsNetwork(xag)
  BY LoweredIsNetwork DEF PebblingInv
<1>5. QED
  BY <1>3, <1>4 DEF Pebbled

----------------------------------------------------------------------------
(* A cut goes on. *)

\* A bounded function has a largest value on a set that is not empty.
LEMMA MostOf ==
  ASSUME NEW C, C # {}, NEW f \in [C -> Nat], NEW b \in Nat, \A i \in C : f[i] <= b
  PROVE  \E i \in C : \A j \in C : f[j] <= f[i]
<1> DEFINE T == {b - f[i] : i \in C}
<1>1. T \in SUBSET Nat /\ T # {}
  OBVIOUS
<1> HIDE DEF T
<1>2. PICK x \in T : \A y \in T : x <= y
  BY <1>1, LeastNumber
<1>3. PICK i \in C : x = b - f[i]
  BY DEF T
<1>4. \A j \in C : b - f[i] <= b - f[j]
  BY <1>2, <1>3 DEF T
<1>5. QED
  BY <1>4

\* Of the candidates one is next, if one is better than none.
LEMMA CandidateIsNext ==
  ASSUME NEW C, NEW rn \in [C -> Nat], NEW n \in [C -> Nat], NEW b \in Nat,
         \A i \in C : i \in Nat /\ rn[i] <= b /\ n[i] <= b,
         NEW k \in C, rn[k] + n[k] > 0
  PROVE  LET best == {i \in C : /\ rn[i] + n[i] > 0
                                /\ \A j \in C : rn[i] > rn[j] \/ (rn[i] = rn[j] /\ n[i] >= n[j])}
         IN  {i \in best : \A j \in best : i <= j} # {}
<1> DEFINE best == {i \in C : /\ rn[i] + n[i] > 0
                              /\ \A j \in C : rn[i] > rn[j] \/ (rn[i] = rn[j] /\ n[i] >= n[j])}
<1>1. PICK m \in C : \A j \in C : rn[j] <= rn[m]
  BY MostOf
<1> DEFINE M == {i \in C : rn[i] = rn[m]}
           g == [i \in M |-> n[i]]
<1>2. M # {} /\ g \in [M -> Nat] /\ \A i \in M : g[i] <= b
  OBVIOUS
<1> HIDE DEF g
<1>3. PICK i \in M : \A j \in M : g[j] <= g[i]
  <2> HIDE DEF M
  <2>1. QED
    BY <1>2, MostOf
<1>4. i \in C /\ rn[i] = rn[m] /\ \A j \in C : rn[j] = rn[m] => n[j] <= n[i]
  BY <1>3 DEF g
<1>5. \A j \in C : rn[i] > rn[j] \/ (rn[i] = rn[j] /\ n[i] >= n[j])
  BY <1>1, <1>4
<1>6. rn[i] + n[i] > 0
  <2>1. rn[i] > rn[k] \/ (rn[i] = rn[k] /\ n[i] >= n[k])
    BY <1>5
  <2>2. rn[i] \in Nat /\ n[i] \in Nat /\ rn[k] \in Nat /\ n[k] \in Nat
    BY <1>4
  <2>3. QED
    BY <2>1, <2>2
<1>7. best \in SUBSET Nat /\ best # {}
  BY <1>4, <1>5, <1>6
<1> HIDE DEF best
<1>8. PICK l \in best : \A j \in best : l <= j
  BY <1>7, LeastNumber
<1>9. QED
  BY <1>8 DEF best

\* The first gate of some, in the order of the view: it builds on none of them.
LEMMA FirstOfGates ==
  ASSUME Wired, NEW X \in SUBSET Gates, X # {}
  PROVE  \E n \in X : Fanins(n) \cap X = {}
<1> DEFINE l == Len(View)
           T == {i \in 1..l : View[i] \in X}
<1>1. l \in Nat /\ Gates = {View[i] : i \in 1..l} /\ Gates \cap Inputs = {}
  BY DEF Wired
<1>2. T \in SUBSET Nat /\ T # {}
  BY <1>1
<1>3. PICK i \in T : \A j \in T : i <= j
  <2> HIDE DEF T
  <2>1. QED
    BY <1>2, LeastNumber
<1>4. ASSUME NEW m \in Fanins(View[i]) \cap X PROVE FALSE
  <2>1. m \in Before(i)
    BY <1>3, ViewOrder
  <2>2. PICK j \in 1..(i - 1) : m = View[j]
    BY <2>1 DEF Before
  <2>3. j \in T /\ ~(i <= j)
    BY <1>1, <1>3, <1>4, <2>2
  <2>4. QED
    BY <1>3, <2>3
<1>5. QED
  BY <1>3, <1>4

\* The loop finds a node to go on with.
LEMMA SomeNodeIsNext ==
  ASSUME PebblingInv
  PROVE  NextIsSet
<1>1. SUFFICES ASSUME stack # <<>>, Top.do = "halve", ~Enough
      PROVE  NextNodes(half.A, half.C, Top.nodes, Top.start) # {}
  BY DEF NextIsSet
<1> DEFINE A == half.A
           C == half.C
           N == Top.nodes
           s == Top.start
           T == Top.target
           a == Cardinality(A)
           c == Cardinality(C)
           k == Cardinality(N)
           t == Cardinality(T)
           g == Cardinality(Gates)
           rn == [i \in C |-> Cardinality(C) - 1 + Cardinality(Ready(i, A, s, N))]
           n  == [i \in C |-> Cardinality(Fanouts(i) \cap (N \ A))]
<1>2. Wired /\ Top \in Calls /\ Good(Top, Begun) /\ Halved(Top)
  BY <1>1, BaseOfGates, TopIsGood DEF PebblingInv
<1>3. /\ N \subseteq Gates /\ T \subseteq N /\ N \cap s = {} /\ Inputs \subseteq s
      /\ \A m \in N : Fanins(m) \subseteq N \cup s
      /\ \A m \in N \ T : Fanouts(m) \cap N # {}
      /\ Gates \subseteq Nat /\ IsFiniteSet(Gates)
      /\ \A m \in Gates : Fanouts(m) = {x \in Gates : m \in Fanins(x)}
  <2>1. Sound(Top) /\ FitsIn(Top, N, Begun) /\ N \cap Inputs = {} /\ \A m \in N \ T : Fanouts(m) \cap N # {}
    BY <1>1, <1>2 DEF Good
  <2>2. N \subseteq Gates /\ T \subseteq N /\ N \cap s = {} /\ Inputs \subseteq s
    BY <1>2, <2>1 DEF Sound, Calls
  <2>3. Gates \subseteq Nat
    <3>1. Gates \subseteq GateNodes(xag) /\ IsNetwork(xag)
      BY <1>2, LoweredIsNetwork DEF Wired, PebblingInv
    <3>2. GateNodes(xag) \subseteq Nat
      BY <3>1, NetworkFacts
    <3>3. QED
      BY <3>1, <3>2
  <2>4. QED
    BY <1>2, <2>1, <2>2, <2>3 DEF FitsIn, Wired
<1>4. /\ A \subseteq N /\ C \subseteq N /\ A \cap C = {}
      /\ \A m \in A \cup C : Fanins(m) \subseteq A \cup s
      /\ \A m \in N : Fanins(m) \subseteq A \cup s => m \in A \cup C
      /\ k - t > 5
  BY <1>2 DEF Halved, recursive_target_size
<1>5. /\ IsFiniteSet(A) /\ IsFiniteSet(C) /\ IsFiniteSet(N)
      /\ a \in Nat /\ c \in Nat /\ k \in Nat /\ t \in Nat /\ g \in Nat /\ c <= g
  <2>1. IsFiniteSet(A) /\ IsFiniteSet(C) /\ IsFiniteSet(N) /\ IsFiniteSet(T) /\ c <= g
    BY <1>3, <1>4, FS_Subset
  <2>2. QED
    BY <1>3, <2>1, FS_CardinalityType
<1>6. a <= (k - t) \div 2
  <2>1. ~(a > (k - t) \div 2)
    BY <1>1 DEF Enough
  <2> HIDE DEF a, k, t
  <2>2. (k - t) \div 2 \in Int
    BY <1>5
  <2>3. QED
    BY <1>5, <2>1, <2>2
<1>7. a + a <= k /\ k > 5
  <2> HIDE DEF a, k, t
  <2>1. QED
    BY <1>4, <1>5, <1>6
<1>8. \A i \in C : /\ Cardinality(Ready(i, A, s, N)) \in 0..g
                   /\ Cardinality(Fanouts(i) \cap (N \ A)) \in 0..g
  <2>1. \A X \in SUBSET Gates : Cardinality(X) \in 0..g
    <3>1. SUFFICES ASSUME NEW X \in SUBSET Gates PROVE Cardinality(X) \in 0..g
      OBVIOUS
    <3>2. IsFiniteSet(X) /\ Cardinality(X) <= g
      BY <1>3, FS_Subset
    <3>3. Cardinality(X) \in Nat
      BY <3>2, FS_CardinalityType
    <3>4. QED
      BY <1>5, <3>2, <3>3
  <2>2. \A i : Ready(i, A, s, N) \subseteq Gates /\ Fanouts(i) \cap (N \ A) \subseteq Gates
    BY <1>3 DEF Ready
  <2>3. QED
    BY <2>1, <2>2
<1> HIDE DEF a, c, k, t, g
\* There is a gate that is not in A yet, and the first such gate is a candidate.
<1>9. PICK i \in C : TRUE
  <2> DEFINE X == N \ A
  <2>1. X # {}
    <3>1. SUFFICES ASSUME N = A PROVE FALSE
      BY <1>4
    <3>2. a = k
      BY <3>1 DEF a, k
    <3>3. QED
      BY <1>5, <1>7, <3>2
  <2>2. X \in SUBSET Gates
    BY <1>3
  <2> HIDE DEF X
  <2>3. PICK m \in X : Fanins(m) \cap X = {}
    BY <1>2, <2>1, <2>2, FirstOfGates
  <2>4. m \in N /\ m \notin A /\ Fanins(m) \subseteq A \cup s
    BY <1>3, <2>3 DEF X
  <2>5. QED
    BY <1>4, <2>4
<1>10. c >= 1
  <2>1. c # 0
    BY <1>5, <1>9, FS_EmptySet DEF c
  <2>2. QED
    BY <1>5, <2>1
\* It is alone only if a gate behind it waits for it.
<1>11. ASSUME C = {i} PROVE Fanouts(i) \cap (N \ A) # {}
  <2> DEFINE X == (N \ A) \ {i}
  <2>1. X # {}
    <3>1. SUFFICES ASSUME N \subseteq A \cup {i} PROVE FALSE
      OBVIOUS
    <3>2. k <= a + 1
      <4>1. IsFiniteSet(A \cup {i}) /\ Cardinality(A \cup {i}) = a + 1
        BY <1>4, <1>5, <1>9, FS_AddElement DEF a
      <4>2. k <= Cardinality(A \cup {i})
        BY <3>1, <4>1, FS_Subset DEF k
      <4>3. QED
        BY <4>1, <4>2
    <3>3. QED
      BY <1>5, <1>7, <3>2
  <2>2. X \in SUBSET Gates
    BY <1>3
  <2> HIDE DEF X
  <2>3. PICK m \in X : Fanins(m) \cap X = {}
    BY <1>2, <2>1, <2>2, FirstOfGates
  <2>4. m \in N /\ m \notin A /\ m # i /\ Fanins(m) \subseteq A \cup s \cup {i}
    BY <1>3, <2>3 DEF X
  <2>5. i \in Fanins(m)
    BY <1>4, <1>11, <2>4
  <2>6. m \in Fanouts(i)
    <3>1. i \in Gates /\ m \in Gates
      BY <1>3, <1>4, <2>4
    <3>2. Fanouts(i) = {x \in Gates : i \in Fanins(x)}
      BY <1>3, <3>1, Zenon
    <3>3. QED
      BY <2>5, <3>1, <3>2
  <2>7. QED
    BY <2>4, <2>6
<1>12. rn \in [C -> Nat] /\ n \in [C -> Nat] /\ \A j \in C : j \in Nat /\ rn[j] <= g + g /\ n[j] <= g + g
  <2>1. ASSUME NEW j \in C
        PROVE  /\ j \in Nat /\ rn[j] \in Nat /\ n[j] \in Nat /\ rn[j] <= g + g /\ n[j] <= g + g
    <3>1. rn[j] = c - 1 + Cardinality(Ready(j, A, s, N)) /\ n[j] = Cardinality(Fanouts(j) \cap (N \ A))
      BY DEF c
    <3>2. j \in Nat
      BY <1>3, <1>4
    <3> DEFINE x == Cardinality(Ready(j, A, s, N))
               y == Cardinality(Fanouts(j) \cap (N \ A))
    <3>3. x \in 0..g /\ y \in 0..g /\ rn[j] = c - 1 + x /\ n[j] = y
      BY <1>8, <3>1
    <3> HIDE DEF rn, n, x, y
    <3>4. c \in Nat /\ g \in Nat /\ c >= 1 /\ c <= g
      BY <1>5, <1>10
    <3>5. QED
      BY <3>2, <3>3, <3>4
  <2>2. QED
    BY <2>1
<1>13. rn[i] + n[i] > 0
  <2>1. rn[i] = c - 1 + Cardinality(Ready(i, A, s, N)) /\ n[i] = Cardinality(Fanouts(i) \cap (N \ A))
    BY DEF c
  <2>2. CASE C = {i}
    <3>1. IsFiniteSet(Fanouts(i) \cap (N \ A))
      BY <1>3, FS_Subset
    <3>2. Cardinality(Fanouts(i) \cap (N \ A)) # 0
      BY <1>11, <2>2, <3>1, FS_EmptySet
    <3> HIDE DEF rn, n
    <3>3. QED
      BY <1>5, <1>8, <1>10, <2>1, <3>2
  <2>3. CASE C # {i}
    <3>1. c # 1
      <4>1. SUFFICES ASSUME c = 1 PROVE FALSE
        OBVIOUS
      <4>2. PICK x : C = {x}
        BY <1>5, <4>1, FS_Singleton DEF c
      <4>3. QED
        BY <2>3, <4>2
    <3> HIDE DEF rn, n
    <3>2. QED
      BY <1>5, <1>8, <1>10, <2>1, <3>1
  <2>4. QED
    BY <2>2, <2>3
<1>14. NextNodes(A, C, N, s) = LET best == {j \in C : /\ rn[j] + n[j] > 0
                                                 /\ \A l \in C : rn[j] > rn[l] \/ (rn[j] = rn[l] /\ n[j] >= n[l])}
                              IN  {j \in best : \A l \in best : j <= l}
  BY DEF NextNodes
<1> DEFINE b == g + g
<1>15. b \in Nat
  BY <1>5
<1>16. \A j \in C : j \in Nat /\ rn[j] <= b /\ n[j] <= b
  BY <1>12
<1> HIDE DEF rn, n, b, C
<1>17. LET best == {j \in C : /\ rn[j] + n[j] > 0
                             /\ \A l \in C : rn[j] > rn[l] \/ (rn[j] = rn[l] /\ n[j] >= n[l])}
       IN  {j \in best : \A l \in best : j <= l} # {}
  <2>1. rn \in [C -> Nat] /\ n \in [C -> Nat] /\ i \in C
    BY <1>12
  <2>2. QED
    BY <1>13, <1>15, <1>16, <2>1, CandidateIsNext, SMTT(30)
<1>18. QED
  BY <1>14, <1>17 DEF C

----------------------------------------------------------------------------
(* The oracle function as a whole. *)

LInv == PebblingInv /\ (phase # "pebble" => stack = <<>>)

\* The strategy has its invariant, and is at its end when the synthesis begins.
LEMMA LInvHolds == Spec => []LInv
<1>1. Init => LInv
  BY PebblingStarts DEF Init, QubitsInit, LInv
<1>2. LInv /\ [Next]_vars => LInv'
  <2>1. SUFFICES ASSUME LInv, [Next]_vars PROVE LInv'
    OBVIOUS
  <2>2. CASE Pebble
    <3>1. phase' = "pebble"
      BY <2>2 DEF Pebble, qvars
    <3>2. QED
      BY <2>1, <2>2, <3>1, PebblingKeeps DEF Pebble, LInv
  <2>3. CASE Synthesize
    <3>1. UNCHANGED <<func, net, stack, computed, half, run>> /\ stack = <<>> /\ (Prepare \/ Emit)
      BY <2>3 DEF Synthesize
    <3>2. UNCHANGED <<xag, steps>>
      BY <3>1 DEF Prepare, Emit, Compute, Uncompute, CopyOutput, NameOutput, Finish
    <3>3. UNCHANGED pvars
      BY <3>1, <3>2 DEF pvars
    <3>4. QED
      BY <2>1, <3>1, <3>3, PebblingStutters DEF LInv
  <2>4. CASE UNCHANGED vars
    <3>1. UNCHANGED pvars /\ stack' = stack /\ phase' = phase
      BY <2>4 DEF vars, pvars, qvars
    <3>2. QED
      BY <2>1, <3>1, PebblingStutters DEF LInv
  <2>5. QED
    BY <2>1, <2>2, <2>3, <2>4 DEF Next, Done
<1>3. QED
  BY <1>1, <1>2, PTL DEF Spec

\* Whatever the functions are: every call of greedy_pebble and of divide_and_conquer
\* finds what its gates build on computed, and of its own gates its targets or none;
\* a cut finds a node to go on with; and when no call is left the outputs are computed,
\* and what has been computed and uncomputed is a pebbling of the network.
THEOREM CallsFindPebbles == Spec => []CallsFindTheirPebbles
<1>1. LInv => CallsFindTheirPebbles
  BY CallsAreServed, StepsArePebbling, SomeNodeIsNext DEF LInv, CallsFindTheirPebbles
<1>2. QED
  BY <1>1, LInvHolds, PTL

\* The synthesis gets a network and a pebbling of it: the pebbling and the synthesis
\* together implement the synthesis from any pebbling.
THEOREM OracleIsSynthesis == Spec => CircuitSpec
<1>1. Init => QubitsInit
  BY DEF Init
<1>2. LInv /\ [Next]_vars => [CircuitNext]_<<xag, steps, qvars>>
  <2>1. SUFFICES ASSUME LInv, [Next]_vars PROVE [CircuitNext]_<<xag, steps, qvars>>
    OBVIOUS
  <2>2. CASE Pebble
    BY <2>2 DEF Pebble, CircuitNext, Strategy
  <2>3. CASE Synthesize
    BY <2>1, <2>3, StepsArePebbling DEF Synthesize, CircuitNext, LInv
  <2>4. CASE UNCHANGED vars
    BY <2>4 DEF vars, pvars
  <2>5. QED
    BY <2>1, <2>2, <2>3, <2>4 DEF Next, Done
<1>3. QED
  BY <1>1, <1>2, LInvHolds, PTL DEF Spec, CircuitSpec

\* So no ancilla of an oracle is left dirty, whatever its function is.
THEOREM OracleIsClean == Spec => []AncillasComeBackClean
BY OracleIsSynthesis, CleanAncillas, PTL

\* And its outputs are the values of its network.
THEOREM OracleComputesItsNetwork == Spec => []OutputsAreTheNetwork
BY OracleIsSynthesis, CircuitComputesTheNetwork, PTL

\* Those are what the function returns: on output qubits that are 0 every oracle leaves
\* the values of its function, and if it has one output it adds that to the qubit.
THEOREM OracleComputesItsFunction == Spec => []OutputsAreTheFunction
<1>1. LInv /\ OutputsAreTheNetwork => OutputsAreTheFunction
  <2>1. SUFFICES ASSUME LInv, OutputsAreTheNetwork PROVE OutputsAreTheFunction
    OBVIOUS
  <2>2. func \in Functions /\ xag = XagOf(func)
    BY <2>1 DEF LInv, PebblingInv, Lowered
  <2>3. IsFunction(func)
    BY <2>2, FunctionsAssumption
  <2>4. \A v \in Assignments : \A j \in DOMAIN xag.pos :
          Returned(func, [k \in 1..xag.pis |-> v \in Bit(k)])[j]
            = (v \in Turned(NodeValue[xag.pos[j].node], xag.pos[j].neg))
    BY <2>2, <2>3, ReturnedIsNetwork
  <2>5. QED
    BY <2>1, <2>4 DEF OutputsAreTheFunction
<1>2. QED
  BY <1>1, LInvHolds, OracleComputesItsNetwork, PTL
=============================================================================
