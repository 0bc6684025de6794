-------------------------------- MODULE Esop --------------------------------
(***************************************************************************)
(* How a cover and the pairs of a layer are chosen (lib/oracle/QM.cpp,     *)
(* lib/oracle/graph.cpp), one iteration of the code's loops at a time.     *)
(* The code picks at random among equals: here each of them may be picked. *)
(*                                                                         *)
(* The vector of nodes is a function: the nodes of single inputs have the  *)
(* inputs for indices, and a node that unites two has theirs for its own.  *)
(***************************************************************************)
EXTENDS OracleCover, Sequences, SequencesExt, FiniteSetsExt

VARIABLES
  rest,     \* A of simplify: the inputs that are not covered yet
  ans,      \* ans of simplify: the cubes so far
  nodes,    \* the nodes of merge, or the candidates of optimizeLayer
  left,     \* the graph of getDisjointPoint: indices of nodes
  choose,   \* the indices it has chosen
  step      \* the loop: "simplify", "merge", "point", "layer"
choices == <<rest, ans, nodes, left, choose, step>>
evars == <<vars, choices>>

---------------------------------------------------------------------------
\* simplify: neighbouring cubes are united as long as there are any; of the
\* largest as many as fit are kept, and the inputs they leave out start again.

\* The cube of one input.
QMNode(x) == [bit |-> [i \in 1..table.n |-> InputBit(x, i, table.n)], val |-> {x}]

EsopInit ==
  /\ Init
  /\ rest = table.on /\ ans = {}
  /\ nodes = <<>> /\ left = {} /\ choose = {}
  /\ step = "simplify"

Minterms ==
  /\ pc = "cover" /\ step = "simplify" /\ rest # {}
  /\ nodes' = [x \in rest |-> QMNode(x)]
  /\ step' = "merge"
  /\ UNCHANGED <<vars, rest, ans, left, choose>>

onecnt(node)   == Cardinality(Places(node.bit, 1))
United(s1, s2) == [bit |-> oneBitUnion(s1.bit, s2.bit), val |-> s1.val \cup s2.val]
Adjacent ==
  {p \in (DOMAIN nodes) \X (DOMAIN nodes) :
     /\ onecnt(nodes[p[2]]) = onecnt(nodes[p[1]]) + 1
     /\ oneBitDif(nodes[p[1]].bit, nodes[p[2]].bit)}

\* One round of the loop of merge, and its end: getDisjointPoint is called.
MergeGroups ==
  /\ step = "merge" /\ Adjacent # {}
  /\ nodes' = [p \in Adjacent |-> United(nodes[p[1]], nodes[p[2]])]
  /\ UNCHANGED <<vars, rest, ans, left, choose, step>>
MergeEnds ==
  /\ step = "merge" /\ Adjacent = {}
  /\ left' = DOMAIN nodes /\ choose' = {}
  /\ step' = "point"
  /\ UNCHANGED <<vars, rest, ans, nodes>>

\* getDisjointPoint: nodes are neighbours if they share a value.  One with the
\* fewest neighbours is chosen, and they leave the graph with it.
Neighbours(i) == {j \in left \ {i} : nodes[j].val \cap nodes[i].val # {}}
PickPoint ==
  /\ step = "point"
  /\ LET degree == [i \in left |-> Cardinality(Neighbours(i))]
     IN  \E i \in left :
           /\ \A j \in left : degree[i] <= degree[j]
           /\ choose' = choose \cup {i}
           /\ left' = left \ ({i} \cup Neighbours(i))
  /\ UNCHANGED <<vars, rest, ans, nodes, step>>

\* What merge returns is put into the answer.
KeepLargest ==
  /\ pc = "cover" /\ step = "point" /\ left = {}
  /\ ans' = ans \cup {nodes[i].bit : i \in choose}
  /\ rest' = rest \ UNION {nodes[i].val : i \in choose}
  /\ step' = "simplify"
  /\ UNCHANGED <<vars, nodes, left, choose>>

Simplified ==
  /\ step = "simplify" /\ rest = {}
  /\ Cover(ans)
  /\ step' = "layer"
  /\ UNCHANGED <<rest, ans, nodes, left, choose>>

---------------------------------------------------------------------------
\* optimizeLayer: cubes of the same size that differ in one or two places become
\* one or two larger cubes.

Candidates ==
  /\ pc = "choose" /\ step = "layer"
  /\ LET pairs == {{p[1], p[2]} : p \in {q \in layers[at] \X layers[at] : Near(q[1], q[2])}}
     IN  nodes' = [p \in pairs |-> [bit |-> <<>>, val |-> p]] /\ left' = pairs
  /\ choose' = {}
  /\ step' = "point"
  /\ UNCHANGED <<vars, rest, ans>>

\* Of the unions of a pair those that fit the next layer best, and among the
\* pairs where two fit as well those that fit each other best.
getUnionScore(s, layer) ==
  3 * Cardinality({s} \cap layer) + 2 * Cardinality({b \in layer : oneBitDif(s, b)})
    + Cardinality({b \in layer : twoBitDif(s, b)})
PairScore(pair, layer) == FoldSet(LAMBDA s, score : score + getUnionScore(s, layer), 0, pair)
Better(unions, layer) ==
  {u \in unions : \A v \in unions : PairScore(v, layer) <= PairScore(u, layer)}
BestUnions(pair, layer) ==
  UNION {Better(Unions(p[1], p[2]), layer) : p \in {q \in pair \X pair : q[1] # q[2]}}

\* The elements of a set in some order (SetToSeq would try all functions).
Listed(S) == FoldSet(LAMBDA s, seq : Append(seq, s), <<>>, S)
\* With fewer than 10 undecided pairs the unions of the best score, with more any.
getMaxPair(made, tied) ==
  LET score(m) ==
        FoldLeft(LAMBDA acc, p : [score  |-> acc.score + PairScore(m[p], acc.chosen),
                                  chosen |-> (acc.chosen \ m[p]) \cup (m[p] \ acc.chosen)],
                 [score |-> 0, chosen |-> {}], Listed(tied)).score
      scores == [m \in made |-> score(m)]
  IN  IF Cardinality(tied) >= 10 THEN made
      ELSE {m \in made : \A l \in made : scores[l] <= scores[m]}

OptimizeLayer ==
  /\ pc = "choose" /\ step = "point" /\ left = {}
  /\ LET best == [p \in choose |-> BestUnions(p, layers[at + 1])]
         made == {m \in [choose -> UNION {best[p] : p \in choose}] : \A p \in choose : m[p] \in best[p]}
     IN  \E m \in getMaxPair(made, {p \in choose : Cardinality(best[p]) > 1}) : Choose(m)
  /\ step' = "layer"
  /\ UNCHANGED <<rest, ans, nodes, left, choose>>

---------------------------------------------------------------------------
Next ==
  \/ Minterms \/ MergeGroups \/ MergeEnds \/ PickPoint \/ KeepLargest \/ Simplified
  \/ Candidates \/ OptimizeLayer
  \/ (NoOnes \/ Apply \/ Done) /\ UNCHANGED choices
Spec == EsopInit /\ [][Next]_evars
=============================================================================
