--------------------------- MODULE GreedyPebbling ---------------------------
(***************************************************************************)
(* The order in which the nodes of a network are computed and uncomputed,  *)
(* so that few are held at once (isq/passes/GreedyPebbling.hpp).           *)
(*                                                                         *)
(* The recursion of greedy_pebble and divide_and_conquer is a stack of     *)
(* calls still to be made; each action takes the call on top, or makes one *)
(* iteration of a loop of it.  A call forwards begins with the nodes of    *)
(* start computed and ends with those of start and target; a call in       *)
(* reverse goes the other way.                                             *)
(***************************************************************************)
EXTENDS Xag

CONSTANTS
  Functions,     \* the oracle functions of the program
  topo_view(_)   \* the gates of a network that outputs reach, in the order _view is walked:
                 \* as a LogicNetwork it has lost the view's order for that of the numbers

recursive_target_size == 5

VARIABLES
  func,      \* the function that is lowered, of which xag is the network
  net,       \* _view, node_to_fanin and node_to_fanout
  stack,     \* calls, the next one first
  computed,  \* hasbeen_computed
  half,      \* A and C of the divide_and_conquer on top
  run        \* of the compute_set_steps on top: where it is in the view, ref_count,
             \* and the edges uncompute_eagerly has still to take away
pvars == <<func, xag, net, stack, computed, steps, half, run>>

---------------------------------------------------------------------------
\* The network.  topo_view keeps the constant, the inputs and what the outputs
\* reach, every gate behind those it builds on.

BuiltOn(x, n) == {s.node : s \in ToSet(Kids(x, n))}
IsView(x, view) ==
  /\ view \in Seq(GateNodes(x))
  /\ \A i, j \in 1..Len(view) : view[i] = view[j] => i = j
  /\ OutputNodes(x) \subseteq ToSet(view)
  /\ \A i \in 1..Len(view) :
       BuiltOn(x, view[i]) \subseteq InputNodes(x) \cup {view[k] : k \in 1..(i - 1)}

construct_connectivity(x) ==
  LET view == topo_view(x)
      nodes == InputNodes(x) \cup ToSet(view)
      fanin == [n \in nodes |-> BuiltOn(x, n)]
      fanout == [n \in nodes |-> {m \in nodes : n \in fanin[m]}]
  IN  [view |-> view, fanin |-> fanin, fanout |-> fanout, near |-> [n \in nodes |-> fanin[n] \cup fanout[n]]]

View       == net.view
Fanins(n)  == net.fanin[n]
Fanouts(n) == net.fanout[n]

\* Nodes whose fanins are all in a; nodes that those of a need.
RN(a, nodes) == {n \in nodes \ a : Fanins(n) # {} /\ Fanins(n) \subseteq a}
RP(a, nodes) == {n \in nodes \ (a \cup Inputs) : Fanouts(n) \cap a # {}}

\* A search from some nodes along edges, in rounds: with each round it is a node
\* further or at its end.
Reached(from, nodes, edges) ==
  LET found[k \in Nat] ==
        IF k = 0 THEN from
        ELSE LET before == found[k - 1]
             IN  before \cup ((UNION {edges[n] : n \in before}) \cap nodes)
  IN  found[Cardinality(nodes)]

compute_connected_components(nodes) ==
  {Reached({n}, nodes \ Inputs, net.near) : n \in nodes \ Inputs}
live_node(nodes, target) ==
  Reached((target \cap nodes) \ Inputs, nodes \ Inputs, net.fanin)

---------------------------------------------------------------------------
NoHalf == [A |-> {}, C |-> {}]
NoRun  == [at |-> 1, drop |-> <<>>, ref |-> <<>>]

\* A call of greedy_pebble; divide_and_conquer with the same arguments ("conquer"),
\* in its loop ("halve"), and in compute_set_steps ("set").
Call(nodes, start, target, reverse) ==
  [do |-> "pebble", nodes |-> nodes, start |-> start, target |-> target, reverse |-> reverse]
Conquer(call) == [call EXCEPT !.do = "conquer"]

PebblingInit ==
  /\ func \in Functions
  /\ xag \in {XagOf(func)}
  /\ net \in {construct_connectivity(xag)}
  /\ computed = {}
  /\ steps = <<>>
  /\ stack = <<Call(Inputs \cup ToSet(View), Inputs, Outputs, FALSE)>>
  /\ half = NoHalf /\ run = NoRun

Top   == stack[1]
Below == Tail(stack)

\* greedy_pebble: one call for each component, the largest first.
greedy_pebble ==
  /\ stack # <<>> /\ Top.do = "pebble"
  /\ \E order \in SetToSeqs(compute_connected_components(Top.nodes)) :
       /\ \A i, j \in 1..Len(order) : i < j => Cardinality(order[i]) >= Cardinality(order[j])
       /\ stack' = [i \in 1..Len(order) |->
                      LET live == live_node(order[i], Top.target)
                      IN  Conquer(Call(live, Top.start, live \cap Top.target, Top.reverse))] \o Below
  /\ UNCHANGED <<func, xag, net, computed, steps, half, run>>

---------------------------------------------------------------------------
\* A set of few nodes: its targets are computed (in reverse: uncomputed), and
\* what no later node of the set needs is uncomputed at once.

FewEnough == Cardinality(Top.nodes) - Cardinality(Top.target) <= recursive_target_size
compute_set_steps ==
  /\ stack # <<>> /\ Top.do = "conquer" /\ FewEnough
  /\ stack' = <<[Top EXCEPT !.do = "set"]>> \o Below
  /\ run' = [at |-> 1, drop |-> <<>>, ref |-> [n \in Top.nodes |-> Cardinality(Fanouts(n) \cap Top.nodes)]]
  /\ UNCHANGED <<func, xag, net, computed, steps, half>>

compute_node(n, compute) ==
  IF compute = (n \in computed) THEN UNCHANGED <<computed, steps>>
  ELSE /\ computed' = IF compute THEN computed \cup {n} ELSE computed \ {n}
       /\ steps' = Append(steps, [node |-> n, compute |-> compute])

\* The edges of a node to its fanins, which are an ordered set.
Edges(n) ==
  LET a == Kids(xag, n)[1].node
      b == Kids(xag, n)[2].node
  IN  IF a < b THEN <<<<n, a>>, <<n, b>>>> ELSE <<<<n, b>>, <<n, a>>>>

Visiting == stack # <<>> /\ Top.do = "set" /\ run.drop = <<>> /\ run.at <= Len(View)
Visited  == View[run.at]
\* A target that is to be uncomputed is still referred to.
Needed   == Visited \in Top.target /\ Top.reverse /\ run.ref[Visited] # 0

PassNode ==
  /\ Visiting
  /\ Visited \notin Top.nodes \/ Needed
  /\ run' = [run EXCEPT !.at = @ + 1]
  /\ UNCHANGED <<func, xag, net, stack, computed, steps, half>>
VisitNode ==
  /\ Visiting
  /\ Visited \in Top.nodes \ Top.target
  /\ compute_node(Visited, TRUE)
  /\ run' = [run EXCEPT !.at = @ + 1]
  /\ UNCHANGED <<func, xag, net, stack, half>>
VisitTarget ==
  /\ Visiting
  /\ Visited \in Top.target /\ ~Needed
  /\ compute_node(Visited, ~Top.reverse)
  /\ run' = [run EXCEPT !.at = @ + 1, !.drop = Edges(Visited)]
  /\ UNCHANGED <<func, xag, net, stack, half>>

\* uncompute_eagerly: one reference to a fanin less.
Dropping == stack # <<>> /\ Top.do = "set" /\ run.drop # <<>>
Dropped  == Head(run.drop)[2]
\* Mutant: a target is uncomputed like any other node.
MayGo_Targets(f) == TRUE
MayGo(f) == Top.reverse \/ f \notin Top.target
Unneeded == Dropped \in Top.nodes /\ run.ref[Dropped] = 1 /\ MayGo(Dropped)

DropEdge ==
  /\ Dropping /\ ~Unneeded
  /\ run' = [run EXCEPT !.drop = Tail(@),
                        !.ref = [f \in DOMAIN @ |-> IF f = Dropped THEN @[f] - 1 ELSE @[f]]]
  /\ UNCHANGED <<func, xag, net, stack, computed, steps, half>>
DropNode ==
  /\ Dropping /\ Unneeded
  /\ compute_node(Dropped, FALSE)
  /\ run' = [run EXCEPT !.drop = Edges(Dropped) \o Tail(@), !.ref[Dropped] = 0]
  /\ UNCHANGED <<func, xag, net, stack, half>>

SetDone ==
  /\ stack # <<>> /\ Top.do = "set" /\ run.drop = <<>> /\ run.at > Len(View)
  /\ stack' = Below
  /\ run' = NoRun
  /\ UNCHANGED <<func, xag, net, computed, steps, half>>

---------------------------------------------------------------------------
\* A set of many nodes is cut in two along a separator.

Divide ==
  /\ stack # <<>> /\ Top.do = "conquer" /\ ~FewEnough
  /\ stack' = <<[Top EXCEPT !.do = "halve"]>> \o Below
  /\ half' = [A |-> {}, C |-> RN(Top.start, Top.nodes)]
  /\ UNCHANGED <<func, xag, net, computed, steps, run>>

\* The candidate that makes most nodes ready, among those the one with most
\* fanouts outside of A.  With no candidate better than none the code would use
\* a node it never set (NextIsSet says it never does).
Ready(i, A, start, nodes) == {f \in Fanouts(i) \cap nodes : Fanins(f) \ {i} \subseteq A \cup start}
NextNodes(A, C, nodes, start) ==
  LET rn == [i \in C |-> Cardinality(C) - 1 + Cardinality(Ready(i, A, start, nodes))]
      n  == [i \in C |-> Cardinality(Fanouts(i) \cap (nodes \ A))]
      best == {i \in C : /\ rn[i] + n[i] > 0
                         /\ \A j \in C : rn[i] > rn[j] \/ (rn[i] = rn[j] /\ n[i] >= n[j])}
  IN  {i \in best : \A j \in best : i <= j}

Enough == Cardinality(half.A) > (Cardinality(Top.nodes) - Cardinality(Top.target)) \div 2
Grow ==
  /\ stack # <<>> /\ Top.do = "halve" /\ ~Enough
  /\ \E next \in NextNodes(half.A, half.C, Top.nodes, Top.start) :
       half' = [A |-> half.A \cup {next},
                C |-> (half.C \ {next}) \cup Ready(next, half.A \cup {next}, Top.start, Top.nodes)]
  /\ UNCHANGED <<func, xag, net, stack, computed, steps, run>>

Separator(call) ==
  LET C == half.C \ RN(call.start, call.nodes)
  IN  RP((call.nodes \ half.A) \ C, call.nodes) \cup (call.target \cap C)

\* The calls a cut comes to.
Cut(call) ==
  LET S == Separator(call)
      A == half.A \ S
      B == (call.nodes \ half.A) \ S
      target == call.target
      \* the nodes of A and S that are not to stay, and what they build on
      undo(reverse) == Call((A \cup S) \ target, (target \cap (A \cup S)) \cup call.start, S \ target, reverse)
      front(reverse) == Call(A \cup S, call.start, S \cup (target \cap A), reverse)
      back(reverse)  == Call(B, S \cup call.start, target \cap B, reverse)
  IN  IF call.reverse THEN <<undo(FALSE), back(TRUE), front(TRUE)>>
      ELSE <<front(FALSE), back(FALSE), undo(TRUE)>>

CutInTwo ==
  /\ stack # <<>> /\ Top.do = "halve" /\ Enough
  /\ stack' = Cut(Top) \o Below
  /\ half' = NoHalf
  /\ UNCHANGED <<func, xag, net, computed, steps, run>>

PebblingNext ==
  \/ greedy_pebble
  \/ compute_set_steps \/ PassNode \/ VisitNode \/ VisitTarget \/ DropEdge \/ DropNode \/ SetDone
  \/ Divide \/ Grow \/ CutInTwo

---------------------------------------------------------------------------
\* The comments on greedy_pebble ("begin with pebbling configuration P = start
\* and end with P = start + target", and the reverse): whoever cut the network
\* and in whatever direction, a call finds what it builds on computed, of its
\* own nodes just the targets or none, and after all calls exactly the outputs
\* are left.
EachCallFindsItsPebbles ==
  IF stack = <<>> THEN computed = Outputs
  ELSE Top.do \in {"pebble", "conquer"} =>
       LET live == live_node(Top.nodes, Top.target)
       IN  /\ Top.start \ Inputs \subseteq computed
           /\ \A n \in live : Fanins(n) \subseteq Top.nodes \cup Inputs \cup computed
           /\ live \cap computed = IF Top.reverse THEN Top.target \ Inputs ELSE {}

\* The loop that cuts a set in two always has a candidate to go on with: the code
\* never takes a "next" it has not set (lines 209-254).
NextIsSet ==
  stack # <<>> /\ Top.do = "halve" /\ ~Enough =>
    NextNodes(half.A, half.C, Top.nodes, Top.start) # {}
=============================================================================
