----------------------------- MODULE Subnetworks -----------------------------
(***************************************************************************)
(* The marking of subnetworks after an import (core/routing/subnetwork):   *)
(* the components of the graph whose vertices are edge keys and whose arcs *)
(* are the turns allowed between them, by Tarjan's algorithm with a stack  *)
(* of its own, and the edges of all but the big components marked.         *)
(*                                                                         *)
(* t is the state of the search: index and lowLink of the keys reached,    *)
(* tarjanStack, the stack of tasks, and what has been found: components    *)
(* in order, singles and biggest, the position of the biggest component.   *)
(***************************************************************************)
EXTENDS RoadGraph

Keys(net) == 0 .. 2 * GetEdges(net) - 1

edgeTransitionFilter(net, prevEdge, state) == CalcWeightWithTurnWeight(net, state, prevEdge) # Inf

\* The explorer yields the newest edge first.
Neighbors(net, prevEdge, node) ==
    SetToSortSeq({state \in EdgesAtNode(net, node) : edgeTransitionFilter(net, prevEdge, state)},
                 LAMBDA s1, s2 : s1.edgeKey > s2.edgeKey)

newEdgeBasedTarjanSCC ==
    [index |-> <<>>, lowLink |-> <<>>, tarjanStack |-> <<>>, tasks |-> <<>>,
     components |-> <<>>, singles |-> {}, biggest |-> 0]

hasIndex(t, key) == key \in DOMAIN t.index
onStack(t, key) == key \in Range(t.tarjanStack)
Push(t, new) == [t EXCEPT !.tasks = @ \o new]

minTo(t, key, value) == [t EXCEPT !.lowLink[key] = Min({@, value})]

setupNextEdgeKey(t, p) ==
    LET next == Cardinality(DOMAIN t.index)
    IN [t EXCEPT !.index = (p :> next) @@ @, !.lowLink = (p :> next) @@ @,
                 !.tarjanStack = Append(@, p)]

\* Everything above p on the stack is p's component; the first of the largest is the biggest.
buildComponent(t, p) ==
    LET at == CHOOSE i \in DOMAIN t.tarjanStack : t.tarjanStack[i] = p
        component == Reverse(SubSeq(t.tarjanStack, at, Len(t.tarjanStack)))
        popped == [t EXCEPT !.tarjanStack = SubSeq(@, 1, at - 1)]
    IN IF t.lowLink[p] # t.index[p] THEN t
       ELSE IF Len(component) = 1 THEN [popped EXCEPT !.singles = @ \cup {p}]
       ELSE [popped EXCEPT !.components = Append(@, component),
                !.biggest = IF @ = 0 \/ Len(component) > Len(t.components[@])
                            THEN Len(t.components) + 1 ELSE @]

handleNeighbor(t, task) ==
    IF ~ hasIndex(t, task.q)
    THEN Push(t, <<[do |-> "update", p |-> task.p, q |-> task.q],
                   [do |-> "find", p |-> task.q, adj |-> task.adj]>>)
    ELSE IF onStack(t, task.q) THEN minTo(t, task.p, t.index[task.q])
    ELSE t

findComponent(net, t, task) ==
    LET next == Neighbors(net, GetEdgeFromEdgeKey(task.p), task.adj)
    IN Push(setupNextEdgeKey(t, task.p),
            <<[do |-> "build", p |-> task.p]>>
            \o [i \in DOMAIN next |->
                  [do |-> "neighbor", p |-> task.p, q |-> next[i].edgeKey, adj |-> next[i].adjNode]])

RECURSIVE startSearch(_, _)
startSearch(net, t) ==
    LET task == Last(t.tasks)
        rest == [t EXCEPT !.tasks = Front(@)]
    IN IF t.tasks = <<>> THEN t
       ELSE startSearch(net,
               CASE task.do = "build" -> buildComponent(rest, task.p)
                 [] task.do = "update" -> minTo(rest, task.p, rest.lowLink[task.q])
                 [] task.do = "neighbor" -> handleNeighbor(rest, task)
                 [] task.do = "find" -> findComponent(net, rest, task))

\* The code starts the search of either direction at the edge's adjacent node.
FindFrom(net, t, key, adjNode) ==
    IF hasIndex(t, key) THEN t
    ELSE startSearch(net, Push(t, <<[do |-> "find", p |-> key, adj |-> adjNode]>>))

findComponentsForEdgeState(net, t, e) ==
    FindFrom(net, FindFrom(net, t, 2 * e, net.edges[e].b), 2 * e + 1, net.edges[e].b)

FindComponents(net) ==
    FoldLeft(LAMBDA t, e : findComponentsForEdgeState(net, t, e),
             newEdgeBasedTarjanSCC, [i \in 1 .. GetEdges(net) |-> i - 1])

----------------------------------------------------------------------------
\* An edge that is closed in the direction of the key is not marked for it.
setSubnetworkEdges(net, keys) ==
    {GetEdgeFromEdgeKey(key) :
        key \in {k \in keys : CalcEdgeWeight(net, GetEdgeIteratorStateForKey(net, k)) # Inf}}

\* Mutation of setSubnetworks: components of a single key are forgotten.
setSubnetworksOfMany(net, ccs, minNetworkSize) ==
    LET small == {i \in DOMAIN ccs.components :
                    i # ccs.biggest /\ Len(ccs.components[i]) < 2 * minNetworkSize}
    IN setSubnetworkEdges(net, UNION {Range(ccs.components[i]) : i \in small})

setSubnetworks(net, ccs, minNetworkSize) ==
    LET small == {i \in DOMAIN ccs.components :
                    i # ccs.biggest /\ Len(ccs.components[i]) < 2 * minNetworkSize}
    IN setSubnetworkEdges(net, ccs.singles \cup UNION {Range(ccs.components[i]) : i \in small})

\* DoWork for one profile.  Every edge is counted once, so there are never "too many" of them.
DoWork(net, minNetworkSize) ==
    IF minNetworkSize <= 0 THEN net
    ELSE [net EXCEPT !.marked = setSubnetworks(net, FindComponents(net), minNetworkSize)]

----------------------------------------------------------------------------
\* The strongly connected components, without an algorithm.

Follows(net, k) ==
    {state.edgeKey : state \in {s \in EdgesAtNode(net, GetEdgeIteratorStateForKey(net, k).adjNode) :
                                  edgeTransitionFilter(net, GetEdgeFromEdgeKey(k), s)}}

ReachableKeys(net, k) ==
    LET within[i \in 0 .. Cardinality(Keys(net))] ==
            IF i = 0 THEN {k} ELSE within[i - 1] \cup UNION {Follows(net, l) : l \in within[i - 1]}
    IN within[Cardinality(Keys(net))]

StronglyConnectedComponents(net) ==
    LET reach == [k \in Keys(net) |-> ReachableKeys(net, k)]
    IN {{l \in reach[k] : k \in reach[l]} : k \in Keys(net)}
=============================================================================
