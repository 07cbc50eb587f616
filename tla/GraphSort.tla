----------------------------- MODULE GraphSort -----------------------------
(***************************************************************************)
(* The routing graph as the importer uses it: the node and edge store      *)
(* together with its turn costs (core/storage/base_graph.go), and the sort *)
(* along the Hilbert curve that GraphHopper.process runs after an import   *)
(* (core/storage/graph_sort.go).                                           *)
(*                                                                         *)
(* A position is the Hilbert index of a node's coordinates.  "written" is  *)
(* an auxiliary variable: the turn costs that were set, by the identities  *)
(* (tags) of the edges and the node, which no renumbering changes.         *)
(***************************************************************************)
EXTENDS Integers, Sequences, FiniteSets, SequencesExt

CONSTANTS MaxNodes, MaxEdgeCount, Positions, Costs, MaxTurnCosts,
          MaxRecords   \* bounds edges and turn costs together

ASSUME BoundsAssumption == {MaxNodes, MaxEdgeCount, MaxTurnCosts, MaxRecords} \subseteq Nat
ASSUME PositionsAssumption == Positions \subseteq Int /\ 0 \in Positions
ASSUME CostsAssumption == 0 \in Costs

VARIABLES nodeCount, edgeCount, nodes, edges, frozen,
          tcRef, tcCount, entries,
          phase,    \* "relabel" between the two halves of a sort; else "sorted"
                    \* when nothing was added since the last sort, or "open"
          newNodes, \* newNodesByOld, kept from the first half to the second
          written

graphVars == <<nodeCount, edgeCount, nodes, edges, frozen>>
costVars == <<tcRef, tcCount, entries>>
vars == <<graphVars, costVars, phase, newNodes, written>>

Graph == INSTANCE BaseGraph
Turns == INSTANCE TurnCostStorage

Nodes == Graph!Nodes
Edges == Graph!Edges

Init ==
    /\ Graph!Init
    /\ Turns!Init
    /\ phase = "open"
    /\ newNodes = << >>
    /\ written = [t \in {} |-> 0]

SetNode(n, p) ==
    /\ phase # "relabel"
    /\ Graph!SetNode(n, p)
    /\ Turns!EnsureNodeCapacity(nodeCount')
    /\ phase' = "open"
    /\ UNCHANGED <<newNodes, written>>

AddEdge(a, b) ==
    /\ phase # "relabel"
    /\ edgeCount + tcCount < MaxRecords
    /\ Graph!Edge(a, b)
    /\ Turns!EnsureNodeCapacity(nodeCount')
    /\ phase' = "open"
    /\ UNCHANGED <<newNodes, written>>

Turn(from, via, to) == <<edges[from].tag, nodes[via].tag, edges[to].tag>>

SetTurnCost(from, via, to, cost) ==
    /\ phase # "relabel"
    /\ Turns!SetDecimal(from, via, to, cost)
    /\ edgeCount + tcCount' <= MaxRecords
    /\ written' = [t \in DOMAIN written \cup {Turn(from, via, to)} |->
                      IF t = Turn(from, via, to) THEN cost ELSE written[t]]
    /\ UNCHANGED <<graphVars, phase, newNodes>>

-----------------------------------------------------------------------------

\* Mutation: the order itself is used where its inverse is needed.
invertNothing(order) == [x \in ToSet(order) |-> order[x + 1]]

\* A permutation of 0 .. n-1, given as a sequence, and its inverse as a map.
invertPermutation(order) ==
    [x \in ToSet(order) |-> (CHOOSE i \in DOMAIN order : order[i] = x) - 1]

\* The pairs of S by their first component, equal ones by the second.
InOrder(S) ==
    [i \in 1 .. Cardinality(S) |->
        CHOOSE p \in S : Turns!Place(p, S) = i - 1]

\* Node ids in Hilbert order, equal indices in id order (a stable sort).
nodeOrder ==
    LET sorted == InOrder({<<nodes[n].pos, n>> : n \in Nodes})
    IN  [i \in DOMAIN sorted |-> sorted[i][2]]

\* The edges around each node, in the order in which the nodes are visited.
Visits(order) == [i \in DOMAIN order |-> Graph!AdjList(order[i])]

\* The k-th edge of the i-th visit is met at <<i, k>>.
Meetings(visits) ==
    {m \in (DOMAIN visits) \X (1 .. edgeCount) : m[2] \in DOMAIN visits[m[1]]}

EdgeMet(visits, m) == visits[m[1]][m[2]]

\* Mutation: an edge is taken at both of its ends.
buildEdgeOrderTwice(order) ==
    LET visits == Visits(order)
        taken == InOrder(Meetings(visits))
    IN  [i \in DOMAIN taken |-> EdgeMet(visits, taken[i])]

\* The meetings with edges that have not been seen before.
FirstMeetings(visits) ==
    LET met == Meetings(visits)
    IN  {m \in met : \A o \in Turns!Before(m, met) : EdgeMet(visits, o) # EdgeMet(visits, m)}

\* Edge ids as they are first met when visiting the nodes in the given order.
buildEdgeOrder(order) ==
    LET visits == Visits(order)
        taken == InOrder(FirstMeetings(visits))
    IN  [i \in DOMAIN taken |-> EdgeMet(visits, taken[i])]

\* SortGraphAlongHilbertCurve up to and including graph.SortEdges.
SortGraphEdges ==
    /\ phase # "relabel"
    /\ \E byNode \in {nodeOrder} : \E byEdge \in {buildEdgeOrder(byNode)} :
          \E newEdges \in {invertPermutation(byEdge)} :
              /\ Graph!SortEdges(newEdges)
              /\ Turns!SortEdges(newEdges)
              /\ newNodes' = invertPermutation(byNode)
    /\ phase' = "relabel"
    /\ UNCHANGED written

\* graph.RelabelNodes: the list heads move with the node records, then the
\* entry array is rebuilt.
RelabelGraphNodes ==
    /\ phase = "relabel"
    /\ Graph!RelabelNodes(newNodes)
    /\ Turns!SortNodes([n \in Nodes |-> tcRef[Graph!invertPermutation(newNodes)[n]]])
    /\ phase' = "sorted"
    /\ newNodes' = << >>
    /\ UNCHANGED written

Next ==
    \/ nodeCount < MaxNodes /\ \E p \in Positions : SetNode(nodeCount, p)
    \/ \E a, b \in Nodes : AddEdge(a, b)
    \/ \E via \in Nodes, cost \in Costs :
          \E from, to \in Graph!Incident(via) : SetTurnCost(from, via, to, cost)
    \/ SortGraphEdges
    \/ RelabelGraphNodes

Spec == Init /\ [][Next]_vars

-----------------------------------------------------------------------------

\* A lookup returns the cost last set for that turn and 0 for every other
\* turn, whatever sorts have renumbered its edges and its via node since.
TurnCostsKept ==
    \A via \in Nodes : \A from, to \in Edges :
        Turns!GetDecimal(from, via, to) =
            IF Turn(from, via, to) \in DOMAIN written
            THEN written[Turn(from, via, to)] ELSE 0

\* Every entry is in exactly one node's list and each turn has one entry, so
\* SortNodes finds as many entries as there were and never panics with "turn
\* cost count changed unexpectedly".
EveryEntryListedOnce ==
    LET list(n) == Turns!ListFrom(tcRef[n])
    IN  /\ UNION {ToSet(list(n)) : n \in Nodes} = Turns!Indices
        /\ \A m, n \in Nodes : \A j \in DOMAIN list(m), k \in DOMAIN list(n) :
               list(m)[j] = list(n)[k] => m = n /\ j = k
        /\ tcCount = Cardinality(DOMAIN written)

\* The order found by visiting the nodes contains every edge exactly once, so
\* the inverse that SortEdges is given is defined everywhere and one-to-one.
EdgeOrderIsPermutation ==
    LET order == buildEdgeOrder(nodeOrder)
    IN  Len(order) = edgeCount /\ ToSet(order) = Edges

\* Sorting achieves its purpose: afterwards nodes are in Hilbert order and edges
\* in the order of their first end node.  In fact the result is a fixed point:
\* sorting it again would move nothing, although the second traversal follows
\* the links that the first one rewrote.
SortedAfterSort ==
    phase = "sorted" =>
        LET order == buildEdgeOrder(nodeOrder)
        IN  /\ \A i \in DOMAIN nodeOrder : nodeOrder[i] = i - 1
            /\ \A i \in DOMAIN order : order[i] = i - 1
=============================================================================
