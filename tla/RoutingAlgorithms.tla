-------------------------- MODULE RoutingAlgorithms --------------------------
(***************************************************************************)
(* The algorithm objects of routing_algorithm_factory_simple.go, in         *)
(* core/routing: one is made for a request by the name of its algorithm and *)
(* answers it once.  Dijkstra and A* search from the start, their bidirec- *)
(* tional variants from both ends; query.astar tells A* from Dijkstra.     *)
(***************************************************************************)
EXTENDS RouteRequests

VARIABLES algorithm,   \* of the request: a member of Algorithms
          pc, tree, heap, curr, pending, finished, best, result   \* see BidirSearch, Dijkstra

vars == <<algorithm, query, pc, tree, heap, curr, pending, finished, best, result>>

Bidir == INSTANCE BidirSearch
Unidir == INSTANCE Dijkstra
W == INSTANCE Walks

\* The constants AlgoDijkstra, AlgoAStar and their bidirectional variants.
Algorithms == [astar : BOOLEAN, bidirectional : BOOLEAN]

\* CreateAlgo, and the search up to its loop.
Init ==
    /\ algorithm \in Algorithms
    /\ IF algorithm.bidirectional THEN Bidir!Init
       ELSE Unidir!Init /\ finished = NoEntry /\ best = NoEntry
    /\ query.astar = algorithm.astar

Bidirectional == algorithm.bidirectional /\ Bidir!Next /\ UNCHANGED algorithm

Unidirectional == ~algorithm.bidirectional /\ Unidir!Next /\ UNCHANGED <<algorithm, finished, best>>

Next == Bidirectional \/ Unidirectional

\* A search runs in the goroutine of its request and never blocks.
Spec == Init /\ [][Next]_vars /\ WF_vars(Next)

-----------------------------------------------------------------------------

\* Whichever algorithm a request names: a path is reported exactly when there is
\* one, with the least weight, and no search ends with a longer one because it
\* stopped too early.  The path of a search from the start is a walk of that
\* weight that respects turns, one-way edges and the required edges.
ShortestPathFound ==
    IF algorithm.bidirectional
    THEN pc[1] = "done" => result.weight = W!Distance(query)
    ELSE pc = "done" => /\ result.weight = W!Distance(query)
                        /\ result # Unidir!NoPath => W!IsWalk(query, result.edges, result.weight)

\* The best weight of a bidirectional search is at all times the weight of the
\* path that would be extracted from the two best entries, which end in the same
\* node: extractPath glues their edges, and panics if the nodes differ.
BestWeightIsOfBestPath ==
    algorithm.bidirectional /\ best.weight # Inf =>
        /\ best.entry["from"].node = best.entry["to"].node
        /\ W!IsWalk(query, Bidir!Extract.edges, best.weight)

\* An entry that was popped is final: it is never replaced by a lighter one, so
\* no node or edge is visited twice and no deleted entry has children.
VisitedEntriesAreFinal ==
    [][IF algorithm.bidirectional THEN Bidir!VisitedStay ELSE Unidir!VisitedStay]_vars

\* Every search ends (runAlgo), with or without a path.
SearchEnds == <>(IF algorithm.bidirectional THEN Bidir!Ended ELSE Unidir!Ended)
=============================================================================
