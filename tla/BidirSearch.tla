---------------------------- MODULE BidirSearch ----------------------------
(***************************************************************************)
(* The bidirectional search that answers a route request without           *)
(* preparation: core/routing/abstract_bidir_algo.go with its two instances *)
(* dijkstra_bidirection_ref.go and astar_bidirection.go, node-based and    *)
(* edge-based, with start and target edge restrictions.                    *)
(*                                                                         *)
(* The order in which an explorer returns the edges of a node is left      *)
(* open, and so is the order of heap entries of equal weight.              *)
(***************************************************************************)
EXTENDS RouteRequests

VARIABLES pc,        \* what comes next, and for which side
          tree,      \* bestWeightMapFrom / To: traversal id -> entry
          heap,      \* pqOpenSetFrom / To: the entries that are not deleted
          curr,      \* currFrom, currTo
          pending,   \* edges of the node of curr the iterator has still to return
          finished,  \* finishedFrom, finishedTo
          best,      \* BestFwdEntry, BestBwdEntry, BestWeight
          result

vars == <<query, pc, tree, heap, curr, pending, finished, best, result>>

-----------------------------------------------------------------------------

accept(e, entry, s) ==
    /\ query.edgeBased \/ IsRoot(entry) \/ e # Last(entry.edges)
    /\ IsRoot(entry) => query.only[s] \in {AnyEdge, e}   \* additionalEdgeFilter

\* BalancedWeightApproximator, doubled to stay within the integers.
Approximate(n, s) ==
    LET toGoal == Beeline(query, n, query.start["to"])
        toStart == Beeline(query, n, query.start["from"])
        offset == Beeline(query, query.start["from"], query.start["to"])
    IN  IF ~query.astar THEN 0
        ELSE IF s = "from" THEN offset + (toGoal - toStart) ELSE offset - (toGoal - toStart)

HeapWeight(entry, s) == 2 * entry.weight + Approximate(entry.node, s)

\* A path that was not found.
NoPath == [weight |-> Inf, edges |-> << >>]

\* Mutation: edge-based, the shared edge stays on both sides.
updateBestPathEntryKeepEdge(b, entry, id, s) ==
    IF id \notin DOMAIN tree[Other(s)] THEN b
    ELSE LET other == tree[Other(s)][id]
             weight == entry.weight + other.weight
         IN  IF b.weight = Inf \/ weight < b.weight
             THEN [weight |-> weight,
                   entry |-> [x \in Sides |-> IF x = s THEN entry ELSE other]]
             ELSE b

\* updateBestPathEntry: entry, made from curr[s] and now in the tree of side s
\* under id, may meet the other side's.  Edge-based both contain the edge, so it
\* is taken out of one: the parent stands for the entry.
updateBestPathEntry(b, entry, id, s) ==
    IF id \notin DOMAIN tree[Other(s)] THEN b
    ELSE LET other == tree[Other(s)][id]
             edge == Last(entry.edges)
             weight == IF ~query.edgeBased THEN entry.weight + other.weight
                       ELSE entry.weight + other.weight - EdgeWeight(edge, curr[s].node, s)
             mine == IF query.edgeBased THEN curr[s] ELSE entry
         IN  IF b.weight = Inf \/ weight < b.weight
             THEN [weight |-> weight,
                   entry |-> [x \in Sides |-> IF x = s THEN mine ELSE other]]
             ELSE b

NoBest == [weight |-> Inf, entry |-> [s \in Sides |-> NoEntry]]

-----------------------------------------------------------------------------

\* CalcPathEdgeToEdge up to the first fillEdges: init, initFrom, initTo,
\* postInit.
Init ==
    /\ query \in Queries
    /\ curr = [s \in Sides |-> NewSPTEntry(query.start[s])]
    /\ heap = [s \in Sides |-> {curr[s]}]
    /\ tree = [s \in Sides |-> IF query.edgeBased THEN << >> ELSE [n \in {query.start[s]} |-> curr[s]]]
    /\ LET same == query.start["from"] = query.start["to"]
           unrestricted == query.only = [s \in Sides |-> AnyEdge]
       IN  /\ best = IF same /\ unrestricted THEN [weight |-> 0, entry |-> curr] ELSE NoBest
           /\ IF query.edgeBased /\ same /\ unrestricted
              THEN finished = [s \in Sides |-> TRUE] /\ pc = <<"head", "from">>
              ELSE finished = [s \in Sides |-> FALSE] /\ pc = <<"fill", "from">>
    /\ pending = {}
    /\ result = NoPath

\* The other side follows, then the loop condition.
After(s) == IF s = "from" THEN <<"fill", "to">> ELSE <<"head", "from">>

\* fillEdgesFrom / fillEdgesTo up to the loop over the edges: the lightest
\* entry is popped.  Without one, the side is finished.
Pop(s) ==
    /\ pc = <<"fill", s>>
    /\ IF finished[s] \/ heap[s] = {}
       THEN /\ finished' = [finished EXCEPT ![s] = TRUE]
            /\ pc' = After(s)
            /\ UNCHANGED <<heap, curr, pending>>
       ELSE \E entry \in heap[s] :
            /\ \A x \in heap[s] : HeapWeight(entry, s) <= HeapWeight(x, s)
            /\ heap' = [heap EXCEPT ![s] = @ \ {entry}]
            /\ curr' = [curr EXCEPT ![s] = entry]
            /\ pending' = {e \in Incident(entry.node) : accept(e, entry, s)}
            /\ pc' = IF pending' = {} THEN After(s) ELSE <<"relax", s>>
            /\ UNCHANGED finished
    /\ UNCHANGED <<query, tree, best, result>>

\* One iteration of the loop of fillEdges.  A worse entry for the same id is
\* replaced; if it was one of the two best entries, its successor becomes one.
Relax(s) ==
    /\ pc = <<"relax", s>>
    /\ \E e \in pending :
         /\ LET entry == createEntry(e, curr[s], s)
                id == TraversalID(e, curr[s].node, s)
                replaced == {tree[s][i] : i \in DOMAIN tree[s] \cap {id}}
                kept == IF best.entry[s] \in replaced
                        THEN [best EXCEPT !.entry[s] = entry] ELSE best
            IN  IF Improves(entry, id, tree[s])
                THEN /\ tree' = [tree EXCEPT ![s] = Filed(@, id, entry)]
                     /\ heap' = [heap EXCEPT ![s] = (@ \ replaced) \cup {entry}]
                     /\ best' = updateBestPathEntry(kept, entry, id, s)
                ELSE UNCHANGED <<tree, heap, best>>
         /\ pending' = pending \ {e}
    /\ pc' = IF pending' = {} THEN After(s) ELSE pc
    /\ UNCHANGED <<query, curr, finished, result>>

\* Mutation: the search stops where the two sides first meet.
IsFinishedWhenMet == (\E s \in Sides : finished[s]) \/ best.weight # Inf

\* finished and astarFinished (whose offset is the estimate at the goal).
IsFinished ==
    \/ \E s \in Sides : finished[s]
    \/ /\ best.weight # Inf
       /\ HeapWeight(curr["from"], "from") + HeapWeight(curr["to"], "to")
             >= 2 * best.weight + Approximate(query.start["to"], "to")

\* extractPath: the edges of the two chains, glued where they meet.
Extract ==
    IF best.entry["from"] = NoEntry \/ best.entry["to"] = NoEntry THEN NoPath
    ELSE [weight |-> best.weight,
          edges |-> best.entry["from"].edges \o Reverse(best.entry["to"].edges)]

\* The loop condition of runAlgo.  The limits on visited nodes and on time may
\* be exceeded at any time; then there is no path unless the search is over.
runAlgo ==
    /\ pc = <<"head", "from">>
    /\ \/ ~IsFinished /\ pc' = <<"fill", "from">> /\ UNCHANGED result
       \/ IsFinished /\ pc' = <<"done", "from">> /\ result' = Extract
       \/ ~IsFinished /\ pc' = <<"exceeded", "from">> /\ UNCHANGED result
    /\ UNCHANGED <<query, tree, heap, curr, pending, finished, best>>

Next == runAlgo \/ \E s \in Sides : Pop(s) \/ Relax(s)

-----------------------------------------------------------------------------

\* Ended: with or without a path.
Ended == pc[1] \in {"done", "exceeded"}

\* No step replaces an entry of the tree that has been popped.
VisitedStay ==
    \A s \in Sides : \A id \in DOMAIN tree[s] :
        tree[s][id] \notin heap[s] => tree'[s][id] = tree[s][id]
=============================================================================
