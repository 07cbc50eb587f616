------------------------------ MODULE Dijkstra ------------------------------
(***************************************************************************)
(* The searches from the start only: core/routing/dijkstra.go and astar.go *)
(* (query.astar tells which), both on abstract_routing_algorithm.go.       *)
(* Dijkstra ignores query.only, so a query that has one is for A*.         *)
(***************************************************************************)
EXTENDS RouteRequests

VARIABLES pc,        \* "pop", "relax", "done" or "exceeded"
          tree,      \* fromMap: traversal id -> entry
          heap,      \* fromHeap: the entries that are not deleted
          curr,      \* currEdge, NoEntry before the first pop
          pending,   \* edges of the node of curr the iterator has still to return
          result

vars == <<query, pc, tree, heap, curr, pending, result>>

-----------------------------------------------------------------------------

\* The weight approximator of A*: the beeline to the goal.
Approximate(n) == IF query.astar THEN Beeline(query, n, query.start["to"]) ELSE 0

HeapWeight(entry) == entry.weight + Approximate(entry.node)

\* Accept; A* restricts the first edge too.
Accept(e, entry) ==
    /\ query.edgeBased \/ IsRoot(entry) \/ e # Last(entry.edges)
    /\ IsRoot(entry) => query.only["from"] \in {AnyEdge, e}

\* finished: the entry ends the search, by the last edge that A* requires.
IsFinished(entry) ==
    /\ entry.node = query.start["to"]
    /\ query.only["to"] = AnyEdge \/ (~IsRoot(entry) /\ Last(entry.edges) = query.only["to"])
    /\ query.only["from"] = AnyEdge \/ ~IsRoot(entry)

NoPath == [weight |-> Inf, edges |-> << >>]

ExtractPath(entry) == [weight |-> entry.weight, edges |-> entry.edges]

\* CalcPath up to the loop.
Init ==
    /\ query \in Queries
    /\ query.only = [s \in Sides |-> AnyEdge] \/ query.astar   \* CalcPathEdgeToEdge is A*'s only
    /\ LET start == NewSPTEntry(query.start["from"])
       IN  /\ heap = {start}
           /\ tree = IF query.edgeBased THEN << >> ELSE [n \in {query.start["from"]} |-> start]
    /\ curr = NoEntry
    /\ pending = {}
    /\ result = NoPath
    /\ pc = "pop"

\* Mutation: the lightest entry is looked at but stays in the heap.
RestWithTop(entry) == heap

\* heap.Pop: what is left without the lightest entry.
Rest(entry) == heap \ {entry}

\* The head of the loop of runAlgo, and extractPath when the loop ends there.
\* The limits may be exceeded at any entry; if it ends the search all the same,
\* its path is returned.
Pop ==
    /\ pc = "pop"
    /\ \/ heap = {} /\ pc' = "done" /\ UNCHANGED <<heap, curr, pending, result>>
       \/ \E entry \in heap :
            /\ \A x \in heap : HeapWeight(entry) <= HeapWeight(x)
            /\ heap' = Rest(entry)
            /\ curr' = entry
            /\ IF IsFinished(entry)
               THEN pc' = "done" /\ pending' = {} /\ result' = ExtractPath(entry)
               ELSE /\ UNCHANGED result
                    /\ \/ pc' = "exceeded" /\ pending' = {}
                       \/ /\ pending' = {e \in Incident(entry.node) : Accept(e, entry)}
                          /\ pc' = IF pending' = {} THEN "pop" ELSE "relax"
    /\ UNCHANGED <<query, tree>>

\* One iteration of the loop over the edges of the popped entry's node.
Relax ==
    /\ pc = "relax"
    /\ \E e \in pending :
         /\ LET entry == createEntry(e, curr, "from")
                id == TraversalID(e, curr.node, "from")
                replaced == {tree[i] : i \in DOMAIN tree \cap {id}}
            IN  IF Improves(entry, id, tree)
                THEN /\ tree' = Filed(tree, id, entry)
                     /\ heap' = (heap \ replaced) \cup {entry}
                ELSE UNCHANGED <<tree, heap>>
         /\ pending' = pending \ {e}
    /\ pc' = IF pending' = {} THEN "pop" ELSE "relax"
    /\ UNCHANGED <<query, curr, result>>

Next == Pop \/ Relax

-----------------------------------------------------------------------------

\* Ended: with or without a path.
Ended == pc \in {"done", "exceeded"}

\* No step replaces an entry of the tree that has been popped.
VisitedStay ==
    \A id \in DOMAIN tree : tree[id] \notin heap => tree'[id] = tree[id]
=============================================================================
