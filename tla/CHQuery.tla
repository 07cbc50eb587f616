------------------------------ MODULE CHQuery ------------------------------
(***************************************************************************)
(* A route request answered on a contraction hierarchy:                    *)
(* core/routing/abstract_bidir_ch_algo.go, node-based, with stall on       *)
(* demand (dijkstra_bidirection_ch.go) or without it                       *)
(* (dijkstra_bidirection_ch_no_sod.go).  The two sides search upwards only *)
(* and, other than without preparation, both have to run dry or to exceed  *)
(* the best weight.                                                        *)
(***************************************************************************)
EXTENDS SearchTree, CHStorage

CONSTANT Requests   \* records [graph, from, to, stall]

VARIABLES pc,        \* what comes next, and for which side
          tree,      \* bestWeightMapFrom / To: node -> entry
          heap,      \* pqOpenSetFrom / To: the entries that are not deleted
          curr,      \* currFrom, currTo
          pending,   \* edges of the node of curr the iterator has still to return
          finished,  \* finishedFrom, finishedTo
          best,      \* BestFwdEntry, BestBwdEntry, BestWeight
          result

NoBest == [weight |-> Inf, entry |-> [s \in Sides |-> NoEntry]]
NoPath == [weight |-> Inf, edges |-> << >>]

Init ==
    /\ query = [edges |-> << >>, start |-> [s \in Sides |-> NoEntry]]
    /\ pc = <<"idle", "from">>
    /\ tree = [s \in Sides |-> << >>]
    /\ heap = [s \in Sides |-> {}]
    /\ curr = [s \in Sides |-> NoEntry]
    /\ pending = {}
    /\ finished = [s \in Sides |-> FALSE]
    /\ best = NoBest
    /\ result = NoPath

\* CalcPath up to the first fillEdges: init, initFrom, initTo, postInit.
CalcPath(from, to, stall) ==
    /\ pc = <<"idle", "from">>
    /\ query' = [edges |-> CHEdges, restricted |-> {}, uTurn |-> 0, edgeBased |-> FALSE,
                 start |-> [s \in Sides |-> IF s = "from" THEN from ELSE to], stall |-> stall]
    /\ curr' = [s \in Sides |-> NewSPTEntry(query'.start[s])]
    /\ heap' = [s \in Sides |-> {curr'[s]}]
    /\ tree' = [s \in Sides |-> [n \in {query'.start[s]} |-> curr'[s]]]
    /\ best' = IF from = to THEN [weight |-> 0, entry |-> curr'] ELSE NoBest
    /\ pc' = <<"fill", "from">>
    /\ UNCHANGED <<pending, finished, result>>

-----------------------------------------------------------------------------

After(s) == IF s = "from" THEN <<"fill", "to">> ELSE <<"head", "from">>

\* accept with the level filter: never down the hierarchy, never back.
Accept(e, entry) ==
    /\ IsRoot(entry) \/ e # Last(entry.edges)
    /\ level[entry.node] <= level[AdjNode(e, entry.node)]

\* Mutation: the weight of the edge is taken in the direction of the search.
EntryIsStallableForward(entry, s) ==
    \E e \in Explore(entry.node) :
        /\ IsRoot(entry) \/ e # Last(entry.edges)
        /\ AdjNode(e, entry.node) \in DOMAIN tree[s]
        /\ Add(tree[s][AdjNode(e, entry.node)].weight, EdgeWeight(e, entry.node, s))
             \in 0 .. (entry.weight - 1)

\* entryIsStallable: a neighbour, above or below, gets here for less.
EntryIsStallable(entry, s) ==
    \E e \in Explore(entry.node) :
        /\ IsRoot(entry) \/ e # Last(entry.edges)
        /\ AdjNode(e, entry.node) \in DOMAIN tree[s]
        /\ Add(tree[s][AdjNode(e, entry.node)].weight, EdgeWeight(e, entry.node, Other(s)))
             \in 0 .. (entry.weight - 1)

\* fillEdgesFrom / fillEdgesTo up to the loop over the edges.
Pop(s) ==
    /\ pc = <<"fill", s>>
    /\ IF finished[s] \/ heap[s] = {}
       THEN /\ finished' = [finished EXCEPT ![s] = TRUE]
            /\ pc' = After(s)
            /\ UNCHANGED <<heap, curr, pending>>
       ELSE \E entry \in heap[s] :
            /\ \A x \in heap[s] : entry.weight <= x.weight
            /\ heap' = [heap EXCEPT ![s] = @ \ {entry}]
            /\ curr' = [curr EXCEPT ![s] = entry]
            /\ pending' = IF query.stall /\ EntryIsStallable(entry, s) THEN {}
                          ELSE {e \in Explore(entry.node) : Accept(e, entry)}
            /\ pc' = IF pending' = {} THEN After(s) ELSE <<"relax", s>>
            /\ UNCHANGED finished
    /\ UNCHANGED <<query, tree, best, result>>

\* updateBestPathEntry: the entry may meet the other side's.
UpdateBestPathEntry(b, entry, s) ==
    IF entry.node \notin DOMAIN tree[Other(s)] THEN b
    ELSE LET other == tree[Other(s)][entry.node]
             weight == entry.weight + other.weight
         IN  IF b.weight = Inf \/ weight < b.weight
             THEN [weight |-> weight, entry |-> [x \in Sides |-> IF x = s THEN entry ELSE other]]
             ELSE b

\* One iteration of the loop of fillEdges.  A worse entry of the node is
\* replaced; if it was one of the two best entries, its successor becomes one.
Relax(s) ==
    /\ pc = <<"relax", s>>
    /\ \E e \in pending :
         /\ LET entry == createEntry(e, curr[s], s)
                replaced == {tree[s][n] : n \in DOMAIN tree[s] \cap {entry.node}}
                kept == IF best.entry[s] \in replaced
                        THEN [best EXCEPT !.entry[s] = entry] ELSE best
            IN  IF Improves(entry, entry.node, tree[s])
                THEN /\ tree' = [tree EXCEPT ![s] = Filed(@, entry.node, entry)]
                     /\ heap' = [heap EXCEPT ![s] = (@ \ replaced) \cup {entry}]
                     /\ best' = UpdateBestPathEntry(kept, entry, s)
                ELSE UNCHANGED <<tree, heap, best>>
         /\ pending' = pending \ {e}
    /\ pc' = IF pending' = {} THEN After(s) ELSE pc
    /\ UNCHANGED <<query, curr, finished, result>>

IsFinished ==
    \/ \A s \in Sides : finished[s]
    \/ best.weight # Inf /\ \A s \in Sides : curr[s].weight >= best.weight

\* NodeBasedCHBidirPathExtractor, for one side: the base edges from the end of
\* the chain to its root.
UnpackChain(entry, root) ==
    LET chain == entry.edges
        walk[i \in 0 .. Len(chain)] ==
            IF i = 0 THEN [at |-> root, edges |-> << >>]
            ELSE LET at == AdjNode(chain[i], walk[i - 1].at)
                 IN  [at |-> at, edges |-> Unpack(chain[i], at) \o walk[i - 1].edges]
    IN  walk[Len(chain)].edges

Extract ==
    IF best.weight = Inf THEN NoPath
    ELSE [weight |-> best.weight,
          edges |-> Reverse(UnpackChain(best.entry["from"], query.start["from"]))
                      \o UnpackChain(best.entry["to"], query.start["to"])]

\* The loop condition of runAlgo.  The limits on visited nodes and on time may
\* be exceeded at any time; then there is no path unless the search is over.
RunAlgo ==
    /\ pc = <<"head", "from">>
    /\ \/ ~IsFinished /\ pc' = <<"fill", "from">> /\ UNCHANGED result
       \/ IsFinished /\ pc' = <<"done", "from">> /\ result' = Extract
       \/ ~IsFinished /\ pc' = <<"exceeded", "from">> /\ UNCHANGED result
    /\ UNCHANGED <<query, tree, heap, curr, pending, finished, best>>

Next ==
    \/ \E r \in {x \in Requests : x.graph = graph} : CalcPath(r.from, r.to, r.stall)
    \/ RunAlgo
    \/ \E s \in Sides : Pop(s) \/ Relax(s)
=============================================================================
