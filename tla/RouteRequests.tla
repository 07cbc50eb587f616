--------------------------- MODULE RouteRequests ---------------------------
(***************************************************************************)
(* The requests that the searches without preparation answer, each with    *)
(* the road network as the request sees it, its nodes on a line.  NoEdge   *)
(* as first or last edge, to which AStar answers with an empty path before *)
(* it searches, is left out.                                               *)
(***************************************************************************)
EXTENDS SearchTree

CONSTANT Queries   \* see QueriesAssumption

ASSUME QueriesAssumption ==
    /\ Inf \notin Int
    /\ \A q \in Queries :
        /\ DOMAIN q = {"edges", "pos", "restricted", "uTurn", "start", "only",
                       "edgeBased", "astar"}
        /\ IsFiniteSet(DOMAIN q.edges) /\ AnyEdge \notin DOMAIN q.edges
        /\ NoEntry \notin [node : DOMAIN q.pos, weight : Nat, edges : Seq(DOMAIN q.edges)]
        /\ \A e \in DOMAIN q.edges :
              /\ q.edges[e].a # q.edges[e].b
              /\ {q.edges[e].a, q.edges[e].b} \subseteq DOMAIN q.pos
              /\ \A w \in {q.edges[e].fwd, q.edges[e].bwd} :
                    w \in Weights /\ (w = Inf \/ w >= Beeline(q, q.edges[e].a, q.edges[e].b))
        /\ \A n \in DOMAIN q.pos : q.pos[n] \in Nat
        /\ q.uTurn \in Weights
        /\ q.start \in [Sides -> DOMAIN q.pos]
        /\ q.only \in [Sides -> DOMAIN q.edges \cup {AnyEdge}]
        /\ q.edgeBased \in BOOLEAN /\ q.astar \in BOOLEAN
        \* NewAbstractBidirAlgo and CalcPathEdgeToEdge panic otherwise
        /\ ~q.edgeBased => q.restricted = {} /\ q.uTurn = 0 /\ q.only = [s \in Sides |-> AnyEdge]
=============================================================================
