----------------------------- MODULE BaseGraph -----------------------------
(***************************************************************************)
(* The node and edge store of the routing graph                            *)
(* (core/storage/base_graph_nodes_and_edges.go, base_graph.go).            *)
(*                                                                         *)
(* An edge record carries two links, one per end node.  The edges around a *)
(* node form a singly linked list: the node record holds the first edge,   *)
(* and edge e continues at linkA when the node is e's nodeA, at linkB when *)
(* it is e's nodeB.  New edges are prepended to both lists.  Edge ids and  *)
(* node ids are array indices, so SortEdges and RelabelNodes move records  *)
(* and must rewrite every reference to them.                               *)
(*                                                                         *)
(* "tag" is an auxiliary field: the id the node or edge had when it was    *)
(* created.  It moves with its record and no guard reads it; the           *)
(* properties use it as the identity that survives renumbering.            *)
(***************************************************************************)
EXTENDS Integers, Functions

CONSTANTS MaxNodes,      \* bound on the node ids the importer uses
          MaxEdgeCount,  \* stands for math.MaxInt32
          Positions      \* coordinates; 0 is the content of fresh storage

ASSUME BoundsAssumption == MaxNodes \in Nat /\ MaxEdgeCount \in Nat
ASSUME PositionsAssumption == Positions \subseteq Int /\ 0 \in Positions

VARIABLES nodeCount, edgeCount,  \* number of records in use
          nodes, edges,          \* the record arrays
          frozen                 \* no more edges may be added

vars == <<nodeCount, edgeCount, nodes, edges, frozen>>

NoEdge == -1

Nodes == 0 .. (nodeCount - 1)
Edges == 0 .. (edgeCount - 1)

NodeRecord(edgeRefs, tags) == [edgeRef : edgeRefs, pos : Positions, tag : tags]
EdgeRecord(ns, refs, tags) ==
    [nodeA : ns, nodeB : ns, linkA : refs, linkB : refs, tag : tags]

-----------------------------------------------------------------------------

\* Create: empty arrays, not frozen.
Init ==
    /\ nodeCount = 0
    /\ edgeCount = 0
    /\ nodes = [n \in {} |-> [edgeRef |-> NoEdge, pos |-> 0, tag |-> 0]]
    /\ edges = [e \in {} |->
          [nodeA |-> 0, nodeB |-> 0, linkA |-> NoEdge, linkB |-> NoEdge, tag |-> 0]]
    /\ frozen = FALSE

\* The node count and the node array after EnsureNodeCapacity(n): every node
\* below an unknown n springs into being with an empty edge list.
GrownCount(n) == IF n < nodeCount THEN nodeCount ELSE n + 1

\* Mutation: the reference of a new node keeps the zero of fresh storage.
GrownNodesZeroed(n) ==
    [m \in 0 .. (GrownCount(n) - 1) |->
        IF m < nodeCount THEN nodes[m] ELSE [edgeRef |-> 0, pos |-> 0, tag |-> m]]

GrownNodes(n) ==
    [m \in 0 .. (GrownCount(n) - 1) |->
        IF m < nodeCount THEN nodes[m]
                         ELSE [edgeRef |-> NoEdge, pos |-> 0, tag |-> m]]

EnsureNodeCapacity(n) ==
    /\ nodeCount' = GrownCount(n)
    /\ nodes' = GrownNodes(n)
    /\ UNCHANGED <<edgeCount, edges, frozen>>

\* Mutation: coordinates given to an existing node reset its edge list.
SetNodeAnew(n, p) ==
    /\ nodeCount' = GrownCount(n)
    /\ nodes' = [GrownNodes(n) EXCEPT ![n] = [@ EXCEPT !.pos = p, !.edgeRef = NoEdge]]
    /\ UNCHANGED <<edgeCount, edges, frozen>>

\* NodeAccess.SetNode: creates the node if need be and stores its coordinates.
SetNode(n, p) ==
    /\ nodeCount' = GrownCount(n)
    /\ nodes' = [GrownNodes(n) EXCEPT ![n].pos = p]
    /\ UNCHANGED <<edgeCount, edges, frozen>>

\* Mutation: edge 0 is taken for "no edge".
HeadOfPositive(ref) == IF ref > 0 THEN ref ELSE NoEdge

\* The link that a new edge takes over from the head of a node's list.
HeadOf(ref) == IF ref >= 0 THEN ref ELSE NoEdge

\* BaseGraph.Edge: a new edge becomes the head of the lists of both its ends.
Edge(a, b) ==
    /\ ~frozen
    /\ edgeCount # MaxEdgeCount
    /\ a # b
    /\ LET top == IF a < b THEN b ELSE a
           grown == GrownNodes(top)
       IN  /\ nodeCount' = GrownCount(top)
           /\ edgeCount' = edgeCount + 1
           /\ edges' = [e \in 0 .. edgeCount |->
                 IF e < edgeCount THEN edges[e]
                 ELSE [nodeA |-> a, nodeB |-> b,
                       linkA |-> HeadOf(grown[a].edgeRef),
                       linkB |-> HeadOf(grown[b].edgeRef),
                       tag |-> e]]
           /\ nodes' = [n \in DOMAIN grown |->
                 IF n \in {a, b} THEN [grown[n] EXCEPT !.edgeRef = edgeCount]
                                 ELSE grown[n]]
    /\ UNCHANGED frozen

Freeze ==
    /\ frozen' = TRUE
    /\ UNCHANGED <<nodeCount, edgeCount, nodes, edges>>

-----------------------------------------------------------------------------

\* The inverse of a permutation: inv[perm[i]] = i.
invertPermutation(perm) ==
    [j \in DOMAIN perm |-> CHOOSE i \in DOMAIN perm : perm[i] = j]

\* A reference to an edge after the edges have been renumbered.
remapEdge(ref, newEdge) == IF ref = NoEdge THEN NoEdge ELSE newEdge[ref]

\* Mutation: only one of the two links follows the renumbering.
storeEdgeLinkA(rec, newEdge) == [rec EXCEPT !.linkA = remapEdge(rec.linkA, newEdge)]

\* What storeEdge writes for a record that moves to its new place.
storeEdge(rec, newEdge) ==
    [rec EXCEPT !.linkA = remapEdge(rec.linkA, newEdge),
                !.linkB = remapEdge(rec.linkB, newEdge)]

\* SortEdges as a whole; newEdge maps old ids to new ones.  The cycle-following
\* loop that does this in place is the subject of PermuteInPlace.
SortEdges(newEdge) ==
    /\ edges' = [e \in Edges |->
                   storeEdge(edges[invertPermutation(newEdge)[e]], newEdge)]
    /\ nodes' = [n \in Nodes |->
                   [nodes[n] EXCEPT !.edgeRef = remapEdge(nodes[n].edgeRef, newEdge)]]
    /\ UNCHANGED <<nodeCount, edgeCount, frozen>>

\* Mutation: only one end of each edge is renamed.
RelabelNodesFirstEnds(newNode) ==
    /\ edges' = [e \in Edges |-> [edges[e] EXCEPT !.nodeA = newNode[edges[e].nodeA]]]
    /\ nodes' = [n \in Nodes |-> nodes[invertPermutation(newNode)[n]]]
    /\ UNCHANGED <<nodeCount, edgeCount, frozen>>

\* RelabelNodes as a whole; newNode maps old ids to new ones.
RelabelNodes(newNode) ==
    /\ edges' = [e \in Edges |->
                   [edges[e] EXCEPT !.nodeA = newNode[edges[e].nodeA],
                                    !.nodeB = newNode[edges[e].nodeB]]]
    /\ nodes' = [n \in Nodes |-> nodes[invertPermutation(newNode)[n]]]
    /\ UNCHANGED <<nodeCount, edgeCount, frozen>>

-----------------------------------------------------------------------------

NodeIds == 0 .. (MaxNodes - 1)

Next ==
    \/ \E n \in NodeIds : EnsureNodeCapacity(n)
    \/ \E n \in NodeIds, p \in Positions : SetNode(n, p)
    \/ \E a, b \in NodeIds : Edge(a, b)
    \/ Freeze
    \/ \E newEdge \in Bijection(Edges, Edges) : SortEdges(newEdge)
    \/ \E newNode \in Bijection(Nodes, Nodes) : RelabelNodes(newNode)

Spec == Init /\ [][Next]_vars

-----------------------------------------------------------------------------

\* The edge explorer: goToNext follows the link that belongs to the base node.
Link(e, base) == IF edges[e].nodeA = base THEN edges[e].linkA ELSE edges[e].linkB

\* The k-th edge reference met from a node; NoEdge once the list has ended.
Chain(base) ==
    LET ref[k \in 0 .. edgeCount] ==
            IF k = 0 THEN nodes[base].edgeRef
            ELSE IF ref[k - 1] = NoEdge THEN NoEdge ELSE Link(ref[k - 1], base)
    IN  ref

\* The edges an explorer set to the base node returns, in its order.
AdjList(base) ==
    LET ref == Chain(base)
        len == CHOOSE k \in 0 .. edgeCount :
                   /\ ref[k] = NoEdge
                   /\ \A j \in 0 .. (k - 1) : ref[j] # NoEdge
    IN  [i \in 1 .. len |-> ref[i - 1]]

Incident(n) == {e \in Edges : edges[e].nodeA = n \/ edges[e].nodeB = n}

-----------------------------------------------------------------------------

\* Counts, references and records have the ranges the storage format gives
\* them; a reference is NoEdge or the id of an edge that exists.
TypeOK ==
    /\ nodeCount \in Nat
    /\ edgeCount \in 0 .. MaxEdgeCount
    /\ nodes \in [Nodes -> NodeRecord(Edges \cup {NoEdge}, Nodes)]
    /\ edges \in [Edges -> EdgeRecord(Nodes, Edges \cup {NoEdge}, Edges)]
    /\ frozen \in BOOLEAN

\* ref is the most recently created edge of S, or NoEdge when S is empty.
IsNewest(es, ref, S) ==
    \/ S = {} /\ ref = NoEdge
    \/ ref \in S /\ \A e \in S : es[e].tag <= es[ref].tag

\* The edges of S created before e.
Older(es, e, S) == {f \in S : es[f].tag < es[e].tag}

\* Through any mix of insertions, edge sorts and node relabellings, a node's
\* edgeRef is its newest edge and each link leads to the next older edge of the
\* same node: no list ever loses an edge, skips one, crosses into the list of
\* another node or closes into a cycle.
LinkedNewestFirst ==
    \A n \in Nodes :
        /\ IsNewest(edges, nodes[n].edgeRef, Incident(n))
        /\ \A e \in Incident(n) :
               IsNewest(edges, Link(e, n), Older(edges, e, Incident(n)))

\* An explorer terminates and returns every edge of its base node exactly once:
\* the walk over linkA and linkB agrees with a scan of all edge records.
ExplorerVisitsEachEdgeOnce ==
    \A n \in Nodes :
        /\ Chain(n)[edgeCount] = NoEdge
        /\ Range(AdjList(n)) = Incident(n)
        /\ IsInjective(AdjList(n))

\* No edge is lost or duplicated by a renumbering, and no edge is a loop: the
\* tags of the records stay a permutation of the creation order.
NoEdgeLost ==
    /\ IsInjective([e \in Edges |-> edges[e].tag])
    /\ IsInjective([n \in Nodes |-> nodes[n].tag])
    /\ \A e \in Edges : edges[e].nodeA # edges[e].nodeB

-----------------------------------------------------------------------------

\* The multigraph this store implements: nodes and edges by identity, and for
\* each node the order in which an explorer returns its edges.
NodeAt(t) == CHOOSE n \in Nodes : nodes[n].tag = t
EdgeAt(t) == CHOOSE e \in Edges : edges[e].tag = t

Multigraph ==
    INSTANCE Multigraph WITH
        pos <- [t \in Nodes |-> nodes[NodeAt(t)].pos],
        ends <- [t \in Edges |-> <<nodes[edges[EdgeAt(t)].nodeA].tag,
                                   nodes[edges[EdgeAt(t)].nodeB].tag>>],
        around <- [t \in Nodes |->
                     LET list == AdjList(NodeAt(t))
                     IN  [i \in DOMAIN list |-> edges[list[i]].tag]],
        closed <- frozen

\* Renumbering is invisible: the store implements a multigraph in which
\* SortEdges and RelabelNodes do nothing at all, not even to the order in which
\* the edges around a node are returned.
ImplementsMultigraph == Multigraph!Spec
=============================================================================
