-------------------------- MODULE BaseGraphProofs --------------------------
(***************************************************************************)
(* The adjacency lists of the graph store are correct for every number of  *)
(* nodes and edges and every sequence of insertions and renumberings.  The *)
(* edge explorer terminates and returns every edge of its base node once,  *)
(* and the store implements the multigraph its users are promised, in      *)
(* which renumbering is invisible.                                         *)
(***************************************************************************)
EXTENDS BaseGraph, Induction, FiniteSetTheorems

\* The inductive invariant.  The list order alone is not inductive: prepending
\* needs the new tag to exceed all others (TypeOK), and renumbering needs tags
\* to be distinct and end nodes to differ (NoEdgeLost), for Link to pick the
\* same side before and after.
IndInv == TypeOK /\ NoEdgeLost /\ LinkedNewestFirst

-----------------------------------------------------------------------------

\* invertPermutation really inverts: both compositions are the identity.
LEMMA InverseOfPermutation ==
    ASSUME NEW S, NEW perm \in Bijection(S, S)
    PROVE  LET inv == invertPermutation(perm)
           IN  /\ perm \in [S -> S]
               /\ inv \in [S -> S]
               /\ \A i \in S : perm[inv[i]] = i
               /\ \A i \in S : inv[perm[i]] = i
               /\ \A i, j \in S : perm[i] = perm[j] => i = j
<1> DEFINE inv == invertPermutation(perm)
<1>1. /\ perm \in [S -> S]
      /\ \A i, j \in S : perm[i] = perm[j] => i = j
      /\ \A j \in S : \E i \in S : perm[i] = j
  BY DEF Bijection, Injection, Surjection, IsInjective
<1>2. inv = [j \in S |-> CHOOSE i \in S : perm[i] = j]
  BY <1>1 DEF invertPermutation
<1>3. \A j \in S : inv[j] \in S /\ perm[inv[j]] = j
  <2> TAKE j \in S
  <2>1. PICK i \in S : perm[i] = j
    BY <1>1
  <2>2. inv[j] = CHOOSE k \in S : perm[k] = j
    BY <1>2
  <2> QED
    BY <2>1, <2>2
<1>4. inv \in [S -> S]
  BY <1>2, <1>3
<1>5. \A i \in S : inv[perm[i]] = i
  BY <1>1, <1>3
<1> QED
  BY <1>1, <1>3, <1>4, <1>5

-----------------------------------------------------------------------------

\* The empty graph that Create makes satisfies the inductive invariant.
LEMMA InitEstablishesIndInv == Init => IndInv
<1> SUFFICES ASSUME Init PROVE IndInv
  OBVIOUS
<1>1. Nodes = {} /\ Edges = {}
  BY DEF Init, Nodes, Edges
<1>2. TypeOK
  <2>1. \A X : nodes \in [Nodes -> X] /\ edges \in [Edges -> X]
    BY <1>1 DEF Init
  <2>2. nodeCount \in Nat /\ edgeCount \in 0 .. MaxEdgeCount /\ frozen \in BOOLEAN
    <3>1. nodeCount = 0 /\ edgeCount = 0 /\ frozen = FALSE
      BY DEF Init
    <3>2. frozen \in BOOLEAN
      BY <3>1, Zenon
    <3>3. nodeCount \in Nat /\ edgeCount \in 0 .. MaxEdgeCount
      BY <3>1, BoundsAssumption
    <3> QED
      BY <3>2, <3>3
  <2> QED
    BY <1>1, <2>1, <2>2 DEF TypeOK
<1>3. NoEdgeLost /\ LinkedNewestFirst
  BY <1>1 DEF NoEdgeLost, LinkedNewestFirst, IsInjective
<1> QED
  BY <1>2, <1>3 DEF IndInv

\* What growing the node array to hold node v does: old nodes keep their
\* records, new ones have an empty list and their own id as tag.
LEMMA Growth ==
    ASSUME TypeOK, NoEdgeLost, NEW v \in Nat
    PROVE  /\ GrownCount(v) \in Nat
           /\ v < GrownCount(v)
           /\ nodeCount <= GrownCount(v)
           /\ GrownNodes(v) \in [0 .. (GrownCount(v) - 1) ->
                 NodeRecord(Edges \cup {NoEdge}, 0 .. (GrownCount(v) - 1))]
           /\ \A n \in Nodes : GrownNodes(v)[n] = nodes[n]
           /\ \A n \in (0 .. (GrownCount(v) - 1)) \ Nodes :
                 GrownNodes(v)[n].edgeRef = NoEdge /\ GrownNodes(v)[n].tag = n
           /\ \A m, n \in 0 .. (GrownCount(v) - 1) :
                 GrownNodes(v)[m].tag = GrownNodes(v)[n].tag => m = n
<1> DEFINE G == 0 .. (GrownCount(v) - 1)
<1>1. nodeCount \in Nat /\ nodes \in [Nodes -> NodeRecord(Edges \cup {NoEdge}, Nodes)]
  BY DEF TypeOK
<1>2. GrownCount(v) \in Nat /\ v < GrownCount(v) /\ nodeCount <= GrownCount(v)
  BY <1>1 DEF GrownCount
<1>3. Nodes \subseteq G
  BY <1>1, <1>2 DEF Nodes
<1>4. GrownNodes(v) = [m \in G |-> IF m \in Nodes THEN nodes[m]
                                   ELSE [edgeRef |-> NoEdge, pos |-> 0, tag |-> m]]
  BY <1>1, <1>2 DEF GrownNodes, Nodes
<1>5. \A n \in Nodes : nodes[n] \in NodeRecord(Edges \cup {NoEdge}, G)
  BY <1>1, <1>3 DEF NodeRecord
<1>6. GrownNodes(v) \in [G -> NodeRecord(Edges \cup {NoEdge}, G)]
  BY <1>4, <1>5, PositionsAssumption DEF NodeRecord
<1>7. \A n \in Nodes : GrownNodes(v)[n] = nodes[n]
  BY <1>3, <1>4
<1>8. \A n \in G \ Nodes : GrownNodes(v)[n].edgeRef = NoEdge /\ GrownNodes(v)[n].tag = n
  BY <1>4
<1>9. \A m, n \in Nodes : nodes[m].tag = nodes[n].tag => m = n
  BY DEF NoEdgeLost, IsInjective
<1>10. \A n \in Nodes : nodes[n].tag \in Nodes
  BY <1>1 DEF NodeRecord
<1>11. \A m, n \in G : GrownNodes(v)[m].tag = GrownNodes(v)[n].tag => m = n
  BY <1>7, <1>8, <1>9, <1>10
<1> QED
  BY <1>2, <1>6, <1>7, <1>8, <1>11

\* Creating or placing a node leaves every list alone.
LEMMA GrowingPreservesIndInv ==
    ASSUME IndInv, NEW v \in NodeIds,
           nodeCount' = GrownCount(v),
           nodes' \in [0 .. (GrownCount(v) - 1) ->
                 NodeRecord(Edges \cup {NoEdge}, 0 .. (GrownCount(v) - 1))],
           \A n \in 0 .. (GrownCount(v) - 1) :
               /\ nodes'[n].edgeRef = GrownNodes(v)[n].edgeRef
               /\ nodes'[n].tag = GrownNodes(v)[n].tag,
           UNCHANGED <<edgeCount, edges, frozen>>
    PROVE  IndInv'
<1> DEFINE G == 0 .. (GrownCount(v) - 1)
<1>0. v \in Nat /\ TypeOK /\ NoEdgeLost /\ LinkedNewestFirst
  BY BoundsAssumption DEF NodeIds, IndInv
<1>1. Nodes' = G /\ Edges' = Edges
  BY DEF Nodes, Edges
<1>2. Nodes \subseteq G
  <2>1. nodeCount \in Nat /\ GrownCount(v) \in Nat /\ nodeCount <= GrownCount(v)
    BY <1>0, Growth DEF TypeOK
  <2> QED
    BY <2>1 DEF Nodes
<1>3. edges \in [Edges -> EdgeRecord(Nodes, Edges \cup {NoEdge}, Edges)]
  BY <1>0 DEF TypeOK
<1>4. TypeOK'
  <2>1. edges' \in [Edges' -> EdgeRecord(Nodes', Edges' \cup {NoEdge}, Edges')]
    BY <1>1, <1>2, <1>3 DEF EdgeRecord
  <2>2. nodeCount' \in Nat /\ edgeCount' \in 0 .. MaxEdgeCount /\ frozen' \in BOOLEAN
    BY <1>0, Growth DEF TypeOK
  <2> QED
    BY <1>1, <2>1, <2>2 DEF TypeOK
<1>5. NoEdgeLost'
  <2>1. \A m, n \in G : nodes'[m].tag = nodes'[n].tag => m = n
    BY <1>0, Growth
  <2> QED
    BY <1>0, <1>1, <2>1 DEF NoEdgeLost, IsInjective
<1>6. LinkedNewestFirst'
  <2> SUFFICES ASSUME NEW n \in G
               PROVE  /\ IsNewest(edges', nodes'[n].edgeRef, Incident(n)')
                      /\ \A e \in Incident(n)' :
                            IsNewest(edges', Link(e, n)', Older(edges', e, Incident(n)'))
    BY <1>1 DEF LinkedNewestFirst
  <2>1. Incident(n)' = Incident(n)
    BY <1>1 DEF Incident
  <2>2. CASE n \in Nodes
    <3>1. nodes'[n].edgeRef = nodes[n].edgeRef
      BY <1>0, <2>2, Growth
    <3> QED
      BY <1>0, <2>1, <2>2, <3>1 DEF LinkedNewestFirst, Link
  <2>3. CASE n \notin Nodes
    <3>1. nodes'[n].edgeRef = NoEdge
      BY <1>0, <2>3, Growth
    <3>2. Incident(n) = {}
      BY <1>3, <2>3 DEF Incident, EdgeRecord
    <3> QED
      BY <2>1, <3>1, <3>2 DEF IsNewest
  <2> QED
    BY <2>2, <2>3
<1> QED
  BY <1>4, <1>5, <1>6 DEF IndInv

\* EnsureNodeCapacity only grows the node array.
LEMMA EnsureNodeCapacityPreservesIndInv ==
    ASSUME IndInv, NEW v \in NodeIds, EnsureNodeCapacity(v)
    PROVE  IndInv'
<1>1. v \in Nat /\ TypeOK /\ NoEdgeLost
  BY BoundsAssumption DEF NodeIds, IndInv
<1>2. GrownNodes(v) \in [0 .. (GrownCount(v) - 1) ->
          NodeRecord(Edges \cup {NoEdge}, 0 .. (GrownCount(v) - 1))]
  BY <1>1, Growth
<1> QED
  BY <1>2, GrowingPreservesIndInv DEF EnsureNodeCapacity

\* SetNode grows the node array and changes nothing a list depends on.
LEMMA SetNodePreservesIndInv ==
    ASSUME IndInv, NEW v \in NodeIds, NEW p \in Positions, SetNode(v, p)
    PROVE  IndInv'
<1> DEFINE G == 0 .. (GrownCount(v) - 1)
<1>1. v \in Nat /\ TypeOK /\ NoEdgeLost
  BY BoundsAssumption DEF NodeIds, IndInv
<1>2. /\ GrownNodes(v) \in [G -> NodeRecord(Edges \cup {NoEdge}, G)]
      /\ GrownCount(v) \in Nat /\ v < GrownCount(v)
  BY <1>1, Growth
<1>3. nodes' = [GrownNodes(v) EXCEPT ![v].pos = p]
  BY DEF SetNode
<1>4. /\ nodes' \in [G -> NodeRecord(Edges \cup {NoEdge}, G)]
      /\ \A n \in G : /\ nodes'[n].edgeRef = GrownNodes(v)[n].edgeRef
                      /\ nodes'[n].tag = GrownNodes(v)[n].tag
  <2> DEFINE R == NodeRecord(Edges \cup {NoEdge}, G)
             old == GrownNodes(v)
  <2>1. old \in [G -> R]
    BY <1>2
  <2>2. nodes' = [n \in G |-> IF n = v THEN [old[v] EXCEPT !.pos = p] ELSE old[n]]
    BY <1>3, <2>1
  <2>3. \A rec \in R : /\ [rec EXCEPT !.pos = p] \in R
                        /\ [rec EXCEPT !.pos = p].edgeRef = rec.edgeRef
                        /\ [rec EXCEPT !.pos = p].tag = rec.tag
    BY DEF NodeRecord
  <2> HIDE DEF R, old
  <2>4. \A n \in G : nodes'[n] \in R /\ nodes'[n].edgeRef = old[n].edgeRef
                                     /\ nodes'[n].tag = old[n].tag
    BY <2>1, <2>2, <2>3
  <2> QED
    BY <2>2, <2>4 DEF R, old
<1> QED
  BY <1>4, GrowingPreservesIndInv DEF SetNode

\* A new edge is the newest of all, so putting it first keeps both lists sorted.
LEMMA EdgePreservesIndInv ==
    ASSUME IndInv, NEW a \in NodeIds, NEW b \in NodeIds, Edge(a, b)
    PROVE  IndInv'
<1> DEFINE top == IF a < b THEN b ELSE a
           G == 0 .. (GrownCount(top) - 1)
           old == GrownNodes(top)
           c == edgeCount
<1>0. /\ a \in Nat /\ b \in Nat /\ top \in Nat /\ a <= top /\ b <= top
      /\ TypeOK /\ NoEdgeLost /\ LinkedNewestFirst
  BY BoundsAssumption DEF NodeIds, IndInv
<1>1. /\ GrownCount(top) \in Nat /\ nodeCount \in Nat /\ nodeCount <= GrownCount(top)
      /\ top < GrownCount(top)
      /\ old \in [G -> NodeRecord(Edges \cup {NoEdge}, G)]
      /\ \A n \in Nodes : old[n] = nodes[n]
      /\ \A n \in G \ Nodes : old[n].edgeRef = NoEdge /\ old[n].tag = n
      /\ \A m, n \in G : old[m].tag = old[n].tag => m = n
  BY <1>0, Growth DEF TypeOK
<1>2. /\ a # b /\ c # MaxEdgeCount /\ nodeCount' = GrownCount(top)
      /\ edgeCount' = c + 1 /\ frozen' = frozen
  BY DEF Edge
<1>3. a \in G /\ b \in G /\ Nodes \subseteq G
  BY <1>0, <1>1 DEF Nodes
<1>4. c \in Nat /\ c < MaxEdgeCount
  BY <1>0, <1>2, BoundsAssumption DEF TypeOK
<1>5. /\ Nodes' = G
      /\ Edges' = Edges \cup {c} /\ c \notin Edges
      /\ \A e \in Edges : e \in Nat /\ e < c
      /\ c >= 0 /\ c # NoEdge
  BY <1>2, <1>4 DEF Nodes, Edges, NoEdge
<1>6. edges \in [Edges -> EdgeRecord(Nodes, Edges \cup {NoEdge}, Edges)]
  BY <1>0 DEF TypeOK
<1>7. \A r \in Edges \cup {NoEdge} : HeadOf(r) = r
  BY <1>5 DEF HeadOf
<1>8. \A n \in G : old[n].edgeRef \in Edges \cup {NoEdge} /\ old[n].tag \in G
                   /\ old[n].pos \in Positions
  BY <1>1 DEF NodeRecord
<1> HIDE DEF top, G, old, c
<1>9. /\ edges' = [e \in Edges' |->
            IF e \in Edges THEN edges[e]
            ELSE [nodeA |-> a, nodeB |-> b, linkA |-> old[a].edgeRef,
                  linkB |-> old[b].edgeRef, tag |-> c]]
      /\ nodes' = [n \in G |->
            IF n \in {a, b} THEN [old[n] EXCEPT !.edgeRef = c] ELSE old[n]]
  <2>1. Edges' = 0 .. edgeCount /\ \A e \in Edges' : e < edgeCount <=> e \in Edges
    BY <1>2, <1>4 DEF Edges, c
  <2>2. HeadOf(old[a].edgeRef) = old[a].edgeRef /\ HeadOf(old[b].edgeRef) = old[b].edgeRef
    BY <1>3, <1>7, <1>8
  <2>3. DOMAIN old = G
    BY <1>1
  <2>4. /\ edges' = [e \in 0 .. edgeCount |->
              IF e < edgeCount THEN edges[e]
              ELSE [nodeA |-> a, nodeB |-> b, linkA |-> HeadOf(old[a].edgeRef),
                    linkB |-> HeadOf(old[b].edgeRef), tag |-> c]]
        /\ nodes' = [n \in DOMAIN old |->
              IF n \in {a, b} THEN [old[n] EXCEPT !.edgeRef = c] ELSE old[n]]
    <3>1. edges' = [e \in 0 .. edgeCount |->
              IF e < edgeCount THEN edges[e]
              ELSE [nodeA |-> a, nodeB |-> b, linkA |-> HeadOf(old[a].edgeRef),
                    linkB |-> HeadOf(old[b].edgeRef), tag |-> e]]
      BY DEF Edge, top, old
    <3>2. nodes' = [n \in DOMAIN old |->
              IF n \in {a, b} THEN [old[n] EXCEPT !.edgeRef = c] ELSE old[n]]
      BY DEF Edge, top, old, c
    <3>3. \A e \in 0 .. edgeCount : ~(e < edgeCount) => e = c
      BY <1>4 DEF c
    <3> QED
      BY <3>1, <3>2, <3>3
  <2> QED
    BY <2>1, <2>2, <2>3, <2>4
<1>10. /\ \A e \in Edges : edges'[e] = edges[e]
       /\ edges'[c] = [nodeA |-> a, nodeB |-> b, linkA |-> old[a].edgeRef,
                       linkB |-> old[b].edgeRef, tag |-> c]
  BY <1>5, <1>9
<1>11. \A n \in G : /\ nodes'[n].edgeRef = IF n \in {a, b} THEN c ELSE old[n].edgeRef
                    /\ nodes'[n].tag = old[n].tag
                    /\ nodes'[n].pos = old[n].pos
  BY <1>1, <1>9 DEF NodeRecord
<1>12. TypeOK'
  <2>1. nodes' \in [Nodes' -> NodeRecord(Edges' \cup {NoEdge}, Nodes')]
    <3>1. \A n \in G : nodes'[n] \in NodeRecord(Edges' \cup {NoEdge}, G)
      BY <1>1, <1>5, <1>9 DEF NodeRecord
    <3> QED
      BY <1>5, <1>9, <3>1
  <2>2. edges' \in [Edges' -> EdgeRecord(Nodes', Edges' \cup {NoEdge}, Edges')]
    <3>1. \A e \in Edges : edges'[e] \in EdgeRecord(G, Edges' \cup {NoEdge}, Edges')
      BY <1>3, <1>5, <1>6, <1>10 DEF EdgeRecord
    <3>2. edges'[c] \in EdgeRecord(G, Edges' \cup {NoEdge}, Edges')
      BY <1>3, <1>5, <1>8, <1>10 DEF EdgeRecord
    <3> QED
      BY <1>5, <1>9, <3>1, <3>2
  <2>3. edgeCount' \in 0 .. MaxEdgeCount /\ nodeCount' \in Nat
    BY <1>1, <1>2, <1>4, BoundsAssumption DEF c
  <2>4. frozen' \in BOOLEAN
    BY <1>0, <1>2 DEF TypeOK
  <2> QED
    BY <2>1, <2>2, <2>3, <2>4 DEF TypeOK
<1>13. NoEdgeLost'
  <2>1. \A e \in Edges : edges[e].tag \in Edges
    BY <1>6 DEF EdgeRecord
  <2>2. \A d, e \in Edges : edges[d].tag = edges[e].tag => d = e
    BY <1>0 DEF NoEdgeLost, IsInjective
  <2>3. \A d, e \in Edges' : edges'[d].tag = edges'[e].tag => d = e
    BY <1>5, <1>10, <2>1, <2>2
  <2>4. \A m, n \in G : nodes'[m].tag = nodes'[n].tag => m = n
    BY <1>1, <1>11
  <2>5. \A e \in Edges' : edges'[e].nodeA # edges'[e].nodeB
    BY <1>0, <1>2, <1>5, <1>10 DEF NoEdgeLost
  <2> QED
    BY <1>5, <2>3, <2>4, <2>5 DEF NoEdgeLost, IsInjective
<1>14. LinkedNewestFirst'
  <2> SUFFICES ASSUME NEW n \in G
               PROVE  /\ IsNewest(edges', nodes'[n].edgeRef, Incident(n)')
                      /\ \A e \in Incident(n)' :
                            IsNewest(edges', Link(e, n)', Older(edges', e, Incident(n)'))
    BY <1>5 DEF LinkedNewestFirst
  <2> DEFINE S == Incident(n)
             T == Incident(n)'
  <2>1. S \subseteq Edges /\ \A e \in S : edges[e].tag \in Nat /\ edges[e].tag < c
    BY <1>5, <1>6 DEF Incident, EdgeRecord
  <2>2. T = IF n \in {a, b} THEN S \cup {c} ELSE S
    BY <1>5, <1>10 DEF Incident
  <2>3. \A e \in S : Link(e, n)' = Link(e, n) /\ edges'[e] = edges[e]
    BY <1>10, <2>1 DEF Link
  <2>4. edges'[c].tag = c /\ c \notin S /\ c \in Nat
    BY <1>4, <1>5, <1>10, <2>1
  <2>5. IsNewest(edges, old[n].edgeRef, S)
    <3>1. CASE n \in Nodes
      BY <1>0, <1>1, <3>1 DEF LinkedNewestFirst
    <3>2. CASE n \notin Nodes
      <4>1. S = {}
        BY <1>6, <3>2 DEF Incident, EdgeRecord
      <4> QED
        BY <1>1, <3>2, <4>1 DEF IsNewest
    <3> QED
      BY <3>1, <3>2
  <2>6. \A e \in S : IsNewest(edges, Link(e, n), Older(edges, e, S))
    <3>1. CASE n \in Nodes
      BY <1>0, <3>1 DEF LinkedNewestFirst
    <3>2. CASE n \notin Nodes
      BY <1>6, <3>2 DEF Incident, EdgeRecord
    <3> QED
      BY <3>1, <3>2
  <2>7. \A e : e = c /\ n \in {a, b} => Link(e, n)' = old[n].edgeRef
    BY <1>2, <1>10 DEF Link
  <2>8. nodes'[n].edgeRef = IF n \in {a, b} THEN c ELSE old[n].edgeRef
    BY <1>11
  <2> HIDE DEF S, T
  <2>9. \A e \in S : Older(edges', e, T) = Older(edges, e, S)
    BY <2>1, <2>2, <2>3, <2>4 DEF Older
  <2>10. n \in {a, b} => Older(edges', c, T) = S
    BY <2>1, <2>2, <2>3, <2>4 DEF Older
  <2>11. \A U \in SUBSET S : \A ref : IsNewest(edges, ref, U) => IsNewest(edges', ref, U)
    BY <2>3 DEF IsNewest
  <2>12. IsNewest(edges', nodes'[n].edgeRef, T)
    <3>1. CASE n \in {a, b}
      BY <2>1, <2>2, <2>3, <2>4, <2>8, <3>1 DEF IsNewest
    <3>2. CASE n \notin {a, b}
      BY <2>2, <2>5, <2>8, <2>11, <3>2
    <3> QED
      BY <3>1, <3>2
  <2>13. ASSUME NEW e \in T
         PROVE  IsNewest(edges', Link(e, n)', Older(edges', e, T))
    <3>1. CASE e \in S
      <4>1. Older(edges, e, S) \subseteq S
        BY DEF Older
      <4>2. Link(e, n)' = Link(e, n)
        BY <2>3, <3>1
      <4> QED
        BY <2>6, <2>9, <2>11, <3>1, <4>1, <4>2
    <3>2. CASE e \notin S
      <4>1. e = c /\ n \in {a, b}
        BY <2>2, <3>2
      <4> QED
        BY <2>5, <2>7, <2>10, <2>11, <4>1
    <3> QED
      BY <3>1, <3>2
  <2> QED
    BY <2>12, <2>13 DEF S, T
<1> QED
  BY <1>12, <1>13, <1>14 DEF IndInv

-----------------------------------------------------------------------------

\* Renaming the edges of a set by a map that keeps their ages keeps the newest.
LEMMA NewestRenamed ==
    ASSUME NEW es, NEW fs, NEW S, NEW ref, NEW p,
           NoEdge \notin S,
           \A e \in S : fs[p[e]].tag = es[e].tag,
           IsNewest(es, ref, S)
    PROVE  IsNewest(fs, remapEdge(ref, p), {p[e] : e \in S})
<1>1. CASE S = {} /\ ref = NoEdge
  BY <1>1 DEF IsNewest, remapEdge
<1>2. CASE ref \in S /\ \A e \in S : es[e].tag <= es[ref].tag
  <2>1. remapEdge(ref, p) = p[ref]
    BY <1>2 DEF remapEdge
  <2>2. \A f \in {p[e] : e \in S} : fs[f].tag <= fs[p[ref]].tag
    BY <1>2
  <2> QED
    BY <1>2, <2>1, <2>2 DEF IsNewest
<1> QED
  BY <1>1, <1>2 DEF IsNewest

\* SortEdges: the list heads and links follow the records they name.
LEMMA SortEdgesPreservesIndInv ==
    ASSUME IndInv, NEW p \in Bijection(Edges, Edges), SortEdges(p)
    PROVE  IndInv'
<1> DEFINE inv == invertPermutation(p)
           Refs == Edges \cup {NoEdge}
<1>0. TypeOK /\ NoEdgeLost /\ LinkedNewestFirst
  BY DEF IndInv
<1>1. /\ p \in [Edges -> Edges] /\ inv \in [Edges -> Edges]
      /\ \A e \in Edges : p[inv[e]] = e /\ inv[p[e]] = e
      /\ \A d, e \in Edges : p[d] = p[e] => d = e
  BY InverseOfPermutation
<1>2. /\ nodeCount' = nodeCount /\ edgeCount' = edgeCount /\ frozen' = frozen
      /\ Nodes' = Nodes /\ Edges' = Edges
  BY DEF SortEdges, Nodes, Edges
<1>3. /\ edges' = [e \in Edges |-> storeEdge(edges[inv[e]], p)]
      /\ nodes' = [n \in Nodes |->
                     [nodes[n] EXCEPT !.edgeRef = remapEdge(nodes[n].edgeRef, p)]]
  BY DEF SortEdges
<1>4. NoEdge \notin Edges
  BY <1>0 DEF TypeOK, Edges, NoEdge
<1>5. /\ edges \in [Edges -> EdgeRecord(Nodes, Refs, Edges)]
      /\ nodes \in [Nodes -> NodeRecord(Refs, Nodes)]
  BY <1>0 DEF TypeOK
<1>6. \A r \in Refs : remapEdge(r, p) \in Refs
  BY <1>1 DEF remapEdge
<1>7. \A rec \in EdgeRecord(Nodes, Refs, Edges) :
          /\ storeEdge(rec, p) \in EdgeRecord(Nodes, Refs, Edges)
          /\ storeEdge(rec, p).nodeA = rec.nodeA
          /\ storeEdge(rec, p).nodeB = rec.nodeB
          /\ storeEdge(rec, p).linkA = remapEdge(rec.linkA, p)
          /\ storeEdge(rec, p).linkB = remapEdge(rec.linkB, p)
          /\ storeEdge(rec, p).tag = rec.tag
  BY <1>6 DEF storeEdge, EdgeRecord
<1> HIDE DEF inv
<1>8. \A e \in Edges :
          /\ p[e] \in Edges
          /\ edges'[p[e]].nodeA = edges[e].nodeA
          /\ edges'[p[e]].nodeB = edges[e].nodeB
          /\ edges'[p[e]].linkA = remapEdge(edges[e].linkA, p)
          /\ edges'[p[e]].linkB = remapEdge(edges[e].linkB, p)
          /\ edges'[p[e]].tag = edges[e].tag
  <2> SUFFICES ASSUME NEW e \in Edges
               PROVE  p[e] \in Edges /\ edges'[p[e]] = storeEdge(edges[e], p)
    BY <1>5, <1>7
  <2> QED
    BY <1>1, <1>3
<1>9. \A e \in Edges : \E d \in Edges : e = p[d]
  BY <1>1
<1>10. \A n \in Nodes : /\ nodes'[n].edgeRef = remapEdge(nodes[n].edgeRef, p)
                        /\ nodes'[n].tag = nodes[n].tag
                        /\ nodes'[n] \in NodeRecord(Refs, Nodes)
  BY <1>3, <1>5, <1>6 DEF NodeRecord
<1>11. TypeOK'
  <2>1. nodes' \in [Nodes -> NodeRecord(Refs, Nodes)]
    BY <1>3, <1>10
  <2>2. edges' \in [Edges -> EdgeRecord(Nodes, Refs, Edges)]
    BY <1>1, <1>3, <1>5, <1>7
  <2> QED
    BY <1>0, <1>2, <2>1, <2>2 DEF TypeOK
<1>12. NoEdgeLost'
  <2>1. \A d, e \in Edges : edges[d].tag = edges[e].tag => d = e
    BY <1>0 DEF NoEdgeLost, IsInjective
  <2>2. \A d, e \in Edges : edges'[d].tag = edges'[e].tag => d = e
    BY <1>8, <1>9, <2>1
  <2>3. \A m, n \in Nodes : nodes'[m].tag = nodes'[n].tag => m = n
    BY <1>0, <1>10 DEF NoEdgeLost, IsInjective
  <2>4. \A e \in Edges : edges'[e].nodeA # edges'[e].nodeB
    BY <1>0, <1>8, <1>9 DEF NoEdgeLost
  <2> QED
    BY <1>2, <2>2, <2>3, <2>4 DEF NoEdgeLost, IsInjective
<1>13. LinkedNewestFirst'
  <2> SUFFICES ASSUME NEW n \in Nodes
               PROVE  /\ IsNewest(edges', nodes'[n].edgeRef, Incident(n)')
                      /\ \A e \in Incident(n)' :
                            IsNewest(edges', Link(e, n)', Older(edges', e, Incident(n)'))
    BY <1>2 DEF LinkedNewestFirst
  <2> DEFINE S == Incident(n)
  <2>1. S \subseteq Edges /\ NoEdge \notin S
    BY <1>4 DEF Incident
  <2>2. Incident(n)' = {p[e] : e \in S}
    <3>1. \A e \in Edges : p[e] \in Incident(n)' <=> e \in S
      BY <1>2, <1>8 DEF Incident
    <3>2. Incident(n)' \subseteq Edges
      BY <1>2 DEF Incident
    <3> HIDE DEF S
    <3> QED
      BY <1>9, <2>1, <3>1, <3>2
  <2>3. IsNewest(edges, nodes[n].edgeRef, S)
        /\ \A e \in S : IsNewest(edges, Link(e, n), Older(edges, e, S))
    BY <1>0 DEF LinkedNewestFirst
  <2>4. \A e \in S : edges'[p[e]].tag = edges[e].tag
    BY <1>8, <2>1
  <2>5. \A e \in S : \A d : d = p[e] => Link(d, n)' = remapEdge(Link(e, n), p)
    BY <1>8, <2>1 DEF Link
  <2> HIDE DEF S
  <2>6. IsNewest(edges', nodes'[n].edgeRef, Incident(n)')
    BY <1>10, <2>1, <2>2, <2>3, <2>4, NewestRenamed
  <2>7. ASSUME NEW d \in Incident(n)'
        PROVE  IsNewest(edges', Link(d, n)', Older(edges', d, Incident(n)'))
    <3>1. PICK e \in S : d = p[e]
      BY <2>2
    <3> DEFINE O == Older(edges, e, S)
    <3>2. Older(edges', d, Incident(n)') = {p[f] : f \in O}
      BY <2>2, <2>4, <3>1 DEF Older
    <3>3. O \subseteq S /\ IsNewest(edges, Link(e, n), O)
      BY <2>3 DEF Older
    <3> HIDE DEF O
    <3>4. IsNewest(edges', remapEdge(Link(e, n), p), {p[f] : f \in O})
      BY <2>1, <2>4, <3>3, NewestRenamed
    <3> QED
      BY <2>5, <3>1, <3>2, <3>4
  <2> QED
    BY <2>6, <2>7
<1> QED
  BY <1>11, <1>12, <1>13 DEF IndInv

\* RelabelNodes: the list heads move with the node records, and the end nodes
\* of every edge are renamed, so that each list stays with its node.
LEMMA RelabelNodesPreservesIndInv ==
    ASSUME IndInv, NEW p \in Bijection(Nodes, Nodes), RelabelNodes(p)
    PROVE  IndInv'
<1> DEFINE inv == invertPermutation(p)
           Refs == Edges \cup {NoEdge}
<1>0. TypeOK /\ NoEdgeLost /\ LinkedNewestFirst
  BY DEF IndInv
<1>1. /\ p \in [Nodes -> Nodes] /\ inv \in [Nodes -> Nodes]
      /\ \A n \in Nodes : p[inv[n]] = n /\ inv[p[n]] = n
      /\ \A m, n \in Nodes : p[m] = p[n] => m = n
  BY InverseOfPermutation
<1>2. /\ nodeCount' = nodeCount /\ edgeCount' = edgeCount /\ frozen' = frozen
      /\ Nodes' = Nodes /\ Edges' = Edges
  BY DEF RelabelNodes, Nodes, Edges
<1>3. /\ edges' = [e \in Edges |-> [edges[e] EXCEPT !.nodeA = p[edges[e].nodeA],
                                                    !.nodeB = p[edges[e].nodeB]]]
      /\ nodes' = [n \in Nodes |-> nodes[inv[n]]]
  BY DEF RelabelNodes
<1>4. /\ edges \in [Edges -> EdgeRecord(Nodes, Refs, Edges)]
      /\ nodes \in [Nodes -> NodeRecord(Refs, Nodes)]
  BY <1>0 DEF TypeOK
<1> HIDE DEF inv
<1>5. \A e \in Edges :
          /\ edges'[e].nodeA = p[edges[e].nodeA]
          /\ edges'[e].nodeB = p[edges[e].nodeB]
          /\ edges'[e].linkA = edges[e].linkA
          /\ edges'[e].linkB = edges[e].linkB
          /\ edges'[e].tag = edges[e].tag
          /\ edges[e].nodeA \in Nodes /\ edges[e].nodeB \in Nodes
          /\ edges'[e] \in EdgeRecord(Nodes, Refs, Edges)
  <2> SUFFICES ASSUME NEW e \in Edges
               PROVE  /\ edges'[e].nodeA = p[edges[e].nodeA]
                      /\ edges'[e].nodeB = p[edges[e].nodeB]
                      /\ edges'[e].linkA = edges[e].linkA
                      /\ edges'[e].linkB = edges[e].linkB
                      /\ edges'[e].tag = edges[e].tag
                      /\ edges[e].nodeA \in Nodes /\ edges[e].nodeB \in Nodes
                      /\ edges'[e] \in EdgeRecord(Nodes, Refs, Edges)
    OBVIOUS
  <2> DEFINE rec == edges[e]
             a == p[rec.nodeA]
             b == p[rec.nodeB]
  <2>1. edges'[e] = [rec EXCEPT !.nodeA = a, !.nodeB = b]
    BY <1>3
  <2>2. rec \in EdgeRecord(Nodes, Refs, Edges)
    BY <1>4
  <2>3. rec.nodeA \in Nodes /\ rec.nodeB \in Nodes
    BY <2>2 DEF EdgeRecord
  <2>4. a \in Nodes /\ b \in Nodes
    BY <1>1, <2>3
  <2> HIDE DEF rec, a, b
  <2>5. [rec EXCEPT !.nodeA = a, !.nodeB = b] \in EdgeRecord(Nodes, Refs, Edges)
    BY <2>2, <2>4 DEF EdgeRecord
  <2>6. /\ edges'[e].nodeA = a /\ edges'[e].nodeB = b
        /\ edges'[e].linkA = rec.linkA /\ edges'[e].linkB = rec.linkB
        /\ edges'[e].tag = rec.tag
    BY <2>1, <2>2 DEF EdgeRecord
  <2> QED
    BY <2>1, <2>3, <2>5, <2>6 DEF rec, a, b
<1>6. \A n \in Nodes : p[n] \in Nodes /\ nodes'[p[n]] = nodes[n]
  BY <1>1, <1>3
<1>7. \A n \in Nodes : \E m \in Nodes : n = p[m]
  BY <1>1
<1>8. TypeOK'
  <2>1. nodes' \in [Nodes -> NodeRecord(Refs, Nodes)]
    BY <1>1, <1>3, <1>4
  <2>2. edges' \in [Edges -> EdgeRecord(Nodes, Refs, Edges)]
    BY <1>3, <1>5
  <2> QED
    BY <1>0, <1>2, <2>1, <2>2 DEF TypeOK
<1>9. NoEdgeLost'
  <2>1. \A d, e \in Edges : edges'[d].tag = edges'[e].tag => d = e
    BY <1>0, <1>5 DEF NoEdgeLost, IsInjective
  <2>2. \A m, n \in Nodes : nodes[m].tag = nodes[n].tag => m = n
    BY <1>0 DEF NoEdgeLost, IsInjective
  <2>3. \A m, n \in Nodes : nodes'[m].tag = nodes'[n].tag => m = n
    BY <1>6, <1>7, <2>2
  <2>4. \A e \in Edges : edges'[e].nodeA # edges'[e].nodeB
    BY <1>0, <1>1, <1>5 DEF NoEdgeLost
  <2> QED
    BY <1>2, <2>1, <2>3, <2>4 DEF NoEdgeLost, IsInjective
<1>10. LinkedNewestFirst'
  <2> SUFFICES ASSUME NEW m \in Nodes
               PROVE  /\ IsNewest(edges', nodes'[m].edgeRef, Incident(m)')
                      /\ \A e \in Incident(m)' :
                            IsNewest(edges', Link(e, m)', Older(edges', e, Incident(m)'))
    BY <1>2 DEF LinkedNewestFirst
  <2>1. PICK n \in Nodes : m = p[n]
    BY <1>7
  <2> DEFINE S == Incident(n)
  <2>2. Incident(m)' = S /\ S \subseteq Edges
    BY <1>1, <1>2, <1>5, <2>1 DEF Incident
  <2>3. \A e \in S : Link(e, m)' = Link(e, n)
    BY <1>1, <1>5, <2>1, <2>2 DEF Link
  <2>4. IsNewest(edges, nodes[n].edgeRef, S)
        /\ \A e \in S : IsNewest(edges, Link(e, n), Older(edges, e, S))
    BY <1>0 DEF LinkedNewestFirst
  <2> HIDE DEF S
  <2>5. \A U \in SUBSET S : \A ref : IsNewest(edges, ref, U) => IsNewest(edges', ref, U)
    BY <1>5, <2>2 DEF IsNewest
  <2>6. \A e \in S : /\ Older(edges', e, S) = Older(edges, e, S)
                     /\ Older(edges, e, S) \in SUBSET S
    BY <1>5, <2>2 DEF Older
  <2> QED
    BY <1>6, <2>1, <2>2, <2>3, <2>4, <2>5, <2>6
<1> QED
  BY <1>8, <1>9, <1>10 DEF IndInv

-----------------------------------------------------------------------------

\* Every operation of the store keeps the inductive invariant.
LEMMA NextPreservesIndInv == IndInv /\ [Next]_vars => IndInv'
<1> SUFFICES ASSUME IndInv, [Next]_vars PROVE IndInv'
  OBVIOUS
<1>1. CASE \E n \in NodeIds : EnsureNodeCapacity(n)
  BY <1>1, EnsureNodeCapacityPreservesIndInv
<1>2. CASE \E n \in NodeIds, p \in Positions : SetNode(n, p)
  BY <1>2, SetNodePreservesIndInv
<1>3. CASE \E a, b \in NodeIds : Edge(a, b)
  BY <1>3, EdgePreservesIndInv
<1>4. CASE Freeze
  <2>1. nodes' = nodes /\ edges' = edges /\ nodeCount' = nodeCount
        /\ edgeCount' = edgeCount /\ frozen' \in BOOLEAN
    BY <1>4, Zenon DEF Freeze
  <2>2. TypeOK'
    BY <2>1, Zenon DEF IndInv, TypeOK, Nodes, Edges
  <2> QED
    BY <2>1, <2>2 DEF IndInv, NoEdgeLost, LinkedNewestFirst, Nodes, Edges,
                      Incident, Link
<1>5. CASE \E p \in Bijection(Edges, Edges) : SortEdges(p)
  BY <1>5, SortEdgesPreservesIndInv
<1>6. CASE \E p \in Bijection(Nodes, Nodes) : RelabelNodes(p)
  BY <1>6, RelabelNodesPreservesIndInv
<1>7. CASE UNCHANGED vars
  BY <1>7 DEF IndInv, TypeOK, NoEdgeLost, LinkedNewestFirst, Nodes, Edges,
              Incident, Link, vars
<1> QED
  BY <1>1, <1>2, <1>3, <1>4, <1>5, <1>6, <1>7 DEF Next

\* The inductive invariant holds in every state of the store.
THEOREM Invariance == Spec => []IndInv
  BY InitEstablishesIndInv, NextPreservesIndInv, PTL DEF Spec

\* Every reference stored in the node and edge arrays names a record that
\* exists, after any sequence of insertions, sorts and relabellings.
THEOREM TypeCorrect == Spec => []TypeOK
  BY Invariance, PTL DEF IndInv

\* The adjacency lists are correct: from each node, the links visit exactly the
\* node's edges, newest first (Edge, SortEdges, RelabelNodes).
THEOREM ListsCorrect == Spec => []LinkedNewestFirst
  BY Invariance, PTL DEF IndInv

\* Renumbering in place neither loses nor duplicates an edge or a node, and
\* never produces a loop edge.
THEOREM RecordsPreserved == Spec => []NoEdgeLost
  BY Invariance, PTL DEF IndInv

-----------------------------------------------------------------------------
\* References as the records hold them.
Refs == Edges \cup {NoEdge}

\* The creation times of the edges at a node.
TagsAround(n) == {edges[e].tag : e \in Incident(n)}

\* The edges an explorer returns, by their creation times.
TagList(n) == [i \in DOMAIN AdjList(n) |-> edges[AdjList(n)[i]].tag]

-----------------------------------------------------------------------------

\* The walk over a list: it starts at the node's first edge and follows the
\* link of the base node until it meets NoEdge.
LEMMA ChainSteps ==
    ASSUME TypeOK, NEW n \in Nodes
    PROVE  /\ Chain(n) \in [0 .. edgeCount -> Refs]
           /\ Chain(n)[0] = nodes[n].edgeRef
           /\ \A k \in 1 .. edgeCount :
                 Chain(n)[k] = IF Chain(n)[k - 1] = NoEdge THEN NoEdge
                               ELSE Link(Chain(n)[k - 1], n)
<1> DEFINE step == [r \in Refs |-> IF r = NoEdge THEN NoEdge ELSE Link(r, n)]
           Solves(f) == f = [k \in 0 .. edgeCount |->
                                IF k = 0 THEN nodes[n].edgeRef
                                ELSE IF f[k - 1] = NoEdge THEN NoEdge
                                ELSE Link(f[k - 1], n)]
<1>1. edgeCount \in Nat /\ nodes[n].edgeRef \in Refs
  BY BoundsAssumption DEF TypeOK, NodeRecord, Refs
<1>2. step \in [Refs -> Refs]
  <2>1. edges \in [Edges -> EdgeRecord(Nodes, Refs, Edges)]
    BY DEF TypeOK, Refs
  <2>2. \A r \in Refs : r # NoEdge => Link(r, n) \in Refs
    BY <2>1 DEF Link, EdgeRecord, Refs
  <2>3. NoEdge \in Refs
    BY DEF Refs
  <2> QED
    BY <2>2, <2>3
<1>3. \E f \in [0 .. edgeCount -> Refs] : Solves(f)
  <2> HIDE DEF step
  <2>1. PICK f \in [0 .. edgeCount -> Refs] :
            IsRecursion(f, edgeCount, nodes[n].edgeRef, step)
    BY <1>1, <1>2, RecursiveFunctionExists
  <2> USE DEF step
  <2>2. \A k \in 0 .. edgeCount : f[k] = IF k = 0 THEN nodes[n].edgeRef
                                         ELSE IF f[k - 1] = NoEdge THEN NoEdge
                                         ELSE Link(f[k - 1], n)
    <3> SUFFICES ASSUME NEW k \in 0 .. edgeCount, k # 0
                 PROVE  f[k] = IF f[k - 1] = NoEdge THEN NoEdge ELSE Link(f[k - 1], n)
      BY <2>1 DEF IsRecursion
    <3>1. k - 1 \in 0 .. edgeCount /\ f[k - 1] \in Refs /\ f[k] = step[f[k - 1]]
      BY <1>1, <2>1 DEF IsRecursion
    <3> QED
      BY <3>1
  <2>3. Solves(f)
    BY <2>2
  <2> QED
    BY <2>3
<1>4. Solves(Chain(n))
  BY <1>3 DEF Chain
<1>5. Chain(n)[0] = nodes[n].edgeRef
  BY <1>1, <1>4
<1>6. \A k \in 1 .. edgeCount :
          Chain(n)[k] = IF Chain(n)[k - 1] = NoEdge THEN NoEdge
                        ELSE Link(Chain(n)[k - 1], n)
  BY <1>1, <1>4
<1>7. Chain(n) \in [0 .. edgeCount -> Refs]
  <2> DEFINE S == {k \in 0 .. edgeCount : Chain(n)[k] \in Refs}
  <2>1. 0 \in S
    BY <1>1, <1>5
  <2>2. \A k \in 0 .. (edgeCount - 1) : k \in S => k + 1 \in S
    <3> SUFFICES ASSUME NEW k \in 0 .. (edgeCount - 1), k \in S
                 PROVE  k + 1 \in S
      OBVIOUS
    <3>1. /\ k + 1 \in 1 .. edgeCount /\ (k + 1) - 1 = k
          /\ Chain(n)[k] \in Refs
      BY <1>1
    <3>2. Chain(n)[k + 1] = step[Chain(n)[k]]
      BY <1>6, <3>1
    <3> QED
      BY <1>2, <3>1, <3>2
  <2> HIDE DEF S
  <2>3. 0 .. edgeCount \subseteq S
    BY <1>1, <2>1, <2>2, BoundedInduction
  <2>4. \A k \in 0 .. edgeCount : Chain(n)[k] \in Refs
    BY <2>3 DEF S
  <2>5. Chain(n) = [k \in 0 .. edgeCount |-> Chain(n)[k]]
    BY <1>4
  <2> QED
    BY <2>4, <2>5
<1> QED
  BY <1>5, <1>6, <1>7

\* Every edge met belongs to the base node, is older than the one before it,
\* and after k steps at most edgeCount - k edges are left to meet.
LEMMA ChainDescends ==
    ASSUME IndInv, NEW n \in Nodes
    PROVE  /\ \A k \in 0 .. edgeCount :
                 Chain(n)[k] # NoEdge =>
                     /\ Chain(n)[k] \in Incident(n)
                     /\ edges[Chain(n)[k]].tag <= edgeCount - 1 - k
           /\ \A k \in 1 .. edgeCount :
                 Chain(n)[k] # NoEdge =>
                     /\ Chain(n)[k - 1] # NoEdge
                     /\ edges[Chain(n)[k]].tag < edges[Chain(n)[k - 1]].tag
<1> DEFINE ref == Chain(n)
           S == {k \in 0 .. edgeCount :
                    ref[k] # NoEdge => /\ ref[k] \in Incident(n)
                                       /\ edges[ref[k]].tag <= edgeCount - 1 - k}
<1>1. TypeOK /\ LinkedNewestFirst /\ edgeCount \in Nat
  BY BoundsAssumption DEF IndInv, TypeOK
<1>2. /\ ref \in [0 .. edgeCount -> Refs] /\ ref[0] = nodes[n].edgeRef
      /\ \A k \in 1 .. edgeCount :
            ref[k] = IF ref[k - 1] = NoEdge THEN NoEdge ELSE Link(ref[k - 1], n)
  BY <1>1, ChainSteps
<1> HIDE DEF ref
<1>3. \A e \in Incident(n) : e \in Edges /\ edges[e].tag \in Edges
  BY <1>1 DEF TypeOK, EdgeRecord, Incident
<1>4. \A e \in Incident(n) : edges[e].tag \in Nat /\ edges[e].tag <= edgeCount - 1
  BY <1>1, <1>3 DEF Edges
<1>5. NoEdge \notin Incident(n)
  BY <1>1, <1>3 DEF NoEdge, Edges
<1>6. 0 \in S
  BY <1>1, <1>2, <1>4 DEF LinkedNewestFirst, IsNewest
<1>7. ASSUME NEW k \in 1 .. edgeCount, ref[k] # NoEdge, k - 1 \in S
      PROVE  /\ ref[k - 1] # NoEdge /\ ref[k] \in Incident(n)
             /\ edges[ref[k]].tag < edges[ref[k - 1]].tag
  <2>1. ref[k - 1] # NoEdge /\ ref[k] = Link(ref[k - 1], n)
    BY <1>2, <1>7
  <2>2. ref[k - 1] \in Incident(n)
    BY <1>7, <2>1
  <2>3. IsNewest(edges, ref[k], Older(edges, ref[k - 1], Incident(n)))
    BY <1>1, <2>1, <2>2 DEF LinkedNewestFirst
  <2>4. ref[k] \in Older(edges, ref[k - 1], Incident(n))
    BY <1>7, <2>3 DEF IsNewest
  <2> QED
    BY <2>1, <2>4 DEF Older
<1>8. \A k \in 0 .. (edgeCount - 1) : k \in S => k + 1 \in S
  <2> SUFFICES ASSUME NEW k \in 0 .. (edgeCount - 1), k \in S, ref[k + 1] # NoEdge
               PROVE  /\ ref[k + 1] \in Incident(n)
                      /\ edges[ref[k + 1]].tag <= edgeCount - 1 - (k + 1)
    BY <1>1
  <2>1. k + 1 \in 1 .. edgeCount /\ (k + 1) - 1 = k
    BY <1>1
  <2>2. /\ ref[k] # NoEdge /\ ref[k + 1] \in Incident(n)
        /\ edges[ref[k + 1]].tag < edges[ref[k]].tag
    BY <1>7, <2>1
  <2>3. ref[k] \in Incident(n) /\ edges[ref[k]].tag <= edgeCount - 1 - k
    BY <2>2
  <2> QED
    BY <1>1, <1>4, <2>2, <2>3
<1> HIDE DEF S
<1>9. 0 .. edgeCount \subseteq S
  BY <1>1, <1>6, <1>8, BoundedInduction
<1>10. \A k \in 1 .. edgeCount : ref[k] # NoEdge =>
           /\ ref[k - 1] # NoEdge
           /\ edges[ref[k]].tag < edges[ref[k - 1]].tag
  <2> SUFFICES ASSUME NEW k \in 1 .. edgeCount, ref[k] # NoEdge
               PROVE  /\ ref[k - 1] # NoEdge
                      /\ edges[ref[k]].tag < edges[ref[k - 1]].tag
    OBVIOUS
  <2>1. k - 1 \in S
    BY <1>1, <1>9
  <2> QED
    BY <1>7, <2>1
<1> QED
  BY <1>9, <1>10 DEF S, ref

\* No edge of the base node is passed over.
LEMMA ChainCovers ==
    ASSUME IndInv, NEW n \in Nodes, NEW e \in Incident(n)
    PROVE  \E k \in 0 .. (edgeCount - 1) : Chain(n)[k] = e
<1> DEFINE ref == Chain(n)
           Met(k) == \E j \in 0 .. (k - 1) : ref[j] = e
           S == {k \in 0 .. edgeCount :
                    \/ Met(k)
                    \/ ref[k] # NoEdge /\ edges[e].tag <= edges[ref[k]].tag}
<1>1. /\ TypeOK /\ LinkedNewestFirst /\ NoEdgeLost /\ edgeCount \in Nat
      /\ \A d, f \in Edges : edges[d].tag = edges[f].tag => d = f
  <2>1. TypeOK /\ LinkedNewestFirst /\ NoEdgeLost
    BY DEF IndInv
  <2>2. edgeCount \in Nat
    BY <2>1, BoundsAssumption DEF TypeOK
  <2>3. \A d, f \in Edges : edges[d].tag = edges[f].tag => d = f
    BY <2>1 DEF NoEdgeLost, IsInjective
  <2> QED
    BY <2>1, <2>2, <2>3
<1>2. /\ ref \in [0 .. edgeCount -> Refs] /\ ref[0] = nodes[n].edgeRef
      /\ \A k \in 1 .. edgeCount :
            ref[k] = IF ref[k - 1] = NoEdge THEN NoEdge ELSE Link(ref[k - 1], n)
      /\ \A k \in 0 .. edgeCount : ref[k] # NoEdge =>
            /\ ref[k] \in Incident(n)
            /\ edges[ref[k]].tag <= edgeCount - 1 - k
  BY <1>1, ChainSteps, ChainDescends
<1> HIDE DEF ref
<1>3. \A d \in Incident(n) : d \in Edges /\ edges[d].tag \in Int /\ edges[d].tag >= 0
  BY <1>1 DEF TypeOK, EdgeRecord, Incident, Edges
<1>4. NoEdge \notin Incident(n)
  BY <1>1, <1>3 DEF NoEdge, Edges
<1>5. 0 \in S
  BY <1>1, <1>2, <1>4 DEF LinkedNewestFirst, IsNewest
<1>6. \A k \in 0 .. (edgeCount - 1) : k \in S => k + 1 \in S
  <2> SUFFICES ASSUME NEW k \in 0 .. (edgeCount - 1), k \in S,
                      ~ Met(k + 1)
               PROVE  ref[k + 1] # NoEdge /\ edges[e].tag <= edges[ref[k + 1]].tag
    BY <1>1
  <2>1. /\ k \in 0 .. edgeCount /\ k + 1 \in 1 .. edgeCount /\ (k + 1) - 1 = k
        /\ ref[k] # e /\ ~ Met(k)
    BY <1>1
  <2>2. ref[k] # NoEdge /\ edges[e].tag <= edges[ref[k]].tag /\ ref[k] \in Incident(n)
    BY <1>2, <2>1
  <2>3. edges[e].tag # edges[ref[k]].tag
    BY <1>1, <1>3, <2>1, <2>2
  <2>4. e \in Older(edges, ref[k], Incident(n))
    BY <1>3, <2>2, <2>3 DEF Older
  <2>5. ref[k + 1] = Link(ref[k], n)
    BY <1>2, <2>1, <2>2
  <2>6. IsNewest(edges, ref[k + 1], Older(edges, ref[k], Incident(n)))
    BY <1>1, <2>2, <2>5 DEF LinkedNewestFirst
  <2>7. /\ ref[k + 1] \in Older(edges, ref[k], Incident(n))
        /\ edges[e].tag <= edges[ref[k + 1]].tag
    BY <2>4, <2>6 DEF IsNewest
  <2> QED
    BY <1>4, <2>7 DEF Older
<1> HIDE DEF S
<1>7. edgeCount \in S
  <2>1. 0 .. edgeCount \subseteq S
    BY <1>1, <1>5, <1>6, BoundedInduction
  <2> QED
    BY <1>1, <2>1
<1>8. ref[edgeCount] = NoEdge
  <2> SUFFICES ASSUME ref[edgeCount] # NoEdge PROVE FALSE
    OBVIOUS
  <2>1. ref[edgeCount] \in Incident(n) /\ edges[ref[edgeCount]].tag <= -1
    BY <1>1, <1>2
  <2> QED
    BY <1>3, <2>1
<1> QED
  BY <1>7, <1>8 DEF S, ref

\* The explorer stops after some number of steps, and its list is the part of
\* the walk before that.
LEMMA AdjListIsWalk ==
    ASSUME IndInv, NEW n \in Nodes
    PROVE  \E len \in 0 .. edgeCount :
               /\ Chain(n)[len] = NoEdge
               /\ \A j \in 0 .. (len - 1) : Chain(n)[j] # NoEdge
               /\ AdjList(n) = [i \in 1 .. len |-> Chain(n)[i - 1]]
<1> DEFINE ref == Chain(n)
           Stop(k) == ref[k] = NoEdge /\ \A j \in 0 .. (k - 1) : ref[j] # NoEdge
           Ended == {k \in 0 .. edgeCount : ref[k] = NoEdge}
           len == CHOOSE k \in 0 .. edgeCount : Stop(k)
<1>1. edgeCount \in Nat
  BY BoundsAssumption DEF IndInv, TypeOK
<1>2. ref[edgeCount] = NoEdge
  <2> SUFFICES ASSUME ref[edgeCount] # NoEdge PROVE FALSE
    OBVIOUS
  <2>1. ref[edgeCount] \in Incident(n) /\ edges[ref[edgeCount]].tag <= -1
    BY <1>1, ChainDescends
  <2>2. \A e \in Incident(n) : edges[e].tag \in Nat
    BY DEF IndInv, TypeOK, EdgeRecord, Incident, Edges
  <2> QED
    BY <2>1, <2>2
<1> HIDE DEF ref
<1>3. \E k \in 0 .. edgeCount : Stop(k)
  <2>1. Ended \subseteq Nat /\ Ended # {}
    BY <1>1, <1>2
  <2> HIDE DEF Ended
  <2>2. PICK m \in Ended : \A k \in Ended : m <= k
    BY <2>1, LeastNatural
  <2>3. m \in 0 .. edgeCount /\ ref[m] = NoEdge
    BY <2>2 DEF Ended
  <2>4. \A j \in 0 .. (m - 1) : ref[j] # NoEdge
    <3> SUFFICES ASSUME NEW j \in 0 .. (m - 1), ref[j] = NoEdge PROVE FALSE
      OBVIOUS
    <3>1. j \in Ended
      BY <1>1, <2>3 DEF Ended
    <3> QED
      BY <2>2, <2>3, <3>1
  <2> QED
    BY <2>3, <2>4
<1>4. len \in 0 .. edgeCount /\ Stop(len)
  BY <1>3
<1>5. AdjList(n) = [i \in 1 .. len |-> ref[i - 1]]
  BY DEF AdjList, ref
<1> HIDE DEF len
<1> QED
  BY <1>4, <1>5 DEF ref

\* What an explorer returns: edges of the base node only, all of them, newest
\* first.
LEMMA AdjListIsIncident ==
    ASSUME IndInv, NEW n \in Nodes
    PROVE  \E len \in 0 .. edgeCount :
               /\ AdjList(n) \in [1 .. len -> Incident(n)]
               /\ \A e \in Incident(n) : \E i \in 1 .. len : AdjList(n)[i] = e
               /\ \A i, j \in 1 .. len : i < j =>
                      edges[AdjList(n)[j]].tag < edges[AdjList(n)[i]].tag
<1> DEFINE ref == Chain(n)
           list == AdjList(n)
<1>1. PICK len \in 0 .. edgeCount :
          /\ ref[len] = NoEdge
          /\ \A j \in 0 .. (len - 1) : ref[j] # NoEdge
          /\ list = [i \in 1 .. len |-> ref[i - 1]]
  BY AdjListIsWalk
<1>2. edgeCount \in Nat /\ len \in Nat
  BY BoundsAssumption DEF IndInv, TypeOK
<1>3. /\ \A k \in 0 .. edgeCount : ref[k] # NoEdge => ref[k] \in Incident(n)
      /\ \A k \in 1 .. edgeCount : ref[k] # NoEdge =>
             ref[k - 1] # NoEdge /\ edges[ref[k]].tag < edges[ref[k - 1]].tag
  BY ChainDescends
<1>4. \A e \in Incident(n) : \E k \in 0 .. (edgeCount - 1) : ref[k] = e
  BY ChainCovers
<1>5. \A e \in Incident(n) : edges[e].tag \in Nat /\ e # NoEdge
  BY DEF IndInv, TypeOK, EdgeRecord, Incident, Edges, NoEdge
<1> HIDE DEF ref, list
<1>6. \A k \in 0 .. edgeCount : k >= len => ref[k] = NoEdge
  <2> DEFINE S == {d \in 0 .. (edgeCount - len) : ref[len + d] = NoEdge}
  <2>1. 0 \in S
    BY <1>1, <1>2
  <2>2. \A d \in 0 .. ((edgeCount - len) - 1) : d \in S => d + 1 \in S
    <3> SUFFICES ASSUME NEW d \in 0 .. ((edgeCount - len) - 1), d \in S,
                        ref[len + (d + 1)] # NoEdge
                 PROVE  FALSE
      BY <1>2
    <3>1. len + (d + 1) \in 1 .. edgeCount /\ (len + (d + 1)) - 1 = len + d
      BY <1>2
    <3> QED
      BY <1>3, <3>1
  <2>3. edgeCount - len \in Nat
    BY <1>2
  <2> HIDE DEF S
  <2>4. 0 .. (edgeCount - len) \subseteq S
    BY <2>1, <2>2, <2>3, BoundedInduction
  <2> SUFFICES ASSUME NEW k \in 0 .. edgeCount, k >= len PROVE ref[k] = NoEdge
    OBVIOUS
  <2>5. k - len \in 0 .. (edgeCount - len) /\ len + (k - len) = k
    BY <1>2
  <2> QED
    BY <2>4, <2>5 DEF S
<1>7. list \in [1 .. len -> Incident(n)]
  <2>1. \A i \in 1 .. len : ref[i - 1] \in Incident(n)
    BY <1>1, <1>2, <1>3
  <2> QED
    BY <1>1, <2>1
<1>8. ASSUME NEW e \in Incident(n) PROVE \E i \in 1 .. len : list[i] = e
  <2>1. PICK k \in 0 .. (edgeCount - 1) : ref[k] = e
    BY <1>4
  <2>2. k < len
    BY <1>2, <1>5, <1>6, <2>1
  <2>3. k + 1 \in 1 .. len /\ (k + 1) - 1 = k
    BY <1>2, <2>2
  <2>4. list[k + 1] = e
    BY <1>1, <2>1, <2>3
  <2> QED
    BY <2>3, <2>4
<1>9. \A i \in 1 .. len : \A j \in 1 .. len : i < j =>
          edges[list[j]].tag < edges[list[i]].tag
  <2> TAKE i \in 1 .. len
  <2> DEFINE S == {d \in 0 .. (len - i) :
                     d > 0 => edges[list[i + d]].tag < edges[list[i]].tag}
  <2>1. 0 \in S
    BY <1>2
  <2>2. \A d \in 0 .. ((len - i) - 1) : d \in S => d + 1 \in S
    <3> SUFFICES ASSUME NEW d \in 0 .. ((len - i) - 1), d \in S
                 PROVE  edges[list[i + (d + 1)]].tag < edges[list[i]].tag
      BY <1>2
    <3>1. /\ i + d \in 1 .. len /\ i + (d + 1) \in 1 .. len
          /\ i + d \in 1 .. edgeCount /\ i + d \in 0 .. (len - 1)
          /\ (i + (d + 1)) - 1 = i + d
      BY <1>2
    <3>2. list[i + (d + 1)] = ref[i + d] /\ list[i + d] = ref[(i + d) - 1]
      BY <1>1, <3>1
    <3>3. edges[list[i + (d + 1)]].tag < edges[list[i + d]].tag
      BY <1>1, <1>3, <3>1, <3>2
    <3>4. /\ edges[list[i + (d + 1)]].tag \in Nat /\ edges[list[i + d]].tag \in Nat
          /\ edges[list[i]].tag \in Nat
      BY <1>5, <1>7, <3>1
    <3>5. d = 0 => i + d = i
      OBVIOUS
    <3> QED
      BY <3>3, <3>4, <3>5
  <2>3. len - i \in Nat
    BY <1>2
  <2> HIDE DEF S
  <2>4. 0 .. (len - i) \subseteq S
    BY <2>1, <2>2, <2>3, BoundedInduction
  <2> TAKE j \in 1 .. len
  <2> HAVE i < j
  <2>5. j - i \in 0 .. (len - i) /\ j - i > 0 /\ i + (j - i) = j
    BY <1>2
  <2> QED
    BY <2>4, <2>5 DEF S
<1> QED
  BY <1>7, <1>8, <1>9 DEF list

\* An explorer terminates and returns each edge of its base node exactly once,
\* whatever insertions, edge sorts and node relabellings came before.
THEOREM ExplorerCorrect == Spec => []ExplorerVisitsEachEdgeOnce
<1>1. IndInv => ExplorerVisitsEachEdgeOnce
  <2> SUFFICES ASSUME IndInv, NEW n \in Nodes
               PROVE  /\ Chain(n)[edgeCount] = NoEdge
                      /\ Range(AdjList(n)) = Incident(n)
                      /\ IsInjective(AdjList(n))
    BY DEF ExplorerVisitsEachEdgeOnce
  <2>1. PICK len \in 0 .. edgeCount :
            /\ AdjList(n) \in [1 .. len -> Incident(n)]
            /\ \A e \in Incident(n) : \E i \in 1 .. len : AdjList(n)[i] = e
            /\ \A i, j \in 1 .. len : i < j =>
                   edges[AdjList(n)[j]].tag < edges[AdjList(n)[i]].tag
    BY AdjListIsIncident
  <2>2. \A e \in Incident(n) : edges[e].tag \in Nat
    BY DEF IndInv, TypeOK, EdgeRecord, Incident, Edges
  <2>3. Range(AdjList(n)) = Incident(n)
    BY <2>1 DEF Range
  <2>4. IsInjective(AdjList(n))
    <3> SUFFICES ASSUME NEW i \in 1 .. len, NEW j \in 1 .. len,
                        AdjList(n)[i] = AdjList(n)[j], i # j
                 PROVE  FALSE
      BY <2>1 DEF IsInjective
    <3>1. edges[AdjList(n)[i]].tag \in Nat
      BY <2>1, <2>2
    <3>2. i < j \/ j < i
      OBVIOUS
    <3> QED
      BY <2>1, <3>1, <3>2
  <2>5. Chain(n)[edgeCount] = NoEdge
    <3> SUFFICES ASSUME Chain(n)[edgeCount] # NoEdge PROVE FALSE
      OBVIOUS
    <3>1. edgeCount \in Nat
      BY BoundsAssumption DEF IndInv, TypeOK
    <3>2. Chain(n)[edgeCount] \in Incident(n) /\ edges[Chain(n)[edgeCount]].tag <= -1
      BY <3>1, ChainDescends
    <3> QED
      BY <2>2, <3>2
  <2> QED
    BY <2>3, <2>4, <2>5
<1> QED
  BY <1>1, Invariance, PTL

-----------------------------------------------------------------------------

\* The mapped state, node by node and edge by edge.
PosOf(t) == nodes[NodeAt(t)].pos
EndsOf(t) == <<nodes[edges[EdgeAt(t)].nodeA].tag, nodes[edges[EdgeAt(t)].nodeB].tag>>
AroundOf(t) == TagList(NodeAt(t))

\* What makes the refinement mapping well defined: tags name nodes and edges
\* one to one, and the mapped lists list the tags around a node, newest first.
Named ==
    /\ edgeCount \in Nat
    /\ \A t \in Nodes : NodeAt(t) \in Nodes /\ nodes[NodeAt(t)].tag = t
    /\ \A n \in Nodes : nodes[n].tag \in Nodes /\ NodeAt(nodes[n].tag) = n
    /\ \A t \in Edges : EdgeAt(t) \in Edges /\ edges[EdgeAt(t)].tag = t
    /\ \A e \in Edges : edges[e].tag \in Edges /\ EdgeAt(edges[e].tag) = e
    /\ \A e \in Edges : edges[e].nodeA \in Nodes /\ edges[e].nodeB \in Nodes
    /\ \A n \in Nodes : /\ TagsAround(n) \subseteq Nat
                         /\ IsDescendingList(TagList(n), TagsAround(n))
                         /\ \A i \in DOMAIN AdjList(n) : AdjList(n)[i] \in Edges

\* An injective map of an interval to itself takes every value.
LEMMA InjectionIsOnto ==
    ASSUME NEW N \in Nat, NEW f \in [0 .. (N - 1) -> 0 .. (N - 1)],
           \A i, j \in 0 .. (N - 1) : f[i] = f[j] => i = j
    PROVE  \A t \in 0 .. (N - 1) : \E i \in 0 .. (N - 1) : f[i] = t
<1> DEFINE S == 0 .. (N - 1)
<1>1. IsFiniteSet(S)
  BY FS_Interval
<1>2. f \in Injection(S, S)
  BY DEF Injection, IsInjective
<1> HIDE DEF S
<1>3. f \in Surjection(S, S)
  BY <1>1, <1>2, FS_Injection
<1> QED
  BY <1>3 DEF Surjection, S

\* Every node and every edge of the multigraph is the name of one record.
LEMMA TagsNameRecords == IndInv => Named
<1> SUFFICES ASSUME IndInv PROVE Named
  OBVIOUS
<1>0. TypeOK /\ NoEdgeLost
  BY DEF IndInv
<1>1. nodeCount \in Nat /\ edgeCount \in Nat
  BY <1>0, BoundsAssumption DEF TypeOK
<1>2. /\ \A n \in Nodes : nodes[n].tag \in Nodes
      /\ \A m, n \in Nodes : nodes[m].tag = nodes[n].tag => m = n
  BY <1>0 DEF TypeOK, NodeRecord, NoEdgeLost, IsInjective
<1>3. /\ \A e \in Edges : edges[e].tag \in Edges
      /\ \A d, e \in Edges : edges[d].tag = edges[e].tag => d = e
  BY <1>0 DEF TypeOK, EdgeRecord, NoEdgeLost, IsInjective
<1>4. \A t \in Nodes : \E n \in Nodes : nodes[n].tag = t
  <2> DEFINE f == [n \in Nodes |-> nodes[n].tag]
  <2>1. f \in [Nodes -> Nodes] /\ \A m, n \in Nodes : f[m] = f[n] => m = n
    BY <1>2
  <2> HIDE DEF f
  <2>2. \A t \in Nodes : \E n \in Nodes : f[n] = t
    BY <1>1, <2>1, InjectionIsOnto DEF Nodes
  <2> QED
    BY <2>2 DEF f
<1>5. \A t \in Edges : \E e \in Edges : edges[e].tag = t
  <2> DEFINE f == [e \in Edges |-> edges[e].tag]
  <2>1. f \in [Edges -> Edges] /\ \A d, e \in Edges : f[d] = f[e] => d = e
    BY <1>3
  <2> HIDE DEF f
  <2>2. \A t \in Edges : \E e \in Edges : f[e] = t
    BY <1>1, <2>1, InjectionIsOnto DEF Edges
  <2> QED
    BY <2>2 DEF f
<1>6. \A t \in Nodes : NodeAt(t) \in Nodes /\ nodes[NodeAt(t)].tag = t
  BY <1>4 DEF NodeAt
<1>7. \A t \in Edges : EdgeAt(t) \in Edges /\ edges[EdgeAt(t)].tag = t
  BY <1>5 DEF EdgeAt
<1>8. \A e \in Edges : edges[e].nodeA \in Nodes /\ edges[e].nodeB \in Nodes
  BY <1>0 DEF TypeOK, EdgeRecord
<1>9. \A n \in Nodes : /\ TagsAround(n) \subseteq Nat
                       /\ IsDescendingList(TagList(n), TagsAround(n))
  <2> TAKE n \in Nodes
  <2> DEFINE list == AdjList(n)
             tags == TagList(n)
  <2>1. PICK len \in 0 .. edgeCount :
            /\ list \in [1 .. len -> Incident(n)]
            /\ \A e \in Incident(n) : \E i \in 1 .. len : list[i] = e
            /\ \A i, j \in 1 .. len : i < j => edges[list[j]].tag < edges[list[i]].tag
    BY AdjListIsIncident
  <2>2. tags = [i \in 1 .. len |-> edges[list[i]].tag]
    BY <2>1 DEF TagList
  <2>3. TagsAround(n) \subseteq Nat
    BY <1>3 DEF TagsAround, Incident, Edges
  <2> HIDE DEF list, tags
  <2>4. tags \in [1 .. len -> TagsAround(n)]
    BY <2>1, <2>2 DEF TagsAround
  <2>5. \A t \in TagsAround(n) : \E i \in 1 .. len : tags[i] = t
    BY <2>1, <2>2 DEF TagsAround
  <2>6. \A i, j \in 1 .. len : i < j => tags[j] < tags[i]
    BY <2>1, <2>2
  <2>7. len \in Nat
    BY <1>1
  <2>8. IsDescendingList(tags, TagsAround(n))
    BY <2>4, <2>5, <2>6, <2>7 DEF IsDescendingList
  <2> QED
    BY <2>3, <2>8 DEF tags
<1>10. \A n \in Nodes : \A i \in DOMAIN AdjList(n) : AdjList(n)[i] \in Edges
  BY AdjListIsIncident DEF Incident
<1> QED
  BY <1>1, <1>2, <1>3, <1>6, <1>7, <1>8, <1>9, <1>10 DEF Named

\* A step that moves every node n to g[n] and every edge e to h[e] without
\* touching their identities and ends changes no mapped edge.
LEMMA Renaming ==
    ASSUME Named, Named', NEW g \in [Nodes -> Nodes'], NEW h \in [Edges -> Edges'],
           \A n \in Nodes : nodes'[g[n]].tag = nodes[n].tag,
           \A e \in Edges : /\ edges'[h[e]].tag = edges[e].tag
                            /\ edges'[h[e]].nodeA = g[edges[e].nodeA]
                            /\ edges'[h[e]].nodeB = g[edges[e].nodeB]
    PROVE  /\ \A t \in Nodes : NodeAt(t)' = g[NodeAt(t)]
           /\ \A t \in Edges : EdgeAt(t)' = h[EdgeAt(t)] /\ EndsOf(t)' = EndsOf(t)
<1>1. \A t \in Nodes : NodeAt(t)' = g[NodeAt(t)]
  <2> TAKE t \in Nodes
  <2>1. /\ g[NodeAt(t)] \in Nodes' /\ nodes'[g[NodeAt(t)]].tag = t
    BY DEF Named
  <2>2. \A m \in Nodes' : \A s : nodes'[m].tag = s => NodeAt(s)' = m
    BY DEF Named
  <2> QED
    BY <2>1, <2>2
<1>2. \A t \in Edges : EdgeAt(t)' = h[EdgeAt(t)]
  <2> TAKE t \in Edges
  <2>1. h[EdgeAt(t)] \in Edges' /\ edges'[h[EdgeAt(t)]].tag = t
    BY DEF Named
  <2>2. \A d \in Edges' : \A s : edges'[d].tag = s => EdgeAt(s)' = d
    BY DEF Named
  <2> QED
    BY <2>1, <2>2
<1>3. ASSUME NEW t \in Edges PROVE EndsOf(t)' = EndsOf(t)
  <2> DEFINE e == EdgeAt(t)
  <2>1. EdgeAt(t)' = h[e] /\ e \in Edges
    BY <1>2 DEF Named
  <2>2. edges[e].nodeA \in Nodes /\ edges[e].nodeB \in Nodes
    BY <2>1 DEF Named
  <2> HIDE DEF e
  <2>3. /\ nodes'[edges'[h[e]].nodeA].tag = nodes[edges[e].nodeA].tag
        /\ nodes'[edges'[h[e]].nodeB].tag = nodes[edges[e].nodeB].tag
    BY <2>1, <2>2
  <2> QED
    BY <2>1, <2>3 DEF EndsOf, e
<1> QED
  BY <1>1, <1>2, <1>3

\* The list around a node depends only on the identities of its edges.
LEMMA ListKept ==
    ASSUME Named, Named', NEW n \in Nodes, NEW m \in Nodes',
           TagsAround(m)' = TagsAround(n)
    PROVE  TagList(m)' = TagList(n)
<1>1. /\ TagsAround(n) \subseteq Int
      /\ IsDescendingList(TagList(n), TagsAround(n))
      /\ IsDescendingList(TagList(m)', TagsAround(m)')
  BY DEF Named
<1> QED
  BY <1>1, DescendingListUnique

-----------------------------------------------------------------------------

\* What the abstract actions say, in terms of the mapped state.
LEMMA AddNodesMeaning ==
    ASSUME NEW v, Nodes' = Nodes \cup 0 .. v, Edges' = Edges, frozen' = frozen,
           \A t \in Nodes : PosOf(t)' = PosOf(t) /\ AroundOf(t)' = AroundOf(t),
           \A t \in Nodes' \ Nodes : PosOf(t)' = 0 /\ AroundOf(t)' = << >>,
           \A t \in Edges : EndsOf(t)' = EndsOf(t)
    PROVE  Multigraph!AddNodes(v)
  BY DEF Multigraph!AddNodes, Multigraph!WithNode, Multigraph!Extend, PosOf, EndsOf,
         AroundOf, TagList

\* A node that gets its position (SetNode) is a Place of the multigraph.
LEMMA PlaceMeaning ==
    ASSUME NEW v, NEW p, Nodes' = Nodes \cup 0 .. v, v \in Nodes', Edges' = Edges,
           frozen' = frozen, PosOf(v)' = p,
           \A t \in Nodes : /\ t # v => PosOf(t)' = PosOf(t)
                            /\ AroundOf(t)' = AroundOf(t),
           \A t \in Nodes' \ Nodes : /\ t # v => PosOf(t)' = 0
                                     /\ AroundOf(t)' = << >>,
           \A t \in Edges : EndsOf(t)' = EndsOf(t)
    PROVE  Multigraph!Place(v, p)
  BY DEF Multigraph!Place, Multigraph!WithNode, Multigraph!Extend, PosOf, EndsOf,
         AroundOf, TagList

\* A new edge that is linked into both its ends (Edge) is a Connect.
LEMMA ConnectMeaning ==
    ASSUME NEW u, NEW v, NEW c \in Nat, c = edgeCount,
           ~ frozen, u # v, c < MaxEdgeCount,
           Nodes' = Nodes \cup ((0 .. u) \cup (0 .. v)), Edges' = 0 .. c, frozen' = frozen,
           \A t \in Nodes :
               /\ PosOf(t)' = PosOf(t)
               /\ AroundOf(t)' = IF t \in {u, v} THEN <<c>> \o AroundOf(t) ELSE AroundOf(t),
           \A t \in Nodes' \ Nodes :
               /\ PosOf(t)' = 0
               /\ AroundOf(t)' = IF t \in {u, v} THEN <<c>> \o << >> ELSE << >>,
           \A t \in Edges : EndsOf(t)' = EndsOf(t),
           EndsOf(c)' = <<u, v>>
    PROVE  Multigraph!Connect(u, v)
<1>1. Multigraph!NextEdge = c
  <2>1. DOMAIN [t \in Edges |-> <<nodes[edges[EdgeAt(t)].nodeA].tag,
                                  nodes[edges[EdgeAt(t)].nodeB].tag>>] = Edges
    OBVIOUS
  <2>2. Cardinality(Edges) = c
    BY FS_Interval DEF Edges
  <2> QED
    BY <2>1, <2>2 DEF Multigraph!NextEdge, Multigraph!Cardinality, Cardinality
<1>2. c \notin Edges /\ Edges' = Edges \cup {c}
  <2>1. Edges = 0 .. (c - 1)
    BY DEF Edges
  <2>2. 0 .. c = (0 .. (c - 1)) \cup {c} /\ c \notin 0 .. (c - 1)
    OBVIOUS
  <2> QED
    BY <2>1, <2>2
<1> DEFINE W == Multigraph!WithNode(u) \cup Multigraph!WithNode(v)
           grown == Multigraph!Extend([t \in Nodes |-> AroundOf(t)], W, << >>)
<1>3. W = Nodes'
  BY DEF Multigraph!WithNode
<1>4. [t \in Edges' |-> EndsOf(t)'] =
          Multigraph!Extend([t \in Edges |-> EndsOf(t)], 0 .. c, <<u, v>>)
  BY <1>2 DEF Multigraph!Extend
<1>5. [t \in Nodes' |-> PosOf(t)'] =
          Multigraph!Extend([t \in Nodes |-> PosOf(t)], W, 0)
  <2> HIDE DEF W
  <2> QED
    BY <1>3 DEF Multigraph!Extend
<1>6. [t \in Nodes' |-> AroundOf(t)'] =
          [t \in DOMAIN grown |-> IF t \in {u, v} THEN <<Multigraph!NextEdge>> \o grown[t]
                                                  ELSE grown[t]]
  <2> HIDE DEF W
  <2>1. grown = [t \in Nodes' |-> IF t \in Nodes THEN AroundOf(t) ELSE << >>]
    BY <1>3 DEF Multigraph!Extend
  <2> HIDE DEF grown
  <2> QED
    BY <1>1, <2>1
<1> QED
  BY <1>1, <1>4, <1>5, <1>6
     DEF Multigraph!Connect, PosOf, EndsOf, AroundOf, TagList

\* What changes nothing that is seen is no step of the multigraph.
LEMMA StutterMeaning ==
    ASSUME Nodes' = Nodes, Edges' = Edges, frozen' = frozen,
           \A t \in Nodes : PosOf(t)' = PosOf(t) /\ AroundOf(t)' = AroundOf(t),
           \A t \in Edges : EndsOf(t)' = EndsOf(t)
    PROVE  UNCHANGED Multigraph!vars
  BY DEF Multigraph!vars, PosOf, EndsOf, AroundOf, TagList

\* A growing node array: old names keep their nodes, new ones name new nodes
\* with an empty list.
LEMMA GrowingMaps ==
    ASSUME Named, Named', NEW v \in Nat, TypeOK, NoEdgeLost,
           nodeCount' = GrownCount(v),
           \A n \in 0 .. (GrownCount(v) - 1) : nodes'[n].tag = GrownNodes(v)[n].tag,
           UNCHANGED <<edgeCount, edges, frozen>>
    PROVE  /\ Nodes' = Nodes \cup 0 .. v /\ Edges' = Edges
           /\ \A t \in Nodes : NodeAt(t)' = NodeAt(t) /\ AroundOf(t)' = AroundOf(t)
           /\ \A t \in Nodes' \ Nodes : NodeAt(t)' = t /\ AroundOf(t)' = << >>
           /\ \A t \in Edges : EndsOf(t)' = EndsOf(t)
<1>1. Nodes' = Nodes \cup 0 .. v /\ Edges' = Edges /\ Nodes' = 0 .. (GrownCount(v) - 1)
  <2>1. nodeCount \in Nat
    BY DEF TypeOK
  <2> QED
    BY <2>1 DEF Nodes, Edges, GrownCount
<1>2. /\ \A n \in Nodes : nodes'[n].tag = nodes[n].tag
      /\ \A n \in Nodes' : n \notin Nodes => nodes'[n].tag = n
  BY <1>1, Growth
<1>3. /\ \A t \in Nodes : NodeAt(t)' = NodeAt(t)
      /\ \A t \in Edges : EndsOf(t)' = EndsOf(t)
  <2> DEFINE g == [n \in Nodes |-> n]
             h == [e \in Edges |-> e]
  <2>1. g \in [Nodes -> Nodes'] /\ h \in [Edges -> Edges']
    BY <1>1
  <2>2. /\ \A n \in Nodes : g[n] = n /\ nodes'[g[n]].tag = nodes[n].tag
        /\ \A e \in Edges : h[e] = e /\ edges'[h[e]].tag = edges[e].tag
    BY <1>2
  <2>3. \A e \in Edges : /\ edges'[h[e]].nodeA = g[edges[e].nodeA]
                         /\ edges'[h[e]].nodeB = g[edges[e].nodeB]
    BY DEF Named
  <2>4. \A t \in Nodes : NodeAt(t) \in Nodes
    BY DEF Named
  <2> HIDE DEF g, h
  <2>5. /\ \A t \in Nodes : NodeAt(t)' = g[NodeAt(t)]
        /\ \A t \in Edges : EndsOf(t)' = EndsOf(t)
    BY <2>1, <2>2, <2>3, Renaming
  <2> QED
    BY <2>2, <2>4, <2>5
<1>4. \A t \in Nodes' : t \notin Nodes => NodeAt(t)' = t
  BY <1>2 DEF Named
<1>5. \A n : TagsAround(n)' = TagsAround(n)
  BY <1>1 DEF TagsAround, Incident
<1>6. ASSUME NEW t \in Nodes PROVE AroundOf(t)' = AroundOf(t)
  <2>1. PICK n \in Nodes : n = NodeAt(t)
    BY DEF Named
  <2>2. n \in Nodes' /\ NodeAt(t)' = n
    BY <1>1, <1>3, <2>1
  <2>3. TagList(n)' = TagList(n)
    BY <1>5, <2>2, ListKept
  <2> QED
    BY <2>1, <2>2, <2>3 DEF AroundOf
<1>7. ASSUME NEW t \in Nodes', t \notin Nodes PROVE AroundOf(t)' = << >>
  <2>1. TagsAround(t)' = {}
    <3>1. Incident(t) = {}
      BY <1>7 DEF Incident, Named
    <3> QED
      BY <1>5, <3>1 DEF TagsAround
  <2>2. IsDescendingList(TagList(t)', {})
    BY <2>1, <1>7 DEF Named
  <2>3. TagList(t)' = << >>
    BY <2>2, DescendingListEmpty
  <2> QED
    BY <1>4, <1>7, <2>3 DEF AroundOf
<1> QED
  BY <1>1, <1>3, <1>4, <1>6, <1>7

\* EnsureNodeCapacity is the abstract creation of nodes.
LEMMA EnsureNodeCapacityMaps ==
    ASSUME IndInv, Named, Named', NEW v \in NodeIds, EnsureNodeCapacity(v)
    PROVE  Multigraph!AddNodes(v)
<1>1. v \in Nat /\ TypeOK /\ NoEdgeLost
  BY BoundsAssumption DEF NodeIds, IndInv
<1>2. /\ nodeCount' = GrownCount(v) /\ nodes' = GrownNodes(v)
      /\ UNCHANGED <<edgeCount, edges, frozen>>
  BY DEF EnsureNodeCapacity
<1>3. /\ Nodes' = Nodes \cup 0 .. v /\ Edges' = Edges
      /\ \A t \in Nodes : NodeAt(t)' = NodeAt(t) /\ AroundOf(t)' = AroundOf(t)
      /\ \A t \in Nodes' \ Nodes : NodeAt(t)' = t /\ AroundOf(t)' = << >>
      /\ \A t \in Edges : EndsOf(t)' = EndsOf(t)
  BY <1>1, <1>2, GrowingMaps
<1>4. /\ \A t \in Nodes : PosOf(t)' = PosOf(t)
      /\ \A t \in Nodes' \ Nodes : PosOf(t)' = 0
  <2>1. nodes' = [m \in Nodes' |-> IF m \in Nodes THEN nodes[m]
                                   ELSE [edgeRef |-> NoEdge, pos |-> 0, tag |-> m]]
    BY <1>1, <1>2 DEF GrownNodes, Nodes, TypeOK
  <2>2. \A t \in Nodes : NodeAt(t) \in Nodes
    BY DEF Named
  <2> QED
    BY <1>3, <2>1, <2>2 DEF PosOf
<1> QED
  BY <1>2, <1>3, <1>4, AddNodesMeaning

\* SetNode is the abstract placing of the node with the same identity.
LEMMA SetNodeMaps ==
    ASSUME IndInv, Named, Named', NEW v \in NodeIds, NEW p \in Positions, SetNode(v, p)
    PROVE  \E t \in Nodes' : Multigraph!Place(t, p)
<1> DEFINE old == GrownNodes(v)
<1>1. v \in Nat /\ TypeOK /\ NoEdgeLost
  BY BoundsAssumption DEF NodeIds, IndInv
<1>2. /\ nodeCount' = GrownCount(v) /\ nodes' = [old EXCEPT ![v].pos = p]
      /\ UNCHANGED <<edgeCount, edges, frozen>>
  BY DEF SetNode
<1>3. /\ v \in Nodes' /\ Nodes \subseteq Nodes'
      /\ Nodes' = 0 .. (GrownCount(v) - 1)
      /\ old \in [Nodes' -> NodeRecord(Edges \cup {NoEdge}, Nodes')]
      /\ \A m \in Nodes : old[m] = nodes[m]
      /\ \A m \in Nodes' \ Nodes : old[m].pos = 0
  <2>1. /\ GrownCount(v) \in Nat /\ v < GrownCount(v) /\ nodeCount <= GrownCount(v)
        /\ nodeCount \in Nat
        /\ old \in [0 .. (GrownCount(v) - 1) ->
                        NodeRecord(Edges \cup {NoEdge}, 0 .. (GrownCount(v) - 1))]
        /\ \A m \in Nodes : old[m] = nodes[m]
    BY <1>1, Growth DEF TypeOK
  <2>2. Nodes' = 0 .. (GrownCount(v) - 1)
    BY <1>2 DEF Nodes
  <2>3. \A m \in Nodes' \ Nodes : old[m].pos = 0
    <3>1. \A m \in 0 .. (GrownCount(v) - 1) : m \notin Nodes => ~ (m < nodeCount)
      BY <2>1 DEF Nodes
    <3> QED
      BY <2>2, <3>1 DEF GrownNodes
  <2>4. v \in Nodes' /\ Nodes \subseteq Nodes'
    BY <1>1, <1>2, <2>1 DEF Nodes
  <2> HIDE DEF old
  <2> QED
    BY <2>1, <2>2, <2>3, <2>4
<1> HIDE DEF old
<1>4. \A n \in Nodes' : /\ nodes'[n].tag = old[n].tag
                        /\ nodes'[n].pos = IF n = v THEN p ELSE old[n].pos
  BY <1>2, <1>3 DEF NodeRecord
<1>5. /\ Nodes' = Nodes \cup 0 .. v /\ Edges' = Edges
      /\ \A t \in Nodes : NodeAt(t)' = NodeAt(t) /\ AroundOf(t)' = AroundOf(t)
      /\ \A t \in Nodes' \ Nodes : NodeAt(t)' = t /\ AroundOf(t)' = << >>
      /\ \A t \in Edges : EndsOf(t)' = EndsOf(t)
  BY <1>1, <1>2, <1>3, <1>4, GrowingMaps DEF old
<1>6. PICK s \in Nodes' : s = IF v \in Nodes THEN nodes[v].tag ELSE v
  BY <1>3 DEF Named
<1>7. Nodes' = Nodes \cup 0 .. s
  <2>1. CASE v \in Nodes
    <3>1. s \in Nodes
      BY <1>6, <2>1 DEF Named
    <3>2. 0 .. s \subseteq Nodes /\ 0 .. v \subseteq Nodes
      BY <1>1, <2>1, <3>1 DEF Nodes, TypeOK
    <3> QED
      BY <1>5, <3>2
  <2>2. CASE v \notin Nodes
    BY <1>5, <1>6, <2>2
  <2> QED
    BY <2>1, <2>2
<1>8. /\ \A t \in Nodes : NodeAt(t) \in Nodes /\ (NodeAt(t) = v <=> t = s)
      /\ \A t \in Nodes' \ Nodes : t = v <=> t = s
  <2>1. \A t \in Nodes : /\ NodeAt(t) \in Nodes /\ nodes[NodeAt(t)].tag = t
                         /\ nodes[t].tag \in Nodes /\ NodeAt(nodes[t].tag) = t
    BY DEF Named
  <2>2. CASE v \in Nodes
    BY <1>6, <2>1, <2>2
  <2>3. CASE v \notin Nodes
    BY <1>6, <2>1, <2>3
  <2> QED
    BY <2>2, <2>3
<1>9. /\ \A t \in Nodes : t # s => PosOf(t)' = PosOf(t)
      /\ \A t \in Nodes' \ Nodes : t # s => PosOf(t)' = 0
      /\ PosOf(s)' = p
  <2>1. ASSUME NEW t \in Nodes
        PROVE  PosOf(t)' = IF t = s THEN p ELSE PosOf(t)
    BY <1>3, <1>4, <1>5, <1>8 DEF PosOf
  <2>2. ASSUME NEW t \in Nodes' \ Nodes
        PROVE  PosOf(t)' = IF t = s THEN p ELSE 0
    BY <1>3, <1>4, <1>5, <1>8 DEF PosOf
  <2>3. PosOf(s)' = p
    BY <1>6, <2>1, <2>2
  <2> QED
    BY <2>1, <2>2, <2>3
<1>10. Multigraph!Place(s, p)
  BY <1>2, <1>5, <1>7, <1>9, PlaceMeaning
<1> QED
  BY <1>10

\* What Edge does to the records, by the identity c of the new edge.
LEMMA EdgeEffect ==
    ASSUME IndInv, NEW a \in NodeIds, NEW b \in NodeIds, Edge(a, b),
           NEW c, c = edgeCount
    PROVE  /\ c \in Nat /\ c < MaxEdgeCount /\ ~ frozen /\ frozen' = frozen /\ a # b
           /\ Nodes' = Nodes \cup ((0 .. a) \cup (0 .. b)) /\ a \in Nodes' /\ b \in Nodes'
           /\ Edges' = 0 .. c /\ Edges' = Edges \cup {c} /\ c \notin Edges
           /\ \A n \in Nodes : nodes'[n].tag = nodes[n].tag /\ nodes'[n].pos = nodes[n].pos
           /\ \A n \in Nodes' \ Nodes : nodes'[n].tag = n /\ nodes'[n].pos = 0
           /\ \A e \in Edges : edges'[e] = edges[e]
           /\ edges'[c].nodeA = a /\ edges'[c].nodeB = b /\ edges'[c].tag = c
<1> DEFINE top == IF a < b THEN b ELSE a
           G == 0 .. (GrownCount(top) - 1)
           old == GrownNodes(top)
<1>0. /\ a \in Nat /\ b \in Nat /\ top \in Nat /\ a <= top /\ b <= top
      /\ 0 .. top = (0 .. a) \cup (0 .. b)
      /\ TypeOK /\ NoEdgeLost
  <2>1. a \in Nat /\ b \in Nat
    BY BoundsAssumption DEF NodeIds
  <2> QED
    BY <2>1 DEF IndInv
<1>1. c \in Nat /\ c < MaxEdgeCount /\ ~ frozen /\ frozen' = frozen /\ a # b
  BY <1>0, BoundsAssumption DEF Edge, TypeOK
<1>2. /\ GrownCount(top) \in Nat /\ nodeCount \in Nat /\ nodeCount <= GrownCount(top)
      /\ top < GrownCount(top)
      /\ old \in [G -> NodeRecord(Edges \cup {NoEdge}, G)]
      /\ \A n \in Nodes : old[n] = nodes[n]
      /\ \A n \in G \ Nodes : old[n].tag = n
  BY <1>0, Growth DEF TypeOK
<1>3. nodeCount' = GrownCount(top) /\ edgeCount' = c + 1
  BY DEF Edge
<1>4. Nodes' = G /\ Edges' = 0 .. c
  BY <1>1, <1>3 DEF Nodes, Edges
<1>5. Edges = 0 .. (c - 1) /\ Nodes = 0 .. (nodeCount - 1)
  BY DEF Edges, Nodes
<1>6. 0 .. c = Edges \cup {c} /\ c \notin Edges
  BY <1>1, <1>5
<1>7. G = Nodes \cup (0 .. top) /\ a \in G /\ b \in G
  BY <1>0, <1>2, <1>5 DEF GrownCount
<1>8. \A n \in G \ Nodes : old[n].pos = 0
  <2>1. \A m \in G : m \notin Nodes => ~ (m < nodeCount)
    BY <1>2, <1>5
  <2> QED
    BY <2>1 DEF GrownNodes
<1> HIDE DEF top, G, old
<1>9. nodes' = [n \in DOMAIN old |->
                   IF n \in {a, b} THEN [old[n] EXCEPT !.edgeRef = edgeCount] ELSE old[n]]
  BY DEF Edge, top, old
<1>10. \A n \in G : nodes'[n].tag = old[n].tag /\ nodes'[n].pos = old[n].pos
  BY <1>2, <1>9 DEF NodeRecord
<1>11. /\ \A e \in Edges : edges'[e] = edges[e]
       /\ edges'[c].nodeA = a /\ edges'[c].nodeB = b /\ edges'[c].tag = c
  <2>1. edges' = [e \in 0 .. edgeCount |->
                    IF e < edgeCount THEN edges[e]
                    ELSE [nodeA |-> a, nodeB |-> b,
                          linkA |-> HeadOf(old[a].edgeRef),
                          linkB |-> HeadOf(old[b].edgeRef), tag |-> e]]
    BY DEF Edge, top, old
  <2>2. \A e \in Edges : e \in 0 .. edgeCount /\ e < edgeCount
    BY <1>1, <1>5
  <2> QED
    BY <1>1, <2>1, <2>2
<1>12. /\ \A n \in Nodes : nodes'[n].tag = nodes[n].tag /\ nodes'[n].pos = nodes[n].pos
       /\ \A n \in G \ Nodes : nodes'[n].tag = n /\ nodes'[n].pos = 0
  BY <1>2, <1>7, <1>8, <1>10
<1> QED
  BY <1>0, <1>1, <1>4, <1>6, <1>7, <1>11, <1>12

\* Edge is the abstract connection of the two nodes: the new edge comes first
\* at both of them.
LEMMA EdgeMaps ==
    ASSUME IndInv, Named, Named', NEW a \in NodeIds, NEW b \in NodeIds, Edge(a, b)
    PROVE  \E u, v \in Nodes' : Multigraph!Connect(u, v)
<1> DEFINE Name(n) == IF n \in Nodes THEN nodes[n].tag ELSE n
<1>1. PICK c : c = edgeCount
  OBVIOUS
<1>2. /\ c \in Nat /\ c < MaxEdgeCount /\ ~ frozen /\ frozen' = frozen /\ a # b
      /\ Nodes' = Nodes \cup ((0 .. a) \cup (0 .. b)) /\ a \in Nodes' /\ b \in Nodes'
      /\ Edges' = 0 .. c /\ Edges' = Edges \cup {c} /\ c \notin Edges
      /\ \A n \in Nodes : nodes'[n].tag = nodes[n].tag /\ nodes'[n].pos = nodes[n].pos
      /\ \A n \in Nodes' \ Nodes : nodes'[n].tag = n /\ nodes'[n].pos = 0
      /\ \A e \in Edges : edges'[e] = edges[e]
      /\ edges'[c].nodeA = a /\ edges'[c].nodeB = b /\ edges'[c].tag = c
  BY <1>1, EdgeEffect
<1>3. /\ \A t \in Nodes : NodeAt(t)' = NodeAt(t)
      /\ \A t \in Edges : EndsOf(t)' = EndsOf(t)
  <2> DEFINE g == [n \in Nodes |-> n]
             h == [e \in Edges |-> e]
  <2>1. g \in [Nodes -> Nodes'] /\ h \in [Edges -> Edges']
    BY <1>2
  <2>2. \A n \in Nodes : g[n] = n /\ nodes'[g[n]].tag = nodes[n].tag
    BY <1>2
  <2>3. \A e \in Edges : h[e] = e /\ edges[e].nodeA \in Nodes /\ edges[e].nodeB \in Nodes
    BY DEF Named
  <2>4. \A t \in Nodes : NodeAt(t) \in Nodes
    BY DEF Named
  <2> HIDE DEF g, h
  <2>5. \A e \in Edges : /\ edges'[h[e]].tag = edges[e].tag
                         /\ edges'[h[e]].nodeA = g[edges[e].nodeA]
                         /\ edges'[h[e]].nodeB = g[edges[e].nodeB]
    BY <1>2, <2>2, <2>3
  <2>6. /\ \A t \in Nodes : NodeAt(t)' = g[NodeAt(t)]
        /\ \A t \in Edges : EndsOf(t)' = EndsOf(t)
    BY <2>1, <2>2, <2>5, Renaming
  <2> QED
    BY <2>2, <2>4, <2>6
<1>4. \A t \in Nodes' \ Nodes : NodeAt(t)' = t
  BY <1>2 DEF Named
<1>5. PICK u \in Nodes' : u = Name(a)
  BY <1>2 DEF Named
<1>6. PICK v \in Nodes' : v = Name(b)
  BY <1>2 DEF Named
<1>7. /\ \A t \in Nodes : NodeAt(t) \in Nodes /\ nodes[NodeAt(t)].tag = t
      /\ \A n \in Nodes : nodes[n].tag \in Nodes /\ NodeAt(nodes[n].tag) = n
  BY DEF Named
<1>8. \A n \in {a, b} : \A t \in Nodes' : NodeAt(t)' = n <=> t = Name(n)
  <2> TAKE n \in {a, b}
  <2> TAKE t \in Nodes'
  <2>1. n \in Nodes'
    BY <1>2
  <2>2. CASE n \in Nodes
    BY <1>3, <1>4, <1>7, <2>1, <2>2
  <2>3. CASE n \notin Nodes
    BY <1>3, <1>4, <1>7, <2>1, <2>3
  <2> QED
    BY <2>2, <2>3
<1>9. u # v /\ nodes'[a].tag = u /\ nodes'[b].tag = v
  <2>1. nodes'[a].tag = u /\ nodes'[b].tag = v
    BY <1>2, <1>5, <1>6
  <2>2. u # v
    <3>1. NodeAt(u)' = a /\ NodeAt(v)' = b
      BY <1>5, <1>6, <1>8
    <3> QED
      BY <1>2, <3>1
  <2> QED
    BY <2>1, <2>2
<1>10. Nodes' = Nodes \cup ((0 .. u) \cup (0 .. v))
  <2>1. \A n \in {a, b} : Nodes \cup (0 .. n) = Nodes \cup (0 .. Name(n))
    <3> TAKE n \in {a, b}
    <3>1. CASE n \in Nodes
      <4>1. Name(n) \in Nodes
        BY <1>7, <3>1
      <4> HIDE DEF Name
      <4>2. nodeCount \in Nat
        BY DEF IndInv, TypeOK
      <4>3. 0 .. n \subseteq Nodes /\ 0 .. Name(n) \subseteq Nodes
        BY <3>1, <4>1, <4>2 DEF Nodes
      <4> QED
        BY <4>3
    <3>2. CASE n \notin Nodes
      BY <3>2
    <3> QED
      BY <3>1, <3>2
  <2> HIDE DEF Name
  <2> QED
    BY <1>2, <1>5, <1>6, <2>1
<1>11. EndsOf(c)' = <<u, v>>
  <2>1. EdgeAt(c)' = c
    BY <1>2 DEF Named
  <2> QED
    BY <1>2, <1>9, <2>1 DEF EndsOf
<1>12. /\ \A t \in Nodes : PosOf(t)' = PosOf(t)
       /\ \A t \in Nodes' \ Nodes : PosOf(t)' = 0
  BY <1>2, <1>3, <1>4, <1>7 DEF PosOf
<1>13. \A n \in Nodes' : TagsAround(n)' = IF n \in {a, b} THEN TagsAround(n) \cup {c}
                                          ELSE TagsAround(n)
  <2> TAKE n \in Nodes'
  <2>1. Incident(n)' = IF n \in {a, b} THEN Incident(n) \cup {c} ELSE Incident(n)
    BY <1>2 DEF Incident
  <2>2. \A e \in Incident(n) : edges'[e].tag = edges[e].tag
    BY <1>2 DEF Incident
  <2>3. CASE n \in {a, b}
    BY <1>2, <2>1, <2>2, <2>3 DEF TagsAround
  <2>4. CASE n \notin {a, b}
    BY <1>2, <2>1, <2>2, <2>4 DEF TagsAround
  <2> QED
    BY <2>3, <2>4
<1>14. \A n \in Nodes' \ Nodes : TagsAround(n) = {}
  <2>1. \A n : n \notin Nodes => Incident(n) = {}
    BY DEF Incident, Named
  <2> QED
    BY <2>1 DEF TagsAround
<1>15. ASSUME NEW n \in Nodes'
       PROVE  /\ TagsAround(n)' \subseteq Int
              /\ IsDescendingList(TagList(n)', TagsAround(n)')
  BY DEF Named
<1>16. ASSUME NEW n \in Nodes', NEW s, IsDescendingList(s, TagsAround(n)),
              TagsAround(n) \subseteq Int, \A t \in TagsAround(n) : t < c
       PROVE  TagList(n)' = IF n \in {a, b} THEN <<c>> \o s ELSE s
  <2>1. CASE n \in {a, b}
    <3>1. IsDescendingList(<<c>> \o s, TagsAround(n) \cup {c})
      BY <1>2, <1>16, DescendingListPrepend
    <3> QED
      BY <1>13, <1>15, <2>1, <3>1, DescendingListUnique
  <2>2. CASE n \notin {a, b}
    BY <1>13, <1>15, <1>16, <2>2, DescendingListUnique
  <2> QED
    BY <2>1, <2>2
<1>17. ASSUME NEW t \in Nodes
       PROVE  AroundOf(t)' = IF t \in {u, v} THEN <<c>> \o AroundOf(t) ELSE AroundOf(t)
  <2>1. PICK n \in Nodes : n = NodeAt(t)
    BY <1>7
  <2>2. n \in Nodes' /\ t \in Nodes' /\ NodeAt(t)' = n
    BY <1>2, <1>3, <2>1
  <2>3. IsDescendingList(TagList(n), TagsAround(n)) /\ TagsAround(n) \subseteq Int
    BY DEF Named
  <2>4. \A s \in TagsAround(n) : s < c
    <3>1. TagsAround(n) \subseteq Edges
      BY DEF TagsAround, Incident, Named
    <3>2. Edges = 0 .. (c - 1)
      BY <1>1 DEF Edges
    <3> QED
      BY <1>2, <3>1, <3>2
  <2>5. TagList(n)' = IF n \in {a, b} THEN <<c>> \o TagList(n) ELSE TagList(n)
    BY <1>16, <2>2, <2>3, <2>4
  <2>6. n \in {a, b} <=> t \in {u, v}
    BY <1>5, <1>6, <1>8, <2>2
  <2> QED
    BY <2>1, <2>2, <2>5, <2>6 DEF AroundOf
<1>18. ASSUME NEW t \in Nodes' \ Nodes
       PROVE  AroundOf(t)' = IF t \in {u, v} THEN <<c>> \o << >> ELSE << >>
  <2>1. IsDescendingList(<< >>, {})
    <3>1. << >> \in [1 .. 0 -> {}] /\ 0 \in Nat /\ 1 .. 0 = {}
      OBVIOUS
    <3> QED
      BY <3>1 DEF IsDescendingList
  <2>2. TagList(t)' = IF t \in {a, b} THEN <<c>> \o << >> ELSE << >>
    BY <1>14, <1>16, <2>1
  <2>3. t \in {a, b} <=> t \in {u, v}
    BY <1>4, <1>5, <1>6, <1>8
  <2> QED
    BY <1>4, <2>2, <2>3 DEF AroundOf
<1> HIDE DEF Name
<1>19. Multigraph!Connect(u, v)
  BY <1>1, <1>2, <1>3, <1>9, <1>10, <1>11, <1>12, <1>17, <1>18, ConnectMeaning
<1> QED
  BY <1>19

\* Lists of the same identities are lists of the same edges, which h moves.
LEMMA SameTagList ==
    ASSUME IndInv, Named, Named', NEW h \in [Edges -> Edges'],
           NEW n \in Nodes, NEW m \in Nodes', TagList(m)' = TagList(n),
           \A e \in Edges : edges'[h[e]].tag = edges[e].tag
    PROVE  /\ DOMAIN AdjList(m)' = DOMAIN AdjList(n)
           /\ \A i \in DOMAIN AdjList(n) : AdjList(m)'[i] = h[AdjList(n)[i]]
<1>1. DOMAIN AdjList(m)' = DOMAIN AdjList(n)
  <2>1. DOMAIN TagList(n) = DOMAIN AdjList(n) /\ DOMAIN TagList(m)' = DOMAIN AdjList(m)'
    BY DEF TagList
  <2> QED
    BY <2>1
<1>2. SUFFICES ASSUME NEW i \in DOMAIN AdjList(n) PROVE AdjList(m)'[i] = h[AdjList(n)[i]]
  BY <1>1
<1>3. AdjList(n)[i] \in Edges
  BY AdjListIsIncident DEF Incident
<1>4. edges'[AdjList(m)'[i]].tag = edges[AdjList(n)[i]].tag
  BY <1>1 DEF TagList
<1>5. AdjList(m)'[i] \in Edges'
  BY <1>1 DEF Named
<1>6. \A d, e \in Edges' : edges'[d].tag = edges'[e].tag => d = e
  BY DEF Named
<1> QED
  BY <1>3, <1>4, <1>5, <1>6

\* SortEdges moves the edge records; identities, ends and positions do not change,
\* and an explorer returns the moved edges in the order from before.
LEMMA SortEdgesMoves ==
    ASSUME IndInv, Named, Named', NEW p \in Bijection(Edges, Edges), SortEdges(p)
    PROVE  /\ frozen' = frozen /\ Nodes' = Nodes /\ Edges' = Edges
           /\ p \in [Edges -> Edges] /\ \A d \in Edges : \E e \in Edges : p[e] = d
           /\ \A d, e \in Edges : p[d] = p[e] => d = e
           /\ \A e \in Edges : /\ edges'[p[e]].nodeA = edges[e].nodeA
                               /\ edges'[p[e]].nodeB = edges[e].nodeB
                               /\ edges'[p[e]].tag = edges[e].tag
           /\ \A n \in Nodes : /\ nodes'[n].tag = nodes[n].tag
                               /\ nodes'[n].pos = nodes[n].pos
                               /\ TagList(n)' = TagList(n)
<1> DEFINE inv == invertPermutation(p)
<1>1. /\ p \in [Edges -> Edges] /\ inv \in [Edges -> Edges]
      /\ \A e \in Edges : p[inv[e]] = e /\ inv[p[e]] = e
  BY InverseOfPermutation
<1>2. /\ frozen' = frozen /\ Nodes' = Nodes /\ Edges' = Edges
      /\ edges' = [e \in Edges |-> storeEdge(edges[inv[e]], p)]
      /\ nodes' = [n \in Nodes |->
                     [nodes[n] EXCEPT !.edgeRef = remapEdge(nodes[n].edgeRef, p)]]
  BY DEF SortEdges, Nodes, Edges
<1> HIDE DEF inv
<1>3. \A e \in Edges : /\ edges'[p[e]].nodeA = edges[e].nodeA
                       /\ edges'[p[e]].nodeB = edges[e].nodeB
                       /\ edges'[p[e]].tag = edges[e].tag
  <2> TAKE e \in Edges
  <2>1. edges'[p[e]] = storeEdge(edges[e], p)
    BY <1>1, <1>2
  <2>2. edges[e] \in EdgeRecord(Nodes, Edges \cup {NoEdge}, Edges)
    BY DEF IndInv, TypeOK
  <2> QED
    BY <2>1, <2>2 DEF storeEdge, EdgeRecord
<1>4. \A n \in Nodes : nodes'[n].tag = nodes[n].tag /\ nodes'[n].pos = nodes[n].pos
  <2>1. nodes \in [Nodes -> NodeRecord(Edges \cup {NoEdge}, Nodes)]
    BY DEF IndInv, TypeOK
  <2> QED
    BY <1>2, <2>1 DEF NodeRecord
<1>5. \A n : TagsAround(n)' = TagsAround(n)
  <2> TAKE n
  <2>1. \A e \in Edges : p[e] \in Incident(n)' <=> e \in Incident(n)
    BY <1>1, <1>2, <1>3 DEF Incident
  <2>2. \A e \in Incident(n) : e \in Edges /\ p[e] \in Incident(n)'
                               /\ edges'[p[e]].tag = edges[e].tag
    BY <1>3, <2>1 DEF Incident
  <2>3. \A d \in Incident(n)' : \E e \in Incident(n) : d = p[e]
    <3>1. Incident(n)' \subseteq Edges
      BY <1>2 DEF Incident
    <3> QED
      BY <1>1, <2>1, <3>1
  <2>4. TagsAround(n)' = {edges'[d].tag : d \in Incident(n)'}
    BY DEF TagsAround
  <2> QED
    BY <2>2, <2>3, <2>4 DEF TagsAround
<1>6. ASSUME NEW n \in Nodes PROVE TagList(n)' = TagList(n)
  BY <1>2, <1>5, ListKept
<1>7. \A d, e \in Edges : p[d] = p[e] => d = e
  BY <1>1
<1>8. \A d \in Edges : \E e \in Edges : p[e] = d
  BY <1>1
<1> QED
  BY <1>1, <1>2, <1>3, <1>4, <1>6, <1>7, <1>8

\* So the multigraph is the same.
LEMMA SortEdgesMaps ==
    ASSUME IndInv, Named, Named', NEW p \in Bijection(Edges, Edges), SortEdges(p)
    PROVE  UNCHANGED Multigraph!vars
<1>1. /\ frozen' = frozen /\ Nodes' = Nodes /\ Edges' = Edges /\ p \in [Edges -> Edges]
      /\ \A e \in Edges : /\ edges'[p[e]].nodeA = edges[e].nodeA
                          /\ edges'[p[e]].nodeB = edges[e].nodeB
                          /\ edges'[p[e]].tag = edges[e].tag
      /\ \A n \in Nodes : /\ nodes'[n].tag = nodes[n].tag
                          /\ nodes'[n].pos = nodes[n].pos
                          /\ TagList(n)' = TagList(n)
  BY SortEdgesMoves
<1>2. /\ \A t \in Nodes : NodeAt(t)' = NodeAt(t) /\ NodeAt(t) \in Nodes
      /\ \A t \in Edges : EndsOf(t)' = EndsOf(t)
  <2> DEFINE g == [n \in Nodes |-> n]
  <2>1. g \in [Nodes -> Nodes'] /\ p \in [Edges -> Edges']
    BY <1>1
  <2>2. \A n \in Nodes : g[n] = n /\ nodes'[g[n]].tag = nodes[n].tag
    BY <1>1
  <2>3. \A e \in Edges : edges[e].nodeA \in Nodes /\ edges[e].nodeB \in Nodes
    BY DEF Named
  <2>4. \A t \in Nodes : NodeAt(t) \in Nodes
    BY DEF Named
  <2> HIDE DEF g
  <2>5. \A e \in Edges : /\ edges'[p[e]].nodeA = g[edges[e].nodeA]
                         /\ edges'[p[e]].nodeB = g[edges[e].nodeB]
    BY <1>1, <2>2, <2>3
  <2>6. /\ \A t \in Nodes : NodeAt(t)' = g[NodeAt(t)]
        /\ \A t \in Edges : EndsOf(t)' = EndsOf(t)
    BY <1>1, <2>1, <2>2, <2>5, Renaming
  <2> QED
    BY <2>2, <2>4, <2>6
<1>3. ASSUME NEW t \in Nodes PROVE PosOf(t)' = PosOf(t) /\ AroundOf(t)' = AroundOf(t)
  <2>1. PICK n \in Nodes : n = NodeAt(t)
    BY <1>2
  <2> QED
    BY <1>1, <1>2, <2>1 DEF PosOf, AroundOf
<1> QED
  BY <1>1, <1>2, <1>3, StutterMeaning

\* By edge ids, each list is that of the moved edges.
LEMMA SortEdgesMovesLists ==
    ASSUME IndInv, Named, Named', NEW p \in Bijection(Edges, Edges), SortEdges(p),
           NEW n \in Nodes
    PROVE  /\ DOMAIN AdjList(n)' = DOMAIN AdjList(n)
           /\ \A i \in DOMAIN AdjList(n) : AdjList(n)'[i] = p[AdjList(n)[i]]
<1>1. /\ n \in Nodes' /\ p \in [Edges -> Edges'] /\ TagList(n)' = TagList(n)
      /\ \A e \in Edges : edges'[p[e]].tag = edges[e].tag
  BY SortEdgesMoves
<1> QED
  BY <1>1, SameTagList

\* RelabelNodes moves the node records and renames the ends of the edges;
\* identities, positions and lists do not change.
LEMMA RelabelNodesMoves ==
    ASSUME IndInv, Named, Named', NEW p \in Bijection(Nodes, Nodes), RelabelNodes(p)
    PROVE  /\ frozen' = frozen /\ Nodes' = Nodes /\ Edges' = Edges
           /\ p \in [Nodes -> Nodes] /\ \A m \in Nodes : \E n \in Nodes : p[n] = m
           /\ \A m, n \in Nodes : p[m] = p[n] => m = n
           /\ \A e \in Edges : /\ edges'[e].nodeA = p[edges[e].nodeA]
                               /\ edges'[e].nodeB = p[edges[e].nodeB]
                               /\ edges'[e].tag = edges[e].tag
           /\ \A n \in Nodes : /\ nodes'[p[n]] = nodes[n]
                               /\ TagList(p[n])' = TagList(n)
<1> DEFINE inv == invertPermutation(p)
<1>1. /\ p \in [Nodes -> Nodes] /\ inv \in [Nodes -> Nodes]
      /\ \A n \in Nodes : p[inv[n]] = n /\ inv[p[n]] = n
      /\ \A m, n \in Nodes : p[m] = p[n] => m = n
  BY InverseOfPermutation
<1>2. /\ frozen' = frozen /\ Nodes' = Nodes /\ Edges' = Edges
      /\ edges' = [e \in Edges |-> [edges[e] EXCEPT !.nodeA = p[edges[e].nodeA],
                                                    !.nodeB = p[edges[e].nodeB]]]
      /\ nodes' = [n \in Nodes |-> nodes[inv[n]]]
  BY DEF RelabelNodes, Nodes, Edges
<1> HIDE DEF inv
<1>3. \A e \in Edges : /\ edges'[e].nodeA = p[edges[e].nodeA]
                       /\ edges'[e].nodeB = p[edges[e].nodeB]
                       /\ edges'[e].tag = edges[e].tag
  <2> TAKE e \in Edges
  <2> DEFINE rec == edges[e]
             a == p[rec.nodeA]
             b == p[rec.nodeB]
  <2>1. edges'[e] = [rec EXCEPT !.nodeA = a, !.nodeB = b]
    BY <1>2
  <2>2. rec \in EdgeRecord(Nodes, Edges \cup {NoEdge}, Edges)
    BY DEF IndInv, TypeOK
  <2> HIDE DEF rec, a, b
  <2>3. edges'[e].nodeA = a /\ edges'[e].nodeB = b /\ edges'[e].tag = rec.tag
    BY <2>1, <2>2 DEF EdgeRecord
  <2> QED
    BY <2>3 DEF rec, a, b
<1>4. \A n \in Nodes : p[n] \in Nodes /\ nodes'[p[n]] = nodes[n]
  BY <1>1, <1>2
<1>5. ASSUME NEW n \in Nodes PROVE TagsAround(p[n])' = TagsAround(n)
  <2>1. PICK m : m = p[n]
    OBVIOUS
  <2>2. \A e \in Edges : edges[e].nodeA \in Nodes /\ edges[e].nodeB \in Nodes
    BY DEF Named
  <2>3. Incident(m)' = Incident(n)
    <3>1. \A e \in Edges : /\ edges'[e].nodeA = m <=> edges[e].nodeA = n
                           /\ edges'[e].nodeB = m <=> edges[e].nodeB = n
      BY <1>1, <1>3, <2>1, <2>2
    <3> QED
      BY <1>2, <3>1 DEF Incident
  <2>4. \A e \in Incident(n) : edges'[e].tag = edges[e].tag
    BY <1>3 DEF Incident
  <2>5. TagsAround(m)' = TagsAround(n)
    BY <2>3, <2>4 DEF TagsAround
  <2> QED
    BY <2>1, <2>5
<1>6. ASSUME NEW n \in Nodes PROVE TagList(p[n])' = TagList(n)
  <2>1. PICK m \in Nodes : m = p[n]
    BY <1>4
  <2>2. m \in Nodes' /\ TagsAround(m)' = TagsAround(n)
    BY <1>2, <1>5, <2>1
  <2>3. TagList(m)' = TagList(n)
    BY <2>2, ListKept
  <2> QED
    BY <2>1, <2>3
<1>7. \A m \in Nodes : \E n \in Nodes : p[n] = m
  BY <1>1
<1> QED
  BY <1>1, <1>2, <1>3, <1>4, <1>6, <1>7

\* So the multigraph is the same.
LEMMA RelabelNodesMaps ==
    ASSUME IndInv, Named, Named', NEW p \in Bijection(Nodes, Nodes), RelabelNodes(p)
    PROVE  UNCHANGED Multigraph!vars
<1>1. /\ frozen' = frozen /\ Nodes' = Nodes /\ Edges' = Edges /\ p \in [Nodes -> Nodes]
      /\ \A e \in Edges : /\ edges'[e].nodeA = p[edges[e].nodeA]
                          /\ edges'[e].nodeB = p[edges[e].nodeB]
                          /\ edges'[e].tag = edges[e].tag
      /\ \A n \in Nodes : /\ nodes'[p[n]] = nodes[n]
                          /\ TagList(p[n])' = TagList(n)
  BY RelabelNodesMoves
<1>2. /\ \A t \in Nodes : NodeAt(t)' = p[NodeAt(t)]
      /\ \A t \in Edges : EndsOf(t)' = EndsOf(t)
  <2> DEFINE h == [e \in Edges |-> e]
  <2>1. p \in [Nodes -> Nodes'] /\ h \in [Edges -> Edges'] /\ \A e \in Edges : h[e] = e
    BY <1>1
  <2> HIDE DEF h
  <2>2. \A e \in Edges : /\ edges'[h[e]].tag = edges[e].tag
                         /\ edges'[h[e]].nodeA = p[edges[e].nodeA]
                         /\ edges'[h[e]].nodeB = p[edges[e].nodeB]
    BY <1>1, <2>1
  <2> QED
    BY <1>1, <2>1, <2>2, Renaming
<1>3. ASSUME NEW t \in Nodes PROVE PosOf(t)' = PosOf(t) /\ AroundOf(t)' = AroundOf(t)
  <2>1. PICK n \in Nodes : n = NodeAt(t)
    BY DEF Named
  <2>2. PICK m : m = p[n]
    OBVIOUS
  <2>3. NodeAt(t)' = m /\ TagList(m)' = TagList(n)
    BY <1>1, <1>2, <2>1, <2>2
  <2> QED
    BY <1>1, <2>1, <2>2, <2>3 DEF PosOf, AroundOf
<1> QED
  BY <1>1, <1>2, <1>3, StutterMeaning

\* By edge ids, each list is the one from before.
LEMMA RelabelNodesMovesLists ==
    ASSUME IndInv, Named, Named', NEW p \in Bijection(Nodes, Nodes), RelabelNodes(p),
           NEW n \in Nodes, NEW m \in Nodes, m = p[n]
    PROVE  /\ DOMAIN AdjList(m)' = DOMAIN AdjList(n)
           /\ \A i \in DOMAIN AdjList(n) : AdjList(m)'[i] = AdjList(n)[i]
<1> DEFINE h == [e \in Edges |-> e]
<1>1. /\ m \in Nodes' /\ h \in [Edges -> Edges'] /\ TagList(m)' = TagList(n)
      /\ \A e \in Edges : h[e] = e /\ edges'[h[e]].tag = edges[e].tag
  <2>1. /\ Nodes' = Nodes /\ Edges' = Edges
        /\ \A e \in Edges : edges'[e].tag = edges[e].tag
        /\ TagList(p[n])' = TagList(n)
    BY RelabelNodesMoves
  <2> QED
    BY <2>1
<1> HIDE DEF h
<1>2. /\ DOMAIN AdjList(m)' = DOMAIN AdjList(n)
      /\ \A i \in DOMAIN AdjList(n) : AdjList(m)'[i] = h[AdjList(n)[i]]
  BY <1>1, SameTagList
<1>3. \A i \in DOMAIN AdjList(n) : AdjList(n)[i] \in Edges
  BY AdjListIsIncident DEF Incident
<1> QED
  BY <1>1, <1>2, <1>3

-----------------------------------------------------------------------------

\* No node id beyond the importer's is ever created.
NodesBounded == nodeCount <= MaxNodes

\* The importer's bound is kept by every step (EnsureNodeIndex).
LEMMA NodesBoundedInvariant == Spec => []NodesBounded
<1>1. Init => NodesBounded
  BY BoundsAssumption DEF Init, NodesBounded
<1>2. IndInv /\ NodesBounded /\ [Next]_vars => NodesBounded'
  <2> SUFFICES ASSUME IndInv, NodesBounded, [Next]_vars PROVE NodesBounded'
    OBVIOUS
  <2>0. nodeCount \in Nat /\ MaxNodes \in Nat /\ \A v \in NodeIds : v \in Nat /\ v < MaxNodes
    BY BoundsAssumption DEF IndInv, TypeOK, NodeIds
  <2>1. \A v \in NodeIds : GrownCount(v) <= MaxNodes
    BY <2>0 DEF GrownCount, NodesBounded
  <2>2. CASE \E v \in NodeIds : EnsureNodeCapacity(v)
    BY <2>1, <2>2 DEF EnsureNodeCapacity, NodesBounded
  <2>3. CASE \E v \in NodeIds, p \in Positions : SetNode(v, p)
    BY <2>1, <2>3 DEF SetNode, NodesBounded
  <2>4. CASE \E a, b \in NodeIds : Edge(a, b)
    BY <2>1, <2>4 DEF Edge, NodesBounded
  <2>5. CASE UNCHANGED nodeCount
    BY <2>5 DEF NodesBounded
  <2> QED
    BY <2>2, <2>3, <2>4, <2>5
       DEF Next, Freeze, SortEdges, RelabelNodes, vars
<1> QED
  BY <1>1, <1>2, Invariance, PTL DEF Spec

\* The empty store is the empty multigraph.
LEMMA InitMaps == Init => Multigraph!Init
<1> SUFFICES ASSUME Init PROVE Multigraph!Init
  OBVIOUS
<1>1. Nodes = {} /\ Edges = {} /\ frozen = FALSE
  BY DEF Init, Nodes, Edges
<1> QED
  BY <1>1 DEF Multigraph!Init

\* Every step of the store is a step of the multigraph or changes nothing in it.
LEMMA NextMaps ==
    ASSUME IndInv, IndInv', Named, Named', NodesBounded', [Next]_vars
    PROVE  [Multigraph!Next]_(Multigraph!vars)
<1>0. Nodes' \subseteq Multigraph!NodeNames /\ NodeIds = Multigraph!NodeNames
  <2>1. MaxNodes \in Nat /\ nodeCount' \in Nat /\ nodeCount' <= MaxNodes
    BY BoundsAssumption DEF NodesBounded, IndInv, TypeOK
  <2>2. NodeIds = Multigraph!NodeNames
    BY DEF NodeIds, Multigraph!NodeNames
  <2>3. \A m, n \in Nat : m <= n => 0 .. (m - 1) \subseteq 0 .. (n - 1)
    OBVIOUS
  <2> QED
    BY <2>1, <2>2, <2>3 DEF Nodes, Multigraph!NodeNames
<1>1. CASE \E n \in NodeIds : EnsureNodeCapacity(n)
  BY <1>0, <1>1, EnsureNodeCapacityMaps DEF Multigraph!Next
<1>2. CASE \E n \in NodeIds, p \in Positions : SetNode(n, p)
  BY <1>0, <1>2, SetNodeMaps DEF Multigraph!Next
<1>3. CASE \E a, b \in NodeIds : Edge(a, b)
  BY <1>0, <1>3, EdgeMaps DEF Multigraph!Next
<1>4. CASE Freeze
  <2>1. /\ nodes' = nodes /\ edges' = edges /\ nodeCount' = nodeCount
        /\ edgeCount' = edgeCount /\ frozen' = TRUE
    BY <1>4 DEF Freeze
  <2>2. Multigraph!Close
    BY <2>1 DEF Multigraph!Close, Nodes, Edges, NodeAt, EdgeAt, AdjList, Chain, Link
  <2> QED
    BY <2>2 DEF Multigraph!Next
<1>5. CASE \E p \in Bijection(Edges, Edges) : SortEdges(p)
  BY <1>5, SortEdgesMaps
<1>6. CASE \E p \in Bijection(Nodes, Nodes) : RelabelNodes(p)
  BY <1>6, RelabelNodesMaps
<1>7. CASE UNCHANGED vars
  BY <1>7 DEF vars, Multigraph!vars, Nodes, Edges, NodeAt, EdgeAt, AdjList, Chain, Link
<1> QED
  BY <1>1, <1>2, <1>3, <1>4, <1>5, <1>6, <1>7 DEF Next

\* The store implements the multigraph: every operation has on nodes and edges,
\* by identity, exactly the promised effect, and renumbering has none, not even
\* on the order in which an explorer returns the edges of a node.
THEOREM Refinement == Spec => ImplementsMultigraph
  BY InitMaps, NextMaps, TagsNameRecords, Invariance, NodesBoundedInvariant, PTL
     DEF Spec, ImplementsMultigraph, Multigraph!Spec
=============================================================================
