--------------------------- MODULE GraphSortProofs ---------------------------
(***************************************************************************)
(* Sorting the graph along the Hilbert curve renumbers nodes and edges one *)
(* to one, leaves them in order, and every turn keeps its cost.            *)
(***************************************************************************)
EXTENDS GraphSort, Induction, FiniteSetTheorems

\* The lemmas about the graph store.
GP == INSTANCE BaseGraphProofs

\* Where p stands among the pairs of S.
Place(p, S) == Turns!Place(p, S)

\* order lists the numbers below N, each once.
ListsAll(order, N) ==
    /\ order \in [1 .. N -> 0 .. (N - 1)]
    /\ \A i, j \in 1 .. N : order[i] = order[j] => i = j
    /\ \A x \in 0 .. (N - 1) : \E i \in 1 .. N : order[i] = x

-----------------------------------------------------------------------------
\* Pairs in order.

\* TurnCostStorage counts as this module does.
LEMMA SameCardinality == \A S : Turns!Cardinality(S) = Cardinality(S)
  BY DEF Turns!Cardinality, Cardinality

\* A place is the number of pairs before it.
LEMMA PlaceCounts == \A p, S : Place(p, S) = Cardinality(Turns!Before(p, S))
  BY SameCardinality DEF Place, Turns!Place

\* Of two pairs one comes before the other.
LEMMA PairsInOrder ==
    ASSUME NEW S, S \subseteq Int \X Int, NEW p \in S, NEW q \in S
    PROVE  /\ p = q \/ p \in Turns!Before(q, S) \/ q \in Turns!Before(p, S)
           /\ p \notin Turns!Before(p, S)
           /\ p \in Turns!Before(q, S) =>
                 Turns!Before(p, S) \subseteq Turns!Before(q, S)
<1>1. /\ p = <<p[1], p[2]>> /\ q = <<q[1], q[2]>>
      /\ p[1] \in Int /\ p[2] \in Int /\ q[1] \in Int /\ q[2] \in Int
  OBVIOUS
<1>2. \A r \in S : r[1] \in Int /\ r[2] \in Int
  OBVIOUS
<1>3. p = q \/ p \in Turns!Before(q, S) \/ q \in Turns!Before(p, S)
  BY <1>1 DEF Turns!Before
<1>4. p \notin Turns!Before(p, S)
  BY <1>1 DEF Turns!Before
<1>5. ASSUME p \in Turns!Before(q, S), NEW r \in Turns!Before(p, S)
      PROVE  r \in Turns!Before(q, S)
  BY <1>1, <1>2, <1>5 DEF Turns!Before
<1> QED
  BY <1>3, <1>4, <1>5

\* The places of the pairs of a finite set are the numbers below its size, in
\* their order.
LEMMA PlacesAreNumbers ==
    ASSUME NEW S, S \subseteq Int \X Int, IsFiniteSet(S)
    PROVE  /\ Cardinality(S) \in Nat
           /\ \A p \in S : Place(p, S) \in 0 .. (Cardinality(S) - 1)
           /\ \A p, q \in S : p \in Turns!Before(q, S) => Place(p, S) < Place(q, S)
           /\ \A p, q \in S : Place(p, S) = Place(q, S) => p = q
           /\ \A i \in 0 .. (Cardinality(S) - 1) : \E p \in S : Place(p, S) = i
<1> DEFINE N == Cardinality(S)
<1>1. N \in Nat
  BY FS_CardinalityType
<1>2. \A p : Turns!Before(p, S) \in SUBSET S
  BY DEF Turns!Before
<1>3. ASSUME NEW p \in S PROVE Place(p, S) \in 0 .. (N - 1) /\ IsFiniteSet(Turns!Before(p, S))
  <2>1. /\ IsFiniteSet(Turns!Before(p, S)) /\ Cardinality(Turns!Before(p, S)) <= N
        /\ N = Cardinality(Turns!Before(p, S)) => S = Turns!Before(p, S)
    BY <1>2, FS_Subset
  <2>2. p \notin Turns!Before(p, S)
    BY PairsInOrder
  <2>3. Cardinality(Turns!Before(p, S)) \in Nat
    BY <2>1, FS_CardinalityType
  <2> QED
    BY <1>1, <2>1, <2>2, <2>3, PlaceCounts
<1>4. ASSUME NEW p \in S, NEW q \in S, p \in Turns!Before(q, S)
      PROVE  Place(p, S) < Place(q, S)
  <2>1. Turns!Before(p, S) \subseteq Turns!Before(q, S) /\ p \notin Turns!Before(p, S)
    BY <1>4, PairsInOrder
  <2>2. /\ Cardinality(Turns!Before(p, S)) <= Cardinality(Turns!Before(q, S))
        /\ Cardinality(Turns!Before(q, S)) = Cardinality(Turns!Before(p, S))
              => Turns!Before(q, S) = Turns!Before(p, S)
    BY <1>3, <2>1, FS_Subset
  <2>3. Place(p, S) \in Int /\ Place(q, S) \in Int
    BY <1>1, <1>3
  <2> QED
    BY <1>4, <2>1, <2>2, <2>3, PlaceCounts
<1>5. ASSUME NEW p \in S, NEW q \in S, Place(p, S) = Place(q, S) PROVE p = q
  <2>1. Place(p, S) \in Int /\ Place(q, S) \in Int
    BY <1>1, <1>3
  <2> QED
    BY <1>4, <1>5, <2>1, PairsInOrder
<1>6. ASSUME NEW i \in 0 .. (N - 1) PROVE \E p \in S : Place(p, S) = i
  <2> DEFINE f == [p \in S |-> Place(p, S)]
             T == 0 .. (N - 1)
  <2>1. IsFiniteSet(T) /\ Cardinality(T) = N
    BY <1>1, FS_Interval
  <2>2. f \in [S -> T] /\ \A p, q \in S : f[p] = f[q] => p = q
    BY <1>3, <1>5
  <2>3. i \in T
    OBVIOUS
  <2> HIDE DEF f, T
  <2>4. f \in Injection(S, T)
    BY <2>2 DEF Injection, IsInjective
  <2>5. f \in Surjection(S, T)
    BY <2>1, <2>4, FS_Injection
  <2>6. \E p \in S : f[p] = i
    BY <2>3, <2>5 DEF Surjection
  <2> QED
    BY <2>6 DEF f
<1> QED
  BY <1>1, <1>3, <1>4, <1>5, <1>6

\* InOrder lists the pairs by their places.
LEMMA InOrderByPlace ==
    ASSUME NEW S, S \subseteq Int \X Int, IsFiniteSet(S)
    PROVE  /\ InOrder(S) \in [1 .. Cardinality(S) -> S]
           /\ \A i \in 1 .. Cardinality(S) : Place(InOrder(S)[i], S) = i - 1
           /\ \A p \in S : /\ Place(p, S) + 1 \in 1 .. Cardinality(S)
                           /\ InOrder(S)[Place(p, S) + 1] = p
           /\ \A i, j \in 1 .. Cardinality(S) : InOrder(S)[i] = InOrder(S)[j] => i = j
<1> DEFINE N == Cardinality(S)
<1>1. N \in Nat
  BY PlacesAreNumbers
<1>2. \A i \in 1 .. N : InOrder(S)[i] \in S /\ Place(InOrder(S)[i], S) = i - 1
  <2> TAKE i \in 1 .. N
  <2>1. i - 1 \in 0 .. (N - 1)
    BY <1>1
  <2>2. \E p \in S : Place(p, S) = i - 1
    BY <2>1, PlacesAreNumbers
  <2>3. InOrder(S)[i] = CHOOSE p \in S : Place(p, S) = i - 1
    BY DEF InOrder, Place
  <2> QED
    BY <2>2, <2>3
<1>3. InOrder(S) \in [1 .. N -> S]
  BY <1>2 DEF InOrder
<1>4. ASSUME NEW p \in S
      PROVE  Place(p, S) + 1 \in 1 .. N /\ InOrder(S)[Place(p, S) + 1] = p
  <2>1. Place(p, S) \in 0 .. (N - 1)
    BY PlacesAreNumbers
  <2>2. Place(p, S) + 1 \in 1 .. N /\ (Place(p, S) + 1) - 1 = Place(p, S)
    BY <1>1, <2>1
  <2>3. \E x : x = InOrder(S)[Place(p, S) + 1] /\ x \in S /\ Place(x, S) = Place(p, S)
    BY <1>2, <2>2
  <2> QED
    BY <2>2, <2>3, PlacesAreNumbers
<1>5. \A i, j \in 1 .. N : InOrder(S)[i] = InOrder(S)[j] => i = j
  BY <1>1, <1>2
<1> QED
  BY <1>2, <1>3, <1>4, <1>5

\* If the first components do not fall when the second grow from 0, each pair
\* has the second component as its place.
LEMMA PlaceIsSecond ==
    ASSUME NEW N \in Nat, NEW f \in [0 .. (N - 1) -> Int],
           \A m, n \in 0 .. (N - 1) : m < n => f[m] <= f[n],
           NEW S, \A n \in 0 .. (N - 1) : <<f[n], n>> \in S,
           \A p \in S : \E n \in 0 .. (N - 1) : p = <<f[n], n>>
    PROVE  /\ S \subseteq Int \X Int /\ IsFiniteSet(S) /\ Cardinality(S) = N
           /\ \A n \in 0 .. (N - 1) : Place(<<f[n], n>>, S) = n
<1>0. S = {<<f[n], n>> : n \in 0 .. (N - 1)}
  OBVIOUS
<1>1. ASSUME NEW n \in 0 .. N
      PROVE  LET T == {<<f[m], m>> : m \in 0 .. (n - 1)}
             IN  IsFiniteSet(T) /\ Cardinality(T) = n
  <2> DEFINE D == 0 .. (n - 1)
             T == {<<f[m], m>> : m \in D}
             g == [m \in D |-> <<f[m], m>>]
  <2>1. IsFiniteSet(D) /\ Cardinality(D) = n
    <3>1. n \in Int /\ n - 1 \in Int /\ (n - 1) - 0 + 1 = n /\ (0 > n - 1 => n = 0)
      OBVIOUS
    <3>2. PICK k \in Int : k = n - 1
      BY <3>1
    <3>3. /\ IsFiniteSet(0 .. k)
          /\ Cardinality(0 .. k) = IF 0 > k THEN 0 ELSE k - 0 + 1
      BY FS_Interval
    <3> QED
      BY <3>1, <3>2, <3>3
  <2>2. g \in [D -> T] /\ (\A k, m \in D : g[k] = g[m] => k = m)
        /\ \A t \in T : \E m \in D : g[m] = t
    OBVIOUS
  <2> HIDE DEF D, g, T
  <2>3. g \in Bijection(D, T)
    BY <2>2 DEF Bijection, Injection, Surjection, IsInjective
  <2>4. ExistsBijection(D, T)
    BY <2>3 DEF ExistsBijection
  <2>5. IsFiniteSet(T) /\ Cardinality(T) = n
    BY <2>1, <2>4, FS_Bijection
  <2> QED
    BY <2>5 DEF T, D
<1>2. S \subseteq Int \X Int /\ IsFiniteSet(S) /\ Cardinality(S) = N
  <2>1. N \in 0 .. N
    OBVIOUS
  <2>2. S \subseteq Int \X Int
    OBVIOUS
  <2> QED
    BY <1>0, <1>1, <2>1, <2>2
<1>3. ASSUME NEW n \in 0 .. (N - 1) PROVE Place(<<f[n], n>>, S) = n
  <2>1. Turns!Before(<<f[n], n>>, S) = {<<f[m], m>> : m \in 0 .. (n - 1)}
    <3>1. ASSUME NEW m \in 0 .. (N - 1)
          PROVE  (f[m] < f[n] \/ (f[m] = f[n] /\ m < n)) <=> m < n
      <4>1. f[m] \in Int /\ f[n] \in Int
        OBVIOUS
      <4>2. m < n => f[m] <= f[n]
        OBVIOUS
      <4>3. n < m => f[n] <= f[m]
        OBVIOUS
      <4> QED
        BY <4>1, <4>2, <4>3
    <3>2. Turns!Before(<<f[n], n>>, S) =
            {q \in S : q[1] < f[n] \/ (q[1] = f[n] /\ q[2] < n)}
      BY DEF Turns!Before
    <3>3. \A m \in 0 .. (n - 1) : m \in 0 .. (N - 1) /\ m < n
      OBVIOUS
    <3>4. \A m \in 0 .. (N - 1) : m < n => m \in 0 .. (n - 1)
      OBVIOUS
    <3>5. ASSUME NEW q \in Turns!Before(<<f[n], n>>, S)
          PROVE  \E m \in 0 .. (n - 1) : q = <<f[m], m>>
      <4>1. q \in S /\ (q[1] < f[n] \/ (q[1] = f[n] /\ q[2] < n))
        BY <3>2
      <4>2. PICK m \in 0 .. (N - 1) : q = <<f[m], m>>
        BY <4>1
      <4>3. m < n
        BY <3>1, <4>1, <4>2
      <4> QED
        BY <3>4, <4>2, <4>3
    <3>6. ASSUME NEW m \in 0 .. (n - 1)
          PROVE  <<f[m], m>> \in Turns!Before(<<f[n], n>>, S)
      <4>1. m \in 0 .. (N - 1) /\ m < n
        BY <3>3
      <4>2. f[m] < f[n] \/ (f[m] = f[n] /\ m < n)
        BY <3>1, <4>1
      <4> QED
        BY <3>2, <4>1, <4>2
    <3> QED
      BY <3>5, <3>6
  <2>2. n \in 0 .. N
    OBVIOUS
  <2> QED
    BY <1>1, <2>1, <2>2, PlaceCounts
<1> QED
  BY <1>2, <1>3

-----------------------------------------------------------------------------
\* The two orders.

\* What the graph store is called in its own lemmas.
LEMMA GraphOperators ==
    /\ Graph!Nodes = GP!Nodes /\ Graph!Edges = GP!Edges
    /\ Graph!Init <=> GP!Init
    /\ \A n : Graph!AdjList(n) = GP!AdjList(n) /\ Graph!Incident(n) = GP!Incident(n)
    /\ \A n, p : Graph!SetNode(n, p) <=> GP!SetNode(n, p)
    /\ \A a, b : Graph!Edge(a, b) <=> GP!Edge(a, b)
    /\ \A p : Graph!SortEdges(p) <=> GP!SortEdges(p)
    /\ \A p : Graph!RelabelNodes(p) <=> GP!RelabelNodes(p)
    /\ \A p : Graph!invertPermutation(p) = GP!invertPermutation(p)
<1>1. Graph!Nodes = GP!Nodes /\ Graph!Edges = GP!Edges /\ Graph!NoEdge = GP!NoEdge
  BY DEF Graph!Nodes, GP!Nodes, Graph!Edges, GP!Edges, Graph!NoEdge, GP!NoEdge
<1>2. Graph!Init <=> GP!Init
  BY <1>1 DEF Graph!Init, GP!Init
<1>3. \A n : Graph!AdjList(n) = GP!AdjList(n)
  BY <1>1 DEF Graph!AdjList, GP!AdjList, Graph!Chain, GP!Chain, Graph!Link, GP!Link
<1>4. \A n : Graph!Incident(n) = GP!Incident(n)
  BY <1>1 DEF Graph!Incident, GP!Incident
<1>5. \A n : Graph!GrownNodes(n) = GP!GrownNodes(n) /\ Graph!GrownCount(n) = GP!GrownCount(n)
  BY <1>1 DEF Graph!GrownNodes, GP!GrownNodes, Graph!GrownCount, GP!GrownCount
<1>6. \A n, p : Graph!SetNode(n, p) <=> GP!SetNode(n, p)
  BY <1>5 DEF Graph!SetNode, GP!SetNode
<1>7. \A a, b : Graph!Edge(a, b) <=> GP!Edge(a, b)
  <2>1. \A r : Graph!HeadOf(r) = GP!HeadOf(r)
    BY <1>1 DEF Graph!HeadOf, GP!HeadOf
  <2> QED
    BY <1>5, <2>1 DEF Graph!Edge, GP!Edge
<1>8. \A p : Graph!invertPermutation(p) = GP!invertPermutation(p)
  BY DEF Graph!invertPermutation, GP!invertPermutation
<1>9. \A r, p : Graph!remapEdge(r, p) = GP!remapEdge(r, p)
  BY <1>1 DEF Graph!remapEdge, GP!remapEdge
<1>10. \A r, p : Graph!storeEdge(r, p) = GP!storeEdge(r, p)
  BY <1>9 DEF Graph!storeEdge, GP!storeEdge
<1>11. \A p : Graph!SortEdges(p) <=> GP!SortEdges(p)
  BY <1>1, <1>8, <1>9, <1>10 DEF Graph!SortEdges, GP!SortEdges
<1>12. \A p : Graph!RelabelNodes(p) <=> GP!RelabelNodes(p)
  BY <1>1, <1>8 DEF Graph!RelabelNodes, GP!RelabelNodes
<1> QED
  BY <1>1, <1>2, <1>3, <1>4, <1>6, <1>7, <1>8, <1>11, <1>12

\* The assumptions of the graph store.
LEMMA GraphAssumptions == GP!BoundsAssumption /\ GP!PositionsAssumption
  BY BoundsAssumption, PositionsAssumption DEF GP!BoundsAssumption, GP!PositionsAssumption

\* Counts and ids when the lists of the store are as they should be.
LEMMA GraphFacts ==
    ASSUME GP!IndInv
    PROVE  /\ nodeCount \in Nat /\ edgeCount \in Nat
           /\ GP!Nodes = 0 .. (nodeCount - 1) /\ GP!Edges = 0 .. (edgeCount - 1)
           /\ Nodes = GP!Nodes /\ Edges = GP!Edges
           /\ \A n \in Nodes : nodes[n].pos \in Int
<1>1. GP!TypeOK /\ MaxEdgeCount \in Nat
  BY BoundsAssumption DEF GP!IndInv
<1>2. nodeCount \in Nat /\ edgeCount \in Nat
  BY <1>1 DEF GP!TypeOK
<1>3. \A n \in GP!Nodes : nodes[n].pos \in Int
  BY <1>1, PositionsAssumption DEF GP!TypeOK, GP!NodeRecord
<1> QED
  BY <1>2, <1>3, GraphOperators DEF Nodes, Edges, GP!Nodes, GP!Edges

\* The pairs nodeOrder sorts.
NodePairs == {<<nodes[n].pos, n>> : n \in Nodes}

\* There are as many such pairs as nodes.
LEMMA NodePairsFacts ==
    ASSUME GP!IndInv
    PROVE  /\ NodePairs \subseteq Int \X Int /\ IsFiniteSet(NodePairs)
           /\ Cardinality(NodePairs) = nodeCount
<1>1. /\ nodeCount \in Nat /\ Nodes = 0 .. (nodeCount - 1)
      /\ \A n \in Nodes : nodes[n].pos \in Int
  BY GraphFacts
<1>2. NodePairs \subseteq Int \X Int
  BY <1>1 DEF NodePairs
<1> DEFINE g == [n \in Nodes |-> <<nodes[n].pos, n>>]
<1>3. /\ g \in [Nodes -> NodePairs] /\ \A m, n \in Nodes : g[m] = g[n] => m = n
      /\ \A t \in NodePairs : \E n \in Nodes : g[n] = t
  BY DEF NodePairs
<1>4. IsFiniteSet(Nodes) /\ Cardinality(Nodes) = nodeCount
  BY <1>1, FS_Interval
<1> HIDE DEF g
<1>5. g \in Bijection(Nodes, NodePairs)
  BY <1>3 DEF Bijection, Injection, Surjection, IsInjective
<1>6. ExistsBijection(Nodes, NodePairs)
  BY <1>5 DEF ExistsBijection
<1> QED
  BY <1>2, <1>4, <1>6, FS_Bijection

\* nodeOrder lists all nodes, each at the place of its pair.
LEMMA NodeOrderFacts ==
    ASSUME GP!IndInv
    PROVE  /\ ListsAll(nodeOrder, nodeCount)
           /\ \A i \in 1 .. nodeCount :
                 Place(<<nodes[nodeOrder[i]].pos, nodeOrder[i]>>, NodePairs) = i - 1
<1> DEFINE sorted == InOrder(NodePairs)
<1>1. nodeCount \in Nat /\ Nodes = 0 .. (nodeCount - 1)
  BY GraphFacts
<1>2. /\ sorted \in [1 .. nodeCount -> NodePairs]
      /\ \A i \in 1 .. nodeCount : Place(sorted[i], NodePairs) = i - 1
      /\ \A p \in NodePairs : /\ Place(p, NodePairs) + 1 \in 1 .. nodeCount
                              /\ sorted[Place(p, NodePairs) + 1] = p
      /\ \A i, j \in 1 .. nodeCount : sorted[i] = sorted[j] => i = j
  BY NodePairsFacts, InOrderByPlace
<1>3. nodeOrder = [i \in DOMAIN sorted |-> sorted[i][2]]
  BY DEF nodeOrder, NodePairs
<1> HIDE DEF sorted
<1>4. ASSUME NEW i \in 1 .. nodeCount
      PROVE  /\ nodeOrder[i] \in Nodes
             /\ sorted[i] = <<nodes[nodeOrder[i]].pos, nodeOrder[i]>>
  <2>1. sorted[i] \in NodePairs /\ nodeOrder[i] = sorted[i][2]
    BY <1>2, <1>3
  <2>2. PICK n \in Nodes : sorted[i] = <<nodes[n].pos, n>>
    BY <2>1 DEF NodePairs
  <2> QED
    BY <2>1, <2>2
<1>5. nodeOrder \in [1 .. nodeCount -> Nodes]
  BY <1>2, <1>3, <1>4
<1>6. \A i, j \in 1 .. nodeCount : nodeOrder[i] = nodeOrder[j] => i = j
  BY <1>2, <1>4
<1>7. ASSUME NEW n \in Nodes PROVE \E i \in 1 .. nodeCount : nodeOrder[i] = n
  <2>1. PICK p \in NodePairs : p = <<nodes[n].pos, n>>
    BY DEF NodePairs
  <2>2. PICK i \in 1 .. nodeCount : sorted[i] = p
    BY <1>2
  <2> QED
    BY <1>2, <1>3, <2>1, <2>2
<1>8. \A i \in 1 .. nodeCount :
         Place(<<nodes[nodeOrder[i]].pos, nodeOrder[i]>>, NodePairs) = i - 1
  BY <1>2, <1>4
<1> QED
  BY <1>1, <1>5, <1>6, <1>7, <1>8 DEF ListsAll

\* invertPermutation inverts.
LEMMA InverseOfOrder ==
    ASSUME NEW N \in Nat, NEW order, ListsAll(order, N)
    PROVE  /\ invertPermutation(order) \in GP!Bijection(0 .. (N - 1), 0 .. (N - 1))
           /\ \A i \in 1 .. N : invertPermutation(order)[order[i]] = i - 1
<1> DEFINE S == 0 .. (N - 1)
           inv == invertPermutation(order)
<1>1. /\ order \in [1 .. N -> S] /\ DOMAIN order = 1 .. N
      /\ \A i, j \in 1 .. N : order[i] = order[j] => i = j
      /\ \A x \in S : \E i \in 1 .. N : order[i] = x
  BY DEF ListsAll
<1>2. ToSet(order) = S
  BY <1>1 DEF ToSet
<1>3. inv = [x \in S |-> (CHOOSE i \in 1 .. N : order[i] = x) - 1]
  BY <1>1, <1>2 DEF invertPermutation
<1> HIDE DEF inv
<1>4. \A x \in S : \E i \in 1 .. N : order[i] = x /\ inv[x] = i - 1
  BY <1>1, <1>3
<1>5. \A i \in 1 .. N : inv[order[i]] = i - 1
  <2> TAKE i \in 1 .. N
  <2>1. PICK j \in 1 .. N : order[j] = order[i] /\ inv[order[i]] = j - 1
    BY <1>1, <1>4
  <2> QED
    BY <1>1, <2>1
<1>6. inv \in [S -> S]
  <2>1. \A i \in 1 .. N : i - 1 \in S
    OBVIOUS
  <2> QED
    BY <1>3, <1>4, <2>1
<1>7. \A x, y \in S : inv[x] = inv[y] => x = y
  <2>1. \A i, j \in 1 .. N : i - 1 = j - 1 => i = j
    OBVIOUS
  <2> HIDE DEF S
  <2> QED
    BY <1>4, <2>1
<1>8. ASSUME NEW y \in S PROVE \E x \in S : inv[x] = y
  <2>1. y + 1 \in 1 .. N /\ (y + 1) - 1 = y
    OBVIOUS
  <2>2. order[y + 1] \in S
    BY <1>1, <2>1
  <2> QED
    BY <1>5, <2>1, <2>2
<1> HIDE DEF S
<1>9. inv \in GP!Bijection(S, S)
  BY <1>6, <1>7, <1>8 DEF GP!Bijection, GP!Injection, GP!Surjection, GP!IsInjective
<1> QED
  BY <1>5, <1>9 DEF S, inv

\* Every edge is met, and first met once.
LEMMA MeetingFacts ==
    ASSUME GP!IndInv, NEW order, ListsAll(order, nodeCount), NEW visits, visits = Visits(order)
    PROVE  /\ Meetings(visits) \subseteq Int \X Int /\ IsFiniteSet(Meetings(visits))
           /\ \A m \in Meetings(visits) : EdgeMet(visits, m) \in Edges
           /\ \A e \in Edges : \E m \in FirstMeetings(visits) : EdgeMet(visits, m) = e
           /\ \A m, o \in FirstMeetings(visits) :
                 EdgeMet(visits, m) = EdgeMet(visits, o) => m = o
<1> DEFINE met == Meetings(visits)
<1>1. /\ nodeCount \in Nat /\ edgeCount \in Nat /\ Nodes = 0 .. (nodeCount - 1)
      /\ Nodes = GP!Nodes /\ Edges = GP!Edges
  BY GraphFacts
<1>2. /\ DOMAIN visits = 1 .. nodeCount
      /\ \A i \in 1 .. nodeCount : order[i] \in Nodes /\ visits[i] = GP!AdjList(order[i])
      /\ \A n \in Nodes : \E i \in 1 .. nodeCount : order[i] = n
  BY <1>1, GraphOperators DEF Visits, ListsAll
<1>3. \A n \in Nodes : \E len \in 0 .. edgeCount :
         /\ GP!AdjList(n) \in [1 .. len -> GP!Incident(n)]
         /\ \A e \in GP!Incident(n) : \E i \in 1 .. len : GP!AdjList(n)[i] = e
  BY <1>1, GraphAssumptions, GP!AdjListIsIncident
<1>4. met = {m \in (1 .. nodeCount) \X (1 .. edgeCount) : m[2] \in DOMAIN visits[m[1]]}
  BY <1>2 DEF Meetings
<1>5. met \subseteq Int \X Int /\ IsFiniteSet(met)
  <2> DEFINE I == 1 .. nodeCount
             J == 1 .. edgeCount
  <2>1. IsFiniteSet(I) /\ IsFiniteSet(J)
    BY <1>1, FS_Interval
  <2>2. I \subseteq Int /\ J \subseteq Int /\ met \subseteq I \X J
    BY <1>1, <1>4
  <2> HIDE DEF I, J, met
  <2>3. IsFiniteSet(I \X J)
    BY <2>1, FS_Product
  <2>4. IsFiniteSet(met)
    BY <2>2, <2>3, FS_Subset
  <2> QED
    BY <2>2, <2>4
<1>6. ASSUME NEW m \in met PROVE EdgeMet(visits, m) \in Edges
  <2>1. m[1] \in 1 .. nodeCount /\ m[2] \in DOMAIN GP!AdjList(order[m[1]])
    BY <1>2, <1>4
  <2>2. order[m[1]] \in Nodes /\ visits[m[1]] = GP!AdjList(order[m[1]])
    BY <1>2, <2>1
  <2>3. visits[m[1]][m[2]] \in GP!Incident(order[m[1]])
    BY <1>3, <2>1, <2>2
  <2> QED
    BY <1>1, <2>3 DEF EdgeMet, GP!Incident
<1>7. ASSUME NEW e \in Edges PROVE \E m \in met : EdgeMet(visits, m) = e
  <2>1. PICK n \in Nodes : e \in GP!Incident(n)
    <3>1. edges[e].nodeA \in Nodes
      BY <1>1 DEF GP!IndInv, GP!TypeOK, GP!EdgeRecord
    <3> QED
      BY <1>1, <3>1 DEF GP!Incident
  <2>2. PICK i \in 1 .. nodeCount : order[i] = n
    BY <1>2
  <2>3. PICK len \in 0 .. edgeCount : /\ DOMAIN GP!AdjList(n) = 1 .. len
                                      /\ \E k \in 1 .. len : GP!AdjList(n)[k] = e
    BY <1>3, <2>1
  <2>4. PICK k \in 1 .. len : GP!AdjList(n)[k] = e
    BY <2>3
  <2>5. <<i, k>> \in met
    <3>1. k \in 1 .. edgeCount
      BY <1>1
    <3>2. <<i, k>> \in (1 .. nodeCount) \X (1 .. edgeCount)
      BY <3>1
    <3>3. k \in DOMAIN visits[i]
      BY <1>2, <2>2, <2>3
    <3> QED
      BY <1>4, <3>2, <3>3
  <2> QED
    BY <1>2, <2>2, <2>4, <2>5 DEF EdgeMet
<1>8. FirstMeetings(visits) =
        {m \in met : \A o \in Turns!Before(m, met) : EdgeMet(visits, o) # EdgeMet(visits, m)}
  BY DEF FirstMeetings
<1> HIDE DEF met
<1>9. ASSUME NEW e \in Edges
      PROVE  \E m \in FirstMeetings(visits) : EdgeMet(visits, m) = e
  <2> DEFINE ms == {m \in met : EdgeMet(visits, m) = e}
  <2>1. ms \subseteq Int \X Int /\ IsFiniteSet(ms) /\ ms # {}
    <3>1. ms \in SUBSET met
      OBVIOUS
    <3>2. IsFiniteSet(ms)
      BY <1>5, <3>1, FS_Subset
    <3> QED
      BY <1>5, <1>7, <3>2
  <2>2. ms \subseteq met /\ \A m \in met : m \in ms <=> EdgeMet(visits, m) = e
    OBVIOUS
  <2> HIDE DEF ms
  <2>3. PICK m \in ms : Place(m, ms) = 0
    <3>1. Cardinality(ms) \in Nat /\ Cardinality(ms) # 0
      BY <2>1, FS_CardinalityType, FS_EmptySet
    <3>2. 0 \in 0 .. (Cardinality(ms) - 1)
      BY <3>1
    <3> QED
      BY <2>1, <3>2, PlacesAreNumbers
  <2>4. Turns!Before(m, ms) = {}
    <3>1. Turns!Before(m, ms) \in SUBSET ms
      BY DEF Turns!Before
    <3>2. IsFiniteSet(Turns!Before(m, ms))
      BY <2>1, <3>1, FS_Subset
    <3> QED
      BY <2>3, <3>2, FS_EmptySet, PlaceCounts
  <2>5. ASSUME NEW o \in Turns!Before(m, met) PROVE EdgeMet(visits, o) # e
    BY <2>2, <2>4 DEF Turns!Before
  <2>6. m \in met /\ EdgeMet(visits, m) = e
    BY <2>2
  <2>7. m \in FirstMeetings(visits)
    BY <1>8, <2>5, <2>6
  <2> QED
    BY <2>6, <2>7
<1>10. ASSUME NEW m \in FirstMeetings(visits), NEW o \in FirstMeetings(visits),
              EdgeMet(visits, m) = EdgeMet(visits, o)
       PROVE  m = o
  <2>1. /\ m \in met /\ o \in met
        /\ o \notin Turns!Before(m, met) /\ m \notin Turns!Before(o, met)
    BY <1>8, <1>10
  <2> QED
    BY <1>5, <2>1, PairsInOrder
<1> QED
  BY <1>5, <1>6, <1>9, <1>10 DEF met

\* buildEdgeOrder lists all edges.
LEMMA EdgeOrderFacts ==
    ASSUME GP!IndInv, NEW order, ListsAll(order, nodeCount)
    PROVE  ListsAll(buildEdgeOrder(order), edgeCount)
<1>1. PICK visits : visits = Visits(order)
  OBVIOUS
<1> DEFINE first == FirstMeetings(visits)
           taken == InOrder(first)
           byEdge == buildEdgeOrder(order)
<1>2. /\ Meetings(visits) \subseteq Int \X Int /\ IsFiniteSet(Meetings(visits))
      /\ \A m \in Meetings(visits) : EdgeMet(visits, m) \in Edges
      /\ \A e \in Edges : \E m \in first : EdgeMet(visits, m) = e
      /\ \A m, o \in first : EdgeMet(visits, m) = EdgeMet(visits, o) => m = o
  BY <1>1, MeetingFacts
<1>3. first \in SUBSET Meetings(visits)
  BY DEF FirstMeetings
<1>4. byEdge = [i \in DOMAIN taken |-> EdgeMet(visits, taken[i])]
  BY <1>1 DEF buildEdgeOrder
<1> HIDE DEF first, byEdge
<1>5. first \subseteq Int \X Int /\ IsFiniteSet(first)
  BY <1>2, <1>3, FS_Subset
<1>6. Cardinality(first) = edgeCount
  <2> DEFINE g == [m \in first |-> EdgeMet(visits, m)]
  <2>1. /\ g \in [first -> Edges] /\ \A m, o \in first : g[m] = g[o] => m = o
        /\ \A e \in Edges : \E m \in first : g[m] = e
    BY <1>2, <1>3
  <2> HIDE DEF g
  <2>2. g \in Bijection(first, Edges)
    BY <2>1 DEF Bijection, Injection, Surjection, IsInjective
  <2>3. ExistsBijection(first, Edges)
    BY <2>2 DEF ExistsBijection
  <2>4. Cardinality(Edges) = Cardinality(first)
    BY <1>5, <2>3, FS_Bijection
  <2>5. Cardinality(Edges) = edgeCount
    BY GraphFacts, FS_Interval
  <2> QED
    BY <2>4, <2>5
<1>7. /\ taken \in [1 .. edgeCount -> first]
      /\ \A p \in first : \E i \in 1 .. edgeCount : taken[i] = p
      /\ \A i, j \in 1 .. edgeCount : taken[i] = taken[j] => i = j
  BY <1>5, <1>6, InOrderByPlace
<1> HIDE DEF taken
<1>8. byEdge = [i \in 1 .. edgeCount |-> EdgeMet(visits, taken[i])]
  BY <1>4, <1>7
<1>9. /\ byEdge \in [1 .. edgeCount -> Edges]
      /\ \A i, j \in 1 .. edgeCount : byEdge[i] = byEdge[j] => i = j
      /\ \A e \in Edges : \E i \in 1 .. edgeCount : byEdge[i] = e
  <2>1. \A i \in 1 .. edgeCount : byEdge[i] = EdgeMet(visits, taken[i]) /\ taken[i] \in first
    BY <1>7, <1>8
  <2>2. byEdge \in [1 .. edgeCount -> Edges]
    BY <1>2, <1>3, <1>8, <2>1
  <2>3. \A i, j \in 1 .. edgeCount : byEdge[i] = byEdge[j] => i = j
    BY <1>2, <1>7, <2>1
  <2>4. ASSUME NEW e \in Edges PROVE \E i \in 1 .. edgeCount : byEdge[i] = e
    <3>1. PICK m \in first : EdgeMet(visits, m) = e
      BY <1>2
    <3>2. PICK i \in 1 .. edgeCount : taken[i] = m
      BY <1>7
    <3> QED
      BY <2>1, <3>1, <3>2
  <2> QED
    BY <2>2, <2>3, <2>4
<1>10. Edges = 0 .. (edgeCount - 1)
  BY GraphFacts
<1> QED
  BY <1>9, <1>10 DEF ListsAll, byEdge

-----------------------------------------------------------------------------
\* The graph through all steps.

\* The lists of the graph store stay correct, for a sort renumbers one to one.
GraphInv ==
    /\ GP!IndInv
    /\ nodeCount <= MaxNodes
    /\ phase = "relabel" => newNodes \in GP!Bijection(GP!Nodes, GP!Nodes)

\* The edge order that SortEdges is given and the node order RelabelNodes is given.
LEMMA OrdersAreBijections ==
    ASSUME GP!IndInv
    PROVE  /\ invertPermutation(nodeOrder) \in GP!Bijection(GP!Nodes, GP!Nodes)
           /\ invertPermutation(buildEdgeOrder(nodeOrder)) \in GP!Bijection(GP!Edges, GP!Edges)
<1>1. ListsAll(nodeOrder, nodeCount) /\ ListsAll(buildEdgeOrder(nodeOrder), edgeCount)
  BY NodeOrderFacts, EdgeOrderFacts
<1> QED
  BY <1>1, GraphFacts, InverseOfOrder

\* The empty graph has correct lists.
LEMMA GraphInit == Init => GraphInv
<1>1. Init => GP!IndInv
  BY GraphAssumptions, GraphOperators, GP!InitEstablishesIndInv DEF Init
<1>2. Init => nodeCount <= MaxNodes /\ phase # "relabel"
  BY BoundsAssumption, GraphOperators DEF Init, GP!Init
<1> QED
  BY <1>1, <1>2 DEF GraphInv

\* What each action does to the graph store.
LEMMA GraphSteps ==
    ASSUME GraphInv, [Next]_vars
    PROVE  \/ /\ \E p \in Positions : GP!SetNode(nodeCount, p)
              /\ nodeCount \in GP!NodeIds /\ phase' = "open"
           \/ /\ \E a, b \in Nodes : a \in GP!NodeIds /\ b \in GP!NodeIds /\ GP!Edge(a, b)
              /\ phase' = "open"
           \/ UNCHANGED <<graphVars, phase, newNodes>>
           \/ /\ GP!SortEdges(invertPermutation(buildEdgeOrder(nodeOrder)))
              /\ newNodes' = invertPermutation(nodeOrder) /\ phase' = "relabel"
           \/ /\ newNodes \in GP!Bijection(GP!Nodes, GP!Nodes)
              /\ GP!RelabelNodes(newNodes)
              /\ phase = "relabel" /\ phase' = "sorted"
<1>1. /\ nodeCount \in Nat /\ nodeCount <= MaxNodes /\ MaxNodes \in Nat
      /\ Nodes = 0 .. (nodeCount - 1) /\ GP!NodeIds = 0 .. (MaxNodes - 1)
  BY GraphFacts, BoundsAssumption DEF GraphInv, GP!NodeIds
<1>2. CASE nodeCount < MaxNodes /\ \E p \in Positions : SetNode(nodeCount, p)
  <2>1. (\E p \in Positions : GP!SetNode(nodeCount, p)) /\ phase' = "open"
    BY <1>2, GraphOperators DEF SetNode
  <2> QED
    BY <1>1, <1>2, <2>1
<1>3. CASE \E a, b \in Nodes : AddEdge(a, b)
  <2>1. PICK a \in Nodes, b \in Nodes : AddEdge(a, b)
    BY <1>3
  <2>2. GP!Edge(a, b) /\ phase' = "open"
    BY <2>1, GraphOperators DEF AddEdge
  <2>3. a \in GP!NodeIds /\ b \in GP!NodeIds
    BY <1>1
  <2> QED
    BY <2>2, <2>3
<1>4. CASE \E via \in Nodes, cost \in Costs :
              \E from, to \in Graph!Incident(via) : SetTurnCost(from, via, to, cost)
  BY <1>4 DEF SetTurnCost
<1>5. CASE SortGraphEdges
  BY <1>5, GraphOperators DEF SortGraphEdges
<1>6. CASE RelabelGraphNodes
  BY <1>6, GraphOperators DEF RelabelGraphNodes, GraphInv
<1>7. CASE UNCHANGED vars
  BY <1>7 DEF vars
<1> QED
  BY <1>2, <1>3, <1>4, <1>5, <1>6, <1>7 DEF Next

\* Every step of the importer and of the sort keeps the lists of the graph store.
LEMMA GraphStep == GraphInv /\ [Next]_vars => GraphInv'
<1> SUFFICES ASSUME GraphInv, [Next]_vars PROVE GraphInv'
  OBVIOUS
<1>1. GP!IndInv /\ nodeCount <= MaxNodes /\ nodeCount \in Nat /\ MaxNodes \in Nat
  BY GraphFacts, BoundsAssumption DEF GraphInv
<1>2. CASE /\ \E p \in Positions : GP!SetNode(nodeCount, p)
           /\ nodeCount \in GP!NodeIds /\ phase' = "open"
  <2>1. GP!IndInv'
    BY <1>1, <1>2, GraphAssumptions, GP!SetNodePreservesIndInv
  <2>2. nodeCount' <= MaxNodes
    BY <1>1, <1>2 DEF GP!SetNode, GP!GrownCount, GP!NodeIds
  <2> QED
    BY <1>2, <2>1, <2>2 DEF GraphInv
<1>3. CASE /\ \E a, b \in Nodes : a \in GP!NodeIds /\ b \in GP!NodeIds /\ GP!Edge(a, b)
           /\ phase' = "open"
  <2>1. GP!IndInv'
    BY <1>1, <1>3, GraphAssumptions, GP!EdgePreservesIndInv
  <2>2. nodeCount' <= MaxNodes
    BY <1>1, <1>3 DEF GP!Edge, GP!GrownCount, GP!NodeIds
  <2> QED
    BY <1>3, <2>1, <2>2 DEF GraphInv
<1>4. CASE UNCHANGED <<graphVars, phase, newNodes>>
  <2>1. UNCHANGED GP!vars
    BY <1>4 DEF graphVars, GP!vars
  <2>2. GP!IndInv'
    BY <1>1, <2>1, GraphAssumptions, GP!NextPreservesIndInv
  <2>3. GP!Nodes' = GP!Nodes /\ nodeCount' = nodeCount
    BY <1>4 DEF graphVars, GP!Nodes
  <2> QED
    BY <1>4, <2>2, <2>3 DEF GraphInv
<1>5. CASE /\ GP!SortEdges(invertPermutation(buildEdgeOrder(nodeOrder)))
           /\ newNodes' = invertPermutation(nodeOrder) /\ phase' = "relabel"
  <2>1. /\ invertPermutation(nodeOrder) \in GP!Bijection(GP!Nodes, GP!Nodes)
        /\ invertPermutation(buildEdgeOrder(nodeOrder)) \in GP!Bijection(GP!Edges, GP!Edges)
    BY <1>1, OrdersAreBijections
  <2>2. GP!IndInv'
    BY <1>1, <1>5, <2>1, GraphAssumptions, GP!SortEdgesPreservesIndInv
  <2>3. nodeCount' = nodeCount /\ GP!Nodes' = GP!Nodes
    BY <1>5 DEF GP!SortEdges, GP!Nodes
  <2> QED
    BY <1>1, <1>5, <2>1, <2>2, <2>3 DEF GraphInv
<1>6. CASE /\ newNodes \in GP!Bijection(GP!Nodes, GP!Nodes)
           /\ GP!RelabelNodes(newNodes)
           /\ phase = "relabel" /\ phase' = "sorted"
  <2>1. GP!IndInv'
    BY <1>1, <1>6, GraphAssumptions, GP!RelabelNodesPreservesIndInv
  <2>2. nodeCount' = nodeCount
    BY <1>6 DEF GP!RelabelNodes
  <2> QED
    BY <1>1, <1>6, <2>1, <2>2 DEF GraphInv
<1> QED
  BY <1>2, <1>3, <1>4, <1>5, <1>6, GraphSteps

\* The graph store keeps its lists through imports and sorts.
LEMMA GraphInvariant == Spec => []GraphInv
  BY GraphInit, GraphStep, PTL DEF Spec

\* EdgeOrderIsPermutation: the traversal of buildEdgeOrder meets every edge, at
\* both its ends, and keeps it once, so invertPermutation gives SortEdges a
\* renumbering that loses no edge.
THEOREM EdgeOrderCorrect == Spec => []EdgeOrderIsPermutation
<1>1. GraphInv => EdgeOrderIsPermutation
  <2> SUFFICES ASSUME GraphInv
               PROVE  /\ Len(buildEdgeOrder(nodeOrder)) = edgeCount
                      /\ ToSet(buildEdgeOrder(nodeOrder)) = Edges
    BY DEF EdgeOrderIsPermutation
  <2>1. ListsAll(buildEdgeOrder(nodeOrder), edgeCount)
    BY NodeOrderFacts, EdgeOrderFacts DEF GraphInv
  <2>2. edgeCount \in Nat /\ Edges = 0 .. (edgeCount - 1)
    BY GraphFacts DEF GraphInv
  <2>3. PICK order : order = buildEdgeOrder(nodeOrder)
    OBVIOUS
  <2>4. order \in Seq(Int) /\ Len(order) = edgeCount
    BY <2>1, <2>2, <2>3 DEF ListsAll
  <2>5. ToSet(order) = Edges
    <3>1. /\ DOMAIN order = 1 .. edgeCount
          /\ \A i \in 1 .. edgeCount : order[i] \in Edges
          /\ \A e \in Edges : \E i \in 1 .. edgeCount : order[i] = e
      BY <2>1, <2>2, <2>3 DEF ListsAll
    <3> QED
      BY <3>1 DEF ToSet
  <2> QED
    BY <2>3, <2>4, <2>5
<1> QED
  BY <1>1, GraphInvariant, PTL

-----------------------------------------------------------------------------
\* The graph after a sort.

InNodeOrder == \A i \in DOMAIN nodeOrder : nodeOrder[i] = i - 1

\* The lists in the order in which buildEdgeOrder walks them.
NodeVisits == Visits(nodeOrder)

EdgeOrder == buildEdgeOrder(nodeOrder)

InEdgeOrder == \A i \in DOMAIN EdgeOrder : EdgeOrder[i] = i - 1

\* The first half of a sort puts the edges in their order, the second the nodes.
SortInv ==
    /\ phase = "relabel" => newNodes = invertPermutation(nodeOrder) /\ InEdgeOrder
    /\ phase = "sorted" => InNodeOrder /\ InEdgeOrder

\* Where edges are first met is the same in w as in v, if p maps the edges of v
\* to those of w one to one.
LEMMA FirstMeetingsMove ==
    ASSUME NEW v, NEW w, NEW p, DOMAIN w = DOMAIN v,
           \A i \in DOMAIN v : /\ DOMAIN w[i] = DOMAIN v[i]
                               /\ \A k \in DOMAIN v[i] : w[i][k] = p[v[i][k]],
           \A m, o \in Meetings(v) :
              p[EdgeMet(v, m)] = p[EdgeMet(v, o)] => EdgeMet(v, m) = EdgeMet(v, o)
    PROVE  /\ FirstMeetings(w) = FirstMeetings(v)
           /\ \A m \in FirstMeetings(v) : EdgeMet(w, m) = p[EdgeMet(v, m)]
<1>1. Meetings(w) = Meetings(v)
  BY DEF Meetings
<1>2. \A m \in Meetings(v) : EdgeMet(w, m) = p[EdgeMet(v, m)]
  <2> TAKE m \in Meetings(v)
  <2>1. m[1] \in DOMAIN v /\ m[2] \in DOMAIN v[m[1]]
    BY DEF Meetings
  <2> QED
    BY <2>1 DEF EdgeMet
<1>3. \A m : Turns!Before(m, Meetings(v)) \subseteq Meetings(v)
  BY DEF Turns!Before
<1>4. \A m, o \in Meetings(v) :
         EdgeMet(w, o) # EdgeMet(w, m) <=> EdgeMet(v, o) # EdgeMet(v, m)
  BY <1>2
<1>5. FirstMeetings(w) = FirstMeetings(v)
  BY <1>1, <1>3, <1>4 DEF FirstMeetings
<1> QED
  BY <1>2, <1>5 DEF FirstMeetings

\* The edge order after a step, by the lists after it.
LEMMA EdgeOrderNext ==
    ASSUME edgeCount' = edgeCount, NEW w, w = NodeVisits'
    PROVE  EdgeOrder' = [i \in DOMAIN InOrder(FirstMeetings(w)) |->
                            EdgeMet(w, InOrder(FirstMeetings(w))[i])]
<1>1. FirstMeetings(NodeVisits)' = FirstMeetings(w)
  BY DEF FirstMeetings, Meetings, EdgeMet
<1> QED
  BY <1>1 DEF EdgeOrder, buildEdgeOrder, NodeVisits, EdgeMet, InOrder

\* So a step that renames the edges in the lists by p renames those of the order.
LEMMA EdgeOrderMoves ==
    ASSUME GP!IndInv, edgeCount' = edgeCount, NEW w, w = NodeVisits',
           DOMAIN w = DOMAIN NodeVisits,
           NEW p, \A d, e \in Edges : p[d] = p[e] => d = e,
           \A i \in DOMAIN NodeVisits :
              /\ DOMAIN w[i] = DOMAIN NodeVisits[i]
              /\ \A k \in DOMAIN NodeVisits[i] : w[i][k] = p[NodeVisits[i][k]]
    PROVE  /\ DOMAIN EdgeOrder' = DOMAIN EdgeOrder
           /\ \A i \in DOMAIN EdgeOrder : EdgeOrder'[i] = p[EdgeOrder[i]]
<1> DEFINE first == FirstMeetings(NodeVisits)
           taken == InOrder(first)
<1>1. /\ \A m \in Meetings(NodeVisits) : EdgeMet(NodeVisits, m) \in Edges
      /\ Meetings(NodeVisits) \subseteq Int \X Int /\ IsFiniteSet(Meetings(NodeVisits))
  BY NodeOrderFacts, MeetingFacts DEF NodeVisits
<1>2. FirstMeetings(w) = first /\ \A m \in first : EdgeMet(w, m) = p[EdgeMet(NodeVisits, m)]
  <2>1. \A m, o \in Meetings(NodeVisits) :
           p[EdgeMet(NodeVisits, m)] = p[EdgeMet(NodeVisits, o)]
              => EdgeMet(NodeVisits, m) = EdgeMet(NodeVisits, o)
    BY <1>1
  <2> QED
    BY <2>1, FirstMeetingsMove
<1>3. EdgeOrder = [i \in DOMAIN taken |-> EdgeMet(NodeVisits, taken[i])]
  BY DEF EdgeOrder, buildEdgeOrder, NodeVisits
<1>4. EdgeOrder' = [i \in DOMAIN taken |-> EdgeMet(w, taken[i])]
  BY <1>2, EdgeOrderNext
<1>5. \A i \in DOMAIN taken : taken[i] \in first
  <2>1. first \in SUBSET Meetings(NodeVisits)
    BY DEF FirstMeetings
  <2>2. first \subseteq Int \X Int /\ IsFiniteSet(first)
    BY <1>1, <2>1, FS_Subset
  <2> HIDE DEF first
  <2>3. taken \in [1 .. Cardinality(first) -> first]
    BY <2>2, InOrderByPlace
  <2> QED
    BY <2>3
<1> HIDE DEF taken, first
<1> QED
  BY <1>2, <1>3, <1>4, <1>5

\* When neither positions nor lists change, the orders stay.
LEMMA OrdersStay ==
    ASSUME GP!IndInv, UNCHANGED graphVars
    PROVE  nodeOrder' = nodeOrder /\ EdgeOrder' = EdgeOrder
<1>1. nodeOrder' = nodeOrder
  BY DEF nodeOrder, graphVars, Nodes, Graph!Nodes
<1>2. \A n : Graph!AdjList(n)' = Graph!AdjList(n)
  BY DEF Graph!AdjList, Graph!Chain, Graph!Link, graphVars
<1>3. NodeVisits' = NodeVisits
  BY <1>1, <1>2 DEF NodeVisits, Visits
<1>4. edgeCount' = edgeCount
  BY DEF graphVars
<1>5. PICK w : w = NodeVisits'
  OBVIOUS
<1>6. EdgeOrder' = [i \in DOMAIN InOrder(FirstMeetings(w)) |->
                       EdgeMet(w, InOrder(FirstMeetings(w))[i])]
  BY <1>4, <1>5, EdgeOrderNext
<1> QED
  BY <1>1, <1>3, <1>5, <1>6 DEF EdgeOrder, buildEdgeOrder, NodeVisits

\* After SortEdges the edges are in the order in which they are met.
LEMMA SortedEdgesInOrder ==
    ASSUME GP!IndInv, GP!Named, GP!Named',
           GP!SortEdges(invertPermutation(EdgeOrder))
    PROVE  nodeOrder' = nodeOrder /\ InEdgeOrder'
<1>1. ListsAll(nodeOrder, nodeCount) /\ ListsAll(EdgeOrder, edgeCount)
  BY NodeOrderFacts, EdgeOrderFacts DEF EdgeOrder
<1>2. PICK p : p = invertPermutation(EdgeOrder)
  OBVIOUS
<1>3. /\ nodeCount \in Nat /\ edgeCount \in Nat
      /\ Nodes = 0 .. (nodeCount - 1) /\ Edges = 0 .. (edgeCount - 1)
      /\ Nodes = GP!Nodes /\ Edges = GP!Edges
  BY GraphFacts
<1>4. p \in GP!Bijection(GP!Edges, GP!Edges) /\ \A i \in 1 .. edgeCount : p[EdgeOrder[i]] = i - 1
  BY <1>1, <1>2, <1>3, InverseOfOrder
<1>5. GP!SortEdges(p) /\ edgeCount' = edgeCount /\ nodeCount' = nodeCount
  BY <1>2 DEF GP!SortEdges
<1>6. /\ \A d, e \in GP!Edges : p[d] = p[e] => d = e
      /\ \A n \in GP!Nodes : nodes'[n].pos = nodes[n].pos
  BY <1>4, <1>5, GraphAssumptions, GP!SortEdgesMoves
<1>7. \A n \in GP!Nodes : /\ DOMAIN GP!AdjList(n)' = DOMAIN GP!AdjList(n)
                          /\ \A k \in DOMAIN GP!AdjList(n) : GP!AdjList(n)'[k] = p[GP!AdjList(n)[k]]
  BY <1>4, <1>5, GraphAssumptions, GP!SortEdgesMovesLists
<1>8. nodeOrder' = nodeOrder
  <2>1. Nodes' = Nodes
    BY <1>5 DEF Nodes, Graph!Nodes
  <2>2. NodePairs' = NodePairs
    BY <1>3, <1>6, <2>1 DEF NodePairs
  <2>3. nodeOrder = [i \in DOMAIN InOrder(NodePairs) |-> InOrder(NodePairs)[i][2]]
    BY DEF nodeOrder, NodePairs
  <2>4. nodeOrder' = [i \in DOMAIN InOrder(NodePairs') |-> InOrder(NodePairs')[i][2]]
    BY DEF nodeOrder, NodePairs, InOrder
  <2> QED
    BY <2>2, <2>3, <2>4
<1>9. \A n : Graph!AdjList(n) = GP!AdjList(n) /\ Graph!AdjList(n)' = GP!AdjList(n)'
  <2>1. \A n : Graph!AdjList(n) = GP!AdjList(n)
    BY GraphOperators
  <2>2. \A n : Graph!AdjList(n)' = GP!AdjList(n)'
    BY DEF Graph!AdjList, GP!AdjList, Graph!Chain, GP!Chain, Graph!Link, GP!Link,
           Graph!NoEdge, GP!NoEdge
  <2> QED
    BY <2>1, <2>2
<1>10. PICK w : w = NodeVisits'
  OBVIOUS
<1>11. /\ DOMAIN nodeOrder = 1 .. nodeCount
       /\ \A i \in 1 .. nodeCount : nodeOrder[i] \in Nodes
  BY <1>1, <1>3 DEF ListsAll
<1>12. /\ DOMAIN NodeVisits = 1 .. nodeCount /\ DOMAIN w = 1 .. nodeCount
       /\ \A i \in 1 .. nodeCount : /\ NodeVisits[i] = GP!AdjList(nodeOrder[i])
                                    /\ w[i] = GP!AdjList(nodeOrder[i])'
  <2>1. NodeVisits = [i \in 1 .. nodeCount |-> GP!AdjList(nodeOrder[i])]
    BY <1>9, <1>11 DEF NodeVisits, Visits
  <2>2. w = [i \in 1 .. nodeCount |-> GP!AdjList(nodeOrder[i])']
    BY <1>8, <1>9, <1>10, <1>11 DEF NodeVisits, Visits
  <2> QED
    BY <2>1, <2>2
<1>13. \A i \in DOMAIN NodeVisits :
          /\ DOMAIN w[i] = DOMAIN NodeVisits[i]
          /\ \A k \in DOMAIN NodeVisits[i] : w[i][k] = p[NodeVisits[i][k]]
  BY <1>3, <1>7, <1>8, <1>11, <1>12
<1>14. /\ DOMAIN EdgeOrder' = DOMAIN EdgeOrder
       /\ \A i \in DOMAIN EdgeOrder : EdgeOrder'[i] = p[EdgeOrder[i]]
  <2>1. DOMAIN w = DOMAIN NodeVisits /\ edgeCount' = edgeCount
    BY <1>5, <1>12
  <2>2. \A d, e \in Edges : p[d] = p[e] => d = e
    BY <1>3, <1>6
  <2> QED
    BY <1>10, <1>13, <2>1, <2>2, EdgeOrderMoves
<1>15. InEdgeOrder'
  <2>1. DOMAIN EdgeOrder = 1 .. edgeCount
    BY <1>1 DEF ListsAll
  <2> QED
    BY <1>4, <1>14, <2>1 DEF InEdgeOrder
<1> QED
  BY <1>8, <1>15

\* After RelabelNodes the nodes are in the order of their positions, and the
\* edges are still in the order in which they are met.
LEMMA RelabelledNodesInOrder ==
    ASSUME GP!IndInv, GP!Named, GP!Named', InEdgeOrder, NEW q,
           q = invertPermutation(nodeOrder), GP!RelabelNodes(q)
    PROVE  InNodeOrder' /\ InEdgeOrder'
<1>1. ListsAll(nodeOrder, nodeCount) /\ ListsAll(EdgeOrder, edgeCount)
  BY NodeOrderFacts, EdgeOrderFacts DEF EdgeOrder
<1>2. /\ nodeCount \in Nat /\ edgeCount \in Nat
      /\ Nodes = 0 .. (nodeCount - 1) /\ Nodes = GP!Nodes /\ Edges = GP!Edges
      /\ \A n \in Nodes : nodes[n].pos \in Int
  BY GraphFacts
<1>3. q \in GP!Bijection(GP!Nodes, GP!Nodes) /\ \A i \in 1 .. nodeCount : q[nodeOrder[i]] = i - 1
  BY <1>1, <1>2, InverseOfOrder
<1>4. edgeCount' = edgeCount /\ nodeCount' = nodeCount /\ Nodes' = Nodes
  BY DEF GP!RelabelNodes, Nodes, Graph!Nodes
<1>5. \A n \in GP!Nodes : nodes'[q[n]] = nodes[n]
  BY <1>3, GraphAssumptions, GP!RelabelNodesMoves
<1>6. \A m, n \in GP!Nodes : m = q[n] =>
         /\ DOMAIN GP!AdjList(m)' = DOMAIN GP!AdjList(n)
         /\ \A k \in DOMAIN GP!AdjList(n) : GP!AdjList(m)'[k] = GP!AdjList(n)[k]
  BY <1>3, GraphAssumptions, GP!RelabelNodesMovesLists
<1>7. /\ DOMAIN nodeOrder = 1 .. nodeCount
      /\ \A i \in 1 .. nodeCount : nodeOrder[i] \in Nodes
  BY <1>1, <1>2 DEF ListsAll
<1> DEFINE f == [m \in Nodes |-> nodes[nodeOrder[m + 1]].pos]
<1>8. \A m \in Nodes : m + 1 \in 1 .. nodeCount /\ (m + 1) - 1 = m
  BY <1>2
<1>9. /\ f \in [Nodes -> Int]
      /\ \A m \in Nodes : f[m] = nodes[nodeOrder[m + 1]].pos /\ nodes'[m].pos = f[m]
  <2>1. \A m \in Nodes : nodeOrder[m + 1] \in Nodes /\ q[nodeOrder[m + 1]] = m
    BY <1>3, <1>7, <1>8
  <2> QED
    BY <1>2, <1>5, <2>1
<1> HIDE DEF f
<1>10. \A m, n \in Nodes : m < n => f[m] <= f[n]
  <2> SUFFICES ASSUME NEW m \in Nodes, NEW n \in Nodes, m < n PROVE f[m] <= f[n]
    OBVIOUS
  <2>1. PICK x, y : x = <<f[m], nodeOrder[m + 1]>> /\ y = <<f[n], nodeOrder[n + 1]>>
    OBVIOUS
  <2>2. x \in NodePairs /\ y \in NodePairs
    BY <1>7, <1>8, <1>9, <2>1 DEF NodePairs
  <2>3. Place(x, NodePairs) = m /\ Place(y, NodePairs) = n
    BY <1>8, <1>9, <2>1, NodeOrderFacts
  <2>4. m \in Int /\ n \in Int
    BY <1>2
  <2>5. y \notin Turns!Before(x, NodePairs) /\ x # y
    BY <2>2, <2>3, <2>4, NodePairsFacts, PlacesAreNumbers
  <2>6. x \in Turns!Before(y, NodePairs)
    BY <2>2, <2>5, NodePairsFacts, PairsInOrder
  <2>7. x[1] < y[1] \/ x[1] = y[1]
    BY <2>6 DEF Turns!Before
  <2> QED
    BY <1>9, <2>1, <2>7
<1>11. PICK S : S = NodePairs'
  OBVIOUS
<1>12. S = {<<f[n], n>> : n \in Nodes}
  BY <1>4, <1>9, <1>11 DEF NodePairs
<1>13. /\ S \subseteq Int \X Int /\ IsFiniteSet(S) /\ Cardinality(S) = nodeCount
       /\ \A n \in Nodes : Place(<<f[n], n>>, S) = n
  <2>1. /\ f \in [0 .. (nodeCount - 1) -> Int]
        /\ \A m, n \in 0 .. (nodeCount - 1) : m < n => f[m] <= f[n]
        /\ \A n \in 0 .. (nodeCount - 1) : <<f[n], n>> \in S
        /\ \A p \in S : \E n \in 0 .. (nodeCount - 1) : p = <<f[n], n>>
    BY <1>2, <1>9, <1>10, <1>12
  <2>2. /\ S \subseteq Int \X Int /\ IsFiniteSet(S) /\ Cardinality(S) = nodeCount
        /\ \A n \in 0 .. (nodeCount - 1) : Place(<<f[n], n>>, S) = n
    BY <1>2, <2>1, PlaceIsSecond
  <2> QED
    BY <1>2, <2>2
<1>14. nodeOrder' = [i \in 1 .. nodeCount |-> InOrder(S)[i][2]]
  <2>1. nodeOrder' = [i \in DOMAIN InOrder(S) |-> InOrder(S)[i][2]]
    BY <1>11 DEF nodeOrder, NodePairs, InOrder
  <2>2. DOMAIN InOrder(S) = 1 .. nodeCount
    BY <1>13, InOrderByPlace
  <2> QED
    BY <2>1, <2>2
<1>15. \A i \in 1 .. nodeCount : nodeOrder'[i] = i - 1
  <2> TAKE i \in 1 .. nodeCount
  <2>1. PICK n \in Nodes : n = i - 1 /\ n + 1 = i
    BY <1>2
  <2>2. <<f[n], n>> \in S /\ Place(<<f[n], n>>, S) = n
    BY <1>12, <1>13
  <2>3. InOrder(S)[n + 1] = <<f[n], n>>
    BY <1>13, <2>2, InOrderByPlace
  <2> QED
    BY <1>14, <2>1, <2>3
<1>16. InNodeOrder'
  <2>1. DOMAIN nodeOrder' = 1 .. nodeCount
    BY <1>14
  <2> QED
    BY <1>15, <2>1 DEF InNodeOrder
<1>17. PICK w : w = NodeVisits'
  OBVIOUS
<1>18. \A n : Graph!AdjList(n) = GP!AdjList(n) /\ Graph!AdjList(n)' = GP!AdjList(n)'
  <2>1. \A n : Graph!AdjList(n) = GP!AdjList(n)
    BY GraphOperators
  <2>2. \A n : Graph!AdjList(n)' = GP!AdjList(n)'
    BY DEF Graph!AdjList, GP!AdjList, Graph!Chain, GP!Chain, Graph!Link, GP!Link,
           Graph!NoEdge, GP!NoEdge
  <2> QED
    BY <2>1, <2>2
<1>19. /\ DOMAIN NodeVisits = 1 .. nodeCount /\ DOMAIN w = 1 .. nodeCount
       /\ \A i \in 1 .. nodeCount : NodeVisits[i] = GP!AdjList(nodeOrder[i])
       /\ \A i \in 1 .. nodeCount : \A m : m = i - 1 => w[i] = GP!AdjList(m)'
  <2>1. NodeVisits = [i \in 1 .. nodeCount |-> GP!AdjList(nodeOrder[i])]
    BY <1>7, <1>18 DEF NodeVisits, Visits
  <2>2. PICK order : order = nodeOrder'
    OBVIOUS
  <2>3. w = [i \in DOMAIN order |-> Graph!AdjList(order[i])']
    BY <1>17, <2>2 DEF NodeVisits, Visits
  <2>4. DOMAIN order = 1 .. nodeCount /\ \A i \in 1 .. nodeCount : order[i] = i - 1
    BY <1>14, <1>15, <2>2
  <2>5. w = [i \in 1 .. nodeCount |-> GP!AdjList(order[i])']
    BY <1>18, <2>3, <2>4
  <2> QED
    BY <2>1, <2>4, <2>5
<1>20. ASSUME NEW i \in 1 .. nodeCount
       PROVE  /\ DOMAIN w[i] = DOMAIN NodeVisits[i]
              /\ \A k \in DOMAIN NodeVisits[i] : w[i][k] = NodeVisits[i][k]
  <2>1. PICK n \in Nodes : n = nodeOrder[i]
    BY <1>7
  <2>2. PICK m \in Nodes : m = i - 1
    BY <1>2
  <2>3. m = q[n]
    BY <1>3, <2>1, <2>2
  <2>4. NodeVisits[i] = GP!AdjList(n) /\ w[i] = GP!AdjList(m)'
    BY <1>19, <2>1, <2>2
  <2> QED
    BY <1>2, <1>6, <2>3, <2>4
<1>21. \A i \in 1 .. nodeCount : \A k \in DOMAIN NodeVisits[i] : NodeVisits[i][k] \in Edges
  BY <1>2, <1>7, <1>19 DEF GP!Named
<1>22. /\ DOMAIN EdgeOrder' = DOMAIN EdgeOrder
       /\ \A i \in DOMAIN EdgeOrder : EdgeOrder'[i] = EdgeOrder[i]
  <2> DEFINE p == [e \in Edges |-> e]
  <2>1. \A e \in Edges : p[e] = e
    OBVIOUS
  <2> HIDE DEF p
  <2>2. \A i \in DOMAIN NodeVisits :
           /\ DOMAIN w[i] = DOMAIN NodeVisits[i]
           /\ \A k \in DOMAIN NodeVisits[i] : w[i][k] = p[NodeVisits[i][k]]
    BY <1>19, <1>20, <1>21, <2>1
  <2>3. DOMAIN w = DOMAIN NodeVisits /\ edgeCount' = edgeCount
    BY <1>4, <1>19
  <2>4. \A d, e \in Edges : p[d] = p[e] => d = e
    BY <2>1
  <2>5. /\ DOMAIN EdgeOrder' = DOMAIN EdgeOrder
        /\ \A i \in DOMAIN EdgeOrder : EdgeOrder'[i] = p[EdgeOrder[i]]
    BY <1>17, <2>2, <2>3, <2>4, EdgeOrderMoves
  <2>6. \A i \in DOMAIN EdgeOrder : EdgeOrder[i] \in Edges
    BY <1>1, <1>2, GraphFacts DEF ListsAll
  <2> QED
    BY <2>1, <2>5, <2>6
<1>23. InEdgeOrder'
  BY <1>22 DEF InEdgeOrder
<1> QED
  BY <1>16, <1>23

\* Nothing is claimed before the first sort.
LEMMA SortInit == Init => SortInv
  BY DEF Init, SortInv

\* Every step keeps what a sort has put in order, or ends the claim.
LEMMA SortStep ==
    ASSUME GraphInv, GP!Named, GP!Named', SortInv, [Next]_vars
    PROVE  SortInv'
<1>1. GP!IndInv
  BY DEF GraphInv
<1>2. CASE phase' = "open"
  BY <1>2 DEF SortInv
<1>3. CASE UNCHANGED <<graphVars, phase, newNodes>>
  <2>1. nodeOrder' = nodeOrder /\ EdgeOrder' = EdgeOrder
    BY <1>1, <1>3, OrdersStay
  <2>2. /\ InNodeOrder' <=> InNodeOrder
        /\ InEdgeOrder' <=> InEdgeOrder
        /\ invertPermutation(nodeOrder)' = invertPermutation(nodeOrder)
    BY <2>1 DEF InNodeOrder, InEdgeOrder, invertPermutation
  <2> QED
    BY <1>3, <2>2 DEF SortInv
<1>4. CASE /\ GP!SortEdges(invertPermutation(buildEdgeOrder(nodeOrder)))
           /\ newNodes' = invertPermutation(nodeOrder) /\ phase' = "relabel"
  <2>1. nodeOrder' = nodeOrder /\ InEdgeOrder'
    BY <1>1, <1>4, SortedEdgesInOrder DEF EdgeOrder
  <2>2. invertPermutation(nodeOrder)' = invertPermutation(nodeOrder)
    BY <2>1 DEF invertPermutation
  <2> QED
    BY <1>4, <2>1, <2>2 DEF SortInv
<1>5. CASE /\ newNodes \in GP!Bijection(GP!Nodes, GP!Nodes)
           /\ GP!RelabelNodes(newNodes)
           /\ phase = "relabel" /\ phase' = "sorted"
  <2>1. InNodeOrder' /\ InEdgeOrder'
    BY <1>1, <1>5, RelabelledNodesInOrder DEF SortInv
  <2> QED
    BY <1>5, <2>1 DEF SortInv
<1> QED
  BY <1>2, <1>3, <1>4, <1>5, GraphSteps

\* Nodes and edges are named by their tags.
LEMMA NamedInvariant == Spec => []GP!Named
<1>1. GraphInv => GP!Named
  BY GraphAssumptions, GP!TagsNameRecords DEF GraphInv
<1> QED
  BY <1>1, GraphInvariant, PTL

\* What a sort has put in order stays so until something is added.
LEMMA SortInvariant == Spec => []SortInv
<1>1. GraphInv /\ GP!Named /\ GP!Named' /\ SortInv /\ [Next]_vars => SortInv'
  BY SortStep
<1> QED
  BY <1>1, SortInit, GraphInvariant, NamedInvariant, PTL DEF Spec

\* SortedAfterSort: a sort puts nodes and edges in an order that the next sort
\* would find unchanged, although SortEdges and RelabelNodes rewrite the links
\* and ids the order is read from.
THEOREM SortSorts == Spec => []SortedAfterSort
<1>1. SortInv => SortedAfterSort
  BY DEF SortInv, SortedAfterSort, InNodeOrder, InEdgeOrder, EdgeOrder
<1> QED
  BY <1>1, SortInvariant, PTL

-----------------------------------------------------------------------------
\* The lists of turn cost entries.

NoEntry == Turns!NoTurnEntry
Slots == Turns!Indices
EntryRefs == Slots \cup {NoEntry}

\* i is the lowest index of S; there is none when S is empty.
IsLowest(i, S) == IF S = {} THEN i = NoEntry ELSE i \in S /\ \A j \in S : i <= j

Owned(own, n) == {i \in Slots : own[i] = n}
Later(own, i) == {j \in Slots : j > i /\ own[j] = own[i]}

\* The heads in ref and the links join the entries own gives each node, oldest first.
Joined(ref, own) ==
    /\ own \in [Slots -> DOMAIN ref]
    /\ \A n \in DOMAIN ref : IsLowest(ref[n], Owned(own, n))
    /\ \A i \in Slots : IsLowest(entries[i].next, Later(own, i))

\* list walks through the entries that own gives n.
ListsOwned(list, own, n) ==
    \E len \in 0 .. tcCount :
        /\ list \in [1 .. len -> Owned(own, n)]
        /\ \A i \in Owned(own, n) : \E k \in 1 .. len : list[k] = i
        /\ \A j, k \in 1 .. len : j < k => list[j] < list[k]
        /\ \A k \in 1 .. len : (k = len) <=> (entries[list[k]].next = NoEntry)

\* The walk of findIndex takes one link at a time.
LEMMA FollowSteps ==
    ASSUME tcCount \in Nat, NEW first \in EntryRefs,
           \A i \in Slots : entries[i].next \in EntryRefs
    PROVE  /\ Turns!Follow(first) \in [0 .. tcCount -> EntryRefs]
           /\ Turns!Follow(first)[0] = first
           /\ \A k \in 1 .. tcCount :
                 Turns!Follow(first)[k] =
                     IF Turns!Follow(first)[k - 1] = NoEntry THEN NoEntry
                     ELSE entries[Turns!Follow(first)[k - 1]].next
<1> DEFINE step == [r \in EntryRefs |-> IF r = NoEntry THEN NoEntry ELSE entries[r].next]
           Solves(f) == f = [k \in 0 .. tcCount |->
                                IF k = 0 THEN first
                                ELSE IF f[k - 1] = NoEntry THEN NoEntry
                                ELSE entries[f[k - 1]].next]
<1>1. step \in [EntryRefs -> EntryRefs]
  BY DEF EntryRefs
<1>2. \E f \in [0 .. tcCount -> EntryRefs] : Solves(f)
  <2> HIDE DEF step
  <2>1. PICK f \in [0 .. tcCount -> EntryRefs] : IsRecursion(f, tcCount, first, step)
    BY <1>1, RecursiveFunctionExists
  <2> USE DEF step
  <2>2. \A k \in 0 .. tcCount : f[k] = IF k = 0 THEN first
                                       ELSE IF f[k - 1] = NoEntry THEN NoEntry
                                       ELSE entries[f[k - 1]].next
    <3> SUFFICES ASSUME NEW k \in 0 .. tcCount, k # 0
                 PROVE  f[k] = IF f[k - 1] = NoEntry THEN NoEntry
                               ELSE entries[f[k - 1]].next
      BY <2>1 DEF IsRecursion
    <3>1. k - 1 \in 0 .. tcCount /\ f[k - 1] \in EntryRefs /\ f[k] = step[f[k - 1]]
      BY <2>1 DEF IsRecursion
    <3> QED
      BY <3>1
  <2>3. Solves(f)
    BY <2>2
  <2> QED
    BY <2>3
<1>3. Solves(Turns!Follow(first))
  BY <1>2 DEF Turns!Follow, NoEntry
<1>4. Turns!Follow(first)[0] = first
  BY <1>3
<1>5. \A k \in 1 .. tcCount :
         Turns!Follow(first)[k] = IF Turns!Follow(first)[k - 1] = NoEntry THEN NoEntry
                                  ELSE entries[Turns!Follow(first)[k - 1]].next
  BY <1>3
<1>6. Turns!Follow(first) \in [0 .. tcCount -> EntryRefs]
  <2> DEFINE f == Turns!Follow(first)
             S == {k \in 0 .. tcCount : f[k] \in EntryRefs}
  <2>1. 0 \in S
    BY <1>4
  <2>2. \A k \in 0 .. (tcCount - 1) : k \in S => k + 1 \in S
    <3> SUFFICES ASSUME NEW k \in 0 .. (tcCount - 1), k \in S PROVE k + 1 \in S
      OBVIOUS
    <3>1. k + 1 \in 1 .. tcCount /\ (k + 1) - 1 = k /\ f[k] \in EntryRefs
      OBVIOUS
    <3>2. f[k + 1] = step[f[k]]
      BY <1>5, <3>1
    <3> QED
      BY <1>1, <3>1, <3>2
  <2> HIDE DEF S
  <2>3. 0 .. tcCount \subseteq S
    BY <2>1, <2>2, BoundedInduction
  <2>4. \A k \in 0 .. tcCount : f[k] \in EntryRefs
    BY <2>3 DEF S
  <2>5. f = [k \in 0 .. tcCount |-> f[k]]
    BY <1>3
  <2> QED
    BY <2>4, <2>5
<1> QED
  BY <1>4, <1>5, <1>6

\* The walk along a node's list meets its entries only, in ascending order, and
\* passes none over.
LEMMA FollowAscends ==
    ASSUME tcCount \in Nat, NEW ref, NEW own, Joined(ref, own), NEW n \in DOMAIN ref
    PROVE  /\ Turns!Follow(ref[n])[tcCount] = NoEntry
           /\ \A k \in 0 .. tcCount : Turns!Follow(ref[n])[k] # NoEntry =>
                 Turns!Follow(ref[n])[k] \in Owned(own, n)
           /\ \A k \in 1 .. tcCount : Turns!Follow(ref[n])[k] # NoEntry =>
                 /\ Turns!Follow(ref[n])[k - 1] # NoEntry
                 /\ Turns!Follow(ref[n])[k - 1] < Turns!Follow(ref[n])[k]
           /\ \A i \in Owned(own, n) :
                 \E k \in 0 .. (tcCount - 1) : Turns!Follow(ref[n])[k] = i
<1> DEFINE f == Turns!Follow(ref[n])
           Mine == Owned(own, n)
           S == {k \in 0 .. tcCount : f[k] # NoEntry => f[k] \in Mine /\ f[k] >= k}
<1>1. /\ own \in [Slots -> DOMAIN ref] /\ Slots = 0 .. (tcCount - 1)
      /\ IsLowest(ref[n], Mine) /\ NoEntry = -1
      /\ \A i \in Slots : IsLowest(entries[i].next, Later(own, i))
  BY DEF Joined, Slots, Turns!Indices, NoEntry, Turns!NoTurnEntry
<1>2. Mine \subseteq Slots /\ \A i \in Slots : Later(own, i) \subseteq Slots
  BY DEF Owned, Later
<1>3. ref[n] \in EntryRefs /\ \A i \in Slots : entries[i].next \in EntryRefs
  BY <1>1, <1>2 DEF IsLowest, EntryRefs
<1>4. /\ f \in [0 .. tcCount -> EntryRefs] /\ f[0] = ref[n]
      /\ \A k \in 1 .. tcCount : f[k] = IF f[k - 1] = NoEntry THEN NoEntry
                                        ELSE entries[f[k - 1]].next
  BY <1>3, FollowSteps
<1> HIDE DEF f
<1>5. \A i \in Mine : i \in Slots /\ i \in Int /\ own[i] = n
  BY <1>1 DEF Owned
<1> HIDE DEF Mine
<1>6. \A i \in Mine : IsLowest(entries[i].next, {j \in Mine : j > i})
  <2> TAKE i \in Mine
  <2>1. Later(own, i) = {j \in Mine : j > i}
    BY <1>5 DEF Later, Owned, Mine
  <2> QED
    BY <1>1, <1>5, <2>1
<1>7. 0 \in S
  BY <1>1, <1>4, <1>5 DEF IsLowest
<1>8. ASSUME NEW k \in 1 .. tcCount, f[k] # NoEntry, k - 1 \in S
      PROVE  /\ f[k - 1] # NoEntry /\ f[k - 1] \in Mine /\ f[k - 1] >= k - 1
             /\ f[k] \in Mine /\ f[k - 1] < f[k]
  <2>1. f[k - 1] # NoEntry /\ f[k] = entries[f[k - 1]].next
    BY <1>4, <1>8
  <2>2. f[k - 1] \in Mine /\ f[k - 1] >= k - 1
    BY <1>8, <2>1
  <2>3. f[k] \in {j \in Mine : j > f[k - 1]}
    BY <1>6, <1>8, <2>1, <2>2 DEF IsLowest
  <2> QED
    BY <1>5, <2>1, <2>2, <2>3
<1>9. \A k \in 0 .. (tcCount - 1) : k \in S => k + 1 \in S
  <2> SUFFICES ASSUME NEW k \in 0 .. (tcCount - 1), k \in S, f[k + 1] # NoEntry
               PROVE  f[k + 1] \in Mine /\ f[k + 1] >= k + 1
    OBVIOUS
  <2>1. k + 1 \in 1 .. tcCount /\ (k + 1) - 1 = k
    OBVIOUS
  <2>2. f[k] \in Mine /\ f[k] >= k /\ f[k + 1] \in Mine /\ f[k] < f[k + 1]
    BY <1>8, <2>1
  <2> QED
    BY <1>5, <2>2
<1> HIDE DEF S
<1>10. 0 .. tcCount \subseteq S
  BY <1>7, <1>9, BoundedInduction
<1>11. \A k \in 0 .. tcCount : f[k] # NoEntry => f[k] \in Mine /\ f[k] >= k
  BY <1>10 DEF S
<1>12. f[tcCount] = NoEntry
  BY <1>1, <1>5, <1>11
<1>13. \A k \in 1 .. tcCount : f[k] # NoEntry => f[k - 1] # NoEntry /\ f[k - 1] < f[k]
  <2> SUFFICES ASSUME NEW k \in 1 .. tcCount, f[k] # NoEntry
               PROVE  f[k - 1] # NoEntry /\ f[k - 1] < f[k]
    OBVIOUS
  <2>1. k - 1 \in 0 .. tcCount
    OBVIOUS
  <2>2. k - 1 \in S
    BY <1>10, <2>1
  <2> QED
    BY <1>8, <2>2
<1>14. ASSUME NEW i \in Mine PROVE \E k \in 0 .. (tcCount - 1) : f[k] = i
  <2> DEFINE Met(k) == \E j \in 0 .. (k - 1) : f[j] = i
             T == {k \in 0 .. tcCount : Met(k) \/ (f[k] # NoEntry /\ f[k] <= i)}
  <2>1. 0 \in T
    <3>1. f[0] \in Mine /\ f[0] <= i
      BY <1>1, <1>4 DEF IsLowest
    <3> QED
      BY <1>1, <1>5, <3>1
  <2>2. \A k \in 0 .. (tcCount - 1) : k \in T => k + 1 \in T
    <3> SUFFICES ASSUME NEW k \in 0 .. (tcCount - 1), k \in T, ~ Met(k + 1)
                 PROVE  f[k + 1] # NoEntry /\ f[k + 1] <= i
      OBVIOUS
    <3>1. /\ k + 1 \in 1 .. tcCount /\ (k + 1) - 1 = k /\ f[k] # i /\ ~ Met(k)
          /\ k \in 0 .. tcCount
      OBVIOUS
    <3>2. f[k] # NoEntry /\ f[k] <= i
      BY <3>1
    <3>3. f[k] \in Mine /\ f[k + 1] = entries[f[k]].next
      BY <1>4, <1>11, <3>1, <3>2
    <3>4. i \in {j \in Mine : j > f[k]}
      BY <1>5, <3>1, <3>2, <3>3
    <3>5. f[k + 1] \in Mine /\ f[k + 1] <= i
      BY <1>6, <3>3, <3>4 DEF IsLowest
    <3> QED
      BY <1>1, <1>5, <3>5
  <2> HIDE DEF T
  <2>3. 0 .. tcCount \subseteq T
    BY <2>1, <2>2, BoundedInduction
  <2>4. tcCount \in T
    BY <2>3
  <2> QED
    BY <1>12, <2>4 DEF T
<1> QED
  BY <1>11, <1>12, <1>13, <1>14 DEF f, Mine

\* A node's list: its own entries, each once, oldest first.
LEMMA ListFromListsOwned ==
    ASSUME tcCount \in Nat, NEW ref, NEW own, Joined(ref, own), NEW n \in DOMAIN ref
    PROVE  ListsOwned(Turns!ListFrom(ref[n]), own, n)
<1> DEFINE f == Turns!Follow(ref[n])
           list == Turns!ListFrom(ref[n])
           Mine == Owned(own, n)
           Stop(k) == f[k] = NoEntry /\ \A j \in 0 .. (k - 1) : f[j] # NoEntry
           Ended == {k \in 0 .. tcCount : f[k] = NoEntry}
           len == CHOOSE k \in 0 .. tcCount : Stop(k)
<1>1. /\ f[tcCount] = NoEntry
      /\ \A k \in 0 .. tcCount : f[k] # NoEntry => f[k] \in Mine
      /\ \A k \in 1 .. tcCount : f[k] # NoEntry => f[k - 1] # NoEntry /\ f[k - 1] < f[k]
      /\ \A i \in Mine : \E k \in 0 .. (tcCount - 1) : f[k] = i
  BY FollowAscends
<1>2. \A k \in 1 .. tcCount : f[k - 1] # NoEntry => f[k] = entries[f[k - 1]].next
  <2>1. ref[n] \in EntryRefs /\ \A i \in Slots : entries[i].next \in EntryRefs
    BY DEF Joined, IsLowest, EntryRefs, Owned, Later
  <2> QED
    BY <2>1, FollowSteps
<1>3. list = [i \in 1 .. len |-> f[i - 1]]
  BY DEF Turns!ListFrom, NoEntry
<1>4. \A i \in Mine : i \in Int /\ i # NoEntry
  BY DEF Owned, Slots, Turns!Indices, NoEntry, Turns!NoTurnEntry
<1> HIDE DEF f, list, Mine
<1>5. \E k \in 0 .. tcCount : Stop(k)
  <2>1. Ended \subseteq Nat /\ Ended # {}
    BY <1>1
  <2> HIDE DEF Ended
  <2>2. PICK m \in Ended : \A k \in Ended : m <= k
    BY <2>1, LeastNatural
  <2>3. m \in 0 .. tcCount /\ f[m] = NoEntry
    BY <2>2 DEF Ended
  <2>4. \A j \in 0 .. (m - 1) : f[j] # NoEntry
    <3> SUFFICES ASSUME NEW j \in 0 .. (m - 1), f[j] = NoEntry PROVE FALSE
      OBVIOUS
    <3>1. j \in Ended
      BY <2>3 DEF Ended
    <3> QED
      BY <2>2, <2>3, <3>1
  <2> QED
    BY <2>3, <2>4
<1>6. len \in 0 .. tcCount /\ Stop(len)
  BY <1>5
<1> HIDE DEF len
<1>7. len \in Nat /\ len <= tcCount /\ f[len] = NoEntry
      /\ \A j \in 0 .. (len - 1) : f[j] # NoEntry
  BY <1>6
<1>8. \A k \in 0 .. tcCount : k >= len => f[k] = NoEntry
  <2> DEFINE S == {d \in 0 .. (tcCount - len) : f[len + d] = NoEntry}
  <2>1. 0 \in S
    BY <1>7
  <2>2. \A d \in 0 .. ((tcCount - len) - 1) : d \in S => d + 1 \in S
    <3> SUFFICES ASSUME NEW d \in 0 .. ((tcCount - len) - 1), d \in S,
                        f[len + (d + 1)] # NoEntry
                 PROVE  FALSE
      BY <1>7
    <3>1. len + (d + 1) \in 1 .. tcCount /\ (len + (d + 1)) - 1 = len + d
      BY <1>7
    <3> QED
      BY <1>1, <3>1
  <2>3. tcCount - len \in Nat
    BY <1>7
  <2> HIDE DEF S
  <2>4. 0 .. (tcCount - len) \subseteq S
    BY <2>1, <2>2, <2>3, BoundedInduction
  <2> SUFFICES ASSUME NEW k \in 0 .. tcCount, k >= len PROVE f[k] = NoEntry
    OBVIOUS
  <2>5. k - len \in 0 .. (tcCount - len) /\ len + (k - len) = k
    BY <1>7
  <2> QED
    BY <2>4, <2>5 DEF S
<1>9. list \in [1 .. len -> Mine]
  BY <1>1, <1>3, <1>7
<1>10. ASSUME NEW i \in Mine PROVE \E k \in 1 .. len : list[k] = i
  <2>1. PICK k \in 0 .. (tcCount - 1) : f[k] = i
    BY <1>1
  <2>2. k < len
    BY <1>4, <1>7, <1>8, <2>1
  <2>3. k + 1 \in 1 .. len /\ (k + 1) - 1 = k
    BY <1>7, <2>2
  <2>4. list[k + 1] = i
    BY <1>3, <2>1, <2>3
  <2> QED
    BY <2>3, <2>4
<1>11. \A j \in 1 .. len : \A k \in 1 .. len : j < k => list[j] < list[k]
  <2> TAKE j \in 1 .. len
  <2> DEFINE S == {d \in 0 .. (len - j) : d > 0 => list[j] < list[j + d]}
  <2>1. 0 \in S
    BY <1>7
  <2>2. \A d \in 0 .. ((len - j) - 1) : d \in S => d + 1 \in S
    <3> SUFFICES ASSUME NEW d \in 0 .. ((len - j) - 1), d \in S
                 PROVE  list[j] < list[j + (d + 1)]
      BY <1>7
    <3>1. /\ j + d \in 1 .. len /\ j + (d + 1) \in 1 .. len
          /\ j + d \in 1 .. tcCount /\ j + d \in 0 .. (len - 1)
          /\ (j + (d + 1)) - 1 = j + d
      BY <1>7
    <3>2. list[j + (d + 1)] = f[j + d] /\ list[j + d] = f[(j + d) - 1]
      BY <1>3, <3>1
    <3>3. list[j + d] < list[j + (d + 1)]
      BY <1>1, <1>7, <3>1, <3>2
    <3>4. list[j] \in Int /\ list[j + d] \in Int /\ list[j + (d + 1)] \in Int
      BY <1>4, <1>9, <3>1
    <3>5. CASE d = 0
      BY <3>3, <3>5
    <3>6. CASE d > 0
      BY <3>3, <3>4, <3>6
    <3> QED
      BY <3>5, <3>6
  <2>3. len - j \in Nat
    BY <1>7
  <2> HIDE DEF S
  <2>4. 0 .. (len - j) \subseteq S
    BY <2>1, <2>2, <2>3, BoundedInduction
  <2> TAKE k \in 1 .. len
  <2> SUFFICES ASSUME j < k PROVE list[j] < list[k]
    OBVIOUS
  <2>5. k - j \in 0 .. (len - j) /\ k - j > 0 /\ j + (k - j) = k
    BY <1>7
  <2> QED
    BY <2>4, <2>5 DEF S
<1>12. \A k \in 1 .. len : (k = len) <=> (entries[list[k]].next = NoEntry)
  <2> TAKE k \in 1 .. len
  <2>1. k \in 1 .. tcCount /\ k - 1 \in 0 .. (len - 1)
    BY <1>7
  <2>2. entries[list[k]].next = f[k]
    BY <1>2, <1>3, <1>7, <2>1
  <2> QED
    BY <1>7, <2>2
<1>13. ListsOwned(list, own, n)
  BY <1>6, <1>9, <1>10, <1>11, <1>12 DEF ListsOwned, Mine
<1> QED
  BY <1>13 DEF list

-----------------------------------------------------------------------------
\* What the entries record.

\* The turn that entry i is about.
TurnOf(own, i) == Turn(entries[i].from, own[i], entries[i].to)

\* There is one entry for each turn whose cost was set, and it holds that cost.
Recorded(own) ==
    /\ \A i \in Slots : /\ TurnOf(own, i) \in DOMAIN written
                        /\ written[TurnOf(own, i)] = entries[i].flags
    /\ \A t \in DOMAIN written : \E i \in Slots : TurnOf(own, i) = t
    /\ \A i, j \in Slots : TurnOf(own, i) = TurnOf(own, j) => i = j

EntryRecord == [from : Edges, to : Edges, flags : Costs, next : EntryRefs]

\* The inductive invariant of the turn costs: each entry has a node that owns it.
CostInv ==
    /\ tcCount \in Nat
    /\ DOMAIN tcRef = Nodes
    /\ entries \in [Slots -> EntryRecord]
    /\ \E own : Joined(tcRef, own) /\ Recorded(own)

\* A turn is named by the tags of its edges and its node.
LEMMA TurnNamesEdges ==
    ASSUME GP!Named, NEW d \in Edges, NEW e \in Edges, NEW f \in Edges, NEW g \in Edges,
           NEW m \in Nodes, NEW n \in Nodes, Turn(d, m, e) = Turn(f, n, g)
    PROVE  d = f /\ m = n /\ e = g
<1>1. Edges = GP!Edges /\ Nodes = GP!Nodes
  BY GraphOperators DEF Edges, Nodes
<1>2. edges[d].tag = edges[f].tag /\ nodes[m].tag = nodes[n].tag /\ edges[e].tag = edges[g].tag
  BY DEF Turn
<1>3. \A a, b \in Edges : edges[a].tag = edges[b].tag => a = b
  <2>1. \A a \in Edges : GP!EdgeAt(edges[a].tag) = a
    BY <1>1 DEF GP!Named
  <2> QED
    BY <2>1
<1>4. \A a, b \in Nodes : nodes[a].tag = nodes[b].tag => a = b
  <2>1. \A a \in Nodes : GP!NodeAt(nodes[a].tag) = a
    BY <1>1 DEF GP!Named
  <2> QED
    BY <2>1
<1> QED
  BY <1>2, <1>3, <1>4

\* A lookup finds the entry of the turn, if there is one.
LEMMA FindEntryFinds ==
    ASSUME CostInv, NEW own, Joined(tcRef, own),
           NEW from, NEW to, NEW via \in Nodes
    PROVE  \/ /\ Turns!FindEntry(from, via, to) \in Slots
              /\ entries[Turns!FindEntry(from, via, to)].from = from
              /\ entries[Turns!FindEntry(from, via, to)].to = to
              /\ own[Turns!FindEntry(from, via, to)] = via
           \/ /\ Turns!FindEntry(from, via, to) = NoEntry
              /\ \A i \in Slots : ~ (/\ own[i] = via
                                     /\ entries[i].from = from /\ entries[i].to = to)
<1> DEFINE list == Turns!ListFrom(tcRef[via])
           found == Turns!Matches(from, via, to)
<1>1. ListsOwned(list, own, via)
  BY ListFromListsOwned DEF CostInv
<1>2. /\ found = {k \in DOMAIN list : entries[list[k]].from = from /\ entries[list[k]].to = to}
      /\ Turns!FindEntry(from, via, to) = IF found = {} THEN NoEntry
                                          ELSE list[Turns!Min(found)]
  BY DEF Turns!Matches, Turns!FindEntry, NoEntry
<1> HIDE DEF list, found
<1>3. PICK len \in Nat :
          /\ list \in [1 .. len -> Owned(own, via)]
          /\ \A i \in Owned(own, via) : \E k \in 1 .. len : list[k] = i
  BY <1>1 DEF ListsOwned, CostInv
<1>4. \A i : i \in Owned(own, via) <=> i \in Slots /\ own[i] = via
  BY DEF Owned
<1>5. CASE found = {}
  <2>1. \A k \in 1 .. len : ~ (entries[list[k]].from = from /\ entries[list[k]].to = to)
    BY <1>2, <1>3, <1>5
  <2> QED
    BY <1>2, <1>3, <1>4, <1>5, <2>1
<1>6. CASE found # {}
  <2>1. found \subseteq Nat
    BY <1>2, <1>3
  <2>2. \E m \in found : \A k \in found : m <= k
    BY <1>6, <2>1, LeastNatural
  <2>3. Turns!Min(found) \in found
    BY <2>2 DEF Turns!Min
  <2>4. PICK k \in 1 .. len : /\ k = Turns!Min(found) /\ entries[list[k]].from = from
                              /\ entries[list[k]].to = to
    BY <1>2, <1>3, <2>3
  <2>5. list[k] \in Owned(own, via) /\ Turns!FindEntry(from, via, to) = list[k]
    BY <1>2, <1>3, <1>6, <2>4
  <2> QED
    BY <1>4, <2>4, <2>5
<1> QED
  BY <1>5, <1>6

\* A lookup finds the entry of its turn, or none if no cost was set.
LEMMA CostInvKeepsCosts == GP!Named /\ CostInv => TurnCostsKept
<1> SUFFICES ASSUME GP!Named, CostInv, NEW via \in Nodes, NEW from \in Edges, NEW to \in Edges
             PROVE  Turns!GetDecimal(from, via, to) =
                       IF Turn(from, via, to) \in DOMAIN written
                       THEN written[Turn(from, via, to)] ELSE 0
  BY DEF TurnCostsKept
<1>1. PICK own : Joined(tcRef, own) /\ Recorded(own)
  BY DEF CostInv
<1>2. PICK found : found = Turns!FindEntry(from, via, to)
  OBVIOUS
<1>3. Turns!GetDecimal(from, via, to) = IF found = NoEntry THEN 0 ELSE entries[found].flags
  BY <1>2 DEF Turns!GetDecimal, NoEntry
<1>4. \A i \in Slots : /\ i # NoEntry /\ own[i] \in Nodes
                       /\ entries[i].from \in Edges /\ entries[i].to \in Edges
  BY <1>1 DEF CostInv, Joined, Slots, Turns!Indices, NoEntry, Turns!NoTurnEntry, EntryRecord
<1>5. CASE found \in Slots /\ entries[found].from = from /\ entries[found].to = to
           /\ own[found] = via
  <2>1. TurnOf(own, found) = Turn(from, via, to)
    BY <1>5 DEF TurnOf
  <2> QED
    BY <1>1, <1>3, <1>4, <1>5, <2>1 DEF Recorded
<1>6. CASE found = NoEntry /\ \A i \in Slots : ~ (/\ own[i] = via
                                  /\ entries[i].from = from /\ entries[i].to = to)
  <2>1. ASSUME Turn(from, via, to) \in DOMAIN written PROVE FALSE
    <3>1. PICK i \in Slots : Turn(entries[i].from, own[i], entries[i].to) = Turn(from, via, to)
      BY <1>1, <2>1 DEF Recorded, TurnOf
    <3>2. entries[i].from = from /\ own[i] = via /\ entries[i].to = to
      BY <1>4, <3>1, TurnNamesEdges
    <3> QED
      BY <1>6, <3>2
  <2> QED
    BY <1>3, <1>6, <2>1
<1> QED
  BY <1>1, <1>2, <1>5, <1>6, FindEntryFinds

\* The lists share the entries out among the nodes.
LEMMA CostInvListsOnce == CostInv => EveryEntryListedOnce
<1> DEFINE list(n) == Turns!ListFrom(tcRef[n])
<1> SUFFICES ASSUME CostInv
             PROVE  /\ UNION {ToSet(list(n)) : n \in Nodes} = Slots
                    /\ \A m, n \in Nodes : \A j \in DOMAIN list(m), k \in DOMAIN list(n) :
                           list(m)[j] = list(n)[k] => m = n /\ j = k
                    /\ tcCount = Cardinality(DOMAIN written)
  BY DEF EveryEntryListedOnce, Slots
<1>1. PICK own : Joined(tcRef, own) /\ Recorded(own)
  BY DEF CostInv
<1>2. \A n \in Nodes : ListsOwned(list(n), own, n)
  BY <1>1, ListFromListsOwned DEF CostInv
<1> HIDE DEF list
<1>3. /\ tcCount \in Nat /\ Slots = 0 .. (tcCount - 1)
      /\ \A i \in Slots : own[i] \in Nodes
  BY <1>1 DEF CostInv, Joined, Slots, Turns!Indices
<1>4. \A n \in Nodes : \A i : i \in ToSet(list(n)) <=> i \in Slots /\ own[i] = n
  <2> TAKE n \in Nodes
  <2>1. PICK len \in 0 .. tcCount :
            /\ list(n) \in [1 .. len -> Owned(own, n)]
            /\ \A i \in Owned(own, n) : \E k \in 1 .. len : list(n)[k] = i
    BY <1>2 DEF ListsOwned
  <2>2. ToSet(list(n)) = Owned(own, n)
    BY <2>1 DEF ToSet
  <2> QED
    BY <2>2 DEF Owned
<1>5. UNION {ToSet(list(n)) : n \in Nodes} = Slots
  BY <1>3, <1>4
<1>6. ASSUME NEW m \in Nodes, NEW n \in Nodes,
             NEW j \in DOMAIN list(m), NEW k \in DOMAIN list(n), list(m)[j] = list(n)[k]
      PROVE  m = n /\ j = k
  <2>1. list(m)[j] \in ToSet(list(m)) /\ list(n)[k] \in ToSet(list(n))
    BY DEF ToSet
  <2>2. m = n /\ list(n)[k] \in Int
    BY <1>3, <1>4, <1>6, <2>1
  <2>3. PICK len \in 0 .. tcCount :
            /\ DOMAIN list(n) = 1 .. len
            /\ \A a, b \in 1 .. len : a < b => list(n)[a] < list(n)[b]
    BY <1>2 DEF ListsOwned
  <2>4. j \in 1 .. len /\ k \in 1 .. len /\ list(n)[j] = list(n)[k]
    BY <1>6, <2>2, <2>3
  <2>5. ~ (j < k) /\ ~ (k < j)
    BY <2>2, <2>3, <2>4
  <2> QED
    BY <2>2, <2>4, <2>5
<1>7. tcCount = Cardinality(DOMAIN written)
  <2> DEFINE g == [i \in Slots |-> TurnOf(own, i)]
  <2>1. /\ g \in [Slots -> DOMAIN written]
        /\ \A i, j \in Slots : g[i] = g[j] => i = j
        /\ \A t \in DOMAIN written : \E i \in Slots : g[i] = t
    BY <1>1 DEF Recorded
  <2> HIDE DEF g
  <2>2. g \in Bijection(Slots, DOMAIN written)
    BY <2>1 DEF Bijection, Injection, Surjection, IsInjective
  <2>3. ExistsBijection(Slots, DOMAIN written)
    BY <2>2 DEF ExistsBijection
  <2>4. IsFiniteSet(Slots) /\ Cardinality(Slots) = tcCount
    BY <1>3, FS_Interval
  <2> QED
    BY <2>3, <2>4, FS_Bijection
<1> QED
  BY <1>5, <1>6, <1>7

-----------------------------------------------------------------------------
\* Turn costs while the graph is built.

\* A graph without nodes has no turn costs.
LEMMA CostInit == Init => CostInv
<1> SUFFICES ASSUME Init PROVE CostInv
  OBVIOUS
<1>1. /\ tcCount = 0 /\ DOMAIN tcRef = {} /\ DOMAIN entries = {} /\ DOMAIN written = {}
      /\ entries = [i \in {} |-> [from |-> 0, to |-> 0, flags |-> 0, next |-> -1]]
  BY DEF Init, Turns!Init, Turns!NoTurnEntry
<1>2. Slots = {} /\ Nodes = {}
  <2>1. nodeCount = 0
    BY GraphOperators DEF Init, GP!Init
  <2> QED
    BY <1>1, <2>1, GraphOperators DEF Slots, Turns!Indices, Nodes, GP!Nodes
<1> DEFINE own == [i \in {} |-> 0]
<1>3. Joined(tcRef, own)
  BY <1>1, <1>2 DEF Joined
<1>4. Recorded(own)
  BY <1>1, <1>2 DEF Recorded
<1>5. entries \in [Slots -> EntryRecord]
  BY <1>1, <1>2
<1> QED
  BY <1>1, <1>2, <1>3, <1>4, <1>5 DEF CostInv

\* Nodes and edges may be added as long as the known ones keep their tags.
LEMMA CostsStay ==
    ASSUME CostInv, UNCHANGED <<tcCount, entries, written>>,
           Nodes \subseteq Nodes', Edges \subseteq Edges',
           \A n \in Nodes : nodes'[n].tag = nodes[n].tag,
           \A e \in Edges : edges'[e].tag = edges[e].tag,
           DOMAIN tcRef' = Nodes',
           \A n \in Nodes' : tcRef'[n] = IF n \in Nodes THEN tcRef[n] ELSE NoEntry
    PROVE  CostInv'
<1>1. PICK own : Joined(tcRef, own) /\ Recorded(own)
  BY DEF CostInv
<1>2. Slots' = Slots /\ EntryRefs' = EntryRefs /\ NoEntry' = NoEntry
  BY DEF Slots, EntryRefs, Turns!Indices, NoEntry, Turns!NoTurnEntry
<1>3. \A n : Owned(own, n)' = Owned(own, n)
  BY <1>2 DEF Owned
<1>4. \A i : Later(own, i)' = Later(own, i)
  BY <1>2 DEF Later
<1>5. own \in [Slots -> Nodes]
  BY <1>1 DEF Joined, CostInv
<1>6. \A n \in Nodes' : IsLowest(tcRef[n], Owned(own, n))'
  <2> TAKE n \in Nodes'
  <2>1. CASE n \in Nodes
    BY <1>1, <1>2, <1>3, <2>1 DEF Joined, IsLowest, CostInv
  <2>2. CASE n \notin Nodes
    <3>1. Owned(own, n) = {}
      BY <1>5, <2>2 DEF Owned
    <3> QED
      BY <1>2, <1>3, <2>2, <3>1 DEF IsLowest
  <2> QED
    BY <2>1, <2>2
<1>7. Joined(tcRef, own)'
  BY <1>1, <1>2, <1>4, <1>5, <1>6 DEF Joined, IsLowest
<1>8. \A i \in Slots : TurnOf(own, i)' = TurnOf(own, i)
  <2> TAKE i \in Slots
  <2>1. entries[i].from \in Edges /\ entries[i].to \in Edges /\ own[i] \in Nodes
    BY <1>5 DEF CostInv, EntryRecord
  <2> QED
    BY <2>1 DEF TurnOf, Turn
<1>9. Recorded(own)'
  BY <1>1, <1>2, <1>8 DEF Recorded
<1>10. entries' \in [Slots' -> EntryRecord']
  BY <1>2 DEF CostInv, EntryRecord
<1> QED
  BY <1>7, <1>9, <1>10 DEF CostInv

\* The value of an entry that is there already changes.
LEMMA CostOverwritten ==
    ASSUME CostInv, UNCHANGED <<graphVars, tcRef, tcCount>>,
           NEW own, Joined(tcRef, own), Recorded(own),
           NEW x \in Slots, NEW cost \in Costs, entries' = [entries EXCEPT ![x].flags = cost],
           written' = [t \in DOMAIN written \cup {TurnOf(own, x)} |->
                          IF t = TurnOf(own, x) THEN cost ELSE written[t]]
    PROVE  CostInv'
<1>1. Slots' = Slots /\ EntryRefs' = EntryRefs /\ NoEntry' = NoEntry /\ EntryRecord' = EntryRecord
      /\ Nodes' = Nodes /\ Edges' = Edges /\ nodes' = nodes /\ edges' = edges
  BY DEF Slots, EntryRefs, Turns!Indices, NoEntry, Turns!NoTurnEntry, graphVars,
         Nodes, Edges, Graph!Nodes, Graph!Edges, EntryRecord
<1>2. entries \in [Slots -> EntryRecord]
  BY DEF CostInv
<1>3. /\ entries' \in [Slots -> EntryRecord]
      /\ \A i \in Slots : /\ entries'[i].next = entries[i].next
                          /\ entries'[i].from = entries[i].from
                          /\ entries'[i].to = entries[i].to
                          /\ entries'[i].flags = IF i = x THEN cost ELSE entries[i].flags
  BY <1>2 DEF EntryRecord
<1>4. Joined(tcRef, own)'
  <2>1. \A n : Owned(own, n)' = Owned(own, n)
    BY <1>1 DEF Owned
  <2>2. \A i : Later(own, i)' = Later(own, i)
    BY <1>1 DEF Later
  <2> QED
    BY <1>1, <1>3, <2>1, <2>2 DEF Joined, IsLowest
<1>5. \A i \in Slots : TurnOf(own, i)' = TurnOf(own, i)
  BY <1>1, <1>3 DEF TurnOf, Turn
<1>6. Recorded(own)'
  <2>1. DOMAIN written' = DOMAIN written /\ TurnOf(own, x) \in DOMAIN written
    BY DEF Recorded
  <2>2. ASSUME NEW i \in Slots
        PROVE  /\ TurnOf(own, i)' \in DOMAIN written'
               /\ written'[TurnOf(own, i)'] = entries'[i].flags
    <3>1. TurnOf(own, i) \in DOMAIN written /\ written[TurnOf(own, i)] = entries[i].flags
      BY DEF Recorded
    <3>2. TurnOf(own, i) = TurnOf(own, x) => i = x
      BY DEF Recorded
    <3> QED
      BY <1>3, <1>5, <2>1, <3>1, <3>2
  <2>3. \A t \in DOMAIN written' : \E i \in Slots : TurnOf(own, i)' = t
    BY <1>5, <2>1 DEF Recorded
  <2>4. \A i, j \in Slots : TurnOf(own, i)' = TurnOf(own, j)' => i = j
    BY <1>5 DEF Recorded
  <2> QED
    BY <1>1, <2>2, <2>3, <2>4 DEF Recorded
<1>7. tcCount' \in Nat /\ DOMAIN tcRef' = Nodes'
  BY <1>1 DEF CostInv
<1> QED
  BY <1>1, <1>3, <1>4, <1>6, <1>7 DEF CostInv

\* Whose entry comes last, and whether there is one, as SetDecimal sees it.
LEMMA LastOfList ==
    ASSUME CostInv, NEW own, Joined(tcRef, own), NEW via \in Nodes
    PROVE  /\ Turns!ListFrom(tcRef[via]) = << >> <=> Owned(own, via) = {}
           /\ Owned(own, via) # {} =>
                 /\ Last(Turns!ListFrom(tcRef[via])) \in Owned(own, via)
                 /\ \A i \in Owned(own, via) :
                       i = Last(Turns!ListFrom(tcRef[via])) <=> entries[i].next = NoEntry
<1> DEFINE list == Turns!ListFrom(tcRef[via])
<1>1. ListsOwned(list, own, via)
  BY ListFromListsOwned DEF CostInv
<1> HIDE DEF list
<1>2. PICK len \in Nat :
          /\ list \in [1 .. len -> Owned(own, via)]
          /\ \A i \in Owned(own, via) : \E k \in 1 .. len : list[k] = i
          /\ \A k \in 1 .. len : (k = len) <=> (entries[list[k]].next = NoEntry)
  BY <1>1 DEF ListsOwned, CostInv
<1>3. list \in Seq(Owned(own, via)) /\ Len(list) = len
  BY <1>2
<1>4. list = << >> <=> len = 0
  BY <1>3, EmptySeq
<1>5. list = << >> <=> Owned(own, via) = {}
  <2>1. CASE len = 0
    BY <1>2, <1>4, <2>1
  <2>2. CASE len # 0
    <3>1. 1 \in 1 .. len
      BY <2>2
    <3> QED
      BY <1>2, <1>4, <2>2, <3>1
  <2> QED
    BY <2>1, <2>2
<1>6. ASSUME Owned(own, via) # {}
      PROVE  /\ Last(list) \in Owned(own, via)
             /\ \A i \in Owned(own, via) : i = Last(list) <=> entries[i].next = NoEntry
  <2>1. len \in 1 .. len /\ Last(list) = list[len]
    BY <1>3, <1>4, <1>5, <1>6 DEF Last
  <2> QED
    BY <1>2, <2>1
<1> QED
  BY <1>5, <1>6 DEF list

\* Where the links lead once an entry has been appended to via's list.
LEMMA JoinedAppended ==
    ASSUME CostInv, NEW own, Joined(tcRef, own), NEW via \in Nodes, tcCount' = tcCount + 1,
           DOMAIN tcRef' = Nodes,
           \A n \in Nodes : tcRef'[n] = IF n = via /\ Owned(own, via) = {} THEN tcCount
                                        ELSE tcRef[n],
           \A i \in Slots : entries'[i].next =
               IF own[i] = via /\ entries[i].next = NoEntry THEN tcCount ELSE entries[i].next,
           entries'[tcCount].next = NoEntry,
           NEW new, new = [i \in 0 .. tcCount |-> IF i = tcCount THEN via ELSE own[i]]
    PROVE  Joined(tcRef, new)'
<1>1. /\ tcCount \in Nat /\ Slots = 0 .. (tcCount - 1) /\ tcCount \notin Slots
      /\ NoEntry = -1 /\ NoEntry \notin Slots
  BY DEF CostInv, Slots, Turns!Indices, NoEntry, Turns!NoTurnEntry
<1>2. Slots' = Slots \cup {tcCount} /\ NoEntry' = NoEntry
  BY <1>1 DEF Slots, Turns!Indices, NoEntry, Turns!NoTurnEntry
<1>3. /\ own \in [Slots -> Nodes] /\ \A n \in Nodes : IsLowest(tcRef[n], Owned(own, n))
      /\ \A i \in Slots : IsLowest(entries[i].next, Later(own, i))
  BY DEF Joined, CostInv
<1>4. /\ new \in [Slots' -> Nodes] /\ new[tcCount] = via
      /\ \A i \in Slots : new[i] = own[i]
  BY <1>1, <1>2, <1>3
<1>5. ASSUME NEW n \in Nodes PROVE IsLowest(tcRef'[n], Owned(new, n)')
  <2>1. Owned(new, n)' = Owned(own, n) \cup (IF n = via THEN {tcCount} ELSE {})
    BY <1>2, <1>4 DEF Owned
  <2>2. \A i \in Owned(own, n) : i < tcCount
    BY <1>1 DEF Owned
  <2>3. CASE n # via
    BY <1>3, <2>1, <2>3
  <2>4. CASE n = via /\ Owned(own, via) = {}
    <3>1. Owned(new, n)' = {tcCount} /\ tcRef'[n] = tcCount
      BY <2>1, <2>4
    <3>2. IsLowest(tcCount, {tcCount})
      BY <1>1 DEF IsLowest
    <3> QED
      BY <3>1, <3>2
  <2>5. CASE n = via /\ Owned(own, via) # {}
    <3>1. tcRef'[n] = tcRef[n] /\ Owned(new, n)' = Owned(own, n) \cup {tcCount}
      BY <2>1, <2>5
    <3>2. tcRef[n] \in Owned(own, n) /\ \A j \in Owned(own, n) : tcRef[n] <= j
      BY <1>3, <2>5 DEF IsLowest
    <3>3. tcRef[n] <= tcCount
      BY <1>1, <2>2, <3>2 DEF Owned
    <3> QED
      BY <3>1, <3>2, <3>3 DEF IsLowest
  <2> QED
    BY <2>3, <2>4, <2>5
<1>6. ASSUME NEW i \in Slots PROVE IsLowest(entries'[i].next, Later(new, i)')
  <2>1. Later(new, i)' = Later(own, i) \cup (IF own[i] = via THEN {tcCount} ELSE {})
    BY <1>1, <1>2, <1>4 DEF Later
  <2>2. \A j \in Later(own, i) : j < tcCount /\ j \in Slots
    BY <1>1 DEF Later
  <2>3. entries[i].next = NoEntry <=> Later(own, i) = {}
    BY <1>1, <1>3, <2>2 DEF IsLowest
  <2>4. CASE own[i] # via
    BY <1>3, <2>1, <2>4
  <2>5. CASE own[i] = via /\ Later(own, i) = {}
    <3>1. Later(new, i)' = {tcCount} /\ entries'[i].next = tcCount
      BY <2>1, <2>3, <2>5
    <3> QED
      BY <1>1, <3>1 DEF IsLowest
  <2>6. CASE own[i] = via /\ Later(own, i) # {}
    <3>1. /\ entries'[i].next = entries[i].next
          /\ Later(new, i)' = Later(own, i) \cup {tcCount}
      BY <2>1, <2>3, <2>6
    <3>2. /\ entries[i].next \in Later(own, i)
          /\ \A j \in Later(own, i) : entries[i].next <= j
      BY <1>3, <2>6 DEF IsLowest
    <3>3. entries[i].next <= tcCount
      BY <1>1, <2>2, <3>2
    <3> QED
      BY <3>1, <3>2, <3>3 DEF IsLowest
  <2> QED
    BY <2>4, <2>5, <2>6
<1>7. ASSUME NEW c, c = tcCount PROVE IsLowest(entries'[c].next, Later(new, c)')
  <2>1. Later(new, c)' = {}
    BY <1>1, <1>2, <1>7 DEF Later
  <2> QED
    BY <1>7, <2>1 DEF IsLowest
<1>8. \A n \in Nodes : IsLowest(tcRef[n], Owned(new, n))'
  BY <1>2, <1>5 DEF IsLowest
<1>9. \A i \in Slots' : IsLowest(entries[i].next, Later(new, i))'
  <2>1. \A i \in Slots' : IsLowest(entries'[i].next, Later(new, i)')
    <3> TAKE i \in Slots'
    <3>1. CASE i \in Slots
      BY <1>6, <3>1
    <3>2. CASE i = tcCount
      BY <1>7, <3>2
    <3> QED
      BY <1>2, <3>1, <3>2
  <2> QED
    BY <1>2, <2>1 DEF IsLowest
<1> QED
  BY <1>4, <1>8, <1>9 DEF Joined, IsLowest

\* A turn that had no cost gets an entry of its own.
LEMMA CostAppended ==
    ASSUME GP!Named, CostInv, UNCHANGED graphVars,
           NEW own, Joined(tcRef, own), Recorded(own),
           NEW from \in Edges, NEW to \in Edges, NEW via \in Nodes, NEW cost \in Costs,
           \A i \in Slots : ~ (own[i] = via /\ entries[i].from = from /\ entries[i].to = to),
           Turns!FindEntry(from, via, to) = NoEntry,
           Turns!SetDecimal(from, via, to, cost),
           written' = [t \in DOMAIN written \cup {Turn(from, via, to)} |->
                          IF t = Turn(from, via, to) THEN cost ELSE written[t]]
    PROVE  CostInv'
<1> DEFINE list == Turns!ListFrom(tcRef[via])
           new == [from |-> from, to |-> to, flags |-> cost, next |-> NoEntry]
           own2 == [i \in 0 .. tcCount |-> IF i = tcCount THEN via ELSE own[i]]
           turn == Turn(from, via, to)
<1>1. /\ tcCount \in Nat /\ Slots = 0 .. (tcCount - 1) /\ tcCount \notin Slots
      /\ NoEntry = -1 /\ NoEntry \notin Slots /\ DOMAIN tcRef = Nodes
      /\ entries \in [Slots -> EntryRecord]
  BY DEF CostInv, Slots, Turns!Indices, NoEntry, Turns!NoTurnEntry
<1>2. own \in [Slots -> Nodes]
  BY DEF Joined, CostInv
<1>3. /\ tcCount' = tcCount + 1
      /\ IF list = << >>
         THEN /\ tcRef' = [tcRef EXCEPT ![via] = tcCount]
              /\ entries' = [i \in 0 .. tcCount |-> IF i = tcCount THEN new ELSE entries[i]]
         ELSE /\ tcRef' = tcRef
              /\ entries' = [i \in 0 .. tcCount |->
                                IF i = tcCount THEN new
                                ELSE IF i = Last(list)
                                     THEN [entries[i] EXCEPT !.next = tcCount]
                                     ELSE entries[i]]
  <2>1. Turns!FindEntry(from, via, to) = Turns!NoTurnEntry
    BY DEF NoEntry
  <2>2. CASE list = << >>
    <3>1. /\ tcCount' = tcCount + 1
          /\ tcRef' = [tcRef EXCEPT ![via] = tcCount]
          /\ entries' = [i \in 0 .. tcCount |-> IF i = tcCount THEN new ELSE entries[i]]
      BY <2>1, <2>2 DEF Turns!SetDecimal, NoEntry
    <3> QED
      BY <2>2, <3>1
  <2>3. CASE list # << >>
    <3>1. /\ tcCount' = tcCount + 1 /\ tcRef' = tcRef
          /\ entries' = [i \in 0 .. tcCount |->
                            IF i = tcCount THEN new
                            ELSE IF i = Last(list)
                                 THEN [entries[i] EXCEPT !.next = tcCount]
                                 ELSE entries[i]]
      BY <2>1, <2>3 DEF Turns!SetDecimal, NoEntry, Turns!Last, Last
    <3> QED
      BY <2>3, <3>1
  <2> QED
    BY <2>2, <2>3
<1>4. /\ list = << >> <=> Owned(own, via) = {}
      /\ Owned(own, via) # {} =>
            /\ Last(list) \in Owned(own, via)
            /\ \A i \in Owned(own, via) : i = Last(list) <=> entries[i].next = NoEntry
  BY LastOfList
<1> HIDE DEF list
<1>5. /\ Slots' = Slots \cup {tcCount} /\ Slots' = 0 .. tcCount /\ NoEntry' = NoEntry
      /\ Nodes' = Nodes /\ Edges' = Edges /\ nodes' = nodes /\ edges' = edges
  BY <1>1, <1>3 DEF Slots, Turns!Indices, NoEntry, Turns!NoTurnEntry, graphVars,
         Nodes, Edges, Graph!Nodes, Graph!Edges
<1>6. EntryRefs' = EntryRefs \cup {tcCount}
  BY <1>5 DEF EntryRefs
<1>7. \A i : i \in Owned(own, via) <=> i \in Slots /\ own[i] = via
  BY DEF Owned
<1>8. ASSUME NEW i \in Slots
      PROVE  /\ entries'[i] \in EntryRecord'
             /\ entries'[i].from = entries[i].from /\ entries'[i].to = entries[i].to
             /\ entries'[i].flags = entries[i].flags
             /\ entries'[i].next = IF own[i] = via /\ entries[i].next = NoEntry THEN tcCount
                                   ELSE entries[i].next
  <2>1. /\ entries[i] \in [from : Edges, to : Edges, flags : Costs, next : EntryRefs]
        /\ i \in 0 .. tcCount /\ i # tcCount
    BY <1>1 DEF EntryRecord
  <2>2. EntryRecord' = [from : Edges, to : Edges, flags : Costs, next : EntryRefs \cup {tcCount}]
    BY <1>5, <1>6 DEF EntryRecord
  <2>3. CASE own[i] = via /\ entries[i].next = NoEntry
    <3>1. list # << >> /\ i = Last(list)
      BY <1>4, <1>7, <2>3
    <3>2. entries'[i] = [entries[i] EXCEPT !.next = tcCount]
      BY <1>3, <2>1, <3>1
    <3> QED
      BY <2>1, <2>2, <2>3, <3>2
  <2>4. CASE ~ (own[i] = via /\ entries[i].next = NoEntry)
    <3>1. list = << >> \/ i # Last(list)
      BY <1>4, <1>7, <2>4
    <3>2. entries'[i] = entries[i]
      BY <1>3, <2>1, <3>1
    <3> QED
      BY <2>1, <2>2, <2>4, <3>2
  <2> QED
    BY <2>3, <2>4
<1>9. entries'[tcCount] = new /\ DOMAIN entries' = Slots'
  BY <1>1, <1>3, <1>5
<1>10. entries' \in [Slots' -> EntryRecord']
  <2>1. \A i \in Slots : entries'[i] \in EntryRecord'
    BY <1>8
  <2>2. new \in EntryRecord'
    BY <1>5, <1>6 DEF EntryRecord, EntryRefs
  <2>3. \A i \in Slots' : entries'[i] \in EntryRecord'
    BY <1>5, <1>9, <2>1, <2>2
  <2>4. entries' = [i \in Slots' |-> entries'[i]]
    BY <1>3, <1>5
  <2> QED
    BY <2>3, <2>4
<1>11. /\ DOMAIN tcRef' = Nodes
       /\ \A n \in Nodes : tcRef'[n] = IF n = via /\ Owned(own, via) = {} THEN tcCount
                                       ELSE tcRef[n]
  BY <1>1, <1>3, <1>4
<1>12. PICK o : o = own2
  OBVIOUS
<1>13. \A i \in Slots : o[i] = own[i]
  BY <1>1, <1>12
<1>14. Joined(tcRef, o)'
  <2>1. \A i \in Slots : entries'[i].next =
            IF own[i] = via /\ entries[i].next = NoEntry THEN tcCount ELSE entries[i].next
    BY <1>8
  <2>2. entries'[tcCount].next = NoEntry
    BY <1>9
  <2> QED
    BY <1>3, <1>11, <1>12, <2>1, <2>2, JoinedAppended
<1>15. \A i \in Slots : TurnOf(o, i)' = TurnOf(own, i)
  BY <1>5, <1>8, <1>13 DEF TurnOf, Turn
<1>16. \A c : c = tcCount => TurnOf(o, c)' = turn
  BY <1>5, <1>9, <1>12 DEF TurnOf, Turn
<1>17. \A i \in Slots : TurnOf(own, i) # turn
  <2> SUFFICES ASSUME NEW i \in Slots, TurnOf(own, i) = turn PROVE FALSE
    OBVIOUS
  <2>1. entries[i].from \in Edges /\ entries[i].to \in Edges /\ own[i] \in Nodes
    BY <1>1, <1>2 DEF EntryRecord
  <2>2. entries[i].from = from /\ own[i] = via /\ entries[i].to = to
    BY <2>1, TurnNamesEdges DEF TurnOf
  <2> QED
    BY <2>2
<1> HIDE DEF turn
<1>18. /\ DOMAIN written' = DOMAIN written \cup {turn} /\ written'[turn] = cost
       /\ \A t \in DOMAIN written : t # turn => written'[t] = written[t]
  BY DEF turn
<1>19. Recorded(o)'
  <2>1. ASSUME NEW i \in Slots'
        PROVE  /\ TurnOf(o, i)' \in DOMAIN written'
               /\ written'[TurnOf(o, i)'] = entries'[i].flags
    <3>1. CASE i \in Slots
      <4>1. TurnOf(own, i) \in DOMAIN written /\ written[TurnOf(own, i)] = entries[i].flags
        BY <3>1 DEF Recorded
      <4> QED
        BY <1>8, <1>15, <1>17, <1>18, <3>1, <4>1
    <3>2. CASE i = tcCount
      BY <1>9, <1>16, <1>18, <3>2
    <3> QED
      BY <1>5, <3>1, <3>2
  <2>2. ASSUME NEW t \in DOMAIN written' PROVE \E i \in Slots' : TurnOf(o, i)' = t
    <3>1. CASE t = turn
      <4>1. PICK c : c = tcCount
        OBVIOUS
      <4> QED
        BY <1>5, <1>16, <3>1, <4>1
    <3>2. CASE t \in DOMAIN written
      <4>1. PICK i \in Slots : TurnOf(own, i) = t
        BY <3>2 DEF Recorded
      <4> QED
        BY <1>5, <1>15, <4>1
    <3> QED
      BY <1>18, <3>1, <3>2
  <2>3. ASSUME NEW i \in Slots', NEW j \in Slots', TurnOf(o, i)' = TurnOf(o, j)' PROVE i = j
    <3>1. CASE i \in Slots /\ j \in Slots
      BY <1>15, <2>3, <3>1 DEF Recorded
    <3>2. CASE i \in Slots /\ j = tcCount
      BY <1>15, <1>16, <1>17, <2>3, <3>2
    <3>3. CASE i = tcCount /\ j \in Slots
      BY <1>15, <1>16, <1>17, <2>3, <3>3
    <3> QED
      BY <1>5, <3>1, <3>2, <3>3
  <2> QED
    BY <2>1, <2>2, <2>3 DEF Recorded
<1> QED
  BY <1>1, <1>3, <1>5, <1>10, <1>11, <1>14, <1>19 DEF CostInv

\* SetDecimal and SetBool leave one entry with the new cost for the turn.
LEMMA CostSet ==
    ASSUME GP!Named, CostInv, NEW via \in Nodes, NEW cost \in Costs,
           NEW from \in Edges, NEW to \in Edges, SetTurnCost(from, via, to, cost)
    PROVE  CostInv'
<1>1. PICK own : Joined(tcRef, own) /\ Recorded(own)
  BY DEF CostInv
<1>2. /\ Turns!SetDecimal(from, via, to, cost) /\ UNCHANGED graphVars
      /\ written' = [t \in DOMAIN written \cup {Turn(from, via, to)} |->
                        IF t = Turn(from, via, to) THEN cost ELSE written[t]]
  BY DEF SetTurnCost
<1>3. PICK x : x = Turns!FindEntry(from, via, to)
  OBVIOUS
<1>4. CASE x \in Slots /\ entries[x].from = from /\ entries[x].to = to /\ own[x] = via
  <2>1. x # NoEntry
    BY <1>4 DEF CostInv, Slots, Turns!Indices, NoEntry, Turns!NoTurnEntry
  <2>2. entries' = [entries EXCEPT ![x].flags = cost] /\ UNCHANGED <<tcRef, tcCount>>
    BY <1>2, <1>3, <2>1 DEF Turns!SetDecimal, NoEntry
  <2>3. TurnOf(own, x) = Turn(from, via, to)
    BY <1>4 DEF TurnOf
  <2>4. written' = [t \in DOMAIN written \cup {TurnOf(own, x)} |->
                       IF t = TurnOf(own, x) THEN cost ELSE written[t]]
    BY <1>2, <2>3
  <2>5. UNCHANGED <<graphVars, tcRef, tcCount>>
    BY <1>2, <2>2
  <2>6. x \in Slots /\ entries' = [entries EXCEPT ![x].flags = cost]
    BY <1>4, <2>2
  <2> QED
    BY <1>1, <2>4, <2>5, <2>6, CostOverwritten
<1>5. CASE /\ x = NoEntry
           /\ \A i \in Slots : ~ (/\ own[i] = via
                                  /\ entries[i].from = from /\ entries[i].to = to)
  <2>1. Turns!FindEntry(from, via, to) = NoEntry
    BY <1>3, <1>5
  <2>2. \A i \in Slots : ~ (own[i] = via /\ entries[i].from = from /\ entries[i].to = to)
    BY <1>5
  <2> QED
    BY <1>1, <1>2, <2>1, <2>2, CostAppended
<1> QED
  BY <1>1, <1>3, <1>4, <1>5, FindEntryFinds

-----------------------------------------------------------------------------
\* Turn costs in a sort.

\* SortEdges of the turn costs follows that of the graph.
LEMMA CostsFollowEdges ==
    ASSUME CostInv, NEW p \in [Edges -> Edges], Turns!SortEdges(p),
           Edges' = Edges, Nodes' = Nodes, written' = written,
           \A e \in Edges : edges'[p[e]].tag = edges[e].tag,
           \A n \in Nodes : nodes'[n].tag = nodes[n].tag
    PROVE  CostInv'
<1>1. PICK own : Joined(tcRef, own) /\ Recorded(own)
  BY DEF CostInv
<1>2. entries \in [Slots -> EntryRecord] /\ own \in [Slots -> Nodes]
  BY <1>1 DEF CostInv, Joined
<1>3. /\ tcRef' = tcRef /\ tcCount' = tcCount
      /\ entries' = [i \in Slots |-> [entries[i] EXCEPT !.from = p[entries[i].from],
                                                        !.to = p[entries[i].to]]]
  BY DEF Turns!SortEdges, Slots
<1>4. Slots' = Slots /\ EntryRefs' = EntryRefs /\ NoEntry' = NoEntry /\ EntryRecord' = EntryRecord
  BY <1>3 DEF Slots, EntryRefs, Turns!Indices, NoEntry, Turns!NoTurnEntry, EntryRecord
<1>5. ASSUME NEW i \in Slots
      PROVE  /\ entries'[i] \in EntryRecord
             /\ entries'[i].from = p[entries[i].from] /\ entries'[i].to = p[entries[i].to]
             /\ entries'[i].flags = entries[i].flags /\ entries'[i].next = entries[i].next
             /\ entries[i].from \in Edges /\ entries[i].to \in Edges
  <2>1. entries[i] \in [from : Edges, to : Edges, flags : Costs, next : EntryRefs]
    BY <1>2 DEF EntryRecord
  <2>2. p[entries[i].from] \in Edges /\ p[entries[i].to] \in Edges
    BY <2>1
  <2>3. entries'[i] = [entries[i] EXCEPT !.from = p[entries[i].from], !.to = p[entries[i].to]]
    BY <1>3
  <2> QED
    BY <2>1, <2>2, <2>3 DEF EntryRecord
<1>6. entries' \in [Slots' -> EntryRecord']
  BY <1>3, <1>4, <1>5
<1>7. Joined(tcRef, own)'
  <2>1. \A n : Owned(own, n)' = Owned(own, n)
    BY <1>4 DEF Owned
  <2>2. \A i : Later(own, i)' = Later(own, i)
    BY <1>4 DEF Later
  <2>3. \A n \in DOMAIN tcRef : IsLowest(tcRef[n], Owned(own, n))'
    BY <1>1, <1>3, <1>4, <2>1 DEF Joined, IsLowest
  <2>4. \A i \in Slots : entries'[i].next = entries[i].next
    BY <1>5
  <2>5. \A i \in Slots : IsLowest(entries[i].next, Later(own, i))'
    BY <1>1, <1>4, <2>2, <2>4 DEF Joined, IsLowest
  <2>6. own \in [Slots' -> DOMAIN tcRef']
    BY <1>1, <1>3, <1>4 DEF Joined
  <2> QED
    BY <1>3, <1>4, <2>3, <2>5, <2>6 DEF Joined
<1>8. \A i \in Slots : TurnOf(own, i)' = TurnOf(own, i)
  <2> TAKE i \in Slots
  <2>1. own[i] \in Nodes
    BY <1>2
  <2>2. /\ edges'[entries'[i].from].tag = edges[entries[i].from].tag
        /\ edges'[entries'[i].to].tag = edges[entries[i].to].tag
        /\ nodes'[own[i]].tag = nodes[own[i]].tag
    BY <1>5, <2>1
  <2> QED
    BY <2>2 DEF TurnOf, Turn
<1>9. Recorded(own)'
  BY <1>1, <1>4, <1>5, <1>8 DEF Recorded
<1>10. tcCount' \in Nat /\ DOMAIN tcRef' = Nodes'
  BY <1>3 DEF CostInv
<1> QED
  BY <1>6, <1>7, <1>9, <1>10 DEF CostInv

\* The place after p in p's list.
Succ(p) == <<p[1], p[2] + 1>>

\* The entry at place p.
EntryAt(ref, p) == Turns!ListFrom(ref[p[1]])[p[2]]

\* The places SortNodes goes through hold all entries, each once.
LEMMA ListedPlaces ==
    ASSUME tcCount \in Nat, NEW ref, DOMAIN ref \subseteq Int, IsFiniteSet(DOMAIN ref),
           NEW own, Joined(ref, own)
    PROVE  LET listed == Turns!Listed(ref)
           IN  /\ listed \subseteq Int \X Int /\ IsFiniteSet(listed)
               /\ \A p \in listed : /\ p = <<p[1], p[2]>> /\ p[1] \in DOMAIN ref
                                    /\ p[2] \in Nat /\ p[2] >= 1
                                    /\ EntryAt(ref, p) \in Slots
                                    /\ own[EntryAt(ref, p)] = p[1]
                                    /\ <<p[1], 1>> \in listed
                                    /\ entries[EntryAt(ref, p)].next = NoEntry
                                          <=> Succ(p) \notin listed
               /\ \A p, q \in listed : EntryAt(ref, p) = EntryAt(ref, q) => p = q
               /\ \A i \in Slots : \E p \in listed : EntryAt(ref, p) = i
               /\ \A p, q \in listed : p[1] = q[1] /\ p[2] < q[2] => Succ(p) \in listed
               /\ \A n \in DOMAIN ref :
                     Turns!ListFrom(ref[n]) = << >> <=> <<n, 1>> \notin listed
<1> DEFINE listed == Turns!Listed(ref)
           list == [n \in DOMAIN ref |-> Turns!ListFrom(ref[n])]
<1>1. /\ Slots \subseteq Int /\ own \in [Slots -> DOMAIN ref] /\ 1 .. tcCount \subseteq Nat
      /\ \A n \in DOMAIN ref : IsLowest(ref[n], Owned(own, n))
  BY DEF Joined, Slots, Turns!Indices
<1>2. \A n \in DOMAIN ref : ListsOwned(list[n], own, n) /\ list[n] = Turns!ListFrom(ref[n])
  BY ListFromListsOwned
<1>3. listed = {p \in (DOMAIN ref) \X (1 .. tcCount) : p[2] \in DOMAIN list[p[1]]}
  BY DEF Turns!Listed
<1> HIDE DEF list, listed
<1>4. listed \subseteq Int \X Int /\ IsFiniteSet(listed)
  <2>1. IsFiniteSet(1 .. tcCount)
    BY FS_Interval
  <2>2. IsFiniteSet((DOMAIN ref) \X (1 .. tcCount))
    BY <2>1, FS_Product
  <2>3. listed \in SUBSET ((DOMAIN ref) \X (1 .. tcCount))
    BY <1>3
  <2>4. IsFiniteSet(listed)
    BY <2>2, <2>3, FS_Subset
  <2> QED
    BY <1>1, <2>3, <2>4
<1>5. ASSUME NEW n \in DOMAIN ref
      PROVE  \E len \in 0 .. tcCount :
                /\ list[n] \in [1 .. len -> Owned(own, n)]
                /\ \A i \in Owned(own, n) : \E k \in 1 .. len : list[n][k] = i
                /\ \A j, k \in 1 .. len : j < k => list[n][j] < list[n][k]
                /\ \A k \in 1 .. len : (k = len) <=> (entries[list[n][k]].next = NoEntry)
                /\ \A k : <<n, k>> \in listed <=> k \in 1 .. len
                /\ list[n] = << >> <=> len = 0
  <2>1. PICK len \in 0 .. tcCount :
                /\ list[n] \in [1 .. len -> Owned(own, n)]
                /\ \A i \in Owned(own, n) : \E k \in 1 .. len : list[n][k] = i
                /\ \A j, k \in 1 .. len : j < k => list[n][j] < list[n][k]
                /\ \A k \in 1 .. len : (k = len) <=> (entries[list[n][k]].next = NoEntry)
    BY <1>2 DEF ListsOwned
  <2>2. \A k : <<n, k>> \in listed <=> k \in 1 .. len
    <3> TAKE k
    <3>1. k \in 1 .. len => k \in 1 .. tcCount
      OBVIOUS
    <3>2. DOMAIN list[n] = 1 .. len
      BY <2>1
    <3> QED
      BY <1>3, <3>1, <3>2
  <2>3. list[n] = << >> <=> len = 0
    <3>1. list[n] \in Seq(Owned(own, n)) /\ Len(list[n]) = len
      BY <2>1
    <3> QED
      BY <3>1, EmptySeq
  <2> QED
    BY <2>1, <2>2, <2>3
<1>6. ASSUME NEW p \in listed
      PROVE  /\ p = <<p[1], p[2]>> /\ p[1] \in DOMAIN ref
             /\ p[2] \in Nat /\ p[2] >= 1
             /\ list[p[1]][p[2]] \in Slots /\ own[list[p[1]][p[2]]] = p[1]
             /\ <<p[1], 1>> \in listed
             /\ entries[list[p[1]][p[2]]].next = NoEntry <=> Succ(p) \notin listed
  <2>1. p = <<p[1], p[2]>> /\ p[1] \in DOMAIN ref
    BY <1>3
  <2>2. PICK len \in 0 .. tcCount :
            /\ list[p[1]] \in [1 .. len -> Owned(own, p[1])]
            /\ \A k \in 1 .. len : (k = len) <=> (entries[list[p[1]][k]].next = NoEntry)
            /\ \A k : <<p[1], k>> \in listed <=> k \in 1 .. len
    BY <1>5, <2>1
  <2>3. p[2] \in 1 .. len
    BY <2>1, <2>2
  <2>4. list[p[1]][p[2]] \in Owned(own, p[1])
    BY <2>2, <2>3
  <2>5. <<p[1], 1>> \in listed
    BY <2>2, <2>3
  <2>6. Succ(p) \in listed <=> p[2] # len
    BY <2>2, <2>3 DEF Succ
  <2> QED
    BY <2>1, <2>2, <2>3, <2>4, <2>5, <2>6 DEF Owned
<1>7. \A p \in listed : EntryAt(ref, p) = list[p[1]][p[2]]
  BY <1>2, <1>6 DEF EntryAt
<1>8. ASSUME NEW p \in listed, NEW q \in listed, list[p[1]][p[2]] = list[q[1]][q[2]]
      PROVE  p = q
  <2>1. p[1] = q[1] /\ p[1] \in DOMAIN ref
    <3>1. \A r \in listed : own[list[r[1]][r[2]]] = r[1] /\ r[1] \in DOMAIN ref
      BY <1>6
    <3> QED
      BY <1>8, <3>1
  <2>2. PICK len \in 0 .. tcCount :
            /\ list[p[1]] \in [1 .. len -> Owned(own, p[1])]
            /\ \A j, k \in 1 .. len : j < k => list[p[1]][j] < list[p[1]][k]
            /\ \A k : <<p[1], k>> \in listed <=> k \in 1 .. len
    BY <1>5, <2>1
  <2>3. p[2] \in 1 .. len /\ q[2] \in 1 .. len
    <3>1. p = <<p[1], p[2]>> /\ q = <<q[1], q[2]>>
      BY <1>6
    <3>2. <<p[1], p[2]>> \in listed /\ <<p[1], q[2]>> \in listed
      BY <2>1, <3>1
    <3> QED
      BY <2>2, <3>2
  <2>4. list[p[1]][p[2]] = list[p[1]][q[2]] /\ list[p[1]][p[2]] \in Int
    BY <1>1, <1>6, <1>8, <2>1
  <2>5. ~ (p[2] < q[2]) /\ ~ (q[2] < p[2])
    BY <2>2, <2>3, <2>4
  <2>6. p[2] = q[2]
    BY <2>3, <2>5
  <2> QED
    BY <1>6, <2>1, <2>6
<1>9. ASSUME NEW i \in Slots PROVE \E p \in listed : list[p[1]][p[2]] = i
  <2>1. PICK n \in DOMAIN ref : n = own[i]
    BY <1>1
  <2>2. i \in Owned(own, n)
    BY <2>1 DEF Owned
  <2>3. PICK k : list[n][k] = i /\ <<n, k>> \in listed
    BY <1>5, <2>2
  <2> QED
    BY <2>3
<1>10. ASSUME NEW p \in listed, NEW q \in listed, p[1] = q[1], p[2] < q[2]
       PROVE  Succ(p) \in listed
  <2>1. PICK len \in 0 .. tcCount : \A k : <<p[1], k>> \in listed <=> k \in 1 .. len
    BY <1>5, <1>6
  <2>2. p[2] \in 1 .. len /\ q[2] \in 1 .. len
    <3>1. p = <<p[1], p[2]>> /\ q = <<q[1], q[2]>>
      BY <1>6
    <3>2. <<p[1], p[2]>> \in listed /\ <<p[1], q[2]>> \in listed
      BY <1>10, <3>1
    <3> QED
      BY <2>1, <3>2
  <2>3. p[2] + 1 \in 1 .. len
    BY <1>10, <2>2
  <2> QED
    BY <2>1, <2>3 DEF Succ
<1>11. \A n \in DOMAIN ref : Turns!ListFrom(ref[n]) = << >> <=> <<n, 1>> \notin listed
  <2> TAKE n \in DOMAIN ref
  <2>1. PICK len \in 0 .. tcCount : /\ \A k : <<n, k>> \in listed <=> k \in 1 .. len
                                    /\ list[n] = << >> <=> len = 0
    BY <1>5
  <2> QED
    BY <1>2, <2>1
<1>12. \A p \in listed : /\ EntryAt(ref, p) \in Slots /\ own[EntryAt(ref, p)] = p[1]
                         /\ entries[EntryAt(ref, p)].next = NoEntry <=> Succ(p) \notin listed
  BY <1>6, <1>7
<1>13. \A p, q \in listed : EntryAt(ref, p) = EntryAt(ref, q) => p = q
  BY <1>7, <1>8
<1>14. \A i \in Slots : \E p \in listed : EntryAt(ref, p) = i
  BY <1>7, <1>9
<1> QED
  BY <1>4, <1>6, <1>10, <1>11, <1>12, <1>13, <1>14 DEF listed

\* The successor of a place comes right after it.
LEMMA PlaceOfSuccessor ==
    ASSUME NEW S, S \subseteq Int \X Int, IsFiniteSet(S), NEW p \in S, Succ(p) \in S
    PROVE  Place(Succ(p), S) = Place(p, S) + 1
<1>1. /\ p = <<p[1], p[2]>> /\ p[1] \in Int /\ p[2] \in Int
      /\ \A q \in S : q = <<q[1], q[2]>> /\ q[1] \in Int /\ q[2] \in Int
  OBVIOUS
<1>2. ASSUME NEW q \in S
      PROVE  q \in Turns!Before(Succ(p), S) <=> q \in Turns!Before(p, S) \/ q = p
  <2>1. q[1] \in Int /\ q[2] \in Int
    BY <1>1
  <2>2. q \in Turns!Before(Succ(p), S) <=> q[1] < p[1] \/ (q[1] = p[1] /\ q[2] < p[2] + 1)
    BY DEF Turns!Before, Succ
  <2>3. q \in Turns!Before(p, S) <=> q[1] < p[1] \/ (q[1] = p[1] /\ q[2] < p[2])
    BY DEF Turns!Before
  <2>4. q = p <=> q[1] = p[1] /\ q[2] = p[2]
    BY <1>1
  <2>5. q[2] < p[2] + 1 <=> q[2] < p[2] \/ q[2] = p[2]
    BY <1>1, <2>1
  <2> QED
    BY <2>2, <2>3, <2>4, <2>5
<1>3. Turns!Before(p, S) \in SUBSET S /\ Turns!Before(Succ(p), S) \in SUBSET S
  BY DEF Turns!Before
<1>4. Turns!Before(Succ(p), S) = Turns!Before(p, S) \cup {p}
  BY <1>2, <1>3
<1>5. IsFiniteSet(Turns!Before(p, S)) /\ p \notin Turns!Before(p, S)
  BY <1>3, FS_Subset, PairsInOrder
<1>6. Cardinality(Turns!Before(p, S) \cup {p}) = Cardinality(Turns!Before(p, S)) + 1
  BY <1>5, FS_AddElement
<1> QED
  BY <1>4, <1>6, PlaceCounts

\* SortNodes moves every entry to the place its list and its node give it: old
\* tells where the entry at an index came from, new whose entry it is.
LEMMA SortNodesMoves ==
    ASSUME tcCount \in Nat, entries \in [Slots -> EntryRecord],
           NEW ref, DOMAIN ref \subseteq Int, IsFiniteSet(DOMAIN ref),
           NEW own, Joined(ref, own), Turns!SortNodes(ref)
    PROVE  \E old \in [Slots -> Slots], new \in [Slots -> DOMAIN ref] :
              /\ tcCount' = tcCount /\ DOMAIN tcRef' = DOMAIN ref
              /\ \A i, j \in Slots : old[i] = old[j] => i = j
              /\ \A j \in Slots : \E i \in Slots : old[i] = j
              /\ \A i \in Slots : /\ new[i] = own[old[i]]
                                  /\ entries'[i].from = entries[old[i]].from
                                  /\ entries'[i].to = entries[old[i]].to
                                  /\ entries'[i].flags = entries[old[i]].flags
              /\ entries' \in [Slots -> EntryRecord]
              /\ \A i \in Slots : IsLowest(entries'[i].next, Later(new, i))
              /\ \A n \in DOMAIN ref : IsLowest(tcRef'[n], Owned(new, n))
<1> DEFINE listed == Turns!Listed(ref)
           pos == [i \in Slots |-> CHOOSE p \in listed : Place(p, listed) = i]
           old == [i \in Slots |-> EntryAt(ref, pos[i])]
           new == [i \in Slots |-> pos[i][1]]
<1>1. /\ Cardinality(listed) = tcCount /\ tcCount' = tcCount
      /\ entries' = [i \in Slots |->
            [entries[old[i]] EXCEPT !.next = IF @ = NoEntry THEN NoEntry ELSE i + 1]]
      /\ tcRef' = [n \in DOMAIN ref |-> IF Turns!ListFrom(ref[n]) = << >> THEN ref[n]
                                        ELSE Place(<<n, 1>>, listed)]
  <2>1. Cardinality(listed) = tcCount /\ tcCount' = tcCount
    BY SameCardinality DEF Turns!SortNodes
  <2>2. tcRef' = [n \in DOMAIN ref |-> IF Turns!ListFrom(ref[n]) = << >> THEN ref[n]
                                       ELSE Place(<<n, 1>>, listed)]
    BY DEF Turns!SortNodes, Place
  <2>3. entries' = [i \in Slots |->
           [entries[EntryAt(ref, CHOOSE p \in listed : Place(p, listed) = i)] EXCEPT
               !.next = IF @ = NoEntry THEN NoEntry ELSE i + 1]]
    BY DEF Turns!SortNodes, Place, Slots, EntryAt, NoEntry
  <2>4. \A i \in Slots : old[i] = EntryAt(ref, CHOOSE p \in listed : Place(p, listed) = i)
    OBVIOUS
  <2> HIDE DEF listed, pos, old
  <2>5. entries' = [i \in Slots |->
            [entries[old[i]] EXCEPT !.next = IF @ = NoEntry THEN NoEntry ELSE i + 1]]
    <3>1. PICK o : o = old
      OBVIOUS
    <3>2. \A i \in Slots :
             [entries[EntryAt(ref, CHOOSE p \in listed : Place(p, listed) = i)] EXCEPT
                 !.next = IF @ = NoEntry THEN NoEntry ELSE i + 1] =
             [entries[o[i]] EXCEPT !.next = IF @ = NoEntry THEN NoEntry ELSE i + 1]
      BY <2>4, <3>1
    <3>3. entries' = [i \in Slots |->
              [entries[o[i]] EXCEPT !.next = IF @ = NoEntry THEN NoEntry ELSE i + 1]]
      BY <2>3, <3>2
    <3> QED
      BY <3>1, <3>3
  <2> QED
    BY <2>1, <2>2, <2>5
<1>2. /\ listed \subseteq Int \X Int /\ IsFiniteSet(listed)
      /\ \A p \in listed : /\ p = <<p[1], p[2]>> /\ p[1] \in DOMAIN ref
                           /\ p[2] \in Nat /\ p[2] >= 1
                           /\ EntryAt(ref, p) \in Slots
                           /\ own[EntryAt(ref, p)] = p[1]
                           /\ <<p[1], 1>> \in listed
                           /\ entries[EntryAt(ref, p)].next = NoEntry <=> Succ(p) \notin listed
      /\ \A p, q \in listed : EntryAt(ref, p) = EntryAt(ref, q) => p = q
      /\ \A i \in Slots : \E p \in listed : EntryAt(ref, p) = i
      /\ \A p, q \in listed : p[1] = q[1] /\ p[2] < q[2] => Succ(p) \in listed
      /\ \A n \in DOMAIN ref : Turns!ListFrom(ref[n]) = << >> <=> <<n, 1>> \notin listed
  BY ListedPlaces
<1> HIDE DEF listed
<1>3. /\ Slots = 0 .. (tcCount - 1) /\ NoEntry = -1
      /\ \A n \in DOMAIN ref : IsLowest(ref[n], Owned(own, n))
      /\ own \in [Slots -> DOMAIN ref]
  BY DEF Joined, Slots, Turns!Indices, NoEntry, Turns!NoTurnEntry
<1>4. /\ \A p \in listed : Place(p, listed) \in Slots
      /\ \A p, q \in listed : p \in Turns!Before(q, listed) => Place(p, listed) < Place(q, listed)
      /\ \A p, q \in listed : Place(p, listed) = Place(q, listed) => p = q
      /\ \A i \in Slots : \E p \in listed : Place(p, listed) = i
  BY <1>1, <1>2, <1>3, PlacesAreNumbers
<1>5. \A i \in Slots : pos[i] \in listed /\ Place(pos[i], listed) = i
  BY <1>4
<1>6. \A p \in listed : \A i \in Slots : Place(p, listed) = i => pos[i] = p
  BY <1>4, <1>5
<1>7. \A i \in Slots : old[i] = EntryAt(ref, pos[i]) /\ new[i] = pos[i][1]
  OBVIOUS
<1> HIDE DEF pos
<1>8. old \in [Slots -> Slots] /\ new \in [Slots -> DOMAIN ref]
  BY <1>2, <1>5
<1> HIDE DEF old, new
<1>9. \A i, j \in Slots : old[i] = old[j] => i = j
  <2>1. \A i, j \in Slots : old[i] = old[j] => pos[i] = pos[j]
    BY <1>2, <1>5, <1>7
  <2> QED
    BY <1>5, <2>1
<1>10. ASSUME NEW j \in Slots PROVE \E i \in Slots : old[i] = j
  <2>1. PICK p \in listed : EntryAt(ref, p) = j
    BY <1>2
  <2>2. PICK i \in Slots : i = Place(p, listed)
    BY <1>4
  <2>3. pos[i] = p
    BY <1>6, <2>2
  <2> QED
    BY <1>7, <2>1, <2>3
<1>11. ASSUME NEW i \in Slots
       PROVE  /\ new[i] = own[old[i]]
              /\ entries[old[i]].next = NoEntry <=> Succ(pos[i]) \notin listed
  <2>1. pos[i] \in listed /\ old[i] = EntryAt(ref, pos[i]) /\ new[i] = pos[i][1]
    BY <1>5, <1>7
  <2> QED
    BY <1>2, <2>1
<1>12. ASSUME NEW i \in Slots, Succ(pos[i]) \in listed
       PROVE  i + 1 \in Slots /\ pos[i + 1] = Succ(pos[i])
  <2>1. Place(Succ(pos[i]), listed) = i + 1
    BY <1>2, <1>5, <1>12, PlaceOfSuccessor
  <2>2. i + 1 \in Slots
    BY <1>4, <1>12, <2>1
  <2> QED
    BY <1>6, <1>12, <2>1, <2>2
<1>13. ASSUME NEW i \in Slots
       PROVE  /\ entries'[i] \in EntryRecord
              /\ entries'[i].from = entries[old[i]].from
              /\ entries'[i].to = entries[old[i]].to
              /\ entries'[i].flags = entries[old[i]].flags
              /\ entries'[i].next = IF Succ(pos[i]) \in listed THEN i + 1 ELSE NoEntry
  <2>1. entries[old[i]] \in [from : Edges, to : Edges, flags : Costs, next : EntryRefs]
    BY <1>8 DEF EntryRecord
  <2>2. entries'[i] = [entries[old[i]] EXCEPT !.next = IF @ = NoEntry THEN NoEntry ELSE i + 1]
    BY <1>1
  <2>3. CASE Succ(pos[i]) \in listed
    <3>1. i + 1 \in EntryRefs /\ entries[old[i]].next # NoEntry
      BY <1>11, <1>12, <2>3 DEF EntryRefs
    <3> QED
      BY <2>1, <2>2, <2>3, <3>1 DEF EntryRecord
  <2>4. CASE Succ(pos[i]) \notin listed
    <3>1. NoEntry \in EntryRefs /\ entries[old[i]].next = NoEntry
      BY <1>11, <2>4 DEF EntryRefs
    <3> QED
      BY <2>1, <2>2, <2>4, <3>1 DEF EntryRecord
  <2> QED
    BY <2>3, <2>4
<1>14. entries' \in [Slots -> EntryRecord]
  BY <1>1, <1>13
<1>15. ASSUME NEW i \in Slots, NEW j \in Slots, new[i] = new[j], i < j
       PROVE  pos[i][2] < pos[j][2]
  <2>1. PICK p \in listed : p = pos[i] /\ Place(p, listed) = i
    BY <1>5
  <2>2. PICK q \in listed : q = pos[j] /\ Place(q, listed) = j
    BY <1>5
  <2>3. /\ p[1] = q[1] /\ p = <<p[1], p[2]>> /\ q = <<q[1], q[2]>>
        /\ p[2] \in Int /\ q[2] \in Int
    <3>1. p[1] = q[1]
      BY <1>7, <1>15, <2>1, <2>2
    <3>2. p \in Int \X Int /\ q \in Int \X Int
      BY <1>2
    <3> QED
      BY <3>1, <3>2
  <2>4. p[2] # q[2]
    <3>1. p[2] = q[2] => p = q
      BY <2>3
    <3>2. i \in Int /\ j \in Int
      BY <1>3
    <3> QED
      BY <1>15, <2>1, <2>2, <3>1, <3>2
  <2>5. ~ (q[2] < p[2])
    <3> SUFFICES ASSUME q[2] < p[2] PROVE FALSE
      OBVIOUS
    <3>1. q \in Turns!Before(p, listed)
      BY <2>3 DEF Turns!Before
    <3>2. j < i
      BY <1>4, <2>1, <2>2, <3>1
    <3> QED
      BY <1>3, <1>15, <3>2
  <2> QED
    BY <2>1, <2>2, <2>3, <2>4, <2>5
<1>16. ASSUME NEW i \in Slots PROVE IsLowest(entries'[i].next, Later(new, i))
  <2>1. CASE Succ(pos[i]) \in listed
    <3>1. i + 1 \in Slots /\ new[i + 1] = new[i]
      BY <1>7, <1>12, <2>1 DEF Succ
    <3>2. i + 1 \in Later(new, i)
      BY <1>3, <3>1 DEF Later
    <3>3. \A j \in Later(new, i) : i + 1 <= j
      BY <1>3 DEF Later
    <3> QED
      BY <1>13, <2>1, <3>2, <3>3 DEF IsLowest
  <2>2. CASE Succ(pos[i]) \notin listed
    <3>1. ASSUME NEW j \in Later(new, i) PROVE FALSE
      <4>1. j \in Slots /\ i < j /\ new[i] = new[j]
        BY <1>3 DEF Later
      <4>2. pos[i][2] < pos[j][2] /\ pos[i][1] = pos[j][1]
        BY <1>7, <1>15, <4>1
      <4>3. pos[i] \in listed /\ pos[j] \in listed
        BY <1>5, <4>1
      <4> QED
        BY <1>2, <2>2, <4>2, <4>3
    <3> QED
      BY <1>13, <2>2, <3>1 DEF IsLowest
  <2> QED
    BY <2>1, <2>2
<1>17. ASSUME NEW n \in DOMAIN ref PROVE IsLowest(tcRef'[n], Owned(new, n))
  <2>1. CASE <<n, 1>> \notin listed
    <3>1. tcRef'[n] = ref[n]
      BY <1>1, <1>2, <2>1
    <3>2. Owned(new, n) = {}
      <4> SUFFICES ASSUME NEW i \in Slots, new[i] = n PROVE FALSE
        BY DEF Owned
      <4>1. pos[i] \in listed /\ pos[i][1] = n
        BY <1>5, <1>7
      <4> QED
        BY <1>2, <2>1, <4>1
    <3>3. Owned(own, n) = {}
      <4> SUFFICES ASSUME NEW j \in Slots, own[j] = n PROVE FALSE
        BY DEF Owned
      <4>1. PICK i \in Slots : old[i] = j
        BY <1>10
      <4>2. new[i] = n
        BY <1>11, <4>1
      <4> QED
        BY <3>2, <4>2 DEF Owned
    <3> QED
      BY <1>3, <3>1, <3>2, <3>3 DEF IsLowest
  <2>2. CASE <<n, 1>> \in listed
    <3>1. PICK c \in Slots : c = Place(<<n, 1>>, listed)
      BY <1>4, <2>2
    <3>2. tcRef'[n] = c
      BY <1>1, <1>2, <2>2, <3>1
    <3>3. pos[c] = <<n, 1>>
      BY <1>6, <2>2, <3>1
    <3>4. c \in Owned(new, n)
      BY <1>7, <3>3 DEF Owned
    <3>5. ASSUME NEW j \in Owned(new, n) PROVE c <= j
      <4>1. j \in Slots /\ new[j] = n /\ new[c] = n
        BY <3>4 DEF Owned
      <4>2. PICK r \in listed : r = pos[j]
        BY <1>5, <4>1
      <4>3. pos[j][2] \in Nat /\ pos[j][2] >= 1 /\ pos[c][2] = 1
        <5>1. r[2] \in Nat /\ r[2] >= 1
          BY <1>2
        <5> QED
          BY <3>3, <4>2, <5>1
      <4>4. ~ (j < c)
        BY <1>15, <4>1, <4>3
      <4> QED
        BY <1>3, <4>1, <4>4
    <3> QED
      BY <3>2, <3>4, <3>5 DEF IsLowest
  <2> QED
    BY <2>1, <2>2
<1>18. /\ tcCount' = tcCount /\ DOMAIN tcRef' = DOMAIN ref
       /\ \A i, j \in Slots : old[i] = old[j] => i = j
       /\ \A j \in Slots : \E i \in Slots : old[i] = j
  BY <1>1, <1>9, <1>10
<1>19. /\ \A i \in Slots : /\ new[i] = own[old[i]]
                          /\ entries'[i].from = entries[old[i]].from
                          /\ entries'[i].to = entries[old[i]].to
                          /\ entries'[i].flags = entries[old[i]].flags
       /\ entries' \in [Slots -> EntryRecord]
  BY <1>11, <1>13, <1>14
<1>20. /\ \A i \in Slots : IsLowest(entries'[i].next, Later(new, i))
       /\ \A n \in DOMAIN ref : IsLowest(tcRef'[n], Owned(new, n))
  BY <1>16, <1>17
<1> QED
  BY <1>8, <1>18, <1>19, <1>20

\* The lists follow the nodes, and the turns keep their names.
LEMMA CostsFollowNodes ==
    ASSUME CostInv, Nodes \subseteq Int, IsFiniteSet(Nodes),
           NEW q \in [Nodes -> Nodes], NEW inv \in [Nodes -> Nodes],
           \A n \in Nodes : q[inv[n]] = n /\ inv[q[n]] = n,
           NEW ref, DOMAIN ref = Nodes, \A n \in Nodes : ref[n] = tcRef[inv[n]],
           Turns!SortNodes(ref),
           Edges' = Edges, Nodes' = Nodes, written' = written,
           \A e \in Edges : edges'[e].tag = edges[e].tag,
           \A n \in Nodes : nodes'[q[n]].tag = nodes[n].tag
    PROVE  CostInv'
<1>1. PICK own : Joined(tcRef, own) /\ Recorded(own)
  BY DEF CostInv
<1>2. /\ entries \in [Slots -> EntryRecord] /\ own \in [Slots -> Nodes] /\ tcCount \in Nat
      /\ \A n \in Nodes : IsLowest(tcRef[n], Owned(own, n))
      /\ \A i \in Slots : IsLowest(entries[i].next, Later(own, i))
  BY <1>1 DEF CostInv, Joined
<1>3. PICK moved : moved = [i \in Slots |-> q[own[i]]]
  OBVIOUS
<1>4. moved \in [Slots -> Nodes] /\ \A i \in Slots : moved[i] = q[own[i]]
  BY <1>2, <1>3
<1>5. DOMAIN ref = Nodes /\ \A n \in Nodes : ref[n] = tcRef[inv[n]]
  OBVIOUS
<1>6. Joined(ref, moved)
  <2>1. \A n \in Nodes : Owned(moved, n) = Owned(own, inv[n])
    <3> TAKE n \in Nodes
    <3>1. \A m \in Nodes : q[m] = n <=> m = inv[n]
      OBVIOUS
    <3>2. \A i \in Slots : own[i] \in Nodes /\ moved[i] = q[own[i]]
      BY <1>2, <1>4
    <3>3. \A i \in Slots : moved[i] = n <=> own[i] = inv[n]
      <4> TAKE i \in Slots
      <4>1. PICK m \in Nodes : m = own[i]
        BY <3>2
      <4>2. moved[i] = q[m]
        BY <3>2, <4>1
      <4> QED
        BY <3>1, <4>1, <4>2
    <3> QED
      BY <3>3 DEF Owned
  <2>2. \A i \in Slots : Later(moved, i) = Later(own, i)
    <3>1. \A m, n \in Nodes : q[m] = q[n] <=> m = n
      OBVIOUS
    <3>2. \A i \in Slots : own[i] \in Nodes
      BY <1>2
    <3>3. \A i, j \in Slots : moved[j] = moved[i] <=> own[j] = own[i]
      <4> TAKE i, j \in Slots
      <4>1. PICK m \in Nodes, n \in Nodes : m = own[i] /\ n = own[j]
        BY <3>2
      <4>2. moved[i] = q[m] /\ moved[j] = q[n]
        BY <1>4, <4>1
      <4>3. q[m] = q[n] <=> m = n
        BY <3>1
      <4> QED
        BY <4>1, <4>2, <4>3
    <3> QED
      BY <3>3 DEF Later
  <2>3. \A n \in Nodes : IsLowest(ref[n], Owned(moved, n))
    BY <1>2, <1>5, <2>1
  <2> QED
    BY <1>2, <1>4, <1>5, <2>2, <2>3 DEF Joined
<1>7. PICK old \in [Slots -> Slots], new \in [Slots -> DOMAIN ref] :
          /\ tcCount' = tcCount /\ DOMAIN tcRef' = DOMAIN ref
          /\ \A i, j \in Slots : old[i] = old[j] => i = j
          /\ \A j \in Slots : \E i \in Slots : old[i] = j
          /\ \A i \in Slots : /\ new[i] = moved[old[i]]
                              /\ entries'[i].from = entries[old[i]].from
                              /\ entries'[i].to = entries[old[i]].to
                              /\ entries'[i].flags = entries[old[i]].flags
          /\ entries' \in [Slots -> EntryRecord]
          /\ \A i \in Slots : IsLowest(entries'[i].next, Later(new, i))
          /\ \A n \in DOMAIN ref : IsLowest(tcRef'[n], Owned(new, n))
  <2>1. DOMAIN ref \subseteq Int /\ IsFiniteSet(DOMAIN ref)
    BY <1>5
  <2> QED
    BY <1>2, <1>6, <2>1, SortNodesMoves
<1>8. /\ new \in [Slots -> Nodes] /\ DOMAIN tcRef' = Nodes
      /\ \A n \in Nodes : IsLowest(tcRef'[n], Owned(new, n))
  BY <1>5, <1>7
<1>9. Slots' = Slots /\ EntryRefs' = EntryRefs /\ NoEntry' = NoEntry /\ EntryRecord' = EntryRecord
  BY <1>7, <1>8 DEF Slots, EntryRefs, Turns!Indices, NoEntry, Turns!NoTurnEntry, EntryRecord
<1>10. Joined(tcRef, new)'
  <2>1. \A n : Owned(new, n)' = Owned(new, n)
    BY <1>9 DEF Owned
  <2>2. \A i : Later(new, i)' = Later(new, i)
    BY <1>9 DEF Later
  <2>3. \A n \in Nodes : IsLowest(tcRef[n], Owned(new, n))'
    BY <1>7, <1>8, <1>9, <2>1 DEF IsLowest
  <2>4. \A i \in Slots : IsLowest(entries[i].next, Later(new, i))'
    BY <1>7, <1>8, <1>9, <2>2 DEF IsLowest
  <2> QED
    BY <1>7, <1>8, <1>9, <2>3, <2>4 DEF Joined
<1>11. \A i \in Slots : TurnOf(new, i)' = TurnOf(own, old[i])
  <2> TAKE i \in Slots
  <2>1. PICK k \in Slots : k = old[i]
    OBVIOUS
  <2>2. entries[k].from \in Edges /\ entries[k].to \in Edges /\ own[k] \in Nodes
    BY <1>2 DEF EntryRecord
  <2>3. new[i] = q[own[k]] /\ entries'[i].from = entries[k].from /\ entries'[i].to = entries[k].to
    BY <1>4, <1>7, <1>8, <2>1
  <2>4. /\ nodes'[new[i]].tag = nodes[own[k]].tag
        /\ edges'[entries'[i].from].tag = edges[entries[k].from].tag
        /\ edges'[entries'[i].to].tag = edges[entries[k].to].tag
    BY <2>2, <2>3
  <2> QED
    BY <2>1, <2>4 DEF TurnOf, Turn
<1>12. Recorded(new)'
  <2>1. \A i \in Slots : /\ TurnOf(new, i)' \in DOMAIN written
                         /\ written[TurnOf(new, i)'] = entries'[i].flags
    BY <1>1, <1>7, <1>8, <1>11 DEF Recorded
  <2>2. ASSUME NEW t \in DOMAIN written PROVE \E i \in Slots : TurnOf(new, i)' = t
    <3>1. PICK k \in Slots : TurnOf(own, k) = t
      BY <1>1 DEF Recorded
    <3>2. PICK i \in Slots : old[i] = k
      BY <1>7, <1>8
    <3> QED
      BY <1>11, <3>1, <3>2
  <2>3. \A i, j \in Slots : TurnOf(new, i)' = TurnOf(new, j)' => i = j
    <3>1. \A i, j \in Slots : TurnOf(own, old[i]) = TurnOf(own, old[j]) => old[i] = old[j]
      BY <1>1 DEF Recorded
    <3> QED
      BY <1>7, <1>8, <1>11, <3>1
  <2> QED
    BY <1>9, <2>1, <2>2, <2>3 DEF Recorded
<1>13. tcCount' \in Nat /\ DOMAIN tcRef' = Nodes' /\ entries' \in [Slots' -> EntryRecord']
  BY <1>2, <1>7, <1>8, <1>9
<1> QED
  BY <1>10, <1>12, <1>13 DEF CostInv

\* Nodes that spring into being have no turn costs.
LEMMA CostsGrow ==
    ASSUME CostInv, Turns!EnsureNodeCapacity(nodeCount'), written' = written,
           Nodes' = 0 .. (nodeCount' - 1), Nodes \subseteq Nodes', Edges \subseteq Edges',
           \A n \in Nodes : nodes'[n].tag = nodes[n].tag,
           \A e \in Edges : edges'[e].tag = edges[e].tag
    PROVE  CostInv'
<1>1. /\ UNCHANGED <<tcCount, entries, written>>
      /\ tcRef' = [n \in 0 .. (nodeCount' - 1) |->
                      IF n \in DOMAIN tcRef THEN tcRef[n] ELSE NoEntry]
  BY DEF Turns!EnsureNodeCapacity, NoEntry
<1>2. DOMAIN tcRef = Nodes
  BY DEF CostInv
<1>3. /\ DOMAIN tcRef' = Nodes' /\ Nodes \subseteq Nodes'
      /\ \A n \in Nodes' : tcRef'[n] = IF n \in Nodes THEN tcRef[n] ELSE NoEntry
  <2>1. tcRef' = [n \in Nodes' |-> IF n \in Nodes THEN tcRef[n] ELSE NoEntry]
    BY <1>1, <1>2
  <2> QED
    BY <2>1
<1> QED
  BY <1>1, <1>3, CostsStay

\* Every step keeps the owners and the turns of the entries.
LEMMA CostStep ==
    ASSUME GraphInv, GP!Named, GP!Named', CostInv, [Next]_vars
    PROVE  CostInv'
<1>1. /\ GP!IndInv /\ nodeCount \in Nat /\ edgeCount \in Nat
      /\ Nodes = 0 .. (nodeCount - 1) /\ Edges = 0 .. (edgeCount - 1)
  BY GraphFacts DEF GraphInv
<1>2. Nodes' = 0 .. (nodeCount' - 1) /\ Edges' = 0 .. (edgeCount' - 1)
  BY DEF Nodes, Edges, Graph!Nodes, Graph!Edges
<1>3. CASE nodeCount < MaxNodes /\ \E p \in Positions : SetNode(nodeCount, p)
  <2>1. PICK p \in Positions : SetNode(nodeCount, p)
    BY <1>3
  <2>2. GP!SetNode(nodeCount, p) /\ Turns!EnsureNodeCapacity(nodeCount') /\ written' = written
    BY <2>1, GraphOperators DEF SetNode
  <2>3. /\ nodeCount' = nodeCount + 1 /\ edgeCount' = edgeCount /\ edges' = edges
        /\ \A n \in Nodes : nodes'[n].tag = nodes[n].tag
    BY <1>1, <2>2 DEF GP!SetNode, GP!GrownCount, GP!GrownNodes
  <2>4. Nodes \subseteq Nodes' /\ Edges \subseteq Edges'
    BY <1>1, <1>2, <2>3
  <2> QED
    BY <1>2, <2>2, <2>3, <2>4, CostsGrow
<1>4. CASE \E a, b \in Nodes : AddEdge(a, b)
  <2>1. PICK a \in Nodes, b \in Nodes : AddEdge(a, b)
    BY <1>4
  <2>2. GP!Edge(a, b) /\ Turns!EnsureNodeCapacity(nodeCount') /\ written' = written
    BY <2>1, GraphOperators DEF AddEdge
  <2>3. /\ nodeCount' = nodeCount /\ edgeCount' = edgeCount + 1
        /\ \A e \in Edges : edges'[e].tag = edges[e].tag
    BY <1>1, <2>2 DEF GP!Edge, GP!GrownCount
  <2>4. \A n \in Nodes : nodes'[n].tag = nodes[n].tag
    <3>1. PICK top \in Nodes : top = IF a < b THEN b ELSE a
      OBVIOUS
    <3>2. PICK grown : grown = GP!GrownNodes(top)
      OBVIOUS
    <3>3. DOMAIN grown = Nodes /\ \A n \in Nodes : grown[n] = nodes[n]
      BY <1>1, <3>2 DEF GP!GrownNodes, GP!GrownCount
    <3>4. nodes' = [n \in DOMAIN grown |->
                      IF n \in {a, b} THEN [grown[n] EXCEPT !.edgeRef = edgeCount] ELSE grown[n]]
      BY <2>2, <3>1, <3>2 DEF GP!Edge
    <3>5. nodes \in [GP!Nodes -> GP!NodeRecord(GP!Refs, GP!Nodes)] /\ Nodes = GP!Nodes
      BY <1>1, GraphOperators DEF GP!IndInv, GP!TypeOK, GP!Refs, Nodes
    <3> QED
      BY <3>3, <3>4, <3>5 DEF GP!NodeRecord
  <2>5. Nodes \subseteq Nodes' /\ Edges \subseteq Edges'
    BY <1>1, <1>2, <2>3
  <2> QED
    BY <1>2, <2>2, <2>3, <2>4, <2>5, CostsGrow
<1>5. CASE \E via \in Nodes, cost \in Costs :
              \E from, to \in Graph!Incident(via) : SetTurnCost(from, via, to, cost)
  <2>1. PICK via \in Nodes, cost \in Costs :
            \E from, to \in Graph!Incident(via) : SetTurnCost(from, via, to, cost)
    BY <1>5
  <2>2. Graph!Incident(via) \subseteq Edges
    BY DEF Graph!Incident, Edges
  <2>3. PICK from \in Edges, to \in Edges : SetTurnCost(from, via, to, cost)
    BY <2>1, <2>2
  <2> QED
    BY <2>3, CostSet
<1>6. CASE SortGraphEdges
  <2>1. PICK p : /\ p = invertPermutation(buildEdgeOrder(nodeOrder))
                 /\ GP!SortEdges(p) /\ Turns!SortEdges(p) /\ written' = written
    BY <1>6, GraphOperators DEF SortGraphEdges
  <2>2. p \in GP!Bijection(GP!Edges, GP!Edges)
    BY <1>1, <2>1, OrdersAreBijections
  <2>3. /\ GP!Nodes' = GP!Nodes /\ GP!Edges' = GP!Edges /\ p \in [GP!Edges -> GP!Edges]
        /\ \A e \in GP!Edges : edges'[p[e]].tag = edges[e].tag
        /\ \A n \in GP!Nodes : nodes'[n].tag = nodes[n].tag
    BY <1>1, <2>1, <2>2, GraphAssumptions, GP!SortEdgesMoves
  <2>4. /\ Nodes = GP!Nodes /\ Edges = GP!Edges /\ Nodes' = GP!Nodes' /\ Edges' = GP!Edges'
    BY GraphOperators DEF Nodes, Edges, Graph!Nodes, Graph!Edges, GP!Nodes, GP!Edges
  <2> QED
    BY <2>1, <2>3, <2>4, CostsFollowEdges
<1>7. CASE RelabelGraphNodes
  <2>1. PICK q : q = newNodes
    OBVIOUS
  <2>2. PICK inv : inv = GP!invertPermutation(q)
    OBVIOUS
  <2>3. PICK ref : ref = [n \in Nodes |-> tcRef[inv[n]]]
    OBVIOUS
  <2>4. /\ q \in GP!Bijection(GP!Nodes, GP!Nodes) /\ GP!RelabelNodes(q)
        /\ Turns!SortNodes(ref) /\ written' = written
    BY <1>7, <2>1, <2>2, <2>3, GraphOperators DEF RelabelGraphNodes, GraphInv
  <2>5. /\ GP!Nodes' = GP!Nodes /\ GP!Edges' = GP!Edges
        /\ \A e \in GP!Edges : edges'[e].tag = edges[e].tag
        /\ \A n \in GP!Nodes : nodes'[q[n]].tag = nodes[n].tag
    BY <1>1, <2>4, GraphAssumptions, GP!RelabelNodesMoves
  <2>6. /\ q \in [GP!Nodes -> GP!Nodes] /\ inv \in [GP!Nodes -> GP!Nodes]
        /\ \A n \in GP!Nodes : q[inv[n]] = n /\ inv[q[n]] = n
    BY <2>2, <2>4, GraphAssumptions, GP!InverseOfPermutation
  <2>7. /\ Nodes = GP!Nodes /\ Edges = GP!Edges /\ Nodes' = GP!Nodes' /\ Edges' = GP!Edges'
    BY GraphOperators DEF Nodes, Edges, Graph!Nodes, Graph!Edges, GP!Nodes, GP!Edges
  <2>8. Nodes \subseteq Int /\ IsFiniteSet(Nodes)
    BY <1>1, FS_Interval
  <2>9. DOMAIN ref = Nodes /\ \A n \in Nodes : ref[n] = tcRef[inv[n]]
    BY <2>3
  <2> QED
    BY <2>4, <2>5, <2>6, <2>7, <2>8, <2>9, CostsFollowNodes
<1>8. CASE UNCHANGED vars
  <2>1. /\ UNCHANGED <<tcCount, entries, written, tcRef, nodes, edges>>
        /\ Nodes' = Nodes /\ Edges' = Edges
    BY <1>8 DEF vars, costVars, graphVars, Nodes, Edges, Graph!Nodes, Graph!Edges
  <2>2. DOMAIN tcRef = Nodes
    BY DEF CostInv
  <2> QED
    BY <2>1, <2>2, CostsStay
<1> QED
  BY <1>3, <1>4, <1>5, <1>6, <1>7, <1>8 DEF Next

\* Every entry keeps one node that owns it, and one turn whose cost it holds.
LEMMA CostInvariant == Spec => []CostInv
<1>1. GraphInv /\ GP!Named /\ GP!Named' /\ CostInv /\ [Next]_vars => CostInv'
  BY CostStep
<1> QED
  BY <1>1, CostInit, GraphInvariant, NamedInvariant, PTL DEF Spec

\* TurnCostsKept: a lookup returns the cost last set for the turn, after any
\* number of insertions and sorts, although SortEdges renames the edges of the
\* entries and RelabelNodes rebuilds the array behind the list heads.
THEOREM CostsAreKept == Spec => []TurnCostsKept
<1>1. GP!Named /\ CostInv => TurnCostsKept
  BY CostInvKeepsCosts
<1> QED
  BY <1>1, CostInvariant, NamedInvariant, PTL

\* EveryEntryListedOnce: the lists are disjoint and hold all entries, so the
\* count that SortNodes compares with is right and its panic is never reached.
THEOREM EntriesAreListed == Spec => []EveryEntryListedOnce
  BY CostInvListsOnce, CostInvariant, PTL
=============================================================================
