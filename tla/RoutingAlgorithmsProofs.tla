----------------------- MODULE RoutingAlgorithmsProofs -----------------------
(***************************************************************************)
(* Whatever the road network and the request: an entry that a search has   *)
(* popped is final, for the searches from the start and from both ends,    *)
(* with and without an estimate, node-based and edge-based; and every      *)
(* search without preparation that ends has found the least weight of a    *)
(* walk from the start to the goal of its request.                         *)
(***************************************************************************)
EXTENDS RoutingAlgorithms, Induction, FiniteSetTheorems

\* The estimate of both kinds of search, doubled, and the order of the heaps.
Estimate(n, s) ==
    IF algorithm.bidirectional THEN Bidir!Approximate(n, s) ELSE 2 * Unidir!Approximate(n)
Weigh(entry, s) == 2 * entry.weight + Estimate(entry.node, s)

Ends(e) == {query.edges[e].a, query.edges[e].b}

IsEntry(entry) ==
    /\ entry = [node |-> entry.node, weight |-> entry.weight, edges |-> entry.edges]
    /\ entry.node \in DOMAIN query.pos
    /\ entry.weight \in Nat
    /\ entry.edges \in Seq(DOMAIN query.edges)

\* What an id says of the entry filed under it.
IsFiledUnder(entry, id, s) ==
    IF query.edgeBased
    THEN /\ id = <<id[1], id[2]>>
         /\ id[1] \in DOMAIN query.edges
         /\ id[2] \in Ends(id[1])
         /\ Last(entry.edges) = id[1]
         /\ entry.node = IF s = "from" THEN AdjNode(id[1], id[2]) ELSE id[2]
    ELSE entry.node = id

\* One side of a search with its tree, heap and popped entry: what was popped
\* is no heavier than what is in the heap and, while the edges of the popped
\* entry are relaxed, no heavier than this entry.  The comparison alone is not
\* preserved: a new entry is compared with the one of the same id, which has to
\* be at the same node.
Settled(T, H, c, s, relaxing, todo) ==
    /\ \A id \in DOMAIN T : IsEntry(T[id]) /\ IsFiledUnder(T[id], id, s)
    /\ \A x \in H : IsEntry(x)
    /\ \A id \in DOMAIN T : T[id] \notin H => \A x \in H : Weigh(T[id], s) <= Weigh(x, s)
    /\ relaxing => /\ IsEntry(c)
                   /\ todo \subseteq Incident(c.node)
                   /\ \A x \in H : Weigh(c, s) <= Weigh(x, s)
                   /\ \A id \in DOMAIN T : T[id] \notin H => Weigh(T[id], s) <= Weigh(c, s)

UnidirInv == Settled(tree, heap, curr, "from", pc = "relax", pending)

BidirInv ==
    /\ pc \in {"fill", "relax", "head", "done", "exceeded"} \X Sides
    /\ DOMAIN tree = Sides /\ tree = [s \in Sides |-> tree[s]]
    /\ DOMAIN heap = Sides /\ heap = [s \in Sides |-> heap[s]]
    /\ DOMAIN curr = Sides /\ curr = [s \in Sides |-> curr[s]]
    /\ \A s \in Sides : Settled(tree[s], heap[s], curr[s], s, pc = <<"relax", s>>, pending)

\* The inductive invariant.
IndInv ==
    /\ query \in Queries
    /\ algorithm \in Algorithms
    /\ IF algorithm.bidirectional THEN BidirInv ELSE UnidirInv

-----------------------------------------------------------------------------
\* The network of a query.

\* What every query says of its edges, weights and ends.
LEMMA QueryFacts ==
    ASSUME query \in Queries
    PROVE  /\ \A e \in DOMAIN query.edges :
                 /\ query.edges[e].a # query.edges[e].b
                 /\ query.edges[e].a \in DOMAIN query.pos /\ query.edges[e].b \in DOMAIN query.pos
                 /\ query.edges[e].fwd = Inf \/
                       (query.edges[e].fwd \in Nat /\
                        query.edges[e].fwd >= Beeline(query, query.edges[e].a, query.edges[e].b))
                 /\ query.edges[e].bwd = Inf \/
                       (query.edges[e].bwd \in Nat /\
                        query.edges[e].bwd >= Beeline(query, query.edges[e].a, query.edges[e].b))
           /\ \A n \in DOMAIN query.pos : query.pos[n] \in Nat
           /\ query.uTurn = Inf \/ query.uTurn \in Nat
           /\ query.start["from"] \in DOMAIN query.pos /\ query.start["to"] \in DOMAIN query.pos
           /\ query.edgeBased \in BOOLEAN /\ query.astar \in BOOLEAN
           /\ Inf \notin Int
  BY QueriesAssumption DEF Sides, Weights

\* The beeline is a distance.
LEMMA BeelineFacts ==
    ASSUME query \in Queries,
           NEW l \in DOMAIN query.pos, NEW m \in DOMAIN query.pos, NEW n \in DOMAIN query.pos
    PROVE  /\ Beeline(query, m, n) \in Nat
           /\ Beeline(query, m, n) = Beeline(query, n, m)
           /\ Beeline(query, m, l) <= Beeline(query, m, n) + Beeline(query, n, l)
  BY QueryFacts DEF Beeline

\* The estimates are consistent: one step changes them by no more than the beeline.
LEMMA EstimateIsConsistent ==
    ASSUME query \in Queries, algorithm \in Algorithms, NEW s \in Sides,
           NEW m \in DOMAIN query.pos, NEW n \in DOMAIN query.pos
    PROVE  /\ Estimate(m, s) \in Int /\ Estimate(n, s) \in Int
           /\ Estimate(m, s) <= 2 * Beeline(query, m, n) + Estimate(n, s)
<1> DEFINE from == query.start["from"]
           to == query.start["to"]
<1>1. from \in DOMAIN query.pos /\ to \in DOMAIN query.pos /\ query.astar \in BOOLEAN
  BY QueryFacts
<1>2. \A x, y \in DOMAIN query.pos :
        Beeline(query, x, y) \in Nat /\ Beeline(query, x, y) = Beeline(query, y, x)
  BY BeelineFacts
<1>3. /\ Beeline(query, m, to) <= Beeline(query, m, n) + Beeline(query, n, to)
      /\ Beeline(query, n, from) <= Beeline(query, m, n) + Beeline(query, m, from)
      /\ Beeline(query, m, from) <= Beeline(query, m, n) + Beeline(query, n, from)
      /\ Beeline(query, n, to) <= Beeline(query, m, n) + Beeline(query, m, to)
  BY <1>1, <1>2, BeelineFacts
<1>4. \A x, y : Bidir!Beeline(query, x, y) = Beeline(query, x, y)
                /\ Unidir!Beeline(query, x, y) = Beeline(query, x, y)
  BY DEF Beeline, Bidir!Beeline, Unidir!Beeline
<1>5. CASE algorithm.bidirectional
  <2>1. \A x : Estimate(x, s) =
                 IF ~query.astar THEN 0
                 ELSE IF s = "from"
                 THEN Beeline(query, from, to) + (Beeline(query, x, to) - Beeline(query, x, from))
                 ELSE Beeline(query, from, to) - (Beeline(query, x, to) - Beeline(query, x, from))
    BY <1>4, <1>5 DEF Estimate, Bidir!Approximate
  <2> HIDE DEF from, to
  <2> QED
    BY <1>1, <1>2, <1>3, <2>1
<1>6. CASE ~algorithm.bidirectional
  <2>1. \A x : Estimate(x, s) = IF query.astar THEN 2 * Beeline(query, x, to) ELSE 0
    BY <1>4, <1>6 DEF Estimate, Unidir!Approximate
  <2> HIDE DEF from, to
  <2> QED
    BY <1>1, <1>2, <1>3, <2>1
<1> QED
  BY <1>5, <1>6

\* An edge leads from one of its ends to the other, and back.
LEMMA AdjacentFacts ==
    ASSUME query \in Queries, NEW e \in DOMAIN query.edges, NEW n \in Ends(e)
    PROVE  /\ n \in DOMAIN query.pos /\ AdjNode(e, n) \in DOMAIN query.pos
           /\ AdjNode(e, n) \in Ends(e)
           /\ \A m \in Ends(e) : AdjNode(e, m) = AdjNode(e, n) => m = n
           /\ \A s : EdgeWeight(e, n, s) = Inf \/ EdgeWeight(e, n, s) \in Nat
           /\ \A s : EdgeWeight(e, n, s) # Inf => EdgeWeight(e, n, s) >= Beeline(query, n, AdjNode(e, n))
<1>1. Beeline(query, query.edges[e].a, query.edges[e].b) = Beeline(query, query.edges[e].b, query.edges[e].a)
  BY QueryFacts, BeelineFacts
<1> QED
  BY <1>1, QueryFacts DEF Ends, AdjNode, EdgeWeight

\* The chain of edges of a new entry ends with its edge.
LEMMA AppendFacts ==
    ASSUME NEW S, NEW q \in Seq(S), NEW e \in S
    PROVE  Append(q, e) \in Seq(S) /\ Last(Append(q, e)) = e
  BY DEF Last

\* A new entry is as much heavier than its parent as the edge weighs, at least.
LEMMA NewEntryFacts ==
    ASSUME query \in Queries, NEW s \in Sides,
           NEW c, IsEntry(c), NEW e \in Incident(c.node), createEntry(e, c, s).weight # Inf
    PROVE  /\ IsEntry(createEntry(e, c, s))
           /\ IsFiledUnder(createEntry(e, c, s), TraversalID(e, c.node, s), s)
           /\ createEntry(e, c, s).weight >= c.weight + Beeline(query, c.node, createEntry(e, c, s).node)
<1> DEFINE new == createEntry(e, c, s)
           turn == IF IsRoot(c) THEN 0
                   ELSE IF s = "from" THEN TurnWeight(Last(c.edges), c.node, e)
                                      ELSE TurnWeight(e, c.node, Last(c.edges))
<1>1. e \in DOMAIN query.edges /\ c.node \in Ends(e)
  BY DEF Incident, Ends
<1>2. /\ c.weight \in Nat /\ c.edges \in Seq(DOMAIN query.edges)
      /\ new.node = AdjNode(e, c.node) /\ new.edges = Append(c.edges, e)
      /\ new.weight = Add(Add(EdgeWeight(e, c.node, s), turn), c.weight)
  BY DEF IsEntry, createEntry, calcWeight
<1>3. turn = Inf \/ turn \in Nat
  BY QueryFacts DEF TurnWeight
<1>4. /\ EdgeWeight(e, c.node, s) \in Nat
      /\ EdgeWeight(e, c.node, s) >= Beeline(query, c.node, new.node)
      /\ new.node \in DOMAIN query.pos
  BY <1>1, <1>2, AdjacentFacts DEF Add
<1> HIDE DEF turn, new
<1>5. new.weight = EdgeWeight(e, c.node, s) + turn + c.weight /\ turn \in Nat
  BY <1>2, <1>3, <1>4, QueryFacts DEF new, Add
<1>6. new.edges \in Seq(DOMAIN query.edges) /\ Last(new.edges) = e
  <2>1. /\ Append(c.edges, e) \in Seq(DOMAIN query.edges)
        /\ Last(Append(c.edges, e)) = e
    <3>1. c.edges \in Seq(DOMAIN query.edges) /\ e \in DOMAIN query.edges
      BY <1>1, <1>2
    <3> QED
      BY <3>1, AppendFacts, Zenon
  <2>2. new.edges = Append(c.edges, e)
    BY <1>2
  <2> QED
    BY <2>1, <2>2, Zenon
<1>7. IsEntry(new)
  <2>1. new = [node |-> new.node, weight |-> new.weight, edges |-> new.edges]
    BY DEF new, createEntry
  <2> QED
    BY <1>2, <1>4, <1>5, <1>6, <2>1 DEF IsEntry
<1>8. new.weight >= c.weight + Beeline(query, c.node, new.node)
  <2>1. Beeline(query, c.node, new.node) \in Nat
    BY <1>1, <1>4, AdjacentFacts, BeelineFacts
  <2> QED
    BY <1>2, <1>4, <1>5, <2>1
<1>9. IsFiledUnder(new, TraversalID(e, c.node, s), s)
  <2>1. AdjNode(e, c.node) \in Ends(e)
    BY <1>1, AdjacentFacts
  <2> QED
    BY <1>1, <1>2, <1>6, <2>1 DEF IsFiledUnder, TraversalID, Sides
<1> QED
  BY <1>7, <1>8, <1>9 DEF new

\* It is no lighter in the heap.
LEMMA NewEntryWeighsMore ==
    ASSUME query \in Queries, algorithm \in Algorithms, NEW s \in Sides,
           NEW c, IsEntry(c), NEW e \in Incident(c.node), createEntry(e, c, s).weight # Inf
    PROVE  Weigh(c, s) <= Weigh(createEntry(e, c, s), s)
<1> DEFINE new == createEntry(e, c, s)
<1>1. /\ IsEntry(new)
      /\ new.weight >= c.weight + Beeline(query, c.node, new.node)
  BY NewEntryFacts
<1>2. /\ Estimate(c.node, s) \in Int /\ Estimate(new.node, s) \in Int
      /\ Estimate(c.node, s) <= 2 * Beeline(query, c.node, new.node) + Estimate(new.node, s)
      /\ Beeline(query, c.node, new.node) \in Nat
  BY <1>1, EstimateIsConsistent, BeelineFacts DEF IsEntry
<1>3. c.weight \in Nat /\ new.weight \in Nat
  BY <1>1 DEF IsEntry
<1> HIDE DEF new
<1>4. Weigh(c, s) <= Weigh(new, s)
  BY <1>1, <1>2, <1>3 DEF Weigh
<1> QED
  BY <1>4 DEF new

\* Weights of entries are compared as integers.
LEMMA WeighIsInteger ==
    ASSUME query \in Queries, algorithm \in Algorithms, NEW s \in Sides, NEW x, IsEntry(x)
    PROVE  Weigh(x, s) \in Int
<1>1. Estimate(x.node, s) \in Int /\ x.weight \in Nat
  BY EstimateIsConsistent DEF IsEntry
<1> QED
  BY <1>1 DEF Weigh

\* An entry is filed under one id only.
LEMMA IdIsUnique ==
    ASSUME query \in Queries, NEW s \in Sides, NEW x, NEW i, NEW j,
           IsFiledUnder(x, i, s), IsFiledUnder(x, j, s)
    PROVE  i = j
<1>1. CASE query.edgeBased
  <2>1. /\ i = <<i[1], i[2]>> /\ j = <<j[1], j[2]>> /\ i[1] = j[1]
        /\ i[1] \in DOMAIN query.edges /\ i[2] \in Ends(i[1]) /\ j[2] \in Ends(i[1])
        /\ IF s = "from" THEN AdjNode(i[1], i[2]) = AdjNode(i[1], j[2]) ELSE i[2] = j[2]
    BY <1>1 DEF IsFiledUnder
  <2>2. i[2] = j[2]
    BY <2>1, AdjacentFacts
  <2> QED
    BY <2>1, <2>2
<1>2. CASE ~query.edgeBased
  BY <1>2 DEF IsFiledUnder
<1> QED
  BY <1>1, <1>2

\* Entries of the same id are at the same node.
LEMMA NodeOfId ==
    ASSUME NEW x, NEW y, NEW i, NEW s, IsFiledUnder(x, i, s), IsFiledUnder(y, i, s)
    PROVE  x.node = y.node
  BY DEF IsFiledUnder
\* Popping the lightest entry.
LEMMA PopKeeps ==
    ASSUME query \in Queries, algorithm \in Algorithms, NEW s \in Sides,
           NEW T, NEW H, NEW c, NEW t, Settled(T, H, c, s, FALSE, t),
           NEW entry \in H, \A x \in H : Weigh(entry, s) <= Weigh(x, s),
           NEW todo, todo \subseteq Incident(entry.node)
    PROVE  /\ Settled(T, H \ {entry}, entry, s, TRUE, todo)
           /\ Settled(T, H \ {entry}, entry, s, FALSE, todo)
<1>1. \A id \in DOMAIN T : Weigh(T[id], s) \in Int
  BY WeighIsInteger DEF Settled
<1>2. \A x \in H : Weigh(x, s) \in Int
  BY WeighIsInteger DEF Settled
<1>3. \A id \in DOMAIN T : T[id] \notin H \ {entry} => Weigh(T[id], s) <= Weigh(entry, s)
  BY <1>1, <1>2 DEF Settled
<1>4. \A id \in DOMAIN T : T[id] \notin H \ {entry} => \A x \in H \ {entry} : Weigh(T[id], s) <= Weigh(x, s)
  BY <1>1, <1>2, <1>3
<1> QED
  BY <1>3, <1>4 DEF Settled

\* Fewer edges are left, or none.
LEMMA SettledStays ==
    ASSUME NEW T, NEW H, NEW c, NEW s, NEW todo, NEW rest, Settled(T, H, c, s, TRUE, todo),
           rest \subseteq todo
    PROVE  Settled(T, H, c, s, TRUE, rest) /\ Settled(T, H, c, s, FALSE, rest)
  BY DEF Settled

\* Between two visits the popped entry and the edges left do not matter.
LEMMA SettledWhenIdle ==
    ASSUME NEW T, NEW H, NEW c, NEW s, NEW t, Settled(T, H, c, s, FALSE, t)
    PROVE  \A d, rest : Settled(T, H, d, s, FALSE, rest)
  BY DEF Settled

\* Filing a lighter entry: the one it replaces has not been popped.
LEMMA RelaxKeeps ==
    ASSUME query \in Queries, algorithm \in Algorithms, NEW s \in Sides,
           NEW T, NEW H, NEW c, NEW todo, Settled(T, H, c, s, TRUE, todo),
           NEW e \in todo, NEW new, NEW id,
           new = createEntry(e, c, s), id = TraversalID(e, c.node, s), Improves(new, id, T)
    PROVE  /\ id \in DOMAIN T => T[id] \in H
           /\ Settled(Filed(T, id, new), (H \ {T[i] : i \in DOMAIN T \cap {id}}) \cup {new},
                      c, s, TRUE, todo)
<1>1. /\ IsEntry(c) /\ e \in Incident(c.node) /\ todo \subseteq Incident(c.node)
      /\ \A i \in DOMAIN T : IsEntry(T[i]) /\ IsFiledUnder(T[i], i, s)
      /\ \A x \in H : IsEntry(x) /\ Weigh(c, s) <= Weigh(x, s)
      /\ \A i \in DOMAIN T : T[i] \notin H => /\ Weigh(T[i], s) <= Weigh(c, s)
                                             /\ \A x \in H : Weigh(T[i], s) <= Weigh(x, s)
  BY DEF Settled
<1>2. IsEntry(new) /\ IsFiledUnder(new, id, s) /\ Weigh(c, s) <= Weigh(new, s)
  BY <1>1, NewEntryFacts, NewEntryWeighsMore DEF Improves
<1>3. /\ Weigh(c, s) \in Int /\ Weigh(new, s) \in Int
      /\ \A i \in DOMAIN T : Weigh(T[i], s) \in Int
  BY <1>1, <1>2, WeighIsInteger
<1>4. ASSUME id \in DOMAIN T PROVE T[id] \in H
  <2>1. /\ T[id].node = new.node /\ T[id].weight > new.weight
        /\ T[id].weight \in Nat /\ new.weight \in Nat
        /\ new.node \in DOMAIN query.pos
    BY <1>1, <1>2, <1>4, NodeOfId DEF IsEntry, Improves
  <2>2. Estimate(new.node, s) \in Int
    BY <2>1, EstimateIsConsistent
  <2>3. Weigh(T[id], s) > Weigh(new, s)
    BY <2>1, <2>2 DEF Weigh
  <2>4. ~(Weigh(T[id], s) <= Weigh(c, s))
    BY <1>2, <1>3, <1>4, <2>3
  <2> QED
    BY <1>1, <1>4, <2>4
<1> DEFINE T2 == Filed(T, id, new)
           H2 == (H \ {T[i] : i \in DOMAIN T \cap {id}}) \cup {new}
<1>5. /\ DOMAIN T2 = DOMAIN T \cup {id} /\ T2[id] = new
      /\ \A i \in DOMAIN T : i # id => T2[i] = T[i]
  BY DEF Filed
<1>6. H2 \subseteq H \cup {new} /\ new \in H2
  OBVIOUS
<1>7. \A i \in DOMAIN T2 : T2[i] \notin H2 => i # id /\ i \in DOMAIN T /\ T2[i] = T[i] /\ T[i] \notin H
  <2> SUFFICES ASSUME NEW i \in DOMAIN T2, T2[i] \notin H2
               PROVE  i # id /\ i \in DOMAIN T /\ T2[i] = T[i] /\ T[i] \notin H
    OBVIOUS
  <2>1. i # id
    BY <1>5, <1>6
  <2>2. i \in DOMAIN T /\ T2[i] = T[i]
    BY <1>5, <2>1
  <2>3. T[i] \notin {T[j] : j \in DOMAIN T \cap {id}}
    BY <1>1, <2>1, <2>2, IdIsUnique
  <2> QED
    BY <2>1, <2>2, <2>3
<1> HIDE DEF T2, H2
<1>8. \A i \in DOMAIN T2 : IsEntry(T2[i]) /\ IsFiledUnder(T2[i], i, s)
  BY <1>1, <1>2, <1>5
<1>9. \A x \in H2 : IsEntry(x) /\ Weigh(c, s) <= Weigh(x, s)
  BY <1>1, <1>2, <1>6
<1>10. \A i \in DOMAIN T2 : T2[i] \notin H2 => Weigh(T2[i], s) <= Weigh(c, s)
  BY <1>1, <1>7
<1>11. \A i \in DOMAIN T2 : T2[i] \notin H2 => \A x \in H2 : Weigh(T2[i], s) <= Weigh(x, s)
  <2>1. \A x \in H2 : Weigh(x, s) \in Int
    BY <1>9, WeighIsInteger
  <2>2. \A i \in DOMAIN T2 : Weigh(T2[i], s) \in Int
    BY <1>8, WeighIsInteger
  <2> QED
    BY <1>3, <1>9, <1>10, <2>1, <2>2
<1>12. Settled(T2, H2, c, s, TRUE, todo)
  BY <1>1, <1>8, <1>9, <1>10, <1>11 DEF Settled
<1> QED
  BY <1>4, <1>12 DEF T2, H2
-----------------------------------------------------------------------------
\* Both kinds of search use the operators of SearchTree, each by its own copy.

\* The bidirectional search's copies of the operators of SearchTree.
LEMMA BidirOperators ==
    /\ Bidir!Sides = Sides
    /\ \A n : Bidir!NewSPTEntry(n) = NewSPTEntry(n) /\ Bidir!Incident(n) = Incident(n)
    /\ \A e, n, s : Bidir!TraversalID(e, n, s) = TraversalID(e, n, s)
    /\ \A e, p, s : Bidir!createEntry(e, p, s) = createEntry(e, p, s)
    /\ \A x, i, T : Bidir!Improves(x, i, T) <=> Improves(x, i, T)
    /\ \A x, i, T : Bidir!Filed(T, i, x) = Filed(T, i, x)
<1>1. /\ Bidir!Sides = Sides
      /\ \A n : Bidir!NewSPTEntry(n) = NewSPTEntry(n) /\ Bidir!Incident(n) = Incident(n)
  BY DEF Bidir!Sides, Sides, Bidir!NewSPTEntry, NewSPTEntry, Bidir!Incident, Incident
<1>2. \A e, n : Bidir!AdjNode(e, n) = AdjNode(e, n)
  BY DEF Bidir!AdjNode, AdjNode
<1>3. \A e, n, s : Bidir!TraversalID(e, n, s) = TraversalID(e, n, s)
  BY <1>2 DEF Bidir!TraversalID, TraversalID
<1>4. \A e, p, s : Bidir!createEntry(e, p, s) = createEntry(e, p, s)
  <2>1. /\ \A v, w : Bidir!Add(v, w) = Add(v, w)
        /\ \A p : Bidir!IsRoot(p) <=> IsRoot(p)
        /\ \A q : Bidir!Last(q) = Last(q)
    BY DEF Bidir!Add, Add, Bidir!IsRoot, IsRoot, Bidir!Last, Last
  <2>2. \A e, n, s : Bidir!EdgeWeight(e, n, s) = EdgeWeight(e, n, s)
    BY DEF Bidir!EdgeWeight, EdgeWeight
  <2>3. \A e, n, f : Bidir!TurnWeight(e, n, f) = TurnWeight(e, n, f)
    BY DEF Bidir!TurnWeight, TurnWeight
  <2>4. \A e, p, s : Bidir!calcWeight(e, p, s) = calcWeight(e, p, s)
    BY <2>1, <2>2, <2>3 DEF Bidir!calcWeight, calcWeight
  <2> QED
    BY <1>2, <2>4 DEF Bidir!createEntry, createEntry
<1>5. \A x, i, T : Bidir!Improves(x, i, T) <=> Improves(x, i, T)
  BY DEF Bidir!Improves, Improves
<1>6. \A x, i, T : Bidir!Filed(T, i, x) = Filed(T, i, x)
  BY DEF Bidir!Filed, Filed
<1> QED
  BY <1>1, <1>3, <1>4, <1>5, <1>6

\* The copy of the searches from the start.
LEMMA UnidirOperators ==
    /\ Unidir!Sides = Sides
    /\ \A n : Unidir!NewSPTEntry(n) = NewSPTEntry(n) /\ Unidir!Incident(n) = Incident(n)
    /\ \A e, n, s : Unidir!TraversalID(e, n, s) = TraversalID(e, n, s)
    /\ \A e, p, s : Unidir!createEntry(e, p, s) = createEntry(e, p, s)
    /\ \A x, i, T : Unidir!Improves(x, i, T) <=> Improves(x, i, T)
    /\ \A x, i, T : Unidir!Filed(T, i, x) = Filed(T, i, x)
<1>1. /\ Unidir!Sides = Sides
      /\ \A n : Unidir!NewSPTEntry(n) = NewSPTEntry(n) /\ Unidir!Incident(n) = Incident(n)
  BY DEF Unidir!Sides, Sides, Unidir!NewSPTEntry, NewSPTEntry, Unidir!Incident, Incident
<1>2. \A e, n : Unidir!AdjNode(e, n) = AdjNode(e, n)
  BY DEF Unidir!AdjNode, AdjNode
<1>3. \A e, n, s : Unidir!TraversalID(e, n, s) = TraversalID(e, n, s)
  BY <1>2 DEF Unidir!TraversalID, TraversalID
<1>4. \A e, p, s : Unidir!createEntry(e, p, s) = createEntry(e, p, s)
  <2>1. /\ \A v, w : Unidir!Add(v, w) = Add(v, w)
        /\ \A p : Unidir!IsRoot(p) <=> IsRoot(p)
        /\ \A q : Unidir!Last(q) = Last(q)
    BY DEF Unidir!Add, Add, Unidir!IsRoot, IsRoot, Unidir!Last, Last
  <2>2. \A e, n, s : Unidir!EdgeWeight(e, n, s) = EdgeWeight(e, n, s)
    BY DEF Unidir!EdgeWeight, EdgeWeight
  <2>3. \A e, n, f : Unidir!TurnWeight(e, n, f) = TurnWeight(e, n, f)
    BY DEF Unidir!TurnWeight, TurnWeight
  <2>4. \A e, p, s : Unidir!calcWeight(e, p, s) = calcWeight(e, p, s)
    BY <2>1, <2>2, <2>3 DEF Unidir!calcWeight, calcWeight
  <2> QED
    BY <1>2, <2>4 DEF Unidir!createEntry, createEntry
<1>5. \A x, i, T : Unidir!Improves(x, i, T) <=> Improves(x, i, T)
  BY DEF Unidir!Improves, Improves
<1>6. \A x, i, T : Unidir!Filed(T, i, x) = Filed(T, i, x)
  BY DEF Unidir!Filed, Filed
<1> QED
  BY <1>1, <1>3, <1>4, <1>5, <1>6

\* Their heaps are ordered by Weigh.
LEMMA HeapOrder ==
    ASSUME query \in Queries, algorithm \in Algorithms, NEW x, NEW y, IsEntry(x), IsEntry(y)
    PROVE  /\ algorithm.bidirectional =>
                  \A s \in Sides : Bidir!HeapWeight(x, s) <= Bidir!HeapWeight(y, s) => Weigh(x, s) <= Weigh(y, s)
           /\ ~algorithm.bidirectional =>
                  (Unidir!HeapWeight(x) <= Unidir!HeapWeight(y) => Weigh(x, "from") <= Weigh(y, "from"))
<1>1. CASE algorithm.bidirectional
  BY <1>1 DEF Weigh, Estimate, Bidir!HeapWeight
<1>2. CASE ~algorithm.bidirectional
  <2>1. x.weight \in Nat /\ y.weight \in Nat /\ x.node \in DOMAIN query.pos /\ y.node \in DOMAIN query.pos
    BY DEF IsEntry
  <2>2. \A n \in DOMAIN query.pos : Unidir!Approximate(n) \in Int
    <3>1. \A n \in DOMAIN query.pos : Beeline(query, n, query.start["to"]) \in Nat
      BY QueryFacts, BeelineFacts
    <3> QED
      BY <3>1 DEF Unidir!Approximate, Unidir!Beeline, Beeline
  <2> QED
    BY <1>2, <2>1, <2>2 DEF Weigh, Estimate, Unidir!HeapWeight
<1> QED
  BY <1>1, <1>2
-----------------------------------------------------------------------------
\* No step changes the request.
LEMMA SettledPrimed ==
    ASSUME query' = query, algorithm' = algorithm
    PROVE  \A T, H, c, s, relaxing, todo :
               Settled(T, H, c, s, relaxing, todo)' <=> Settled(T, H, c, s, relaxing, todo)
<1>1. \A n, s : Estimate(n, s)' = Estimate(n, s)
  BY DEF Estimate, Bidir!Approximate, Unidir!Approximate, Bidir!Beeline, Unidir!Beeline
<1>2. \A x, s : Weigh(x, s)' = Weigh(x, s)
  BY <1>1 DEF Weigh
<1>3. \A x, i, s : IsFiledUnder(x, i, s)' <=> IsFiledUnder(x, i, s)
  BY DEF IsFiledUnder, Ends, AdjNode
<1>4. \A x : IsEntry(x)' <=> IsEntry(x)
  BY DEF IsEntry
<1>5. \A n : Incident(n)' = Incident(n)
  BY DEF Incident
<1> QED
  BY <1>2, <1>3, <1>4, <1>5 DEF Settled

\* A search from the start begins with its root (CalcPath).
LEMMA UnidirInit ==
    ASSUME algorithm \in Algorithms, ~algorithm.bidirectional, Unidir!Init
    PROVE  IndInv
<1> DEFINE root == NewSPTEntry(query.start["from"])
<1>1. query \in Queries
  BY DEF Unidir!Init
<1>2. /\ heap = {root} /\ pc = "pop"
      /\ tree = IF query.edgeBased THEN << >> ELSE [n \in {query.start["from"]} |-> root]
  BY UnidirOperators DEF Unidir!Init
<1>3. IsEntry(root) /\ root.node = query.start["from"]
  BY <1>1, QueryFacts DEF NewSPTEntry, IsEntry
<1> HIDE DEF root
<1>4. \A id \in DOMAIN tree : tree[id] = root /\ ~query.edgeBased /\ id = root.node
  BY <1>2, <1>3
<1>5. Settled(tree, heap, curr, "from", FALSE, pending)
  BY <1>2, <1>3, <1>4 DEF Settled, IsFiledUnder
<1>6. ~(pc = "relax")
  BY <1>2
<1>7. UnidirInv
  BY <1>5, <1>6 DEF UnidirInv
<1> QED
  BY <1>1, <1>7 DEF IndInv

\* The head of the loop of runAlgo, in dijkstra.go and astar.go.
LEMMA UnidirPop ==
    ASSUME IndInv, ~algorithm.bidirectional, Unidir!Pop, UNCHANGED algorithm
    PROVE  IndInv' /\ Unidir!VisitedStay
<1>1. /\ query \in Queries /\ algorithm \in Algorithms
      /\ query' = query /\ algorithm' = algorithm /\ tree' = tree
  BY DEF IndInv, Unidir!Pop
<1>2. Settled(tree, heap, curr, "from", FALSE, pending)
  <2>1. (pc = "relax") = FALSE
    BY DEF Unidir!Pop
  <2> QED
    BY <2>1 DEF IndInv, UnidirInv
<1>3. Settled(tree', heap', curr', "from", pc' = "relax", pending')
  <2>1. CASE heap = {} /\ pc' = "done" /\ UNCHANGED <<heap, curr, pending, result>>
    <3>1. (pc' = "relax") = FALSE
      BY <2>1
    <3> QED
      BY <1>1, <1>2, <2>1, <3>1
  <2>2. ASSUME NEW entry \in heap,
               /\ \A x \in heap : Unidir!HeapWeight(entry) <= Unidir!HeapWeight(x)
               /\ heap' = Unidir!Rest(entry)
               /\ curr' = entry
               /\ IF Unidir!IsFinished(entry)
                  THEN pc' = "done" /\ pending' = {} /\ result' = Unidir!ExtractPath(entry)
                  ELSE /\ UNCHANGED result
                       /\ \/ pc' = "exceeded" /\ pending' = {}
                          \/ /\ pending' = {e \in Unidir!Incident(entry.node) : Unidir!Accept(e, entry)}
                             /\ pc' = IF pending' = {} THEN "pop" ELSE "relax"
        PROVE  Settled(tree', heap', curr', "from", pc' = "relax", pending')
    <3>1. \A x \in heap : IsEntry(x)
      BY <1>2 DEF Settled
    <3>2. \A x \in heap : Weigh(entry, "from") <= Weigh(x, "from")
      BY <1>1, <2>2, <3>1, HeapOrder
    <3>3. pending' \subseteq Incident(entry.node) /\ heap' = heap \ {entry}
      BY <2>2, UnidirOperators DEF Unidir!Rest
    <3>4. (pc' = "relax") \in {TRUE, FALSE} /\ "from" \in Sides
      BY DEF Sides
    <3>5. /\ Settled(tree, heap \ {entry}, entry, "from", TRUE, pending')
          /\ Settled(tree, heap \ {entry}, entry, "from", FALSE, pending')
      BY <1>1, <1>2, <3>2, <3>3, <3>4, PopKeeps
    <3> QED
      BY <1>1, <2>2, <3>3, <3>4, <3>5
  <2> QED
    BY <2>1, <2>2 DEF Unidir!Pop
<1>4. UnidirInv'
  BY <1>1, <1>3, SettledPrimed DEF UnidirInv
<1>5. IndInv'
  BY <1>1, <1>4 DEF IndInv
<1> QED
  BY <1>1, <1>5 DEF Unidir!VisitedStay

\* One edge of the popped entry, in dijkstra.go and astar.go.
LEMMA UnidirRelax ==
    ASSUME IndInv, ~algorithm.bidirectional, Unidir!Relax, UNCHANGED algorithm
    PROVE  IndInv' /\ Unidir!VisitedStay
<1>1. /\ query \in Queries /\ algorithm \in Algorithms
      /\ query' = query /\ algorithm' = algorithm /\ curr' = curr
      /\ "from" \in Sides /\ (pc' = "relax") \in {TRUE, FALSE}
  BY DEF IndInv, Unidir!Relax, Sides
<1>2. Settled(tree, heap, curr, "from", TRUE, pending)
  <2>1. (pc = "relax") = TRUE
    BY DEF Unidir!Relax
  <2> QED
    BY <2>1 DEF IndInv, UnidirInv
<1>3. PICK e \in pending :
        /\ LET entry == createEntry(e, curr, "from")
               id == TraversalID(e, curr.node, "from")
               replaced == {tree[i] : i \in DOMAIN tree \cap {id}}
           IN  IF Improves(entry, id, tree)
               THEN /\ tree' = Filed(tree, id, entry)
                    /\ heap' = (heap \ replaced) \cup {entry}
               ELSE UNCHANGED <<tree, heap>>
        /\ pending' = pending \ {e}
  BY UnidirOperators DEF Unidir!Relax
<1> DEFINE entry == createEntry(e, curr, "from")
           id == TraversalID(e, curr.node, "from")
<1>4. /\ Settled(tree', heap', curr, "from", TRUE, pending)
      /\ Unidir!VisitedStay
  <2>1. CASE Improves(entry, id, tree)
    <3>1. /\ tree' = Filed(tree, id, entry)
          /\ heap' = (heap \ {tree[i] : i \in DOMAIN tree \cap {id}}) \cup {entry}
      BY <1>3, <2>1
    <3>2. /\ id \in DOMAIN tree => tree[id] \in heap
          /\ Settled(tree', heap', curr, "from", TRUE, pending)
      BY <1>1, <1>2, <2>1, <3>1, RelaxKeeps
    <3> HIDE DEF entry, id
    <3> QED
      BY <3>1, <3>2 DEF Filed, Unidir!VisitedStay
  <2>2. CASE ~Improves(entry, id, tree)
    <3>1. tree' = tree /\ heap' = heap
      BY <1>3, <2>2
    <3> QED
      BY <1>2, <3>1 DEF Unidir!VisitedStay
  <2> QED
    BY <2>1, <2>2
<1>5. Settled(tree', heap', curr', "from", pc' = "relax", pending')
  BY <1>1, <1>3, <1>4, SettledStays
<1>6. UnidirInv'
  BY <1>1, <1>5, SettledPrimed DEF UnidirInv
<1>7. IndInv'
  BY <1>1, <1>6 DEF IndInv
<1> QED
  BY <1>4, <1>7
\* A search from both ends begins with its two roots (init, initFrom, initTo).
LEMMA BidirInit ==
    ASSUME algorithm \in Algorithms, algorithm.bidirectional, Bidir!Init
    PROVE  IndInv
<1>1. query \in Queries
  BY DEF Bidir!Init
<1>2. /\ curr = [s \in Sides |-> NewSPTEntry(query.start[s])]
      /\ heap = [s \in Sides |-> {curr[s]}]
      /\ tree = [s \in Sides |-> IF query.edgeBased THEN << >>
                                 ELSE [n \in {query.start[s]} |-> curr[s]]]
      /\ pc \in {<<"fill", "from">>, <<"head", "from">>}
  BY BidirOperators DEF Bidir!Init
<1>3. ASSUME NEW s \in Sides PROVE Settled(tree[s], heap[s], curr[s], s, pc = <<"relax", s>>, pending)
  <2>1. /\ heap[s] = {curr[s]} /\ curr[s] = NewSPTEntry(query.start[s])
        /\ tree[s] = IF query.edgeBased THEN << >> ELSE [n \in {query.start[s]} |-> curr[s]]
    BY <1>2
  <2>2. IsEntry(curr[s]) /\ curr[s].node = query.start[s]
    BY <1>1, <2>1, QueryFacts DEF NewSPTEntry, IsEntry, Sides
  <2>3. \A id \in DOMAIN tree[s] : tree[s][id] = curr[s] /\ ~query.edgeBased /\ id = curr[s].node
    BY <2>1, <2>2
  <2>4. (pc = <<"relax", s>>) = FALSE
    BY <1>2
  <2>5. Settled(tree[s], heap[s], curr[s], s, FALSE, pending)
    BY <2>1, <2>2, <2>3 DEF Settled, IsFiledUnder
  <2> QED
    BY <2>4, <2>5
<1>4. BidirInv
  BY <1>2, <1>3 DEF BidirInv, Sides
<1> QED
  BY <1>1, <1>4 DEF IndInv

\* fillEdgesFrom / fillEdgesTo take the lightest entry of their side.
LEMMA BidirPop ==
    ASSUME IndInv, algorithm.bidirectional, NEW s \in Sides, Bidir!Pop(s), UNCHANGED algorithm
    PROVE  IndInv' /\ Bidir!VisitedStay
<1>1. /\ query \in Queries /\ algorithm \in Algorithms /\ BidirInv
      /\ query' = query /\ algorithm' = algorithm /\ tree' = tree
      /\ pc = <<"fill", s>>
  BY DEF IndInv, Bidir!Pop
<1>2. \A r \in Sides : Settled(tree[r], heap[r], curr[r], r, FALSE, pending)
  <2>1. \A r \in Sides : (pc = <<"relax", r>>) = FALSE
    BY <1>1
  <2> QED
    BY <1>1, <2>1 DEF BidirInv
<1>3. Bidir!After(s) \in {<<"fill", "to">>, <<"head", "from">>}
  BY DEF Bidir!After
<1>4. /\ \A r \in Sides : Settled(tree'[r], heap'[r], curr'[r], r, pc' = <<"relax", r>>, pending')
      /\ pc' \in {Bidir!After(s), <<"relax", s>>}
      /\ DOMAIN heap' = Sides /\ heap' = [r \in Sides |-> heap'[r]]
      /\ DOMAIN curr' = Sides /\ curr' = [r \in Sides |-> curr'[r]]
  <2>1. CASE pc' = Bidir!After(s) /\ UNCHANGED <<heap, curr, pending>>
    <3>1. \A r \in Sides : (pc' = <<"relax", r>>) = FALSE
      BY <1>3, <2>1
    <3> QED
      BY <1>1, <1>2, <2>1, <3>1 DEF BidirInv
  <2>2. ASSUME NEW entry \in heap[s],
               /\ \A x \in heap[s] : Bidir!HeapWeight(entry, s) <= Bidir!HeapWeight(x, s)
               /\ heap' = [heap EXCEPT ![s] = @ \ {entry}]
               /\ curr' = [curr EXCEPT ![s] = entry]
               /\ pending' = {e \in Bidir!Incident(entry.node) : Bidir!accept(e, entry, s)}
               /\ pc' = IF pending' = {} THEN Bidir!After(s) ELSE <<"relax", s>>
        PROVE  /\ \A r \in Sides : Settled(tree'[r], heap'[r], curr'[r], r, pc' = <<"relax", r>>, pending')
               /\ pc' \in {Bidir!After(s), <<"relax", s>>}
               /\ DOMAIN heap' = Sides /\ heap' = [r \in Sides |-> heap'[r]]
               /\ DOMAIN curr' = Sides /\ curr' = [r \in Sides |-> curr'[r]]
    <3>1. \A x \in heap[s] : IsEntry(x)
      BY <1>2 DEF Settled
    <3>2. \A x \in heap[s] : Weigh(entry, s) <= Weigh(x, s)
      BY <1>1, <2>2, <3>1, HeapOrder
    <3>3. pending' \subseteq Incident(entry.node)
      BY <2>2, BidirOperators
    <3>4. /\ heap'[s] = heap[s] \ {entry} /\ curr'[s] = entry
          /\ \A r \in Sides : r # s => heap'[r] = heap[r] /\ curr'[r] = curr[r]
          /\ DOMAIN heap' = Sides /\ heap' = [r \in Sides |-> heap'[r]]
          /\ DOMAIN curr' = Sides /\ curr' = [r \in Sides |-> curr'[r]]
      BY <1>1, <2>2 DEF BidirInv
    <3>5. pc' \in {Bidir!After(s), <<"relax", s>>}
      BY <2>2
    <3>6. Settled(tree'[s], heap'[s], curr'[s], s, pc' = <<"relax", s>>, pending')
      <4>1. (pc' = <<"relax", s>>) \in {TRUE, FALSE}
        OBVIOUS
      <4>2. Settled(tree[s], heap[s], curr[s], s, FALSE, pending)
        BY <1>2
      <4>3. /\ Settled(tree[s], heap[s] \ {entry}, entry, s, TRUE, pending')
            /\ Settled(tree[s], heap[s] \ {entry}, entry, s, FALSE, pending')
        BY <1>1, <3>2, <3>3, <4>2, PopKeeps
      <4> QED
        BY <1>1, <3>4, <4>1, <4>3
    <3>7. ASSUME NEW r \in Sides, r # s
          PROVE  Settled(tree'[r], heap'[r], curr'[r], r, pc' = <<"relax", r>>, pending')
      <4>1. (pc' = <<"relax", r>>) = FALSE
        BY <1>3, <3>5, <3>7
      <4> QED
        BY <1>1, <1>2, <3>4, <3>7, <4>1, SettledWhenIdle
    <3> QED
      BY <3>4, <3>5, <3>6, <3>7
  <2> QED
    BY <2>1, <2>2 DEF Bidir!Pop
<1>5. pc' \in {"fill", "relax", "head", "done", "exceeded"} \X Sides
  BY <1>3, <1>4 DEF Sides
<1>6. BidirInv'
  BY <1>1, <1>4, <1>5, SettledPrimed DEF BidirInv, Sides
<1>7. IndInv'
  BY <1>1, <1>6 DEF IndInv
<1> QED
  BY <1>1, <1>7 DEF Bidir!VisitedStay

\* One edge of fillEdges: the other side is left alone.
LEMMA BidirRelax ==
    ASSUME IndInv, algorithm.bidirectional, NEW s \in Sides, Bidir!Relax(s), UNCHANGED algorithm
    PROVE  IndInv' /\ Bidir!VisitedStay
<1>1. /\ query \in Queries /\ algorithm \in Algorithms /\ BidirInv
      /\ query' = query /\ algorithm' = algorithm /\ curr' = curr
      /\ pc = <<"relax", s>>
  BY DEF IndInv, Bidir!Relax
<1>2. /\ Settled(tree[s], heap[s], curr[s], s, TRUE, pending)
      /\ \A r \in Sides : r # s => Settled(tree[r], heap[r], curr[r], r, FALSE, pending)
  <2>1. (pc = <<"relax", s>>) = TRUE /\ \A r \in Sides : r # s => (pc = <<"relax", r>>) = FALSE
    BY <1>1
  <2> QED
    BY <1>1, <2>1 DEF BidirInv
<1>3. PICK e \in pending :
        /\ LET entry == createEntry(e, curr[s], s)
               id == TraversalID(e, curr[s].node, s)
               replaced == {tree[s][i] : i \in DOMAIN tree[s] \cap {id}}
           IN  IF Improves(entry, id, tree[s])
               THEN /\ tree' = [tree EXCEPT ![s] = Filed(tree[s], id, entry)]
                    /\ heap' = [heap EXCEPT ![s] = (heap[s] \ replaced) \cup {entry}]
               ELSE UNCHANGED <<tree, heap>>
        /\ pending' = pending \ {e}
        /\ pc' = IF pending' = {} THEN Bidir!After(s) ELSE pc
  BY BidirOperators DEF Bidir!Relax
<1> DEFINE entry == createEntry(e, curr[s], s)
           id == TraversalID(e, curr[s].node, s)
<1>4. /\ Settled(tree'[s], heap'[s], curr[s], s, TRUE, pending)
      /\ \A r \in Sides : r # s => tree'[r] = tree[r] /\ heap'[r] = heap[r]
      /\ DOMAIN tree' = Sides /\ tree' = [r \in Sides |-> tree'[r]]
      /\ DOMAIN heap' = Sides /\ heap' = [r \in Sides |-> heap'[r]]
      /\ Bidir!VisitedStay
  <2>1. CASE Improves(entry, id, tree[s])
    <3>1. /\ tree' = [tree EXCEPT ![s] = Filed(tree[s], id, entry)]
          /\ heap' = [heap EXCEPT ![s] = (heap[s] \ {tree[s][i] : i \in DOMAIN tree[s] \cap {id}}) \cup {entry}]
      BY <1>3, <2>1
    <3>2. /\ id \in DOMAIN tree[s] => tree[s][id] \in heap[s]
          /\ Settled(Filed(tree[s], id, entry),
                     (heap[s] \ {tree[s][i] : i \in DOMAIN tree[s] \cap {id}}) \cup {entry},
                     curr[s], s, TRUE, pending)
      BY <1>1, <1>2, <2>1, RelaxKeeps
    <3> HIDE DEF entry, id
    <3>3. /\ tree'[s] = Filed(tree[s], id, entry)
          /\ heap'[s] = (heap[s] \ {tree[s][i] : i \in DOMAIN tree[s] \cap {id}}) \cup {entry}
          /\ \A r \in Sides : r # s => tree'[r] = tree[r] /\ heap'[r] = heap[r]
          /\ DOMAIN tree' = Sides /\ tree' = [r \in Sides |-> tree'[r]]
          /\ DOMAIN heap' = Sides /\ heap' = [r \in Sides |-> heap'[r]]
      BY <1>1, <3>1 DEF BidirInv
    <3>4. \A i \in DOMAIN tree[s] : tree[s][i] \notin heap[s] => tree'[s][i] = tree[s][i]
      BY <3>2, <3>3 DEF Filed
    <3>5. Bidir!VisitedStay
      BY <3>3, <3>4, BidirOperators DEF Bidir!VisitedStay
    <3> QED
      BY <3>2, <3>3, <3>5
  <2>2. CASE ~Improves(entry, id, tree[s])
    <3>1. tree' = tree /\ heap' = heap
      BY <1>3, <2>2
    <3> QED
      BY <1>1, <1>2, <3>1 DEF BidirInv, Bidir!VisitedStay
  <2> QED
    BY <2>1, <2>2
<1>5. Bidir!After(s) \in {<<"fill", "to">>, <<"head", "from">>} /\ pc' \in {Bidir!After(s), pc}
  BY <1>3 DEF Bidir!After
<1>6. ASSUME NEW r \in Sides
      PROVE  Settled(tree'[r], heap'[r], curr'[r], r, pc' = <<"relax", r>>, pending')
  <2>1. CASE r = s
    <3>1. (pc' = <<"relax", s>>) \in {TRUE, FALSE} /\ pending' \subseteq pending
      BY <1>3
    <3>2. /\ Settled(tree'[s], heap'[s], curr[s], s, TRUE, pending')
          /\ Settled(tree'[s], heap'[s], curr[s], s, FALSE, pending')
      BY <1>4, <3>1, SettledStays
    <3> QED
      BY <1>1, <2>1, <3>1, <3>2
  <2>2. CASE r # s
    <3>1. (pc' = <<"relax", r>>) = FALSE
      BY <1>1, <1>5, <2>2
    <3> QED
      BY <1>1, <1>2, <1>4, <2>2, <3>1, SettledWhenIdle
  <2> QED
    BY <2>1, <2>2
<1>7. pc' \in {"fill", "relax", "head", "done", "exceeded"} \X Sides
  BY <1>1, <1>5 DEF BidirInv, Sides
<1>8. BidirInv'
  <2>1. DOMAIN curr' = Sides /\ curr' = [r \in Sides |-> curr'[r]]
    BY <1>1 DEF BidirInv
  <2> QED
    BY <1>1, <1>4, <1>6, <1>7, <2>1, SettledPrimed DEF BidirInv, Sides
<1>9. IndInv'
  BY <1>1, <1>8 DEF IndInv
<1> QED
  BY <1>4, <1>9

\* The loop condition of runAlgo.
LEMMA BidirHead ==
    ASSUME IndInv, algorithm.bidirectional, Bidir!runAlgo, UNCHANGED algorithm
    PROVE  IndInv' /\ Bidir!VisitedStay
<1>1. /\ query \in Queries /\ algorithm \in Algorithms /\ BidirInv
      /\ query' = query /\ algorithm' = algorithm
      /\ UNCHANGED <<tree, heap, curr, pending>>
      /\ pc = <<"head", "from">>
      /\ pc' \in {<<"fill", "from">>, <<"done", "from">>, <<"exceeded", "from">>}
  BY DEF IndInv, Bidir!runAlgo
<1>2. \A r \in Sides : Settled(tree'[r], heap'[r], curr'[r], r, pc' = <<"relax", r>>, pending')
  <2>1. \A r \in Sides : (pc = <<"relax", r>>) = FALSE /\ (pc' = <<"relax", r>>) = FALSE
    BY <1>1
  <2>2. \A r \in Sides : Settled(tree[r], heap[r], curr[r], r, FALSE, pending)
    BY <1>1, <2>1 DEF BidirInv
  <2> QED
    BY <1>1, <2>1, <2>2
<1>3. BidirInv'
  BY <1>1, <1>2, SettledPrimed DEF BidirInv, Sides
<1>4. IndInv'
  BY <1>1, <1>3 DEF IndInv
<1> QED
  BY <1>1, <1>4 DEF Bidir!VisitedStay

-----------------------------------------------------------------------------
\* The inductive invariant holds, for every set of queries: in each tree and
\* heap, an entry that has been popped is no heavier than those that have not
\* (fillEdgesFrom, fillEdgesTo, runAlgo).
THEOREM PoppedInOrder == Spec => []IndInv
<1>1. Init => IndInv
  BY UnidirInit, BidirInit DEF Init
<1>2. IndInv /\ [Next]_vars => IndInv'
  <2> SUFFICES ASSUME IndInv, [Next]_vars PROVE IndInv'
    OBVIOUS
  <2>1. CASE Bidirectional
    <3>1. algorithm.bidirectional /\ Bidir!Next /\ UNCHANGED algorithm
      BY <2>1 DEF Bidirectional
    <3> QED
      BY <3>1, BidirOperators, BidirPop, BidirRelax, BidirHead DEF Bidir!Next
  <2>2. CASE Unidirectional
    <3>1. ~algorithm.bidirectional /\ Unidir!Next /\ UNCHANGED algorithm
      BY <2>2 DEF Unidirectional
    <3> QED
      BY <3>1, UnidirPop, UnidirRelax DEF Unidir!Next
  <2>3. CASE UNCHANGED vars
    <3>1. /\ query' = query /\ algorithm' = algorithm /\ pc' = pc /\ tree' = tree
          /\ heap' = heap /\ curr' = curr /\ pending' = pending
      BY <2>3 DEF vars
    <3>2. UnidirInv' <=> UnidirInv
      BY <3>1, SettledPrimed DEF UnidirInv
    <3>3. BidirInv' <=> BidirInv
      BY <3>1, SettledPrimed DEF BidirInv, Sides
    <3> QED
      BY <3>1, <3>2, <3>3 DEF IndInv
  <2> QED
    BY <2>1, <2>2, <2>3 DEF Next
<1> QED
  BY <1>1, <1>2, PTL DEF Spec

\* VisitedEntriesAreFinal: no search of core/routing that needs no preparation
\* replaces an entry it has popped, whatever the network and the request.
THEOREM VisitedFinal == Spec => VisitedEntriesAreFinal
<1>1. IndInv /\ [Next]_vars =>
         [IF algorithm.bidirectional THEN Bidir!VisitedStay ELSE Unidir!VisitedStay]_vars
  <2> SUFFICES ASSUME IndInv, Next
               PROVE  IF algorithm.bidirectional THEN Bidir!VisitedStay ELSE Unidir!VisitedStay
    OBVIOUS
  <2>1. CASE Bidirectional
    <3>1. algorithm.bidirectional /\ Bidir!Next /\ UNCHANGED algorithm
      BY <2>1 DEF Bidirectional
    <3> QED
      BY <3>1, BidirOperators, BidirPop, BidirRelax, BidirHead DEF Bidir!Next
  <2>2. CASE Unidirectional
    <3>1. ~algorithm.bidirectional /\ Unidir!Next /\ UNCHANGED algorithm
      BY <2>2 DEF Unidirectional
    <3> QED
      BY <3>1, UnidirPop, UnidirRelax DEF Unidir!Next
  <2> QED
    BY <2>1, <2>2 DEF Next
<1> QED
  BY <1>1, PoppedInOrder, PTL DEF Spec, VisitedEntriesAreFinal

-----------------------------------------------------------------------------

\* An arc as the search of side s travels it: from Base to Far.
Base(arc, s) == IF s = "from" THEN arc[2] ELSE AdjNode(arc[1], arc[2])
Far(arc, s) == IF s = "from" THEN AdjNode(arc[1], arc[2]) ELSE arc[2]
Cost(arc) == W!ArcWeight(query, arc)

\* The turn between arc a and arc b, which this search travels after a.
TurnCost(a, b, s) == IF s = "from" THEN W!Turn(query, a, b) ELSE W!Turn(query, b, a)

\* Where the search of side s files an entry that ends with arc.
IdOf(arc, s) == IF query.edgeBased THEN arc ELSE Far(arc, s)

Arcs == W!Arcs(query)

\* c is a chain of n arcs from where side s starts; Q[i] is the weight of the
\* first i of them.
IsChain(c, Q, n, s) ==
    /\ n \in Nat /\ c \in [1 .. n -> Arcs] /\ Q \in [1 .. n -> Nat]
    /\ n > 0 => /\ Base(c[1], s) = query.start[s]
                /\ query.only[s] \in {AnyEdge, c[1][1]}
                /\ Q[1] = Cost(c[1])
    /\ \A i \in 1 .. (n - 1) :
          /\ Base(c[i + 1], s) = Far(c[i], s)
          /\ TurnCost(c[i], c[i + 1], s) \in Nat
          /\ Q[i + 1] = Q[i] + TurnCost(c[i], c[i + 1], s) + Cost(c[i + 1])

\* arc ends where the other side starts.
ReachesOther(arc, s) ==
    Far(arc, s) = query.start[Other(s)] /\ query.only[Other(s)] \in {AnyEdge, arc[1]}

\* The edges and the weight of an entry are those of a chain.
HasChain(x, s) ==
    /\ x.edges = << >> => x.node = query.start[s] /\ x.weight = 0
    /\ \E c, Q : /\ IsChain(c, Q, Len(x.edges), s)
                 /\ \A i \in 1 .. Len(x.edges) : c[i][1] = x.edges[i]
                 /\ x.edges # << >> => /\ Far(c[Len(x.edges)], s) = x.node
                                       /\ Q[Len(x.edges)] = x.weight

Trivial == query.start["from"] = query.start["to"] /\ query.only = [s \in Sides |-> AnyEdge]

-----------------------------------------------------------------------------
\* Arcs.

\* An arc is an edge with the end where it leaves.
LEMMA ArcIsEdge ==
    ASSUME query \in Queries, NEW arc
    PROVE  arc \in Arcs <=> /\ arc = <<arc[1], arc[2]>>
                            /\ arc[1] \in DOMAIN query.edges /\ arc[2] \in Ends(arc[1])
                            /\ Cost(arc) # Inf
  BY DEF Arcs, W!Arcs, Cost, Ends

\* What the searches and the definition of the distance say of an arc agree.
LEMMA ArcFacts ==
    ASSUME query \in Queries, NEW arc \in Arcs, NEW s \in Sides
    PROVE  /\ Cost(arc) \in Nat
           /\ Base(arc, s) \in DOMAIN query.pos /\ Far(arc, s) \in DOMAIN query.pos
           /\ Cost(arc) >= Beeline(query, Base(arc, s), Far(arc, s))
           /\ arc[1] \in Incident(Base(arc, s)) /\ arc[1] \in Incident(Far(arc, s))
           /\ AdjNode(arc[1], Base(arc, s)) = Far(arc, s)
           /\ AdjNode(arc[1], Far(arc, s)) = Base(arc, s)
           /\ EdgeWeight(arc[1], Base(arc, s), s) = Cost(arc)
           /\ TraversalID(arc[1], Base(arc, s), s) = IdOf(arc, s)
           /\ W!HeadNode(query, arc) = Far(arc, "from") /\ W!TailNode(arc) = Base(arc, "from")
<1> DEFINE e == arc[1]  n == arc[2]
<1>1. arc = <<e, n>> /\ e \in DOMAIN query.edges /\ n \in Ends(e) /\ Cost(arc) # Inf
  BY ArcIsEdge
<1>2. /\ query.edges[e].a # query.edges[e].b /\ n \in {query.edges[e].a, query.edges[e].b}
      /\ query.edges[e].a \in DOMAIN query.pos /\ query.edges[e].b \in DOMAIN query.pos
  BY <1>1, QueryFacts DEF Ends
<1>3. Cost(arc) = IF query.edges[e].a = n THEN query.edges[e].fwd ELSE query.edges[e].bwd
  BY DEF Cost, W!ArcWeight, W!TailNode
<1>4. AdjNode(e, n) = IF query.edges[e].a = n THEN query.edges[e].b ELSE query.edges[e].a
  BY DEF AdjNode
<1>5. AdjNode(e, AdjNode(e, n)) = n /\ AdjNode(e, n) \in Ends(e)
  BY <1>2, <1>4 DEF AdjNode, Ends
<1>6. EdgeWeight(e, n, "from") = Cost(arc) /\ EdgeWeight(e, AdjNode(e, n), "to") = Cost(arc)
  BY <1>2, <1>3, <1>4 DEF EdgeWeight
<1>7. Cost(arc) \in Nat /\ Cost(arc) >= Beeline(query, n, AdjNode(e, n))
  BY <1>1, <1>6, AdjacentFacts
<1>8. Beeline(query, n, AdjNode(e, n)) = Beeline(query, AdjNode(e, n), n)
  BY <1>2, <1>4, BeelineFacts
<1>9. /\ W!HeadNode(query, arc) = AdjNode(e, n) /\ W!TailNode(arc) = n
  BY <1>4 DEF W!HeadNode, W!TailNode
<1>10. s \in {"from", "to"}
  BY DEF Sides
<1>11. n \in DOMAIN query.pos /\ AdjNode(e, n) \in DOMAIN query.pos
  BY <1>2, <1>4
<1>12. e \in Incident(n) /\ e \in Incident(AdjNode(e, n))
  BY <1>1, <1>5 DEF Incident, Ends
<1> HIDE DEF e, n
<1>13. /\ Base(arc, "from") = n /\ Far(arc, "from") = AdjNode(e, n)
       /\ Base(arc, "to") = AdjNode(e, n) /\ Far(arc, "to") = n
  BY DEF Base, Far, e, n
<1>14. TraversalID(e, n, "from") = IdOf(arc, "from") /\ TraversalID(e, AdjNode(e, n), "to") = IdOf(arc, "to")
  BY <1>1, <1>5, <1>13 DEF TraversalID, IdOf
<1> QED
  BY <1>5, <1>6, <1>7, <1>8, <1>9, <1>10, <1>11, <1>12, <1>13, <1>14 DEF e

\* An edge that may be travelled from a node is an arc.
LEMMA EdgeIsArc ==
    ASSUME query \in Queries, NEW s \in Sides, NEW n, NEW e \in Incident(n),
           EdgeWeight(e, n, s) # Inf
    PROVE  \E arc \in Arcs : arc[1] = e /\ Base(arc, s) = n
<1> DEFINE tail == IF s = "from" THEN n ELSE AdjNode(e, n)
           arc == <<e, tail>>
<1>1. e \in DOMAIN query.edges /\ n \in Ends(e)
  BY DEF Incident, Ends
<1>2. /\ query.edges[e].a # query.edges[e].b /\ n \in {query.edges[e].a, query.edges[e].b}
  BY <1>1, QueryFacts DEF Ends
<1>3. /\ AdjNode(e, n) \in Ends(e) /\ AdjNode(e, AdjNode(e, n)) = n
  BY <1>2 DEF AdjNode, Ends
<1>4. Cost(arc) = EdgeWeight(e, n, s)
  <2>1. Cost(arc) = IF query.edges[e].a = tail THEN query.edges[e].fwd ELSE query.edges[e].bwd
    BY DEF Cost, W!ArcWeight, W!TailNode
  <2> QED
    BY <1>2, <2>1 DEF AdjNode, EdgeWeight, Sides
<1>5. tail \in Ends(e) /\ Base(arc, s) = n
  BY <1>1, <1>3 DEF Base, Sides
<1>6. arc[1] = e /\ arc[2] = tail
  OBVIOUS
<1>7. arc \in Arcs
  BY <1>1, <1>4, <1>5, <1>6, ArcIsEdge
<1> QED
  BY <1>5, <1>6, <1>7

\* One side's far end is the other's base.
LEMMA OtherSide ==
    ASSUME NEW s \in Sides
    PROVE  /\ Other(s) \in Sides /\ Other(Other(s)) = s /\ Other(s) # s
           /\ \A arc : Base(arc, Other(s)) = Far(arc, s) /\ Far(arc, Other(s)) = Base(arc, s)
           /\ \A a, b : TurnCost(a, b, Other(s)) = TurnCost(b, a, s)
  BY DEF Sides, Other, Base, Far, TurnCost

\* Turns cost what the searches add for them, and nothing node-based.
LEMMA TurnFacts ==
    ASSUME query \in Queries, NEW s \in Sides, NEW a \in Arcs, NEW b \in Arcs,
           Base(b, s) = Far(a, s)
    PROVE  /\ TurnCost(a, b, s) = Inf \/ TurnCost(a, b, s) \in Nat
           /\ TurnCost(a, b, s) = IF s = "from" THEN TurnWeight(a[1], Far(a, s), b[1])
                                                ELSE TurnWeight(b[1], Far(a, s), a[1])
           /\ ~query.edgeBased => TurnCost(a, b, s) = 0
<1>1. W!TailNode(a) = Base(a, "from") /\ W!TailNode(b) = Base(b, "from")
  BY ArcFacts DEF Sides
<1>2. TurnCost(a, b, s) = IF s = "from" THEN TurnWeight(a[1], Far(a, s), b[1])
                                        ELSE TurnWeight(b[1], Far(a, s), a[1])
  <2>1. CASE s = "from"
    BY <1>1, <2>1 DEF TurnCost, W!Turn, TurnWeight
  <2>2. CASE s = "to"
    <3>1. W!TailNode(a) = Far(a, s)
      BY <1>1, <2>2 DEF Base, Far
    <3> QED
      BY <2>2, <3>1 DEF TurnCost, W!Turn, TurnWeight
  <2> QED
    BY <2>1, <2>2 DEF Sides
<1>3. \A i, v, o : TurnWeight(i, v, o) = Inf \/ TurnWeight(i, v, o) \in Nat
  BY QueryFacts DEF TurnWeight
<1>4. ~query.edgeBased => query.restricted = {} /\ query.uTurn = 0
  BY QueriesAssumption
<1> QED
  BY <1>2, <1>3, <1>4 DEF TurnWeight

-----------------------------------------------------------------------------
\* Chains and entries.

\* The weight of a chain with one more arc.
NextWeight(c, Q, n, arc, s) ==
    IF n = 0 THEN Cost(arc) ELSE Q[n] + TurnCost(c[n], arc, s) + Cost(arc)

\* A chain with one more arc is a chain.
LEMMA ExtendChain ==
    ASSUME query \in Queries, NEW s \in Sides, NEW c, NEW Q, NEW n, IsChain(c, Q, n, s),
           NEW arc \in Arcs,
           n = 0 => Base(arc, s) = query.start[s] /\ query.only[s] \in {AnyEdge, arc[1]},
           n > 0 => Base(arc, s) = Far(c[n], s) /\ TurnCost(c[n], arc, s) \in Nat
    PROVE  \E d, R : /\ IsChain(d, R, n + 1, s)
                     /\ \A i \in 1 .. n : d[i] = c[i] /\ R[i] = Q[i]
                     /\ d[n + 1] = arc /\ R[n + 1] = NextWeight(c, Q, n, arc, s)
<1> DEFINE w == NextWeight(c, Q, n, arc, s)
           d == [i \in 1 .. (n + 1) |-> IF i = n + 1 THEN arc ELSE c[i]]
           R == [i \in 1 .. (n + 1) |-> IF i = n + 1 THEN w ELSE Q[i]]
<1>1. n \in Nat /\ c \in [1 .. n -> Arcs] /\ Q \in [1 .. n -> Nat]
  BY DEF IsChain
<1>2. Cost(arc) \in Nat
  BY ArcFacts
<1>3. w \in Nat
  <2>1. n > 0 => Q[n] \in Nat
    BY <1>1
  <2> QED
    BY <1>1, <1>2, <2>1 DEF NextWeight
<1>4. d \in [1 .. (n + 1) -> Arcs] /\ R \in [1 .. (n + 1) -> Nat]
  BY <1>1, <1>3
<1>5. \A i \in 1 .. n : d[i] = c[i] /\ R[i] = Q[i]
  BY <1>1
<1>6. d[n + 1] = arc /\ R[n + 1] = w
  BY <1>1
<1> HIDE DEF d, R
<1>0. w = NextWeight(c, Q, n, arc, s)
  OBVIOUS
<1> HIDE DEF w
<1>7. Base(d[1], s) = query.start[s] /\ query.only[s] \in {AnyEdge, d[1][1]} /\ R[1] = Cost(d[1])
  <2>1. CASE n = 0
    BY <1>0, <1>6, <2>1 DEF NextWeight
  <2>2. CASE n > 0
    <3>1. d[1] = c[1] /\ R[1] = Q[1]
      BY <1>1, <1>5, <2>2
    <3> QED
      BY <2>2, <3>1 DEF IsChain
  <2> QED
    BY <1>1, <2>1, <2>2
<1>8. ASSUME NEW i \in 1 .. n
      PROVE  /\ Base(d[i + 1], s) = Far(d[i], s)
             /\ TurnCost(d[i], d[i + 1], s) \in Nat
             /\ R[i + 1] = R[i] + TurnCost(d[i], d[i + 1], s) + Cost(d[i + 1])
  <2>1. CASE i = n
    BY <1>0, <1>1, <1>5, <1>6, <2>1 DEF NextWeight
  <2>2. CASE i # n
    <3>1. i \in 1 .. (n - 1) /\ i + 1 \in 1 .. n
      BY <1>1, <2>2
    <3>2. d[i] = c[i] /\ R[i] = Q[i] /\ d[i + 1] = c[i + 1] /\ R[i + 1] = Q[i + 1]
      BY <1>5, <3>1
    <3> QED
      BY <3>1, <3>2 DEF IsChain
  <2> QED
    BY <2>1, <2>2
<1>9. IsChain(d, R, n + 1, s)
  <2>1. n + 1 \in Nat /\ (n + 1) - 1 = n
    BY <1>1
  <2> QED
    BY <1>4, <1>7, <1>8, <2>1 DEF IsChain
<1> QED
  BY <1>0, <1>5, <1>6, <1>9

\* What a search adds for the turn from the end of an entry into an edge.
TurnFrom(x, e, s) ==
    IF IsRoot(x) THEN 0
    ELSE IF s = "from" THEN TurnWeight(Last(x.edges), x.node, e) ELSE TurnWeight(e, x.node, Last(x.edges))

\* A new entry weighs its parent, the turn and the arc (calcWeight).
LEMMA EntryAlong ==
    ASSUME query \in Queries, NEW s \in Sides, NEW x, IsEntry(x),
           NEW arc \in Arcs, Base(arc, s) = x.node
    PROVE  /\ createEntry(arc[1], x, s).node = Far(arc, s)
           /\ createEntry(arc[1], x, s).edges = Append(x.edges, arc[1])
           /\ TurnFrom(x, arc[1], s) = Inf => createEntry(arc[1], x, s).weight = Inf
           /\ TurnFrom(x, arc[1], s) # Inf =>
                 /\ TurnFrom(x, arc[1], s) \in Nat
                 /\ createEntry(arc[1], x, s).weight = x.weight + TurnFrom(x, arc[1], s) + Cost(arc)
                 /\ createEntry(arc[1], x, s).weight # Inf
<1> DEFINE new == createEntry(arc[1], x, s)
<1>1. /\ new.node = Far(arc, s) /\ new.edges = Append(x.edges, arc[1])
      /\ new.weight = Add(Add(Cost(arc), TurnFrom(x, arc[1], s)), x.weight)
  BY ArcFacts DEF createEntry, calcWeight, TurnFrom
<1>2. x.weight \in Nat /\ Cost(arc) \in Nat /\ Inf \notin Int
  BY ArcFacts, QueryFacts DEF IsEntry
<1>3. TurnFrom(x, arc[1], s) = Inf \/ TurnFrom(x, arc[1], s) \in Nat
  BY QueryFacts DEF TurnFrom, TurnWeight
<1> HIDE DEF new
<1>4. TurnFrom(x, arc[1], s) = Inf => new.weight = Inf
  BY <1>1 DEF Add
<1>5. TurnFrom(x, arc[1], s) # Inf =>
         /\ TurnFrom(x, arc[1], s) \in Nat
         /\ new.weight = x.weight + TurnFrom(x, arc[1], s) + Cost(arc)
         /\ new.weight # Inf
  BY <1>1, <1>2, <1>3 DEF Add
<1> QED
  BY <1>1, <1>4, <1>5 DEF new

\* The edge of a new entry of finite weight is an arc from its parent.
LEMMA EntryHasArc ==
    ASSUME query \in Queries, NEW s \in Sides, NEW x, IsEntry(x),
           NEW e \in Incident(x.node), createEntry(e, x, s).weight # Inf
    PROVE  \E arc \in Arcs : arc[1] = e /\ Base(arc, s) = x.node /\ TurnFrom(x, e, s) # Inf
<1>1. createEntry(e, x, s).weight = Add(Add(EdgeWeight(e, x.node, s), TurnFrom(x, e, s)), x.weight)
  BY DEF createEntry, calcWeight, TurnFrom
<1>2. EdgeWeight(e, x.node, s) # Inf /\ TurnFrom(x, e, s) # Inf
  BY <1>1 DEF Add
<1> QED
  BY <1>2, EdgeIsArc

\* Entries with edges, and the turn at their end.
LEMMA LastOfChain ==
    ASSUME query \in Queries, NEW s \in Sides, NEW x, IsEntry(x), x.edges # << >>,
           NEW c, \A i \in 1 .. Len(x.edges) : c[i][1] = x.edges[i]
    PROVE  /\ Len(x.edges) \in Nat /\ Len(x.edges) > 0
           /\ Last(x.edges) = c[Len(x.edges)][1]
<1>1. x.edges \in Seq(DOMAIN query.edges)
  BY DEF IsEntry
<1>2. Len(x.edges) \in Nat /\ Len(x.edges) > 0 /\ Len(x.edges) \in 1 .. Len(x.edges)
  BY <1>1
<1> QED
  BY <1>2 DEF Last

\* A root has the empty chain.
LEMMA RootHasChain ==
    ASSUME query \in Queries, NEW s \in Sides
    PROVE  /\ IsEntry(NewSPTEntry(query.start[s])) /\ HasChain(NewSPTEntry(query.start[s]), s)
           /\ IsRoot(NewSPTEntry(query.start[s]))
<1> DEFINE root == NewSPTEntry(query.start[s])
<1>1. root.edges = << >> /\ root.node = query.start[s] /\ root.weight = 0
  BY DEF NewSPTEntry
<1>2. IsEntry(root)
  <2>1. root = [node |-> root.node, weight |-> root.weight, edges |-> root.edges]
    BY DEF NewSPTEntry
  <2> HIDE DEF root
  <2> QED
    BY <1>1, <2>1, QueryFacts DEF IsEntry, Sides
<1>3. Len(root.edges) = 0
  BY <1>1
<1>4. IsChain([i \in 1 .. 0 |-> i], [i \in 1 .. 0 |-> i], 0, s)
  BY DEF IsChain
<1> HIDE DEF root
<1>5. HasChain(root, s)
  BY <1>1, <1>3, <1>4 DEF HasChain
<1> QED
  BY <1>1, <1>2, <1>5 DEF root, IsRoot

\* A new entry has a chain if its parent has and the first edge is allowed.
LEMMA NewEntryHasChain ==
    ASSUME query \in Queries, NEW s \in Sides, NEW x, IsEntry(x), HasChain(x, s),
           NEW e \in Incident(x.node), createEntry(e, x, s).weight # Inf,
           IsRoot(x) => query.only[s] \in {AnyEdge, e}
    PROVE  HasChain(createEntry(e, x, s), s)
<1> DEFINE new == createEntry(e, x, s)  n == Len(x.edges)
<1>1. PICK arc \in Arcs : arc[1] = e /\ Base(arc, s) = x.node /\ TurnFrom(x, e, s) # Inf
  BY EntryHasArc
<1>2. /\ new.node = Far(arc, s) /\ new.edges = Append(x.edges, e)
      /\ TurnFrom(x, e, s) \in Nat
      /\ new.weight = x.weight + TurnFrom(x, e, s) + Cost(arc)
  BY <1>1, EntryAlong
<1>3. PICK c, Q : /\ IsChain(c, Q, n, s)
                  /\ \A i \in 1 .. n : c[i][1] = x.edges[i]
                  /\ x.edges # << >> => Far(c[n], s) = x.node /\ Q[n] = x.weight
  BY DEF HasChain
<1>4. x.edges \in Seq(DOMAIN query.edges) /\ e \in DOMAIN query.edges /\ n \in Nat
  BY DEF IsEntry, Incident
<1>5. /\ new.edges # << >> /\ Len(new.edges) = n + 1 /\ new.edges[n + 1] = e
      /\ \A i \in 1 .. n : new.edges[i] = x.edges[i]
  <2>1. /\ Append(x.edges, e) # << >> /\ Len(Append(x.edges, e)) = n + 1
        /\ Append(x.edges, e)[n + 1] = e
        /\ \A i \in 1 .. n : Append(x.edges, e)[i] = x.edges[i]
    BY <1>4
  <2> QED
    BY <1>2, <2>1
<1>6. \E d, R : /\ IsChain(d, R, n + 1, s)
                /\ \A i \in 1 .. n : d[i] = c[i] /\ R[i] = Q[i]
                /\ d[n + 1] = arc /\ R[n + 1] = new.weight
  <2>1. n = 0 => /\ Base(arc, s) = query.start[s]
                 /\ query.only[s] \in {AnyEdge, arc[1]}
                 /\ new.weight = NextWeight(c, Q, n, arc, s)
    <3> SUFFICES ASSUME n = 0
                 PROVE  /\ Base(arc, s) = query.start[s]
                        /\ query.only[s] \in {AnyEdge, arc[1]}
                        /\ new.weight = NextWeight(c, Q, n, arc, s)
      OBVIOUS
    <3>1. x.edges = << >>
      BY <1>4
    <3>2. x.node = query.start[s] /\ x.weight = 0 /\ IsRoot(x)
      BY <3>1 DEF HasChain, IsRoot
    <3>3. Cost(arc) \in Nat
      BY ArcFacts
    <3> HIDE DEF new
    <3> QED
      BY <1>1, <1>2, <3>2, <3>3 DEF TurnFrom, NextWeight
  <2>2. n > 0 => /\ Base(arc, s) = Far(c[n], s)
                 /\ TurnCost(c[n], arc, s) \in Nat
                 /\ new.weight = NextWeight(c, Q, n, arc, s)
    <3> SUFFICES ASSUME n > 0
                 PROVE  /\ Base(arc, s) = Far(c[n], s)
                        /\ TurnCost(c[n], arc, s) \in Nat
                        /\ new.weight = NextWeight(c, Q, n, arc, s)
      OBVIOUS
    <3>1. x.edges # << >>
      BY <1>4
    <3>2. Far(c[n], s) = x.node /\ Q[n] = x.weight /\ Last(x.edges) = c[n][1]
      BY <1>3, <3>1, LastOfChain
    <3>3. c[n] \in Arcs
      BY <1>3, <1>4 DEF IsChain
    <3>4. TurnCost(c[n], arc, s) = TurnFrom(x, e, s)
      BY <1>1, <3>1, <3>2, <3>3, TurnFacts DEF TurnFrom, IsRoot
    <3> HIDE DEF new
    <3> QED
      BY <1>1, <1>2, <3>2, <3>4 DEF NextWeight
  <2> HIDE DEF new, n
  <2>3. n = 0 \/ n > 0
    BY <1>4
  <2> QED
    BY <1>3, <2>1, <2>2, <2>3, ExtendChain
<1>7. PICK d, R : /\ IsChain(d, R, n + 1, s)
                  /\ \A i \in 1 .. n : d[i] = c[i] /\ R[i] = Q[i]
                  /\ d[n + 1] = arc /\ R[n + 1] = new.weight
  BY <1>6
<1> HIDE DEF new
<1>8. \A i \in 1 .. (n + 1) : d[i][1] = new.edges[i]
  <2> HIDE DEF n
  <2> TAKE i \in 1 .. (n + 1)
  <2>1. CASE i = n + 1
    BY <1>1, <1>5, <1>7, <2>1
  <2>2. CASE i # n + 1
    <3>1. i \in 1 .. n
      BY <1>4, <2>2
    <3> QED
      BY <1>3, <1>5, <1>7, <3>1
  <2> QED
    BY <2>1, <2>2
<1>9. HasChain(new, s)
  <2> HIDE DEF n
  <2> QED
    BY <1>2, <1>5, <1>7, <1>8 DEF HasChain
<1> QED
  BY <1>9 DEF new

-----------------------------------------------------------------------------
\* Chains and walks.

\* es are the edges of the first n arcs of c.
AreEdgesOf(es, c, n) == Len(es) = n /\ \A i \in 1 .. n : es[i] = c[i][1]

\* Following edges from the start leads along the first n arcs of c.
LeadsAlong(walk, c, n) ==
    /\ walk.at = IF n = 0 THEN query.start["from"] ELSE Far(c[n], "from")
    /\ \A i \in 1 .. n : walk.arcs[i] = c[i]

\* Following the edges of a chain from the start gives its arcs.
LEMMA FollowChain ==
    ASSUME query \in Queries, NEW c, NEW Q, NEW n, IsChain(c, Q, n, "from"),
           NEW es, AreEdgesOf(es, c, n)
    PROVE  LeadsAlong(W!Follow(query, query.start["from"], es), c, n)
<1> DEFINE start == query.start["from"]
           At(i) == IF i = 0 THEN start ELSE Far(c[i], "from")
           Arcs1(i) == [j \in 1 .. i |-> c[j]]
           After(before, i) ==
               [at |-> IF query.edges[es[i]].a = before.at
                       THEN query.edges[es[i]].b ELSE query.edges[es[i]].a,
                arcs |-> Append(before.arcs, <<es[i], before.at>>)]
           Solves(f) == f = [i \in 0 .. Len(es) |->
                                IF i = 0 THEN [at |-> start, arcs |-> << >>]
                                ELSE After(f[i - 1], i)]
           g == [i \in 0 .. n |-> [at |-> At(i), arcs |-> Arcs1(i)]]
<1>1. /\ n \in Nat /\ c \in [1 .. n -> Arcs]
      /\ Len(es) = n /\ \A i \in 1 .. n : es[i] = c[i][1]
  BY DEF IsChain, AreEdgesOf
<1>2. ASSUME NEW i \in 1 .. n
      PROVE  After([at |-> At(i - 1), arcs |-> Arcs1(i - 1)], i) = [at |-> At(i), arcs |-> Arcs1(i)]
  <2>1. At(i - 1) = Base(c[i], "from")
    <3>1. CASE i = 1
      BY <1>1, <3>1 DEF IsChain
    <3>2. CASE i # 1
      <4>1. i - 1 \in 1 .. (n - 1) /\ (i - 1) + 1 = i /\ i - 1 # 0
        BY <1>1, <3>2
      <4>2. Base(c[(i - 1) + 1], "from") = Far(c[i - 1], "from")
        BY <4>1 DEF IsChain
      <4> QED
        BY <4>1, <4>2
    <3> QED
      BY <3>1, <3>2
  <2>2. c[i] \in Arcs /\ es[i] = c[i][1]
    BY <1>1
  <2>3. /\ c[i] = <<es[i], Base(c[i], "from")>>
        /\ AdjNode(es[i], Base(c[i], "from")) = Far(c[i], "from")
    <3>1. c[i] = <<c[i][1], c[i][2]>>
      BY <2>2, ArcIsEdge
    <3>2. AdjNode(c[i][1], Base(c[i], "from")) = Far(c[i], "from")
      BY <2>2, ArcFacts DEF Sides
    <3> QED
      BY <2>2, <3>1, <3>2 DEF Base
  <2>4. Append(Arcs1(i - 1), c[i]) = Arcs1(i)
    <3>1. Arcs1(i - 1) \in Seq(Arcs) /\ Len(Arcs1(i - 1)) = i - 1
      BY <1>1
    <3>2. Arcs1(i) \in Seq(Arcs) /\ Len(Arcs1(i)) = i
      BY <1>1
    <3> QED
      BY <1>1, <2>2, <3>1, <3>2
  <2> HIDE DEF Arcs1
  <2>5. At(i) = Far(c[i], "from")
    BY <1>1
  <2> HIDE DEF At
  <2> QED
    BY <2>1, <2>3, <2>4, <2>5 DEF AdjNode
<1>3. Solves(g)
  <2>1. [at |-> At(0), arcs |-> Arcs1(0)] = [at |-> start, arcs |-> << >>]
    OBVIOUS
  <2>2. \A i \in 0 .. n : g[i] = IF i = 0 THEN [at |-> start, arcs |-> << >>] ELSE After(g[i - 1], i)
    <3> TAKE i \in 0 .. n
    <3>1. CASE i = 0
      <4>1. g[0] = [at |-> At(0), arcs |-> Arcs1(0)]
        BY <1>1
      <4> QED
        BY <2>1, <3>1, <4>1
    <3>2. CASE i # 0
      <4>1. i \in 1 .. n /\ i - 1 \in 0 .. n
        BY <1>1, <3>2
      <4>2. g[i - 1] = [at |-> At(i - 1), arcs |-> Arcs1(i - 1)] /\ g[i] = [at |-> At(i), arcs |-> Arcs1(i)]
        BY <4>1
      <4> HIDE DEF g, After, At, Arcs1
      <4> QED
        BY <1>2, <3>2, <4>1, <4>2
    <3> QED
      BY <3>1, <3>2
  <2>3. g = [i \in 0 .. n |-> g[i]]
    OBVIOUS
  <2> HIDE DEF g, After, At, Arcs1
  <2> QED
    BY <1>1, <2>2, <2>3
<1>4. \E f : Solves(f) /\ W!Follow(query, start, es) = f[Len(es)]
  <2> HIDE DEF g
  <2> QED
    BY <1>3 DEF W!Follow
<1>5. PICK f : Solves(f) /\ W!Follow(query, start, es) = f[Len(es)]
  BY <1>4
<1>6. \A i \in 0 .. n : f[i] = g[i]
  <2> DEFINE S == {i \in 0 .. n : f[i] = g[i]}
  <2>1. 0 \in S
    <3> HIDE DEF After, At, Arcs1, g
    <3> QED
      BY <1>1, <1>3, <1>5
  <2>2. \A i \in 0 .. (n - 1) : i \in S => i + 1 \in S
    <3> SUFFICES ASSUME NEW i \in 0 .. (n - 1), f[i] = g[i] PROVE f[i + 1] = g[i + 1] /\ i + 1 \in 0 .. n
      OBVIOUS
    <3>1. i + 1 \in 0 .. n /\ i + 1 # 0 /\ (i + 1) - 1 = i
      BY <1>1
    <3> HIDE DEF After, At, Arcs1, g
    <3>2. f[i + 1] = After(f[i], i + 1) /\ g[i + 1] = After(g[i], i + 1)
      BY <1>1, <1>3, <1>5, <3>1
    <3> QED
      BY <3>1, <3>2
  <2> HIDE DEF S
  <2>3. 0 .. n \subseteq S
    BY <1>1, <2>1, <2>2, BoundedInduction
  <2> QED
    BY <2>3 DEF S
<1>7. f[n] = [at |-> At(n), arcs |-> Arcs1(n)]
  BY <1>1, <1>6
<1> HIDE DEF Solves, g, After
<1> QED
  BY <1>1, <1>5, <1>7 DEF LeadsAlong

\* Turns and weights of a walk are those of its chain.
LEMMA FollowsInChain ==
    ASSUME query \in Queries, NEW a \in Arcs, NEW b \in Arcs
    PROVE  W!Follows(query, b, a) <=> /\ Base(b, "from") = Far(a, "from")
                                      /\ TurnCost(a, b, "from") \in Nat
<1>1. "from" \in Sides
  BY DEF Sides
<1>2. W!TailNode(b) = Base(b, "from") /\ W!HeadNode(query, a) = Far(a, "from")
  BY <1>1, ArcFacts
<1>3. W!Turn(query, a, b) = TurnCost(a, b, "from")
  BY DEF TurnCost
<1>4. Base(b, "from") = Far(a, "from") => TurnCost(a, b, "from") = Inf \/ TurnCost(a, b, "from") \in Nat
  BY <1>1, TurnFacts
<1>5. Inf \notin Nat
  BY QueryFacts
<1> QED
  BY <1>2, <1>3, <1>4, <1>5 DEF W!Follows

\* The edges of a chain from the start to the goal are a walk of its weight.
LEMMA ChainIsWalk ==
    ASSUME query \in Queries, NEW c, NEW Q, NEW n, IsChain(c, Q, n, "from"),
           n > 0, ReachesOther(c[n], "from"),
           NEW es, AreEdgesOf(es, c, n)
    PROVE  W!IsWalk(query, es, Q[n])
<1> DEFINE walk == W!Follow(query, query.start["from"], es)
           Solves(f) == f = [i \in 0 .. n |->
               IF i = 0 THEN 0
               ELSE f[i - 1] + W!ArcWeight(query, walk.arcs[i])
                      + (IF i = 1 THEN 0 ELSE W!Turn(query, walk.arcs[i - 1], walk.arcs[i]))]
           g == [i \in 0 .. n |-> IF i = 0 THEN 0 ELSE Q[i]]
<1>1. /\ n \in Nat /\ c \in [1 .. n -> Arcs] /\ Q \in [1 .. n -> Nat]
      /\ Base(c[1], "from") = query.start["from"] /\ query.only["from"] \in {AnyEdge, c[1][1]}
      /\ Q[1] = Cost(c[1])
      /\ \A i \in 1 .. (n - 1) :
          /\ Base(c[i + 1], "from") = Far(c[i], "from")
          /\ TurnCost(c[i], c[i + 1], "from") \in Nat
          /\ Q[i + 1] = Q[i] + TurnCost(c[i], c[i + 1], "from") + Cost(c[i + 1])
  BY DEF IsChain
<1>2. /\ walk.at = Far(c[n], "from")
      /\ \A i \in 1 .. n : walk.arcs[i] = c[i]
  <2> HIDE DEF Solves, g
  <2>1. /\ walk.at = IF n = 0 THEN query.start["from"] ELSE Far(c[n], "from")
        /\ \A i \in 1 .. n : walk.arcs[i] = c[i]
    BY FollowChain DEF LeadsAlong
  <2> QED
    BY <1>1, <2>1
<1> HIDE DEF walk
<1>13. Len(es) = n
  BY DEF AreEdgesOf
<1>3. ASSUME NEW i \in 1 .. n
      PROVE  /\ g[i] = g[i - 1] + W!ArcWeight(query, walk.arcs[i])
                  + (IF i = 1 THEN 0 ELSE W!Turn(query, walk.arcs[i - 1], walk.arcs[i]))
             /\ i \in 0 .. n /\ i # 0
  <2>1. CASE i = 1
    <3>1. g[1] = Q[1] /\ g[0] = 0 /\ Q[1] \in Nat
      BY <1>1
    <3> QED
      BY <1>1, <1>2, <2>1, <3>1 DEF Cost
  <2>2. CASE i # 1
    <3>1. i - 1 \in 1 .. (n - 1) /\ (i - 1) + 1 = i /\ i - 1 \in 1 .. n
      BY <1>1, <2>2
    <3>2. Q[(i - 1) + 1] = Q[i - 1] + TurnCost(c[i - 1], c[(i - 1) + 1], "from") + Cost(c[(i - 1) + 1])
          /\ TurnCost(c[i - 1], c[(i - 1) + 1], "from") \in Nat
      BY <1>1, <3>1
    <3>3. TurnCost(c[i - 1], c[i], "from") = W!Turn(query, walk.arcs[i - 1], walk.arcs[i])
      BY <1>2, <3>1 DEF TurnCost
    <3>4. Cost(c[i]) = W!ArcWeight(query, walk.arcs[i])
      BY <1>2 DEF Cost
    <3>5. c[i] \in Arcs
      BY <1>1
    <3>6. Cost(c[i]) \in Nat
      BY <3>5, ArcFacts DEF Sides
    <3>7. g[i] = Q[i] /\ g[i - 1] = Q[i - 1] /\ Q[i - 1] \in Nat /\ i \in 0 .. n /\ i # 0
      BY <1>1, <3>1
    <3> HIDE DEF g
    <3> QED
      BY <2>2, <3>1, <3>2, <3>3, <3>4, <3>6, <3>7
  <2> QED
    BY <2>1, <2>2
<1>4. Solves(g)
  <2>1. \A i \in 0 .. n : g[i] = IF i = 0 THEN 0
               ELSE g[i - 1] + W!ArcWeight(query, walk.arcs[i])
                      + (IF i = 1 THEN 0 ELSE W!Turn(query, walk.arcs[i - 1], walk.arcs[i]))
    <3> TAKE i \in 0 .. n
    <3>1. CASE i = 0
      BY <3>1
    <3>2. CASE i # 0
      <4>1. i \in 1 .. n
        BY <1>1, <3>2
      <4> HIDE DEF g
      <4> QED
        BY <1>3, <3>2, <4>1
    <3> QED
      BY <3>1, <3>2
  <2>2. g = [i \in 0 .. n |-> g[i]]
    OBVIOUS
  <2> HIDE DEF g
  <2> QED
    BY <2>1, <2>2
<1>5. ASSUME NEW f, Solves(f) PROVE f[n] = Q[n]
  <2> DEFINE S == {i \in 0 .. n : f[i] = g[i]}
  <2>0. \A i \in 0 .. n :
            /\ f[i] = IF i = 0 THEN 0
                      ELSE f[i - 1] + W!ArcWeight(query, walk.arcs[i])
                           + (IF i = 1 THEN 0 ELSE W!Turn(query, walk.arcs[i - 1], walk.arcs[i]))
    <3> HIDE DEF g
    <3> QED
      BY <1>5
  <2>1. 0 \in S
    BY <1>1, <2>0
  <2>2. \A i \in 0 .. (n - 1) : i \in S => i + 1 \in S
    <3> SUFFICES ASSUME NEW i \in 0 .. (n - 1), f[i] = g[i] PROVE f[i + 1] = g[i + 1] /\ i + 1 \in 0 .. n
      OBVIOUS
    <3>1. i + 1 \in 1 .. n /\ (i + 1) - 1 = i
      BY <1>1
    <3> HIDE DEF g
    <3>2. f[i + 1] = f[(i + 1) - 1] + W!ArcWeight(query, walk.arcs[i + 1])
                  + (IF i + 1 = 1 THEN 0 ELSE W!Turn(query, walk.arcs[(i + 1) - 1], walk.arcs[i + 1]))
      BY <1>1, <2>0, <3>1
    <3>3. g[i + 1] = g[(i + 1) - 1] + W!ArcWeight(query, walk.arcs[i + 1])
                  + (IF i + 1 = 1 THEN 0 ELSE W!Turn(query, walk.arcs[(i + 1) - 1], walk.arcs[i + 1]))
      BY <1>3, <3>1
    <3> QED
      BY <1>1, <3>1, <3>2, <3>3
  <2> HIDE DEF S
  <2>3. 0 .. n \subseteq S
    BY <1>1, <2>1, <2>2, BoundedInduction
  <2>4. f[n] = g[n]
    BY <1>1, <2>3 DEF S
  <2> QED
    BY <1>1, <2>4
<1>6. \A i \in 1 .. n : c[i] \in Arcs /\ walk.arcs[i] = c[i]
  BY <1>1, <1>2
<1>7. \A i \in 1 .. n : walk.arcs[i] \in W!Arcs(query)
  BY <1>6 DEF Arcs
<1>8. \A i \in 1 .. (n - 1) : W!Follows(query, walk.arcs[i + 1], walk.arcs[i])
  <2> TAKE i \in 1 .. (n - 1)
  <2>1. i \in 1 .. n /\ i + 1 \in 1 .. n
    BY <1>1
  <2> QED
    BY <1>1, <1>6, <2>1, FollowsInChain
<1>9. 1 \in 1 .. n /\ n \in 1 .. n
  BY <1>1
<1>10. W!IsFirst(query, walk.arcs[1])
  <2>1. W!TailNode(c[1]) = Base(c[1], "from")
    BY <1>6, <1>9, ArcFacts DEF Sides
  <2> QED
    BY <1>1, <1>6, <1>9, <2>1 DEF W!IsFirst
<1>11. W!IsFinal(query, walk.arcs[n]) /\ walk.at = query.start["to"]
  <2>1. W!HeadNode(query, c[n]) = Far(c[n], "from") /\ Other("from") = "to"
    BY <1>6, <1>9, ArcFacts DEF Sides, Other
  <2> QED
    BY <1>2, <1>6, <1>9, <2>1 DEF W!IsFinal, ReachesOther
<1>12. \E f : /\ Solves(f)
              /\ W!IsWalk(query, es, Q[n]) <=>
                    /\ walk.at = query.start["to"]
                    /\ \A i \in 1 .. n : walk.arcs[i] \in W!Arcs(query)
                    /\ \A i \in 1 .. (n - 1) : W!Follows(query, walk.arcs[i + 1], walk.arcs[i])
                    /\ n > 0 => W!IsFirst(query, walk.arcs[1]) /\ W!IsFinal(query, walk.arcs[n])
                    /\ f[n] = Q[n]
  <2> HIDE DEF g
  <2> QED
    BY <1>4, <1>13 DEF W!IsWalk, walk
<1> HIDE DEF Solves
<1> QED
  BY <1>5, <1>7, <1>8, <1>10, <1>11, <1>12

\* Nothing is a walk from a node to itself.
LEMMA EmptyWalk ==
    ASSUME query \in Queries, query.start["from"] = query.start["to"]
    PROVE  W!IsWalk(query, << >>, 0)
<1> DEFINE walk == W!Follow(query, query.start["from"], << >>)
           Solves(f) == f = [i \in 0 .. Len(<< >>) |->
               IF i = 0 THEN 0
               ELSE f[i - 1] + W!ArcWeight(query, walk.arcs[i])
                      + (IF i = 1 THEN 0 ELSE W!Turn(query, walk.arcs[i - 1], walk.arcs[i]))]
<1>1. walk.at = query.start["from"]
  <2>1. IsChain([i \in 1 .. 0 |-> i], [i \in 1 .. 0 |-> i], 0, "from")
    BY DEF IsChain
  <2>2. AreEdgesOf(<< >>, [i \in 1 .. 0 |-> i], 0)
    BY DEF AreEdgesOf
  <2> HIDE DEF Solves
  <2>3. LeadsAlong(walk, [i \in 1 .. 0 |-> i], 0)
    BY <2>1, <2>2, FollowChain
  <2> QED
    BY <2>3 DEF LeadsAlong
<1> HIDE DEF walk
<1>2. Solves([i \in 0 .. Len(<< >>) |-> 0])
  OBVIOUS
<1>3. \E f : /\ Solves(f)
             /\ W!IsWalk(query, << >>, 0) <=>
                   /\ walk.at = query.start["to"]
                   /\ \A i \in 1 .. Len(<< >>) : walk.arcs[i] \in W!Arcs(query)
                   /\ \A i \in 1 .. (Len(<< >>) - 1) : W!Follows(query, walk.arcs[i + 1], walk.arcs[i])
                   /\ Len(<< >>) > 0 => /\ W!IsFirst(query, walk.arcs[1])
                                        /\ W!IsFinal(query, walk.arcs[Len(<< >>)])
                   /\ f[Len(<< >>)] = 0
  BY <1>2 DEF W!IsWalk, walk
<1>4. \A f : Solves(f) => f[Len(<< >>)] = 0
  OBVIOUS
<1> HIDE DEF Solves
<1>5. Len(<< >>) = 0
  OBVIOUS
<1> QED
  BY <1>1, <1>3, <1>4, <1>5

-----------------------------------------------------------------------------
\* The rounds in which Walks finds the lightest walk that ends with each arc.

\* Walks of one arc; the walks of set S with one more; the lightest of both.
FirstEnds == {<<arc, Cost(arc)>> : arc \in {x \in Arcs : W!IsFirst(query, x)}}
EndsAfter(x) ==
    {<<out, x[2] + W!Turn(query, x[1], out) + Cost(out)>> :
        out \in {arc \in Arcs : W!Follows(query, arc, x[1])}}
Longer(S) == UNION {EndsAfter(x) : x \in S}
Round(S) == W!Lightest(S \cup Longer(S))

\* S has a walk that ends with the arc of x and is no heavier.
Covers(S, x) == \E y \in S : y[1] = x[1] /\ y[2] <= x[2]

\* The arcs that end a walk in S of weight v at most.
Within(S, v) == {x[1] : x \in {y \in S : y[2] <= v}}

\* All walks of S but those of D have been made longer, and those of D are heavy:
\* at least m arcs can be reached with no more.
Expanded(S, D, m) ==
    /\ S \subseteq Arcs \X Nat /\ D \subseteq S
    /\ \A p \in S \ D : \A x \in EndsAfter(p) : Covers(S, x)
    /\ \A p \in D : Cardinality(Within(S, p[2])) >= m

\* There are finitely many arcs.
LEMMA ArcsFinite ==
    ASSUME query \in Queries
    PROVE  IsFiniteSet(Arcs)
<1> DEFINE E == DOMAIN query.edges
           A == {<<e, query.edges[e].a>> : e \in E}
           B == {<<e, query.edges[e].b>> : e \in E}
<1>1. IsFiniteSet(E)
  BY QueriesAssumption
<1>2. IsFiniteSet(A) /\ IsFiniteSet(B)
  <2> DEFINE f == [e \in E |-> <<e, query.edges[e].a>>]
             g == [e \in E |-> <<e, query.edges[e].b>>]
  <2>1. f \in Surjection(E, A) /\ g \in Surjection(E, B)
    BY DEF Surjection
  <2> HIDE DEF f, g, E, A, B
  <2> QED
    BY <1>1, <2>1, FS_Surjection
<1>3. IsFiniteSet(A \cup B)
  BY <1>2, FS_Union
<1>4. Arcs \subseteq A \cup B
  BY ArcIsEdge DEF Ends
<1> QED
  BY <1>3, <1>4, FS_Subset

\* A walk that is made longer ends with an arc and has a weight.
LEMMA EndsAfterFacts ==
    ASSUME query \in Queries, NEW x \in Arcs \X Nat, NEW y \in EndsAfter(x)
    PROVE  /\ y \in Arcs \X Nat /\ y[2] >= x[2]
           /\ Base(y[1], "from") = Far(x[1], "from")
           /\ TurnCost(x[1], y[1], "from") \in Nat
           /\ y[2] = x[2] + TurnCost(x[1], y[1], "from") + Cost(y[1])
<1>1. PICK out \in Arcs : /\ W!Follows(query, out, x[1])
                          /\ y = <<out, x[2] + W!Turn(query, x[1], out) + Cost(out)>>
  BY DEF EndsAfter
<1>2. x[1] \in Arcs /\ x[2] \in Nat
  OBVIOUS
<1>3. Base(out, "from") = Far(x[1], "from") /\ TurnCost(x[1], out, "from") \in Nat
  BY <1>1, <1>2, FollowsInChain
<1>4. W!Turn(query, x[1], out) = TurnCost(x[1], out, "from") /\ Cost(out) \in Nat
  BY ArcFacts DEF TurnCost, Sides
<1>5. y[1] = out /\ y[2] = x[2] + TurnCost(x[1], out, "from") + Cost(out)
  BY <1>1, <1>4
<1>6. y = <<y[1], y[2]>> /\ y[2] \in Nat
  BY <1>1, <1>2, <1>3, <1>4, <1>5
<1> QED
  BY <1>2, <1>3, <1>4, <1>5, <1>6

\* The lightest walks cover the others, and none is lighter.
LEMMA LightestCovers ==
    ASSUME NEW S, S \subseteq Arcs \X Nat
    PROVE  /\ W!Lightest(S) \subseteq S
           /\ \A x \in S : Covers(W!Lightest(S), x)
           /\ \A x \in S, y \in W!Lightest(S) : y[1] = x[1] => y[2] <= x[2]
<1>1. ASSUME NEW x \in S PROVE Covers(W!Lightest(S), x)
  <2> DEFINE T == {y[2] : y \in {z \in S : z[1] = x[1]}}
  <2>1. T \subseteq Nat /\ x[2] \in T
    OBVIOUS
  <2> HIDE DEF T
  <2>2. PICK m \in T : \A k \in T : m <= k
    BY <2>1, LeastNatural
  <2>3. PICK y \in S : y[1] = x[1] /\ y[2] = m
    BY DEF T
  <2>4. \A z \in S : z[1] = x[1] => z[2] \in T
    BY DEF T
  <2>5. y \in W!Lightest(S)
    BY <2>2, <2>3, <2>4 DEF W!Lightest
  <2> QED
    BY <2>1, <2>2, <2>3, <2>5 DEF Covers
<1> QED
  BY <1>1 DEF W!Lightest

\* A round keeps what it had reached, for no more weight, and makes it longer.
LEMMA RoundFacts ==
    ASSUME query \in Queries, NEW S, S \subseteq Arcs \X Nat
    PROVE  /\ Longer(S) \subseteq Arcs \X Nat
           /\ Round(S) \subseteq S \cup Longer(S)
           /\ \A x \in S \cup Longer(S) : Covers(Round(S), x)
           /\ \A x \in S \cup Longer(S), y \in Round(S) : y[1] = x[1] => y[2] <= x[2]
<1>1. Longer(S) \subseteq Arcs \X Nat
  <2>1. \A x \in S : \A y \in EndsAfter(x) : y \in Arcs \X Nat
    BY EndsAfterFacts
  <2> QED
    BY <2>1 DEF Longer
<1>2. S \cup Longer(S) \subseteq Arcs \X Nat
  BY <1>1
<1> QED
  BY <1>1, <1>2, LightestCovers DEF Round

\* A walk that a round finds first is heavier than one more arc: what it was made
\* from was found in the round before.
LEMMA RoundExpands ==
    ASSUME query \in Queries, NEW S, NEW D, NEW m \in Nat, Expanded(S, D, m)
    PROVE  Expanded(Round(S), Round(S) \ S, m + 1)
<1>1. S \subseteq Arcs \X Nat
  BY DEF Expanded
<1>2. /\ Longer(S) \subseteq Arcs \X Nat
      /\ Round(S) \subseteq S \cup Longer(S)
      /\ \A x \in S \cup Longer(S) : Covers(Round(S), x)
      /\ \A x \in S \cup Longer(S), y \in Round(S) : y[1] = x[1] => y[2] <= x[2]
  BY <1>1, RoundFacts
<1>3. \A p \in Round(S) \ (Round(S) \ S) : \A x \in EndsAfter(p) : Covers(Round(S), x)
  BY <1>2 DEF Longer
<1>4. ASSUME NEW x \in Round(S) \ S
      PROVE  Cardinality(Within(Round(S), x[2])) >= m + 1
  <2>1. PICK p \in S : x \in EndsAfter(p)
    BY <1>2 DEF Longer
  <2>2. \A y \in S : y[1] = x[1] => x[2] <= y[2] /\ x[2] # y[2]
    <3> SUFFICES ASSUME NEW y \in S, y[1] = x[1] PROVE x[2] <= y[2] /\ x[2] # y[2]
      OBVIOUS
    <3>1. x = <<x[1], x[2]>> /\ y = <<y[1], y[2]>>
      BY <1>1, <1>2
    <3> QED
      BY <1>2, <3>1
  <2>3. /\ x[1] \in Arcs /\ x[2] \in Nat /\ p[2] \in Nat /\ x[2] >= p[2]
        /\ \A y \in S : y[2] \in Nat
    BY <1>1, <1>2, <2>1, EndsAfterFacts
  <2>4. p \in D
    <3> SUFFICES ASSUME p \notin D PROVE FALSE
      OBVIOUS
    <3>1. Covers(S, x)
      BY <2>1 DEF Expanded
    <3> QED
      BY <2>2, <2>3, <3>1 DEF Covers
  <2> DEFINE A == Within(S, p[2])
             B == Within(Round(S), x[2])
  <2>5. Cardinality(A) >= m
    BY <2>4 DEF Expanded
  <2>6. x[1] \notin A
    BY <2>2, <2>3 DEF Within
  <2>7. A \cup {x[1]} \subseteq B
    <3>1. x[1] \in B
      BY <2>3 DEF Within
    <3>2. ASSUME NEW y \in S, y[2] <= p[2] PROVE y[1] \in B
      <4>1. PICK z \in Round(S) : z[1] = y[1] /\ z[2] <= y[2]
        BY <1>2 DEF Covers
      <4>2. z[2] \in Nat
        BY <1>1, <1>2
      <4>3. z[2] <= x[2]
        BY <2>3, <3>2, <4>1, <4>2
      <4> QED
        BY <4>1, <4>3 DEF Within
    <3> QED
      BY <3>1, <3>2 DEF Within
  <2>8. B \subseteq Arcs /\ A \subseteq Arcs
    BY <1>1, <1>2 DEF Within
  <2> HIDE DEF A, B
  <2>9. IsFiniteSet(B) /\ IsFiniteSet(A)
    BY <2>8, ArcsFinite, FS_Subset
  <2>10. Cardinality(A \cup {x[1]}) = Cardinality(A) + 1 /\ IsFiniteSet(A \cup {x[1]})
    BY <2>6, <2>9, FS_AddElement
  <2>11. Cardinality(A \cup {x[1]}) <= Cardinality(B)
    BY <2>7, <2>9, FS_Subset
  <2>12. Cardinality(A) \in Nat /\ Cardinality(B) \in Nat
    BY <2>9, FS_CardinalityType
  <2>13. Cardinality(B) >= m + 1
    BY <2>5, <2>10, <2>11, <2>12
  <2> QED
    BY <2>13 DEF B
<1>5. Round(S) \subseteq Arcs \X Nat
  BY <1>1, <1>2
<1> QED
  BY <1>3, <1>4, <1>5 DEF Expanded

\* After as many rounds as there are arcs, nothing more is found.
LEMMA RoundsConverge ==
    ASSUME query \in Queries, NEW S, NEW D, Expanded(S, D, Cardinality(Arcs))
    PROVE  Round(S) \subseteq S
<1>1. Cardinality(Arcs) \in Nat
  BY ArcsFinite, FS_CardinalityType
<1>2. Expanded(Round(S), Round(S) \ S, Cardinality(Arcs) + 1)
  BY <1>1, RoundExpands
<1> SUFFICES ASSUME NEW x \in Round(S) \ S PROVE FALSE
  OBVIOUS
<1>3. Cardinality(Within(Round(S), x[2])) >= Cardinality(Arcs) + 1
  BY <1>2 DEF Expanded
<1>4. Within(Round(S), x[2]) \subseteq Arcs
  BY <1>2 DEF Expanded, Within
<1>5. /\ Cardinality(Within(Round(S), x[2])) <= Cardinality(Arcs)
      /\ IsFiniteSet(Within(Round(S), x[2]))
  BY <1>4, ArcsFinite, FS_Subset
<1>6. Cardinality(Within(Round(S), x[2])) \in Nat
  BY <1>5, FS_CardinalityType
<1> QED
  BY <1>1, <1>3, <1>5, <1>6

\* x is the last arc and the weight of a chain from the start.
IsRealised(x) ==
    \E c, Q, n : IsChain(c, Q, n, "from") /\ n > 0 /\ c[n] = x[1] /\ Q[n] = x[2]

\* S holds walks only, and covers those of one arc.
Sound(S) ==
    /\ S \subseteq Arcs \X Nat
    /\ \A x \in S : IsRealised(x)
    /\ \A x \in FirstEnds : Covers(S, x)

\* Covering is transitive.
LEMMA CoversTransitive ==
    ASSUME NEW S, NEW T, S \subseteq Arcs \X Nat, T \subseteq Arcs \X Nat,
           \A y \in S : Covers(T, y), NEW x \in Arcs \X Nat, Covers(S, x)
    PROVE  Covers(T, x)
<1>1. PICK y \in S : y[1] = x[1] /\ y[2] <= x[2]
  BY DEF Covers
<1>2. PICK z \in T : z[1] = y[1] /\ z[2] <= y[2]
  BY DEF Covers
<1>3. z[2] \in Nat /\ y[2] \in Nat /\ x[2] \in Nat
  OBVIOUS
<1> QED
  BY <1>1, <1>2, <1>3 DEF Covers

\* The walks of one arc are sound.
LEMMA FirstEndsSound ==
    ASSUME query \in Queries
    PROVE  Sound(FirstEnds) /\ Expanded(FirstEnds, FirstEnds, 1)
<1>1. ASSUME NEW x \in FirstEnds
      PROVE  /\ x \in Arcs \X Nat /\ IsRealised(x)
             /\ Covers(FirstEnds, x) /\ Cardinality(Within(FirstEnds, x[2])) >= 1
  <2>1. PICK arc \in Arcs : x = <<arc, Cost(arc)>> /\ W!IsFirst(query, arc)
    BY DEF FirstEnds
  <2>2. Cost(arc) \in Nat /\ W!TailNode(arc) = Base(arc, "from")
    BY ArcFacts DEF Sides
  <2>3. x \in Arcs \X Nat /\ x[1] = arc /\ x[2] = Cost(arc)
    BY <2>1, <2>2
  <2>4. IsRealised(x)
    <3> DEFINE c == [i \in 1 .. 1 |-> arc]  Q == [i \in 1 .. 1 |-> Cost(arc)]
    <3>1. /\ Base(arc, "from") = query.start["from"]
          /\ query.only["from"] \in {AnyEdge, arc[1]}
      BY <2>1, <2>2 DEF W!IsFirst
    <3>2. c[1] = arc /\ Q[1] = Cost(arc) /\ c \in [1 .. 1 -> Arcs] /\ Q \in [1 .. 1 -> Nat]
      BY <2>2
    <3> HIDE DEF c, Q
    <3>3. IsChain(c, Q, 1, "from")
      BY <3>1, <3>2 DEF IsChain
    <3>4. c[1] = x[1] /\ Q[1] = x[2] /\ 1 > 0
      BY <2>3, <3>2
    <3> QED
      BY <3>3, <3>4 DEF IsRealised
  <2>5. Covers(FirstEnds, x)
    BY <2>3, <2>2 DEF Covers
  <2>6. Cardinality(Within(FirstEnds, x[2])) >= 1
    <3> DEFINE A == Within(FirstEnds, x[2])
    <3>1. A \subseteq Arcs /\ {arc} \subseteq A
      <4>1. x[2] <= x[2]
        BY <2>2, <2>3
      <4>2. \A y \in FirstEnds : y[1] \in Arcs
        BY DEF FirstEnds
      <4> QED
        BY <2>3, <4>1, <4>2 DEF Within
    <3> HIDE DEF A
    <3>2. IsFiniteSet(A) /\ Cardinality({arc}) <= Cardinality(A) /\ Cardinality({arc}) = 1
      BY <3>1, ArcsFinite, FS_Subset, FS_Singleton
    <3>3. Cardinality(A) \in Nat
      BY <3>2, FS_CardinalityType
    <3>4. Cardinality(A) >= 1
      BY <3>2, <3>3
    <3> QED
      BY <3>4 DEF A
  <2> QED
    BY <2>3, <2>4, <2>5, <2>6
<1> QED
  BY <1>1 DEF Sound, Expanded

\* A round keeps them sound.
LEMMA RoundSound ==
    ASSUME query \in Queries, NEW S, Sound(S)
    PROVE  Sound(Round(S))
<1>1. S \subseteq Arcs \X Nat
  BY DEF Sound
<1>2. /\ Longer(S) \subseteq Arcs \X Nat
      /\ Round(S) \subseteq S \cup Longer(S)
      /\ \A x \in S \cup Longer(S) : Covers(Round(S), x)
  BY <1>1, RoundFacts
<1>3. ASSUME NEW x \in Longer(S) PROVE IsRealised(x)
  <2>1. PICK p \in S : x \in EndsAfter(p)
    BY DEF Longer
  <2>2. /\ x \in Arcs \X Nat /\ Base(x[1], "from") = Far(p[1], "from")
        /\ TurnCost(p[1], x[1], "from") \in Nat
        /\ x[2] = p[2] + TurnCost(p[1], x[1], "from") + Cost(x[1])
    BY <1>1, <2>1, EndsAfterFacts
  <2>3. PICK c, Q, n : IsChain(c, Q, n, "from") /\ n > 0 /\ c[n] = p[1] /\ Q[n] = p[2]
    BY DEF Sound, IsRealised
  <2>4. n \in Nat /\ n # 0 /\ ~ (n = 0)
    BY <2>3 DEF IsChain
  <2>5. NextWeight(c, Q, n, x[1], "from") = x[2]
    BY <2>2, <2>3, <2>4 DEF NextWeight
  <2>6. PICK d, R : IsChain(d, R, n + 1, "from") /\ d[n + 1] = x[1] /\ R[n + 1] = x[2]
    <3>1. x[1] \in Arcs /\ "from" \in Sides
      BY <2>2 DEF Sides
    <3> QED
      BY <2>2, <2>3, <2>4, <2>5, <3>1, ExtendChain
  <2>7. n + 1 > 0
    BY <2>4
  <2> QED
    BY <2>6, <2>7 DEF IsRealised
<1>4. \A x \in Round(S) : IsRealised(x)
  BY <1>2, <1>3 DEF Sound
<1>5. \A x \in FirstEnds : Covers(Round(S), x)
  <2>1. Round(S) \subseteq Arcs \X Nat /\ FirstEnds \subseteq Arcs \X Nat
    BY <1>1, <1>2, FirstEndsSound DEF Sound
  <2> QED
    BY <1>1, <1>2, <2>1, CoversTransitive DEF Sound
<1> QED
  BY <1>1, <1>2, <1>4, <1>5 DEF Sound

\* The rounds of LightestEnds, one for each arc.
LEMMA LightestEndsRounds ==
    ASSUME query \in Queries, Arcs # {}
    PROVE  \E E : /\ E[1] = FirstEnds
                  /\ \A i \in 2 .. Cardinality(Arcs) : E[i] = Round(E[i - 1])
                  /\ W!LightestEnds(query) = E[Cardinality(Arcs)]
<1> DEFINE N == Cardinality(Arcs)
           V == SUBSET (Arcs \X Nat)
           step == [S \in V |-> Round(S)]
           Solves(f) == f = [i \in 1 .. N |-> IF i = 1 THEN FirstEnds ELSE Round(f[i - 1])]
<1>1. N \in Nat /\ N > 0
  <2>1. IsFiniteSet(Arcs)
    BY ArcsFinite
  <2> QED
    BY <2>1, FS_CardinalityType, FS_EmptySet
<1>2. FirstEnds \in V /\ step \in [V -> V]
  <2>1. FirstEnds \in V
    BY FirstEndsSound DEF Sound
  <2>2. \A S \in V : Round(S) \in V
    BY RoundFacts
  <2> QED
    BY <2>1, <2>2
<1>3. \E f : Solves(f)
  <2> HIDE DEF step, V, N
  <2>1. N - 1 \in Nat
    BY <1>1
  <2>2. PICK g \in [0 .. (N - 1) -> V] : IsRecursion(g, N - 1, FirstEnds, step)
    BY <1>2, <2>1, RecursiveFunctionExists
  <2> DEFINE f == [i \in 1 .. N |-> g[i - 1]]
  <2>3. \A i \in 1 .. N : f[i] = IF i = 1 THEN FirstEnds ELSE Round(f[i - 1])
    <3> TAKE i \in 1 .. N
    <3>1. CASE i = 1
      BY <1>1, <2>2, <3>1 DEF IsRecursion
    <3>2. CASE i # 1
      <4>1. i - 1 \in 1 .. (N - 1) /\ i - 1 \in 1 .. N /\ (i - 1) - 1 \in 0 .. (N - 1)
        BY <1>1, <3>2
      <4>2. g[i - 1] = step[g[(i - 1) - 1]] /\ g[(i - 1) - 1] \in V
        BY <2>2, <4>1 DEF IsRecursion
      <4>3. f[i] = g[i - 1] /\ f[i - 1] = g[(i - 1) - 1]
        BY <4>1
      <4>4. step[g[(i - 1) - 1]] = Round(g[(i - 1) - 1])
        BY <4>2 DEF step
      <4> HIDE DEF f
      <4> QED
        BY <3>2, <4>2, <4>3, <4>4
    <3> QED
      BY <3>1, <3>2
  <2>4. f = [i \in 1 .. N |-> f[i]]
    OBVIOUS
  <2> HIDE DEF f
  <2>5. Solves(f)
    BY <2>3, <2>4
  <2> QED
    BY <2>5
<1> HIDE DEF step, V
<1>4. \E f : Solves(f) /\ W!LightestEnds(query) = f[N]
  <2> DEFINE arcs == W!Arcs(query)
             one == {<<arc, W!ArcWeight(query, arc)>> : arc \in {x \in arcs : W!IsFirst(query, x)}}
             After(x) == {<<out, x[2] + W!Turn(query, x[1], out) + W!ArcWeight(query, out)>> :
                             out \in {arc \in arcs : W!Follows(query, arc, x[1])}}
             Step(S) == W!Lightest(S \cup UNION {After(x) : x \in S})
             Solves1(f) == f = [i \in 1 .. W!Cardinality(arcs) |->
                                 IF i = 1 THEN one ELSE Step(f[i - 1])]
  <2>1. arcs = Arcs /\ one = FirstEnds
    BY DEF Arcs, FirstEnds, Cost
  <2>2. W!Cardinality(arcs) = N
    BY DEF Arcs, W!Cardinality, Cardinality
  <2>3. \A S : Step(S) = Round(S)
    BY DEF Round, Longer, EndsAfter, Arcs, Cost
  <2>4. \E f : Solves1(f) /\ W!LightestEnds(query) = f[W!Cardinality(arcs)]
    <3>1. \E f : Solves1(f)
      <4>1. PICK f : Solves(f)
        BY <1>3
      <4> HIDE DEF arcs, one, Step, N
      <4>2. f = [i \in 1 .. N |-> IF i = 1 THEN one ELSE Step(f[i - 1])]
        BY <2>1, <2>3, <4>1
      <4>3. Solves1(f)
        BY <2>2, <4>2
      <4> QED
        BY <4>3
    <3>2. arcs # {}
      BY <2>1
    <3> QED
      BY <3>1, <3>2 DEF W!LightestEnds
  <2>5. PICK f : Solves1(f) /\ W!LightestEnds(query) = f[W!Cardinality(arcs)]
    BY <2>4
  <2> HIDE DEF arcs, one, Step, N
  <2>6. f = [i \in 1 .. N |-> IF i = 1 THEN one ELSE Step(f[i - 1])]
    BY <2>2, <2>5
  <2>7. Solves(f)
    BY <2>1, <2>3, <2>6
  <2> QED
    BY <2>2, <2>5, <2>7
<1>5. PICK f : Solves(f) /\ W!LightestEnds(query) = f[N]
  BY <1>4
<1>6. f[1] = FirstEnds /\ \A i \in 2 .. N : f[i] = Round(f[i - 1])
  <2> HIDE DEF N
  <2> QED
    BY <1>1, <1>5
<1> QED
  BY <1>5, <1>6

\* The last round holds walks only, covers those of one arc, and covers what
\* another round would add.
LEMMA EndsCover ==
    ASSUME query \in Queries
    PROVE  /\ Sound(W!LightestEnds(query))
           /\ \A x \in Longer(W!LightestEnds(query)) : Covers(W!LightestEnds(query), x)
<1> DEFINE F == W!LightestEnds(query)
<1>1. CASE Arcs = {}
  <2>1. F = {} /\ FirstEnds = {}
    BY <1>1 DEF W!LightestEnds, Arcs, FirstEnds
  <2>2. Longer(F) = {} /\ Sound(F)
    BY <2>1 DEF Longer, Sound
  <2> QED
    BY <2>2
<1>2. CASE Arcs # {}
  <2> DEFINE N == Cardinality(Arcs)
  <2>1. PICK E : /\ E[1] = FirstEnds
                 /\ \A i \in 2 .. N : E[i] = Round(E[i - 1])
                 /\ F = E[N]
    BY <1>2, LightestEndsRounds
  <2>2. N \in Nat /\ N > 0
    <3>1. IsFiniteSet(Arcs)
      BY ArcsFinite
    <3> QED
      BY <1>2, <3>1, FS_CardinalityType, FS_EmptySet
  <2> HIDE DEF F, N
  <2> DEFINE S == {i \in 0 .. (N - 1) : Sound(E[i + 1]) /\ \E D : Expanded(E[i + 1], D, i + 1)}
  <2>3. 0 \in S
    <3>1. 0 + 1 = 1 /\ 0 \in 0 .. (N - 1)
      BY <2>2
    <3> QED
      BY <2>1, <3>1, FirstEndsSound
  <2>4. \A i \in 0 .. ((N - 1) - 1) : i \in S => i + 1 \in S
    <3> SUFFICES ASSUME NEW i \in 0 .. ((N - 1) - 1), i \in S PROVE i + 1 \in S
      OBVIOUS
    <3>1. (i + 1) + 1 \in 2 .. N /\ ((i + 1) + 1) - 1 = i + 1 /\ i + 1 \in 0 .. (N - 1) /\ i + 1 \in Nat
      BY <2>2
    <3>2. E[(i + 1) + 1] = Round(E[i + 1])
      BY <2>1, <3>1
    <3>3. PICK D : Sound(E[i + 1]) /\ Expanded(E[i + 1], D, i + 1)
      OBVIOUS
    <3>4. Sound(Round(E[i + 1]))
      BY <3>3, RoundSound
    <3>5. Expanded(Round(E[i + 1]), Round(E[i + 1]) \ E[i + 1], (i + 1) + 1)
      BY <3>1, <3>3, RoundExpands
    <3> QED
      BY <3>1, <3>2, <3>4, <3>5
  <2>5. N - 1 \in S
    <3>1. N - 1 \in Nat /\ N - 1 \in 0 .. (N - 1)
      BY <2>2
    <3> HIDE DEF S
    <3>2. 0 .. (N - 1) \subseteq S
      BY <2>3, <2>4, <3>1, BoundedInduction
    <3> QED
      BY <3>1, <3>2
  <2>6. (N - 1) + 1 = N
    BY <2>2
  <2>7. PICK D : Sound(F) /\ Expanded(F, D, N)
    BY <2>1, <2>5, <2>6
  <2>8. Round(F) \subseteq F
    BY <2>7, RoundsConverge DEF N
  <2>9. F \subseteq Arcs \X Nat
    BY <2>7 DEF Sound
  <2>10. \A x \in Longer(F) : Covers(Round(F), x)
    BY <2>9, RoundFacts
  <2>11. \A x \in Longer(F) : Covers(F, x)
    BY <2>8, <2>10 DEF Covers
  <2> QED
    BY <2>7, <2>11 DEF F
<1> QED
  BY <1>1, <1>2

\* Every chain from the start has its last arc among the ends, for no more.
LEMMA ChainCovered ==
    ASSUME query \in Queries, NEW c, NEW Q, NEW n, IsChain(c, Q, n, "from"), n > 0
    PROVE  \E y \in W!LightestEnds(query) : y[1] = c[n] /\ y[2] <= Q[n]
<1> DEFINE F == W!LightestEnds(query)
           S == {i \in 0 .. (n - 1) : \E y \in F : y[1] = c[i + 1] /\ y[2] <= Q[i + 1]}
<1>1. /\ n \in Nat /\ c \in [1 .. n -> Arcs] /\ Q \in [1 .. n -> Nat]
      /\ Base(c[1], "from") = query.start["from"] /\ query.only["from"] \in {AnyEdge, c[1][1]}
      /\ Q[1] = Cost(c[1])
      /\ \A i \in 1 .. (n - 1) :
            /\ Base(c[i + 1], "from") = Far(c[i], "from")
            /\ TurnCost(c[i], c[i + 1], "from") \in Nat
            /\ Q[i + 1] = Q[i] + TurnCost(c[i], c[i + 1], "from") + Cost(c[i + 1])
  BY DEF IsChain
<1>2. /\ F \subseteq Arcs \X Nat
      /\ \A x \in FirstEnds : Covers(F, x)
      /\ \A x \in Longer(F) : Covers(F, x)
  BY EndsCover DEF Sound
<1> HIDE DEF F
<1>3. 0 \in S
  <2>1. c[1] \in Arcs /\ 0 \in 0 .. (n - 1)
    BY <1>1
  <2>2. W!TailNode(c[1]) = Base(c[1], "from")
    BY <2>1, ArcFacts DEF Sides
  <2>3. W!IsFirst(query, c[1])
    BY <1>1, <2>2 DEF W!IsFirst
  <2>4. <<c[1], Cost(c[1])>> \in FirstEnds
    BY <2>1, <2>3 DEF FirstEnds
  <2>5. \E y \in F : y[1] = c[1] /\ y[2] <= Cost(c[1])
    BY <1>2, <2>4 DEF Covers
  <2>6. 0 + 1 = 1
    OBVIOUS
  <2> QED
    BY <1>1, <2>1, <2>5, <2>6
<1>4. \A i \in 0 .. ((n - 1) - 1) : i \in S => i + 1 \in S
  <2> SUFFICES ASSUME NEW i \in 0 .. ((n - 1) - 1), i \in S PROVE i + 1 \in S
    OBVIOUS
  <2> DEFINE a == c[i + 1]  b == c[(i + 1) + 1]
  <2>1. i + 1 \in 1 .. (n - 1) /\ i + 1 \in 0 .. (n - 1) /\ i + 1 \in 1 .. n /\ (i + 1) + 1 \in 1 .. n
    BY <1>1
  <2>2. /\ a \in Arcs /\ b \in Arcs /\ Q[i + 1] \in Nat /\ Q[(i + 1) + 1] \in Nat
        /\ Base(b, "from") = Far(a, "from") /\ TurnCost(a, b, "from") \in Nat
        /\ Q[(i + 1) + 1] = Q[i + 1] + TurnCost(a, b, "from") + Cost(b)
    BY <1>1, <2>1
  <2>3. PICK y \in F : y[1] = a /\ y[2] <= Q[i + 1]
    OBVIOUS
  <2>4. y[2] \in Nat
    BY <1>2
  <2>5. W!Follows(query, b, a)
    BY <2>2, FollowsInChain
  <2>6. W!Turn(query, a, b) = TurnCost(a, b, "from") /\ Cost(b) \in Nat
    BY <2>2, ArcFacts DEF TurnCost, Sides
  <2> DEFINE z == <<b, y[2] + W!Turn(query, a, b) + Cost(b)>>
  <2> HIDE DEF a, b
  <2>7. z \in Longer(F)
    BY <2>2, <2>3, <2>5 DEF Longer, EndsAfter
  <2>8. \E w \in F : w[1] = z[1] /\ w[2] <= z[2]
    BY <1>2, <2>7 DEF Covers
  <2>9. PICK w \in F : w[1] = b /\ w[2] <= y[2] + TurnCost(a, b, "from") + Cost(b)
    BY <2>6, <2>8
  <2>10. w[2] \in Nat
    BY <1>2
  <2>11. w[2] <= Q[(i + 1) + 1]
    BY <2>2, <2>3, <2>4, <2>6, <2>9, <2>10
  <2> QED
    BY <2>1, <2>9, <2>11 DEF b
<1>5. n - 1 \in Nat /\ n - 1 \in 0 .. (n - 1) /\ (n - 1) + 1 = n
  BY <1>1
<1> HIDE DEF S
<1>6. 0 .. (n - 1) \subseteq S
  BY <1>3, <1>4, <1>5, BoundedInduction
<1> QED
  BY <1>5, <1>6 DEF S, F

\* A chain from one side to the other weighs d.
Connects(d, s) ==
    \E c, Q, n : IsChain(c, Q, n, s) /\ n > 0 /\ ReachesOther(c[n], s) /\ Q[n] = d

\* The distance of a request is the least weight of a chain from start to goal.
LEMMA DistanceMeaning ==
    ASSUME query \in Queries
    PROVE  /\ Trivial => W!Distance(query) = 0
           /\ \A d : ~Trivial /\ Connects(d, "from") /\ (\A v : Connects(v, "from") => d <= v)
                         => W!Distance(query) = d
           /\ ~Trivial /\ (\A v : ~Connects(v, "from")) => W!Distance(query) = Inf
<1> DEFINE F == W!LightestEnds(query)
           weights == {x[2] : x \in {y \in F : W!IsFinal(query, y[1])}}
<1>1. W!Distance(query) =
         IF Trivial THEN 0
         ELSE IF weights = {} THEN Inf ELSE CHOOSE w \in weights : \A v \in weights : w <= v
  BY DEF W!Distance, Trivial, Sides
<1>2. /\ F \subseteq Arcs \X Nat
      /\ \A x \in F : IsRealised(x)
  BY EndsCover DEF Sound
<1>3. \A arc \in Arcs : W!IsFinal(query, arc) <=> ReachesOther(arc, "from")
  <2> TAKE arc \in Arcs
  <2>1. W!HeadNode(query, arc) = Far(arc, "from") /\ Other("from") = "to"
    BY ArcFacts DEF Sides, Other
  <2> QED
    BY <2>1 DEF W!IsFinal, ReachesOther
<1> HIDE DEF F
<1>4. ASSUME NEW w \in weights PROVE Connects(w, "from") /\ w \in Nat
  <2>1. PICK x \in F : W!IsFinal(query, x[1]) /\ w = x[2]
    OBVIOUS
  <2>2. PICK c, Q, n : IsChain(c, Q, n, "from") /\ n > 0 /\ c[n] = x[1] /\ Q[n] = x[2]
    BY <1>2 DEF IsRealised
  <2>3. x[1] \in Arcs /\ x[2] \in Nat
    BY <1>2
  <2>4. ReachesOther(c[n], "from")
    BY <1>3, <2>1, <2>2, <2>3
  <2> QED
    BY <2>1, <2>2, <2>3, <2>4 DEF Connects
<1>5. ASSUME NEW v, Connects(v, "from") PROVE v \in Nat /\ \E w \in weights : w <= v
  <2>1. PICK c, Q, n : /\ IsChain(c, Q, n, "from") /\ n > 0
                       /\ ReachesOther(c[n], "from") /\ Q[n] = v
    BY <1>5 DEF Connects
  <2>2. PICK y \in F : y[1] = c[n] /\ y[2] <= Q[n]
    BY <2>1, ChainCovered DEF F
  <2>3. y[1] \in Arcs
    BY <1>2
  <2>4. W!IsFinal(query, y[1])
    BY <1>3, <2>1, <2>2, <2>3
  <2>5. y[2] \in weights
    BY <2>4
  <2>6. Q[n] \in Nat
    BY <2>1 DEF IsChain
  <2> QED
    BY <2>1, <2>2, <2>5, <2>6
<1> HIDE DEF weights
<1>6. ASSUME NEW d, Connects(d, "from"), \A v : Connects(v, "from") => d <= v
      PROVE  weights # {} /\ (CHOOSE w \in weights : \A v \in weights : w <= v) = d
  <2>1. PICK w \in weights : w <= d
    BY <1>5, <1>6
  <2>2. d \in Nat /\ w \in Nat /\ d <= w
    BY <1>4, <1>5, <1>6
  <2>3. d \in weights /\ \A v \in weights : d <= v /\ v \in Nat
    BY <1>4, <1>6, <2>1, <2>2
  <2> DEFINE least == CHOOSE x \in weights : \A v \in weights : x <= v
  <2>4. \E x \in weights : \A v \in weights : x <= v
    BY <2>3
  <2>5. least \in weights /\ \A v \in weights : least <= v
    BY <2>4, Zenon
  <2> HIDE DEF least
  <2>6. least = d
    BY <2>2, <2>3, <2>5
  <2> QED
    BY <2>3, <2>6 DEF least
<1>7. (\A v : ~Connects(v, "from")) => weights = {}
  BY <1>4
<1>8. ASSUME NEW d, ~Trivial, Connects(d, "from"), \A v : Connects(v, "from") => d <= v
      PROVE  W!Distance(query) = d
  <2>1. weights # {} /\ (CHOOSE w \in weights : \A v \in weights : w <= v) = d
    BY <1>6, <1>8
  <2> QED
    BY <1>1, <1>8, <2>1
<1> QED
  BY <1>1, <1>7, <1>8

-----------------------------------------------------------------------------
\* Where the chains of both sides meet.

\* Chain p goes along the first m arcs of c and then back along d, from its n-th
\* arc to the one j before; it would weigh w if it went on to the end.
GoesBack(p, P, c, Q, m, d, R, n, j, w) ==
    /\ \A i \in 1 .. m : p[i] = c[i] /\ P[i] = Q[i]
    /\ \A k \in 0 .. j : p[m + k + 1] = d[n - k] /\ P[m + k + 1] + R[n - k] = w + Cost(d[n - k])

\* Arc b may follow the first m arcs of c.
MayFollow(b, c, m, s) ==
    IF m = 0 THEN Base(b, s) = query.start[s] /\ query.only[s] \in {AnyEdge, b[1]}
    ELSE Base(b, s) = Far(c[m], s) /\ TurnCost(c[m], b, s) \in Nat

\* The weight of the first m arcs of c with the turn into b.
WeightBefore(b, c, Q, m, s) == IF m = 0 THEN 0 ELSE Q[m] + TurnCost(c[m], b, s)

\* A chain of one side and one of the other that meet are a chain to the other end.
LEMMA JoinChains ==
    ASSUME query \in Queries, NEW s \in Sides,
           NEW c, NEW Q, NEW m, IsChain(c, Q, m, s),
           NEW d, NEW R, NEW n, IsChain(d, R, n, Other(s)), n > 0,
           MayFollow(d[n], c, m, s)
    PROVE  \E p, P : /\ IsChain(p, P, m + n, s)
                     /\ GoesBack(p, P, c, Q, m, d, R, n, n - 1, WeightBefore(d[n], c, Q, m, s) + R[n])
                     /\ ReachesOther(p[m + n], s)
                     /\ P[m + n] = WeightBefore(d[n], c, Q, m, s) + R[n]
<1> DEFINE w == WeightBefore(d[n], c, Q, m, s) + R[n]
           o == Other(s)
           Good(p, P, j) == /\ IsChain(p, P, m + j + 1, s)
                            /\ GoesBack(p, P, c, Q, m, d, R, n, j, w)
           S == {j \in 0 .. (n - 1) : \E p, P : Good(p, P, j)}
<1>1. /\ m \in Nat /\ n \in Nat
      /\ d \in [1 .. n -> Arcs] /\ R \in [1 .. n -> Nat]
      /\ Base(d[1], o) = query.start[o] /\ query.only[o] \in {AnyEdge, d[1][1]}
      /\ R[1] = Cost(d[1])
      /\ \A i \in 1 .. (n - 1) :
            /\ Base(d[i + 1], o) = Far(d[i], o)
            /\ TurnCost(d[i], d[i + 1], o) \in Nat
            /\ R[i + 1] = R[i] + TurnCost(d[i], d[i + 1], o) + Cost(d[i + 1])
      /\ m > 0 => Q[m] \in Nat
  <2>1. m \in Nat /\ Q \in [1 .. m -> Nat]
    BY DEF IsChain
  <2> HIDE DEF o
  <2>2. IsChain(d, R, n, o)
    BY DEF o
  <2>3. /\ n \in Nat /\ d \in [1 .. n -> Arcs] /\ R \in [1 .. n -> Nat]
        /\ Base(d[1], o) = query.start[o] /\ query.only[o] \in {AnyEdge, d[1][1]}
        /\ R[1] = Cost(d[1])
    BY <2>2 DEF IsChain
  <2>4. \A i \in 1 .. (n - 1) :
            /\ Base(d[i + 1], o) = Far(d[i], o)
            /\ TurnCost(d[i], d[i + 1], o) \in Nat
            /\ R[i + 1] = R[i] + TurnCost(d[i], d[i + 1], o) + Cost(d[i + 1])
    BY <2>2 DEF IsChain
  <2>5. m > 0 => Q[m] \in Nat
    BY <2>1
  <2> QED
    BY <2>1, <2>3, <2>4, <2>5
<1>2. /\ o \in Sides /\ \A arc : Base(arc, o) = Far(arc, s) /\ Far(arc, o) = Base(arc, s)
      /\ \A a, b : TurnCost(a, b, o) = TurnCost(b, a, s)
  BY OtherSide
<1> HIDE DEF o
<1>3. \A i \in 1 .. n : d[i] \in Arcs /\ Cost(d[i]) \in Nat /\ R[i] \in Nat
  <2> TAKE i \in 1 .. n
  <2>1. d[i] \in Arcs
    BY <1>1
  <2> QED
    BY <1>1, <2>1, ArcFacts
<1>4. WeightBefore(d[n], c, Q, m, s) \in Nat /\ w = WeightBefore(d[n], c, Q, m, s) + R[n] /\ w \in Nat
  <2>1. WeightBefore(d[n], c, Q, m, s) \in Nat
    BY <1>1 DEF WeightBefore, MayFollow
  <2>2. R[n] \in Nat
    BY <1>1
  <2> QED
    BY <2>1, <2>2
<1>5. 0 \in S
  <2>1. d[n] \in Arcs /\ (m = 0 \/ m > 0)
    BY <1>1
  <2>2. PICK p, P : /\ IsChain(p, P, m + 1, s)
                    /\ \A i \in 1 .. m : p[i] = c[i] /\ P[i] = Q[i]
                    /\ p[m + 1] = d[n] /\ P[m + 1] = NextWeight(c, Q, m, d[n], s)
    <3>1. d[n] \in Arcs
      BY <1>1
    <3>2. m = 0 => Base(d[n], s) = query.start[s] /\ query.only[s] \in {AnyEdge, d[n][1]}
      BY DEF MayFollow
    <3>3. m > 0 => Base(d[n], s) = Far(c[m], s) /\ TurnCost(c[m], d[n], s) \in Nat
      BY <1>1 DEF MayFollow
    <3> QED
      BY <3>1, <3>2, <3>3, ExtendChain
  <2>3. NextWeight(c, Q, m, d[n], s) = WeightBefore(d[n], c, Q, m, s) + Cost(d[n])
    <3>1. Cost(d[n]) \in Nat
      BY <1>1, <1>3
    <3> QED
      BY <3>1 DEF NextWeight, WeightBefore
  <2>4. P[m + 1] + R[n] = w + Cost(d[n])
    <3>1. Cost(d[n]) \in Nat /\ R[n] \in Nat
      BY <1>1, <1>3
    <3> HIDE DEF w
    <3> QED
      BY <1>4, <2>2, <2>3, <3>1
  <2>5. GoesBack(p, P, c, Q, m, d, R, n, 0, w)
    <3>1. \A k \in 0 .. 0 : m + k + 1 = m + 1 /\ n - k = n
      BY <1>1
    <3> HIDE DEF w
    <3> QED
      BY <2>2, <2>4, <3>1 DEF GoesBack
  <2>6. m + 0 + 1 = m + 1 /\ 0 \in 0 .. (n - 1)
    BY <1>1
  <2>7. Good(p, P, 0)
    BY <2>2, <2>5, <2>6
  <2> HIDE DEF Good
  <2> QED
    BY <2>6, <2>7
<1>6. \A j \in 0 .. ((n - 1) - 1) : j \in S => j + 1 \in S
  <2> SUFFICES ASSUME NEW j \in 0 .. ((n - 1) - 1), j \in S PROVE j + 1 \in S
    OBVIOUS
  <2> DEFINE i == n - j - 1
             l == m + j + 1
  <2>1. /\ i \in 1 .. (n - 1) /\ i \in 1 .. n /\ i + 1 \in 1 .. n /\ i + 1 = n - j /\ i = n - (j + 1)
        /\ l \in Nat /\ l > 0 /\ l # 0 /\ m + (j + 1) + 1 = l + 1 /\ j + 1 \in 0 .. (n - 1) /\ j \in Nat
    BY <1>1
  <2>2. PICK p, P : IsChain(p, P, l, s) /\ GoesBack(p, P, c, Q, m, d, R, n, j, w)
    OBVIOUS
  <2>3. p[l] = d[i + 1] /\ P[l] + R[i + 1] = w + Cost(d[i + 1])
    <3>1. j \in 0 .. j
      BY <2>1
    <3> QED
      BY <2>1, <2>2, <3>1 DEF GoesBack
  <2> HIDE DEF l, i, w
  <2>4. /\ Base(d[i], s) = Far(d[i + 1], s)
        /\ TurnCost(d[i + 1], d[i], s) \in Nat
        /\ R[i + 1] = R[i] + TurnCost(d[i + 1], d[i], s) + Cost(d[i + 1])
        /\ d[i] \in Arcs /\ Cost(d[i]) \in Nat /\ Cost(d[i + 1]) \in Nat
        /\ R[i] \in Nat /\ R[i + 1] \in Nat
    BY <1>1, <1>2, <1>3, <2>1
  <2>5. PICK q, V : /\ IsChain(q, V, l + 1, s)
                    /\ \A k \in 1 .. l : q[k] = p[k] /\ V[k] = P[k]
                    /\ q[l + 1] = d[i] /\ V[l + 1] = NextWeight(p, P, l, d[i], s)
    BY <2>1, <2>2, <2>3, <2>4, ExtendChain
  <2>6. V[l + 1] = P[l] + TurnCost(d[i + 1], d[i], s) + Cost(d[i])
    BY <2>1, <2>3, <2>5 DEF NextWeight
  <2>7. P[l] \in Nat
    BY <2>1, <2>2 DEF IsChain
  <2>8. V[l + 1] + R[i] = w + Cost(d[i])
    BY <1>4, <2>3, <2>4, <2>6, <2>7
  <2>9. \A k \in 0 .. (j + 1) : q[m + k + 1] = d[n - k] /\ V[m + k + 1] + R[n - k] = w + Cost(d[n - k])
    <3> TAKE k \in 0 .. (j + 1)
    <3>1. CASE k = j + 1
      BY <2>1, <2>5, <2>8, <3>1
    <3>2. CASE k # j + 1
      <4>1. k \in 0 .. j /\ m + k + 1 \in 1 .. l
        BY <1>1, <2>1, <3>2 DEF l
      <4>2. p[m + k + 1] = d[n - k] /\ P[m + k + 1] + R[n - k] = w + Cost(d[n - k])
        BY <2>2, <4>1 DEF GoesBack
      <4> QED
        BY <2>5, <4>1, <4>2
    <3> QED
      BY <3>1, <3>2
  <2>10. \A k \in 1 .. m : q[k] = c[k] /\ V[k] = Q[k]
    <3> TAKE k \in 1 .. m
    <3>1. k \in 1 .. l
      BY <1>1, <2>1 DEF l
    <3> QED
      BY <2>2, <2>5, <3>1 DEF GoesBack
  <2>11. GoesBack(q, V, c, Q, m, d, R, n, j + 1, w)
    BY <2>9, <2>10 DEF GoesBack
  <2>12. Good(q, V, j + 1)
    BY <2>1, <2>5, <2>11
  <2> HIDE DEF Good
  <2> QED
    BY <2>1, <2>12
<1>7. n - 1 \in S
  <2>1. n - 1 \in Nat /\ n - 1 \in 0 .. (n - 1)
    BY <1>1
  <2> HIDE DEF S
  <2>2. 0 .. (n - 1) \subseteq S
    BY <1>5, <1>6, <2>1, BoundedInduction
  <2> QED
    BY <2>1, <2>2
<1>8. PICK p, P : Good(p, P, n - 1)
  BY <1>7
<1>9. m + (n - 1) + 1 = m + n /\ n - (n - 1) = 1 /\ n - 1 \in 0 .. (n - 1) /\ 1 \in 1 .. n
  BY <1>1
<1> HIDE DEF w
<1>10. p[m + n] = d[1] /\ P[m + n] + R[1] = w + Cost(d[1])
  BY <1>8, <1>9 DEF GoesBack
<1>11. ReachesOther(p[m + n], s)
  BY <1>1, <1>2, <1>10 DEF ReachesOther, o
<1>12. P[m + n] = w
  <2>1. P[m + n] \in Nat
    <3>1. IsChain(p, P, m + n, s) /\ m + n \in 1 .. m + n
      BY <1>1, <1>8, <1>9
    <3> QED
      BY <3>1 DEF IsChain
  <2>2. Cost(d[1]) \in Nat /\ R[1] = Cost(d[1])
    BY <1>1, <1>3, <1>9
  <2> QED
    BY <1>4, <1>10, <2>1, <2>2
<1> QED
  BY <1>8, <1>9, <1>11, <1>12 DEF w

-----------------------------------------------------------------------------
\* What the tree of a side knows.

Root(s) == NewSPTEntry(query.start[s])

\* accept and Accept of the two kinds of search.
Accepts(e, x, s) ==
    /\ query.edgeBased \/ IsRoot(x) \/ e # Last(x.edges)
    /\ IsRoot(x) => query.only[s] \in {AnyEdge, e}

Entries(T, s) == {Root(s)} \cup {T[id] : id \in DOMAIN T}

\* The tree has an entry for id that weighs no more than w.
Reached(T, id, w) == id \in DOMAIN T /\ T[id].weight <= w

\* Arc b leads on from an entry.
LeadsOn(x, b, s) == Base(b, s) = x.node /\ Accepts(b[1], x, s) /\ TurnFrom(x, b[1], s) # Inf

\* One side of a search, in the terms of Settled: every entry is the end of a
\* chain, the root is popped first, and every arc that leads on from an entry
\* that has been popped has its entry, unless it is still to be relaxed.
Searched(T, H, c, s, relaxing, todo) ==
    /\ \A id \in DOMAIN T : HasChain(T[id], s) /\ (query.edgeBased => ~IsRoot(T[id]))
    /\ H \subseteq Entries(T, s)
    /\ Root(s) \in H => H = {Root(s)}
    /\ relaxing => /\ c \in Entries(T, s) \ H /\ Root(s) \notin H
                   /\ \A e \in todo : Accepts(e, c, s)
    /\ ~query.edgeBased =>
          /\ Reached(T, query.start[s], 0)
          /\ \A id \in DOMAIN T :
                ~IsRoot(T[id]) => Reached(T, AdjNode(Last(T[id].edges), id), T[id].weight)
    /\ \A x \in Entries(T, s) \ H : \A b \in Arcs :
          LeadsOn(x, b, s) /\ ~(relaxing /\ x = c /\ b[1] \in todo)
             => Reached(T, IdOf(b, s), x.weight + TurnFrom(x, b[1], s) + Cost(b))

\* Between two visits the popped entry and the edges left do not matter.
LEMMA SearchedWhenIdle ==
    ASSUME NEW T, NEW H, NEW c, NEW s, NEW t, Searched(T, H, c, s, FALSE, t)
    PROVE  \A d, rest : Searched(T, H, d, s, FALSE, rest)
  BY DEF Searched

\* When no edge is left, the popped entry is done with.
LEMMA SearchedWhenDone ==
    ASSUME NEW T, NEW H, NEW c, NEW s, Searched(T, H, c, s, TRUE, {})
    PROVE  \A rest : Searched(T, H, c, s, FALSE, rest)
  BY DEF Searched

\* Entries are entries, with chains.
LEMMA EntriesFacts ==
    ASSUME query \in Queries, NEW s \in Sides, NEW T, NEW H, NEW c, NEW r, NEW t,
           Settled(T, H, c, s, r, t), Searched(T, H, c, s, r, t), NEW x \in Entries(T, s)
    PROVE  IsEntry(x) /\ HasChain(x, s) /\ (IsRoot(x) => x.node = query.start[s] /\ x.weight = 0)
<1>1. IsEntry(Root(s)) /\ HasChain(Root(s), s)
  BY RootHasChain DEF Root
<1>2. IsEntry(x) /\ HasChain(x, s)
  BY <1>1 DEF Settled, Searched, Entries
<1>3. IsRoot(x) => x.node = query.start[s] /\ x.weight = 0
  BY <1>2 DEF HasChain, IsRoot
<1> QED
  BY <1>2, <1>3

\* A search begins with its root.
LEMMA SearchedInit ==
    ASSUME query \in Queries, NEW s \in Sides,
           NEW T, T = IF query.edgeBased THEN << >> ELSE [n \in {query.start[s]} |-> Root(s)]
    PROVE  \A c, t : Searched(T, {Root(s)}, c, s, FALSE, t)
<1>1. /\ IsRoot(Root(s)) /\ HasChain(Root(s), s) /\ Root(s).weight = 0
  BY RootHasChain DEF Root, NewSPTEntry
<1>2. \A id \in DOMAIN T : T[id] = Root(s) /\ ~query.edgeBased
  OBVIOUS
<1>3. ~query.edgeBased => Reached(T, query.start[s], 0)
  BY <1>1 DEF Reached
<1>4. Entries(T, s) = {Root(s)}
  BY <1>2 DEF Entries
<1> QED
  BY <1>1, <1>2, <1>3, <1>4 DEF Searched

\* The lightest entry is popped, with the edges to be relaxed from it.
LEMMA SearchedPop ==
    ASSUME NEW s \in Sides,
           NEW T, NEW H, NEW c, NEW t, Searched(T, H, c, s, FALSE, t),
           NEW entry \in H, NEW todo, todo = {e \in Incident(entry.node) : Accepts(e, entry, s)},
           query \in Queries
    PROVE  Searched(T, H \ {entry}, entry, s, TRUE, todo)
<1> DEFINE H2 == H \ {entry}
<1>1. /\ entry \in Entries(T, s) \ H2 /\ Root(s) \notin H2 /\ H2 \subseteq Entries(T, s)
      /\ \A e \in todo : Accepts(e, entry, s)
  BY DEF Searched
<1>2. ASSUME NEW x \in Entries(T, s) \ H2, NEW b \in Arcs,
             LeadsOn(x, b, s), ~(x = entry /\ b[1] \in todo)
      PROVE  Reached(T, IdOf(b, s), x.weight + TurnFrom(x, b[1], s) + Cost(b))
  <2>1. CASE x = entry
    <3>1. b[1] \in Incident(Base(b, s))
      BY ArcFacts
    <3> QED
      BY <1>2, <2>1, <3>1 DEF LeadsOn
  <2>2. CASE x # entry
    <3>1. x \in Entries(T, s) \ H
      BY <2>2
    <3> QED
      BY <1>2, <3>1 DEF Searched
  <2> QED
    BY <2>1, <2>2
<1> HIDE DEF H2
<1>3. Searched(T, H2, entry, s, TRUE, todo)
  BY <1>1, <1>2 DEF Searched
<1> QED
  BY <1>3 DEF H2

\* An edge is relaxed whose entry is no improvement.
LEMMA SearchedSkip ==
    ASSUME query \in Queries, NEW s \in Sides,
           NEW T, NEW H, NEW c, NEW todo,
           Settled(T, H, c, s, TRUE, todo), Searched(T, H, c, s, TRUE, todo),
           NEW e \in todo,
           ~Improves(createEntry(e, c, s), TraversalID(e, c.node, s), T)
    PROVE  Searched(T, H, c, s, TRUE, todo \ {e})
<1> DEFINE new == createEntry(e, c, s)  id == TraversalID(e, c.node, s)
<1>1. IsEntry(c) /\ e \in Incident(c.node)
  BY DEF Settled
<1>2. ASSUME NEW b \in Arcs, b[1] = e, LeadsOn(c, b, s)
      PROVE  Reached(T, IdOf(b, s), c.weight + TurnFrom(c, b[1], s) + Cost(b))
  <2>1. Base(b, s) = c.node
    BY <1>2 DEF LeadsOn
  <2>2. IdOf(b, s) = id
    BY <1>2, <2>1, ArcFacts
  <2>3. new.weight # Inf /\ new.weight = c.weight + TurnFrom(c, b[1], s) + Cost(b)
    BY <1>1, <1>2, <2>1, EntryAlong DEF LeadsOn
  <2>4. IsEntry(new)
    BY <1>1, <2>3, NewEntryFacts
  <2> HIDE DEF new, id
  <2>5. id \in DOMAIN T /\ ~(T[id].weight > new.weight)
    BY <2>3 DEF Improves, new, id
  <2>6. T[id].weight \in Nat /\ new.weight \in Nat
    BY <2>4, <2>5 DEF Settled, IsEntry
  <2> QED
    BY <2>2, <2>3, <2>5, <2>6 DEF Reached
<1>3. ASSUME NEW x \in Entries(T, s) \ H, NEW b \in Arcs,
             LeadsOn(x, b, s), ~(x = c /\ b[1] \in todo \ {e})
      PROVE  Reached(T, IdOf(b, s), x.weight + TurnFrom(x, b[1], s) + Cost(b))
  <2>1. CASE x = c /\ b[1] = e
    BY <1>2, <1>3, <2>1
  <2>2. CASE ~(x = c /\ b[1] = e)
    BY <1>3, <2>2 DEF Searched
  <2> QED
    BY <2>1, <2>2
<1> QED
  BY <1>3 DEF Searched

\* An edge leads back where it came from.
LEMMA AdjacentBack ==
    ASSUME query \in Queries, NEW n, NEW e \in Incident(n)
    PROVE  AdjNode(e, AdjNode(e, n)) = n
<1>1. e \in DOMAIN query.edges /\ n \in {query.edges[e].a, query.edges[e].b}
  BY DEF Incident
<1> QED
  BY <1>1, QueryFacts DEF AdjNode

\* The heap H once the entry new is filed under id in T.
Refiled(T, H, id, new) == (H \ {T[i] : i \in DOMAIN T \cap {id}}) \cup {new}

\* Two trees, each with its heap, in which the same entries have been popped.
SameVisited(T, H, T2, H2, s) == \A x : x \in Entries(T, s) \ H <=> x \in Entries(T2, s) \ H2

\* An edge is relaxed whose entry is filed.
LEMMA SearchedFiled ==
    ASSUME query \in Queries, algorithm \in Algorithms, NEW s \in Sides,
           NEW T, NEW H, NEW c, NEW todo,
           Settled(T, H, c, s, TRUE, todo), Searched(T, H, c, s, TRUE, todo),
           NEW e \in todo, NEW new, NEW id,
           new = createEntry(e, c, s), id = TraversalID(e, c.node, s), Improves(new, id, T)
    PROVE  /\ Searched(Filed(T, id, new), Refiled(T, H, id, new), c, s, TRUE, todo \ {e})
           /\ \A i, w : w \in Int /\ Reached(T, i, w) => Reached(Filed(T, id, new), i, w)
           /\ SameVisited(T, H, Filed(T, id, new), Refiled(T, H, id, new), s)
<1> DEFINE T2 == Filed(T, id, new)
           H2 == (H \ {T[i] : i \in DOMAIN T \cap {id}}) \cup {new}
<1>1. /\ IsEntry(c) /\ e \in Incident(c.node)
      /\ \A i \in DOMAIN T : IsEntry(T[i]) /\ IsFiledUnder(T[i], i, s)
  BY DEF Settled
<1>2. /\ c \in Entries(T, s) \ H /\ Root(s) \notin H /\ Accepts(e, c, s)
      /\ H \subseteq Entries(T, s)
  BY DEF Searched
<1>3. HasChain(c, s) /\ IsRoot(Root(s))
  BY <1>2, EntriesFacts, RootHasChain DEF Root
<1>4. /\ new.weight # Inf /\ IsEntry(new) /\ IsFiledUnder(new, id, s)
      /\ new.weight >= c.weight + Beeline(query, c.node, new.node)
  BY <1>1, NewEntryFacts DEF Improves
<1>5. HasChain(new, s)
  BY <1>1, <1>2, <1>3, <1>4, NewEntryHasChain DEF Accepts
<1>6. ~IsRoot(new) /\ Last(new.edges) = e
  <2>1. new.edges = Append(c.edges, e) /\ c.edges \in Seq(DOMAIN query.edges) /\ e \in DOMAIN query.edges
    BY <1>1 DEF createEntry, IsEntry, Incident
  <2>2. Append(c.edges, e) # << >> /\ Last(Append(c.edges, e)) = e
    BY <2>1, AppendFacts
  <2> QED
    BY <2>1, <2>2 DEF IsRoot
<1>7. /\ id \in DOMAIN T => T[id] \in H
      /\ Settled(T2, H2, c, s, TRUE, todo)
  BY RelaxKeeps
<1>8. /\ DOMAIN T2 = DOMAIN T \cup {id} /\ T2[id] = new
      /\ \A i \in DOMAIN T : i # id => T2[i] = T[i]
  BY DEF Filed
<1>9. new \in H2 /\ H2 \subseteq H \cup {new} /\ \A x \in H2 : x = new \/ x \in H
  OBVIOUS
<1>10. \A x \in H : x \in H2 \/ (id \in DOMAIN T /\ x = T[id])
  OBVIOUS
<1>11. id \in DOMAIN T => T[id] \notin H2 \/ T[id] = new
  OBVIOUS
<1> HIDE DEF T2, H2
<1>12. \A i, w : w \in Int /\ Reached(T, i, w) => Reached(T2, i, w)
  <2> SUFFICES ASSUME NEW i, NEW w \in Int, Reached(T, i, w) PROVE Reached(T2, i, w)
    OBVIOUS
  <2>1. CASE i = id
    <3>1. id \in DOMAIN T /\ T[id].weight > new.weight /\ T[id].weight <= w
      BY <2>1 DEF Reached, Improves
    <3>2. T[id].weight \in Nat /\ new.weight \in Nat
      BY <1>1, <1>4, <3>1 DEF IsEntry
    <3>3. new.weight <= w
      BY <3>1, <3>2
    <3> QED
      BY <1>8, <2>1, <3>3 DEF Reached
  <2>2. CASE i # id
    BY <1>8, <2>2 DEF Reached
  <2> QED
    BY <2>1, <2>2
<1>13. \A i \in DOMAIN T2 : IsFiledUnder(T2[i], i, s)
  BY <1>7 DEF Settled
<1>14. \A x \in Entries(T2, s) \ H2 : x \in Entries(T, s) \ H
  <2> SUFFICES ASSUME NEW x \in Entries(T2, s), x \notin H2 PROVE x \in Entries(T, s) \ H
    OBVIOUS
  <2>1. CASE x = Root(s)
    BY <1>2, <2>1 DEF Entries
  <2>2. ASSUME NEW i \in DOMAIN T2, x = T2[i] PROVE x \in Entries(T, s) \ H
    <3>1. i # id /\ i \in DOMAIN T /\ x = T[i]
      BY <1>8, <1>9, <2>2
    <3>2. id \in DOMAIN T => T[i] # T[id]
      BY <1>1, <3>1, IdIsUnique
    <3> QED
      BY <1>10, <3>1, <3>2 DEF Entries
  <2> QED
    BY <2>1, <2>2 DEF Entries
<1>15. \A x \in Entries(T, s) \ H : x \in Entries(T2, s) \ H2
  <2> SUFFICES ASSUME NEW x \in Entries(T, s), x \notin H PROVE x \in Entries(T2, s) \ H2
    OBVIOUS
  <2>1. CASE x = Root(s)
    BY <1>2, <1>3, <1>6, <1>9, <2>1 DEF Entries
  <2>2. ASSUME NEW i \in DOMAIN T, x = T[i] PROVE x \in Entries(T2, s) \ H2
    <3>1. i # id /\ T2[i] = x /\ i \in DOMAIN T2
      BY <1>7, <1>8, <2>2
    <3>2. x # new
      BY <1>8, <1>13, <3>1, IdIsUnique
    <3> QED
      BY <1>9, <3>1, <3>2 DEF Entries
  <2> QED
    BY <2>1, <2>2 DEF Entries
<1>16. H2 \subseteq Entries(T2, s)
  <2> SUFFICES ASSUME NEW x \in H2, x # new PROVE x \in Entries(T2, s)
    BY <1>8 DEF Entries
  <2>1. x \in H /\ x # Root(s) /\ x \in Entries(T, s)
    BY <1>2, <1>9
  <2>2. PICK i \in DOMAIN T : x = T[i]
    BY <2>1 DEF Entries
  <2>3. i # id
    BY <1>11, <2>2
  <2> QED
    BY <1>8, <2>2, <2>3 DEF Entries
<1>17. Root(s) \notin H2
  BY <1>2, <1>3, <1>6, <1>9
<1>18. \A i \in DOMAIN T2 : HasChain(T2[i], s) /\ (query.edgeBased => ~IsRoot(T2[i]))
  <2> TAKE i \in DOMAIN T2
  <2>1. CASE i = id
    BY <1>5, <1>6, <1>8, <2>1
  <2>2. CASE i # id
    BY <1>8, <2>2 DEF Searched
  <2> QED
    BY <2>1, <2>2
<1>19. ASSUME ~query.edgeBased
       PROVE  /\ Reached(T2, query.start[s], 0)
              /\ \A i \in DOMAIN T2 :
                    ~IsRoot(T2[i]) => Reached(T2, AdjNode(Last(T2[i].edges), i), T2[i].weight)
  <2>1. Reached(T2, query.start[s], 0)
    BY <1>12, <1>19 DEF Searched
  <2>2. Reached(T, c.node, c.weight)
    <3>1. CASE c = Root(s)
      BY <1>19, <3>1 DEF Searched, Root, NewSPTEntry
    <3>2. ASSUME NEW i \in DOMAIN T, c = T[i] PROVE Reached(T, c.node, c.weight)
      <4>1. c.node = i
        BY <1>1, <1>19, <3>2 DEF IsFiledUnder
      <4>2. c.weight <= c.weight
        BY <1>1 DEF IsEntry
      <4> QED
        BY <3>2, <4>1, <4>2 DEF Reached
    <3> QED
      BY <1>2, <3>1, <3>2 DEF Entries
  <2>3. Reached(T2, c.node, new.weight)
    <3>1. c.weight \in Nat /\ new.weight \in Nat /\ Beeline(query, c.node, new.node) \in Nat
      BY <1>1, <1>4, BeelineFacts DEF IsEntry
    <3>2. new.weight >= c.weight
      BY <1>4, <3>1
    <3>3. Reached(T2, c.node, c.weight)
      BY <1>12, <2>2, <3>1
    <3>4. c.node \in DOMAIN T2 /\ T2[c.node].weight \in Nat
      BY <1>7, <3>3 DEF Reached, Settled, IsEntry
    <3> QED
      BY <3>1, <3>2, <3>3, <3>4 DEF Reached
  <2>4. AdjNode(e, id) = c.node
    BY <1>1, <1>19, AdjacentBack DEF TraversalID
  <2>5. ASSUME NEW i \in DOMAIN T2, ~IsRoot(T2[i])
        PROVE  Reached(T2, AdjNode(Last(T2[i].edges), i), T2[i].weight)
    <3>1. CASE i = id
      BY <1>6, <1>8, <2>3, <2>4, <3>1
    <3>2. CASE i # id
      <4>1. i \in DOMAIN T /\ T2[i] = T[i] /\ T[i].weight \in Int
        BY <1>1, <1>8, <3>2 DEF IsEntry
      <4>2. Reached(T, AdjNode(Last(T[i].edges), i), T[i].weight)
        BY <1>19, <2>5, <4>1 DEF Searched
      <4> QED
        BY <1>12, <4>1, <4>2
    <3> QED
      BY <3>1, <3>2
  <2> QED
    BY <2>1, <2>5
<1>20. ASSUME NEW x \in Entries(T2, s) \ H2, NEW b \in Arcs,
              LeadsOn(x, b, s), ~(x = c /\ b[1] \in todo \ {e})
       PROVE  Reached(T2, IdOf(b, s), x.weight + TurnFrom(x, b[1], s) + Cost(b))
  <2>1. x \in Entries(T, s) \ H
    BY <1>14
  <2>2. IsEntry(x) /\ Base(b, s) = x.node
    BY <1>20, <2>1, EntriesFacts DEF LeadsOn
  <2>3. TurnFrom(x, b[1], s) \in Nat /\ Cost(b) \in Nat /\ x.weight \in Nat
    BY <1>20, <2>2, EntryAlong, ArcFacts DEF LeadsOn, IsEntry
  <2>4. CASE x = c /\ b[1] = e
    <3>1. IdOf(b, s) = id
      BY <2>2, <2>4, ArcFacts
    <3>2. new.weight = x.weight + TurnFrom(x, b[1], s) + Cost(b)
      BY <1>1, <1>20, <2>2, <2>4, EntryAlong DEF LeadsOn
    <3>3. new.weight <= new.weight
      BY <1>4 DEF IsEntry
    <3> QED
      BY <1>8, <3>1, <3>2, <3>3 DEF Reached
  <2>5. CASE ~(x = c /\ b[1] = e)
    <3>1. Reached(T, IdOf(b, s), x.weight + TurnFrom(x, b[1], s) + Cost(b))
      BY <1>20, <2>1, <2>5 DEF Searched
    <3>2. x.weight + TurnFrom(x, b[1], s) + Cost(b) \in Int
      BY <2>3
    <3> QED
      BY <1>12, <3>1, <3>2
  <2> QED
    BY <2>4, <2>5
<1>21. \A f \in todo \ {e} : Accepts(f, c, s)
  BY DEF Searched
<1>22. c \in Entries(T2, s) \ H2
  BY <1>2, <1>15
<1>23. Searched(T2, H2, c, s, TRUE, todo \ {e})
  BY <1>16, <1>17, <1>18, <1>19, <1>20, <1>21, <1>22 DEF Searched
<1>24. Entries(T2, s) \ H2 = Entries(T, s) \ H
  BY <1>14, <1>15
<1> QED
  BY <1>12, <1>23, <1>24 DEF T2, H2, Refiled, SameVisited

\* The place in the heap of an entry of weight w at node n.
Key(w, n, s) == 2 * w + Estimate(n, s)

\* The heap has nothing that goes before the i-th arc of a chain.
GoesBefore(c, Q, i, H, s) == \A x \in H : Key(Q[i], Far(c[i], s), s) < Weigh(x, s)

\* Weights of a chain are natural numbers that do not decrease.
LEMMA ChainFacts ==
    ASSUME query \in Queries, NEW s \in Sides, NEW c, NEW Q, NEW n, IsChain(c, Q, n, s)
    PROVE  /\ n \in Nat
           /\ \A i \in 1 .. n : c[i] \in Arcs /\ Q[i] \in Nat /\ Cost(c[i]) \in Nat
           /\ \A i \in 1 .. (n - 1) :
                 /\ Base(c[i + 1], s) = Far(c[i], s)
                 /\ TurnCost(c[i], c[i + 1], s) \in Nat
                 /\ Q[i + 1] = Q[i] + TurnCost(c[i], c[i + 1], s) + Cost(c[i + 1])
           /\ n > 0 => /\ Base(c[1], s) = query.start[s]
                       /\ query.only[s] \in {AnyEdge, c[1][1]} /\ Q[1] = Cost(c[1])
<1>1. n \in Nat /\ c \in [1 .. n -> Arcs] /\ Q \in [1 .. n -> Nat]
  BY DEF IsChain
<1>2. \A i \in 1 .. n : c[i] \in Arcs /\ Q[i] \in Nat
  BY <1>1
<1>3. \A i \in 1 .. n : Cost(c[i]) \in Nat
  BY <1>2, ArcFacts
<1> QED
  BY <1>1, <1>2, <1>3 DEF IsChain

\* An arc after the last one of an entry of the tree has its entry in the tree.
LEMMA NextReached ==
    ASSUME query \in Queries, algorithm \in Algorithms, NEW s \in Sides,
           NEW T, NEW H, NEW c0, NEW t,
           Settled(T, H, c0, s, FALSE, t), Searched(T, H, c0, s, FALSE, t),
           NEW a \in Arcs, NEW b \in Arcs, Base(b, s) = Far(a, s), TurnCost(a, b, s) \in Nat,
           NEW w \in Nat, Reached(T, IdOf(a, s), w), T[IdOf(a, s)] \notin H
    PROVE  Reached(T, IdOf(b, s), w + TurnCost(a, b, s) + Cost(b))
<1> DEFINE id == IdOf(a, s)  y == T[id]
<1>1. id \in DOMAIN T /\ y.weight <= w /\ IsEntry(y) /\ IsFiledUnder(y, id, s) /\ y \in Entries(T, s) \ H
  BY DEF Reached, Settled, Entries
<1>2. y.node = Far(a, s)
  BY <1>1 DEF IsFiledUnder, IdOf, Far
<1>3. y.weight \in Nat /\ Cost(b) \in Nat /\ Base(b, s) = y.node
  BY <1>1, <1>2, ArcFacts DEF IsEntry
<1> HIDE DEF y, id
<1>4. CASE query.edgeBased
  <2>1. ~IsRoot(y) /\ Last(y.edges) = a[1]
    BY <1>1, <1>4 DEF Searched, y, id, IsFiledUnder, IdOf
  <2>2. TurnFrom(y, b[1], s) = TurnCost(a, b, s)
    BY <1>2, <2>1, TurnFacts DEF TurnFrom
  <2>3. Inf \notin Nat
    BY QueryFacts
  <2>4. LeadsOn(y, b, s)
    BY <1>3, <1>4, <2>1, <2>2, <2>3 DEF LeadsOn, Accepts
  <2>5. Reached(T, IdOf(b, s), y.weight + TurnCost(a, b, s) + Cost(b))
    BY <1>1, <2>2, <2>4 DEF Searched
  <2>6. T[IdOf(b, s)].weight \in Nat
    BY <2>5 DEF Settled, IsEntry, Reached
  <2>7. y.weight + TurnCost(a, b, s) + Cost(b) <= w + TurnCost(a, b, s) + Cost(b)
    BY <1>1, <1>3
  <2> QED
    BY <1>1, <1>3, <2>5, <2>6, <2>7 DEF Reached
<1>5. CASE ~query.edgeBased
  <2>1. TurnCost(a, b, s) = 0 /\ query.restricted = {} /\ query.uTurn = 0
        /\ query.only[s] = AnyEdge
    BY <1>5, TurnFacts, QueriesAssumption
  <2>2. TurnFrom(y, b[1], s) = 0 /\ Inf # 0
    BY <2>1, QueryFacts DEF TurnFrom, TurnWeight
  <2>3. id = y.node /\ y = T[y.node]
    BY <1>1, <1>5 DEF IsFiledUnder, y
  <2>4. CASE Accepts(b[1], y, s)
    <3>1. Reached(T, IdOf(b, s), y.weight + 0 + Cost(b))
      BY <1>1, <1>3, <2>2, <2>4 DEF Searched, LeadsOn
    <3>2. T[IdOf(b, s)].weight \in Nat
      BY <3>1 DEF Settled, IsEntry, Reached
    <3> QED
      BY <1>1, <1>3, <2>1, <3>1, <3>2 DEF Reached
  <2>5. CASE ~Accepts(b[1], y, s)
    <3>1. ~IsRoot(y) /\ b[1] = Last(y.edges)
      BY <2>1, <2>5 DEF Accepts
    <3>2. Reached(T, AdjNode(b[1], y.node), y.weight)
      BY <1>1, <1>5, <2>3, <3>1 DEF Searched
    <3>3. AdjNode(b[1], y.node) = IdOf(b, s)
      BY <1>3, <1>5, ArcFacts DEF IdOf
    <3>4. T[IdOf(b, s)].weight \in Nat
      BY <3>2, <3>3 DEF Settled, IsEntry, Reached
    <3> QED
      BY <1>1, <1>3, <2>1, <3>2, <3>3, <3>4 DEF Reached
  <2> QED
    BY <2>4, <2>5
<1> QED
  BY <1>4, <1>5

\* As long as the heap has nothing lighter, the arcs of a chain are in the tree,
\* for no more than the chain weighs.
LEMMA ChainReached ==
    ASSUME query \in Queries, algorithm \in Algorithms, NEW s \in Sides,
           NEW T, NEW H, NEW c0, NEW t,
           Settled(T, H, c0, s, FALSE, t), Searched(T, H, c0, s, FALSE, t), Root(s) \notin H,
           NEW c, NEW Q, NEW n, IsChain(c, Q, n, s),
           NEW j \in 1 .. n, \A i \in 1 .. (j - 1) : GoesBefore(c, Q, i, H, s)
    PROVE  Reached(T, IdOf(c[j], s), Q[j])
<1> DEFINE S == {i \in 0 .. (j - 1) : Reached(T, IdOf(c[i + 1], s), Q[i + 1])}
<1>1. /\ n \in Nat
      /\ \A i \in 1 .. n : c[i] \in Arcs /\ Q[i] \in Nat /\ Cost(c[i]) \in Nat
      /\ \A i \in 1 .. (n - 1) :
            /\ Base(c[i + 1], s) = Far(c[i], s)
            /\ TurnCost(c[i], c[i + 1], s) \in Nat
            /\ Q[i + 1] = Q[i] + TurnCost(c[i], c[i + 1], s) + Cost(c[i + 1])
      /\ n > 0 => /\ Base(c[1], s) = query.start[s]
                  /\ query.only[s] \in {AnyEdge, c[1][1]} /\ Q[1] = Cost(c[1])
  BY ChainFacts
<1>2. 0 \in S
  <2>1. /\ Root(s) \in Entries(T, s) \ H /\ Root(s).node = query.start[s] /\ Root(s).weight = 0
        /\ IsRoot(Root(s))
    BY DEF Entries, Root, NewSPTEntry, IsRoot
  <2>2. c[1] \in Arcs /\ Q[1] = Cost(c[1]) /\ Cost(c[1]) \in Nat /\ n > 0
    BY <1>1
  <2>3. TurnFrom(Root(s), c[1][1], s) = 0 /\ Inf # 0
    BY <2>1, QueryFacts DEF TurnFrom
  <2>4. LeadsOn(Root(s), c[1], s)
    BY <1>1, <2>1, <2>2, <2>3 DEF LeadsOn, Accepts
  <2>5. Reached(T, IdOf(c[1], s), 0 + 0 + Cost(c[1]))
    BY <2>1, <2>2, <2>3, <2>4 DEF Searched
  <2>6. 0 + 0 + Cost(c[1]) = Q[1] /\ 0 + 1 = 1 /\ 0 \in 0 .. (j - 1)
    BY <1>1, <2>2
  <2> QED
    BY <2>5, <2>6
<1>3. \A i \in 0 .. ((j - 1) - 1) : i \in S => i + 1 \in S
  <2> SUFFICES ASSUME NEW i \in 0 .. ((j - 1) - 1), i \in S PROVE i + 1 \in S
    OBVIOUS
  <2> DEFINE k == i + 1
  <2>1. k \in 1 .. (j - 1) /\ k \in 1 .. (n - 1) /\ k \in 1 .. n /\ k + 1 \in 1 .. n /\ k \in 0 .. (j - 1)
    BY <1>1
  <2>2. Reached(T, IdOf(c[k], s), Q[k])
    OBVIOUS
  <2> HIDE DEF k
  <2>3. T[IdOf(c[k], s)] \notin H
    <3> DEFINE y == T[IdOf(c[k], s)]
    <3>1. IsEntry(y) /\ IsFiledUnder(y, IdOf(c[k], s), s) /\ y.weight <= Q[k]
      BY <2>2 DEF Reached, Settled
    <3>2. y.node = Far(c[k], s)
      BY <3>1 DEF IsFiledUnder, IdOf, Far
    <3> HIDE DEF y
    <3>3. Estimate(y.node, s) \in Int /\ y.weight \in Nat /\ Q[k] \in Nat
      BY <1>1, <2>1, <3>1, EstimateIsConsistent DEF IsEntry
    <3>4. ~(Key(Q[k], Far(c[k], s), s) < Weigh(y, s))
      BY <3>1, <3>2, <3>3 DEF Key, Weigh
    <3>5. GoesBefore(c, Q, k, H, s)
      BY <2>1
    <3>6. y \notin H
      BY <3>4, <3>5 DEF GoesBefore
    <3> QED
      BY <3>6 DEF y
  <2>4. Reached(T, IdOf(c[k + 1], s), Q[k] + TurnCost(c[k], c[k + 1], s) + Cost(c[k + 1]))
    BY <1>1, <2>1, <2>2, <2>3, NextReached
  <2> QED
    BY <1>1, <2>1, <2>4 DEF k
<1>4. j - 1 \in Nat /\ (j - 1) + 1 = j /\ j - 1 \in 0 .. (j - 1)
  BY <1>1
<1> HIDE DEF S
<1>5. 0 .. (j - 1) \subseteq S
  BY <1>2, <1>3, <1>4, BoundedInduction
<1> QED
  BY <1>4, <1>5 DEF S

\* One arc more does not come earlier in the heap.
LEMMA KeyGrows ==
    ASSUME query \in Queries, algorithm \in Algorithms, NEW s \in Sides,
           NEW c, NEW Q, NEW n, IsChain(c, Q, n, s), NEW i \in 1 .. n, NEW j \in i .. n
    PROVE  /\ Key(Q[i], Far(c[i], s), s) \in Int /\ Key(Q[j], Far(c[j], s), s) \in Int
           /\ Key(Q[i], Far(c[i], s), s) <= Key(Q[j], Far(c[j], s), s)
<1> DEFINE K(k) == Key(Q[k], Far(c[k], s), s)
           S == {k \in 0 .. (j - i) : K(i) <= K(i + k)}
<1>1. /\ n \in Nat
      /\ \A k \in 1 .. n : c[k] \in Arcs /\ Q[k] \in Nat /\ Cost(c[k]) \in Nat
      /\ \A k \in 1 .. (n - 1) :
            /\ Base(c[k + 1], s) = Far(c[k], s)
            /\ TurnCost(c[k], c[k + 1], s) \in Nat
            /\ Q[k + 1] = Q[k] + TurnCost(c[k], c[k + 1], s) + Cost(c[k + 1])
  BY ChainFacts
<1>2. \A k \in 1 .. n : /\ K(k) \in Int /\ Far(c[k], s) \in DOMAIN query.pos
                        /\ Base(c[k], s) \in DOMAIN query.pos
                        /\ Cost(c[k]) >= Beeline(query, Base(c[k], s), Far(c[k], s))
  <2> TAKE k \in 1 .. n
  <2>1. Far(c[k], s) \in DOMAIN query.pos /\ Q[k] \in Nat /\ Base(c[k], s) \in DOMAIN query.pos
        /\ Cost(c[k]) >= Beeline(query, Base(c[k], s), Far(c[k], s))
    BY <1>1, ArcFacts
  <2>2. Estimate(Far(c[k], s), s) \in Int
    BY <2>1, EstimateIsConsistent
  <2> QED
    BY <2>1, <2>2 DEF Key
<1>3. \A k \in 1 .. (n - 1) : K(k) <= K(k + 1)
  <2> TAKE k \in 1 .. (n - 1)
  <2> DEFINE u == Far(c[k], s)  v == Far(c[k + 1], s)
  <2>1. k \in 1 .. n /\ k + 1 \in 1 .. n
    BY <1>1
  <2>2. /\ u \in DOMAIN query.pos /\ v \in DOMAIN query.pos
        /\ Cost(c[k + 1]) \in Nat /\ Cost(c[k + 1]) >= Beeline(query, u, v)
        /\ Q[k] \in Nat /\ Q[k + 1] \in Nat /\ TurnCost(c[k], c[k + 1], s) \in Nat
        /\ Q[k + 1] = Q[k] + TurnCost(c[k], c[k + 1], s) + Cost(c[k + 1])
    BY <1>1, <1>2, <2>1
  <2> HIDE DEF u, v
  <2>3. /\ Estimate(u, s) \in Int /\ Estimate(v, s) \in Int /\ Beeline(query, u, v) \in Nat
        /\ Estimate(u, s) <= 2 * Beeline(query, u, v) + Estimate(v, s)
    BY <2>2, EstimateIsConsistent, BeelineFacts
  <2>4. Key(Q[k], u, s) <= Key(Q[k + 1], v, s)
    BY <2>2, <2>3 DEF Key
  <2> QED
    BY <2>4 DEF u, v
<1> HIDE DEF K
<1>4. 0 \in S
  BY <1>2
<1>5. \A k \in 0 .. ((j - i) - 1) : k \in S => k + 1 \in S
  <2> SUFFICES ASSUME NEW k \in 0 .. ((j - i) - 1), K(i) <= K(i + k)
               PROVE  k + 1 \in 0 .. (j - i) /\ K(i) <= K(i + (k + 1))
    OBVIOUS
  <2>1. i + k \in 1 .. (n - 1) /\ i + k \in 1 .. n /\ (i + k) + 1 = i + (k + 1) /\ i + (k + 1) \in 1 .. n
        /\ k + 1 \in 0 .. (j - i)
    BY <1>1
  <2>2. K(i + k) <= K(i + (k + 1))
    BY <1>3, <2>1
  <2> QED
    BY <1>2, <2>1, <2>2
<1>6. j - i \in Nat /\ j - i \in 0 .. (j - i) /\ i + (j - i) = j /\ j \in 1 .. n
  BY <1>1
<1> HIDE DEF S
<1>7. 0 .. (j - i) \subseteq S
  BY <1>4, <1>5, <1>6, BoundedInduction
<1>8. K(i) <= K(j)
  BY <1>6, <1>7 DEF S
<1> QED
  BY <1>2, <1>6, <1>8 DEF K

-----------------------------------------------------------------------------
\* The path of two entries.

\* The edges of both chains, glued where they meet.
Glued(es, fs) == es \o Reverse(fs)

\* The elements of two sequences joined.
IsConcatenation(all, es, fs) ==
    /\ Len(all) = Len(es) + Len(fs)
    /\ \A i \in 1 .. Len(es) : all[i] = es[i]
    /\ \A i \in 1 .. Len(fs) : all[Len(es) + i] = fs[i]

\* Gluing two sequences keeps the elements of both in their order.
LEMMA ConcatFacts ==
    ASSUME NEW S, NEW es \in Seq(S), NEW fs \in Seq(S)
    PROVE  IsConcatenation(es \o fs, es, fs)
<1>1. Len(es) \in Nat /\ Len(fs) \in Nat
  OBVIOUS
<1>2. Len(es \o fs) = Len(es) + Len(fs)
  OBVIOUS
<1>3. ASSUME NEW i \in 1 .. Len(es) PROVE (es \o fs)[i] = es[i]
  BY <1>1
<1>4. ASSUME NEW i \in 1 .. Len(fs) PROVE (es \o fs)[Len(es) + i] = fs[i]
  BY <1>1
<1> QED
  BY <1>2, <1>3, <1>4 DEF IsConcatenation

\* Where chains of both sides meet, their edges are a walk of both their weights.
LEMMA MeetIsWalk ==
    ASSUME query \in Queries,
           NEW c, NEW Q, NEW m, IsChain(c, Q, m, "from"), NEW es \in Seq(DOMAIN query.edges),
           AreEdgesOf(es, c, m),
           NEW d, NEW R, NEW n, IsChain(d, R, n, "to"), NEW fs \in Seq(DOMAIN query.edges),
           AreEdgesOf(fs, d, n),
           n > 0 => MayFollow(d[n], c, m, "from"),
           n = 0 => m > 0 /\ ReachesOther(c[m], "from"),
           NEW w, w = IF n = 0 THEN Q[m] ELSE WeightBefore(d[n], c, Q, m, "from") + R[n]
    PROVE  W!IsWalk(query, Glued(es, fs), w) /\ Connects(w, "from")
<1>1. /\ m \in Nat /\ n \in Nat /\ Len(es) = m /\ Len(fs) = n
      /\ \A i \in 1 .. m : es[i] = c[i][1]
      /\ \A i \in 1 .. n : fs[i] = d[i][1]
  BY DEF IsChain, AreEdgesOf
<1> DEFINE rs == Reverse(fs)
<1>2. /\ rs \in Seq(DOMAIN query.edges) /\ Len(rs) = n
      /\ \A k \in 0 .. (n - 1) : rs[k + 1] = fs[n - k]
  <2>1. rs = [i \in 1 .. n |-> fs[(n - i) + 1]]
    BY <1>1 DEF Reverse
  <2>2. \A i \in 1 .. n : (n - i) + 1 \in 1 .. n
    BY <1>1
  <2>3. \A i \in 1 .. n : fs[(n - i) + 1] \in DOMAIN query.edges
    BY <1>1, <2>2
  <2> HIDE DEF rs
  <2>4. rs \in Seq(DOMAIN query.edges) /\ Len(rs) = n
    BY <1>1, <2>1, <2>3
  <2>5. \A k \in 0 .. (n - 1) : k + 1 \in 1 .. n /\ (n - (k + 1)) + 1 = n - k
    BY <1>1
  <2> QED
    BY <2>1, <2>4, <2>5
<1> HIDE DEF rs
<1> DEFINE all == es \o rs
<1>3. /\ Len(all) = m + n
      /\ \A i \in 1 .. m : all[i] = es[i]
      /\ \A k \in 0 .. (n - 1) : all[m + k + 1] = rs[k + 1]
  <2>1. /\ Len(all) = Len(es) + Len(rs)
        /\ \A i \in 1 .. Len(es) : all[i] = es[i]
        /\ \A i \in 1 .. Len(rs) : all[Len(es) + i] = rs[i]
    <3>1. es \in Seq(DOMAIN query.edges) /\ rs \in Seq(DOMAIN query.edges)
      BY <1>2
    <3>2. IsConcatenation(all, es, rs)
      BY <3>1, ConcatFacts
    <3> HIDE DEF all
    <3> QED
      BY <3>1, <3>2 DEF IsConcatenation
  <2>2. ASSUME NEW k \in 0 .. (n - 1) PROVE all[m + k + 1] = rs[k + 1]
    <3>1. k + 1 \in 1 .. n /\ m + (k + 1) = m + k + 1
      BY <1>1
    <3> HIDE DEF all
    <3> QED
      BY <1>1, <1>2, <2>1, <3>1
  <2> HIDE DEF all
  <2> QED
    BY <1>1, <1>2, <2>1, <2>2
<1> HIDE DEF all
<1>4. Glued(es, fs) = all
  BY DEF Glued, all, rs
<1>5. CASE n = 0
  <2>1. AreEdgesOf(all, c, m)
    BY <1>1, <1>3, <1>5 DEF AreEdgesOf
  <2>2. W!IsWalk(query, all, Q[m])
    BY <1>5, <2>1, ChainIsWalk
  <2>3. Connects(Q[m], "from")
    BY <1>5 DEF Connects
  <2> QED
    BY <1>4, <1>5, <2>2, <2>3
<1>6. CASE n > 0
  <2>1. "from" \in Sides /\ Other("from") = "to"
    BY DEF Sides, Other
  <2>2. PICK p, P : /\ IsChain(p, P, m + n, "from")
                    /\ GoesBack(p, P, c, Q, m, d, R, n, n - 1, WeightBefore(d[n], c, Q, m, "from") + R[n])
                    /\ ReachesOther(p[m + n], "from")
                    /\ P[m + n] = WeightBefore(d[n], c, Q, m, "from") + R[n]
    BY <1>6, <2>1, JoinChains
  <2>3. P[m + n] = w /\ m + n > 0
    BY <1>1, <1>6, <2>2
  <2>4. \A i \in 1 .. (m + n) : all[i] = p[i][1]
    <3> TAKE i \in 1 .. (m + n)
    <3>1. CASE i <= m
      <4>1. i \in 1 .. m
        BY <1>1, <3>1
      <4> QED
        BY <1>1, <1>3, <2>2, <4>1 DEF GoesBack
    <3>2. CASE i > m
      <4> DEFINE k == i - m - 1
      <4>1. k \in 0 .. (n - 1) /\ i = m + k + 1 /\ n - k \in 1 .. n
        BY <1>1, <3>2
      <4> HIDE DEF k
      <4>2. p[m + k + 1] = d[n - k] /\ all[m + k + 1] = fs[n - k] /\ fs[n - k] = d[n - k][1]
        BY <1>1, <1>2, <1>3, <2>2, <4>1 DEF GoesBack
      <4> QED
        BY <4>1, <4>2
    <3> QED
      BY <1>1, <3>1, <3>2
  <2>5. AreEdgesOf(all, p, m + n)
    BY <1>3, <2>4 DEF AreEdgesOf
  <2>6. W!IsWalk(query, all, P[m + n])
    BY <2>2, <2>3, <2>5, ChainIsWalk
  <2>7. Connects(P[m + n], "from")
    BY <2>2, <2>3 DEF Connects
  <2> QED
    BY <1>4, <2>3, <2>6, <2>7
<1> QED
  BY <1>1, <1>5, <1>6

\* An entry that has edges has a chain that ends where it is filed.
LEMMA EntryChain ==
    ASSUME query \in Queries, NEW s \in Sides, NEW x, IsEntry(x), HasChain(x, s), ~IsRoot(x)
    PROVE  \E c, Q : /\ IsChain(c, Q, Len(x.edges), s) /\ AreEdgesOf(x.edges, c, Len(x.edges))
                     /\ Len(x.edges) > 0 /\ Len(x.edges) \in Nat
                     /\ c[Len(x.edges)] \in Arcs
                     /\ c[Len(x.edges)][1] = Last(x.edges)
                     /\ Far(c[Len(x.edges)], s) = x.node
                     /\ Q[Len(x.edges)] = x.weight
<1>1. x.edges # << >>
  BY DEF IsRoot
<1>2. PICK c, Q : /\ IsChain(c, Q, Len(x.edges), s)
                  /\ \A i \in 1 .. Len(x.edges) : c[i][1] = x.edges[i]
                  /\ Far(c[Len(x.edges)], s) = x.node
                  /\ Q[Len(x.edges)] = x.weight
  BY <1>1 DEF HasChain
<1>3. /\ Len(x.edges) \in Nat /\ Len(x.edges) > 0 /\ Last(x.edges) = c[Len(x.edges)][1]
  BY <1>1, <1>2, LastOfChain
<1>4. AreEdgesOf(x.edges, c, Len(x.edges))
  BY <1>2 DEF AreEdgesOf
<1>5. c[Len(x.edges)] \in Arcs
  BY <1>2, <1>3, ChainFacts
<1> QED
  BY <1>2, <1>3, <1>4, <1>5

\* The root has the chain of no arcs.
LEMMA RootChain ==
    ASSUME NEW s, NEW x, IsRoot(x)
    PROVE  \E c, Q : /\ IsChain(c, Q, Len(x.edges), s) /\ AreEdgesOf(x.edges, c, Len(x.edges))
                     /\ Len(x.edges) = 0
<1>1. x.edges = << >> /\ Len(x.edges) = 0
  BY DEF IsRoot
<1>2. IsChain([i \in 1 .. 0 |-> i], [i \in 1 .. 0 |-> i], 0, s)
  BY DEF IsChain
<1>3. AreEdgesOf(x.edges, [i \in 1 .. 0 |-> i], 0)
  BY <1>1 DEF AreEdgesOf
<1> QED
  BY <1>1, <1>2, <1>3

-----------------------------------------------------------------------------
\* The searches from the start.

\* No entry that was popped ends the search.
Open(T, H) == \A x \in Entries(T, "from") \ H : ~Unidir!IsFinished(x)

\* What finished says of an entry.
LEMMA FinishedMeaning ==
    ASSUME query \in Queries, NEW x
    PROVE  /\ Unidir!IsFinished(x) <=>
                 /\ x.node = query.start["to"]
                 /\ query.only["to"] = AnyEdge \/ (~IsRoot(x) /\ Last(x.edges) = query.only["to"])
                 /\ query.only["from"] = AnyEdge \/ ~IsRoot(x)
           /\ Unidir!IsFinished(Root("from")) <=> Trivial
<1>1. Unidir!IsFinished(x) <=>
         /\ x.node = query.start["to"]
         /\ query.only["to"] = AnyEdge \/ (~IsRoot(x) /\ Last(x.edges) = query.only["to"])
         /\ query.only["from"] = AnyEdge \/ ~IsRoot(x)
  BY DEF Unidir!IsFinished, Unidir!IsRoot, IsRoot, Unidir!Last, Last
<1>2. Unidir!IsFinished(Root("from")) <=>
         /\ Root("from").node = query.start["to"]
         /\ query.only["to"] = AnyEdge \/ (~IsRoot(Root("from")) /\ Last(Root("from").edges) = query.only["to"])
         /\ query.only["from"] = AnyEdge \/ ~IsRoot(Root("from"))
  BY DEF Unidir!IsFinished, Unidir!IsRoot, IsRoot, Unidir!Last, Last
<1>3. IsRoot(Root("from")) /\ Root("from").node = query.start["from"]
  BY RootHasChain DEF Root, NewSPTEntry, Sides
<1>4. Trivial <=> /\ query.start["from"] = query.start["to"]
                  /\ query.only["from"] = AnyEdge /\ query.only["to"] = AnyEdge
  <2>1. query.only \in [Sides -> DOMAIN query.edges \cup {AnyEdge}]
    BY QueriesAssumption
  <2>2. query.only = [s \in Sides |-> AnyEdge] <=> query.only["from"] = AnyEdge /\ query.only["to"] = AnyEdge
    BY <2>1 DEF Sides
  <2> QED
    BY <2>2 DEF Trivial
<1> QED
  BY <1>1, <1>2, <1>3, <1>4

\* An entry filed under an arc that reaches the goal ends the search.
LEMMA GoalFinishes ==
    ASSUME query \in Queries, NEW b \in Arcs, ReachesOther(b, "from"),
           NEW y, IsFiledUnder(y, IdOf(b, "from"), "from"), query.edgeBased => ~IsRoot(y)
    PROVE  y.node = query.start["to"] /\ Unidir!IsFinished(y)
<1>1. /\ Far(b, "from") = query.start["to"] /\ query.only["to"] \in {AnyEdge, b[1]}
      /\ y.node = Far(b, "from")
      /\ query.edgeBased => Last(y.edges) = b[1]
  BY DEF ReachesOther, IsFiledUnder, IdOf, Far, Other
<1>2. ~query.edgeBased => query.only["to"] = AnyEdge /\ query.only["from"] = AnyEdge
  BY QueriesAssumption DEF Sides
<1> QED
  BY <1>1, <1>2, FinishedMeaning

\* What a chain to the goal has in the tree.
LEMMA GoalReached ==
    ASSUME query \in Queries, algorithm \in Algorithms,
           NEW T, NEW H, NEW c0, NEW t,
           Settled(T, H, c0, "from", FALSE, t), Searched(T, H, c0, "from", FALSE, t),
           Root("from") \notin H, Open(T, H),
           NEW c, NEW Q, NEW n, IsChain(c, Q, n, "from"), n > 0, ReachesOther(c[n], "from"),
           \A i \in 1 .. (n - 1) : GoesBefore(c, Q, i, H, "from")
    PROVE  \E y \in H : y.node = query.start["to"] /\ y.weight <= Q[n]
<1> DEFINE y == T[IdOf(c[n], "from")]
<1>1. "from" \in Sides /\ n \in 1 .. n /\ c[n] \in Arcs
  <2>1. "from" \in Sides
    BY DEF Sides
  <2> QED
    BY <2>1, ChainFacts
<1>2. Reached(T, IdOf(c[n], "from"), Q[n])
  BY <1>1, ChainReached
<1>3. /\ y \in Entries(T, "from") /\ y.weight <= Q[n]
      /\ IsFiledUnder(y, IdOf(c[n], "from"), "from")
      /\ query.edgeBased => ~IsRoot(y)
  BY <1>2 DEF Reached, Entries, Settled, Searched
<1> HIDE DEF y
<1>4. y.node = query.start["to"] /\ Unidir!IsFinished(y)
  BY <1>1, <1>3, GoalFinishes
<1>5. y \in H
  BY <1>3, <1>4 DEF Open
<1> QED
  BY <1>3, <1>4, <1>5

\* When the heap is empty, there is no way to the goal.
LEMMA NothingLeft ==
    ASSUME query \in Queries, algorithm \in Algorithms,
           NEW T, NEW c0, NEW t,
           Settled(T, {}, c0, "from", FALSE, t), Searched(T, {}, c0, "from", FALSE, t), Open(T, {})
    PROVE  W!Distance(query) = Inf
<1>1. ~Trivial
  <2>1. Root("from") \in Entries(T, "from") \ {}
    BY DEF Entries
  <2> QED
    BY <2>1, FinishedMeaning DEF Open
<1>2. \A v : ~Connects(v, "from")
  <2> SUFFICES ASSUME NEW v, Connects(v, "from") PROVE FALSE
    OBVIOUS
  <2>1. PICK c, Q, n : IsChain(c, Q, n, "from") /\ n > 0 /\ ReachesOther(c[n], "from") /\ Q[n] = v
    BY DEF Connects
  <2>2. \A i \in 1 .. (n - 1) : GoesBefore(c, Q, i, {}, "from")
    BY DEF GoesBefore
  <2>3. Root("from") \notin {}
    OBVIOUS
  <2>4. \E y \in {} : y.node = query.start["to"] /\ y.weight <= Q[n]
    BY <2>1, <2>2, <2>3, GoalReached
  <2> QED
    BY <2>4
<1> QED
  BY <1>1, <1>2, DistanceMeaning

\* The entry that ends the search has the least weight of a walk to the goal.
LEMMA FinishedIsShortest ==
    ASSUME query \in Queries, algorithm \in Algorithms,
           NEW T, NEW H, NEW c0, NEW t,
           Settled(T, H, c0, "from", FALSE, t), Searched(T, H, c0, "from", FALSE, t), Open(T, H),
           NEW entry \in H, \A x \in H : Weigh(entry, "from") <= Weigh(x, "from"),
           Unidir!IsFinished(entry)
    PROVE  entry.weight = W!Distance(query) /\ W!IsWalk(query, entry.edges, entry.weight)
<1>1. "from" \in Sides /\ Other("from") = "to"
  BY DEF Sides, Other
<1>2. /\ entry \in Entries(T, "from") /\ IsEntry(entry) /\ HasChain(entry, "from")
      /\ IsRoot(entry) => entry.node = query.start["from"] /\ entry.weight = 0
  <2>1. entry \in Entries(T, "from")
    BY DEF Searched
  <2> QED
    BY <1>1, <2>1, EntriesFacts
<1>3. /\ entry.node = query.start["to"]
      /\ query.only["to"] = AnyEdge \/ (~IsRoot(entry) /\ Last(entry.edges) = query.only["to"])
      /\ query.only["from"] = AnyEdge \/ ~IsRoot(entry)
  BY FinishedMeaning
<1>4. CASE IsRoot(entry)
  <2>1. entry.edges = << >> /\ entry.weight = 0 /\ query.start["from"] = query.start["to"]
    BY <1>2, <1>3, <1>4 DEF IsRoot
  <2>2. Trivial
    <3>1. query.only \in [Sides -> DOMAIN query.edges \cup {AnyEdge}]
      BY QueriesAssumption
    <3> QED
      BY <1>3, <1>4, <2>1, <3>1 DEF Trivial, Sides
  <2> QED
    BY <2>1, <2>2, DistanceMeaning, EmptyWalk
<1>5. CASE ~IsRoot(entry)
  <2>1. Root("from") \notin H
    <3> SUFFICES ASSUME Root("from") \in H PROVE FALSE
      OBVIOUS
    <3>1. entry = Root("from")
      BY DEF Searched
    <3> QED
      BY <1>1, <1>5, <3>1, RootHasChain DEF Root
  <2>2. ~Trivial
    BY <2>1, FinishedMeaning DEF Open, Entries
  <2> DEFINE n == Len(entry.edges)
  <2>3. PICK c, Q : /\ IsChain(c, Q, n, "from") /\ AreEdgesOf(entry.edges, c, n)
                    /\ n > 0 /\ c[n] \in Arcs /\ c[n][1] = Last(entry.edges)
                    /\ Far(c[n], "from") = entry.node /\ Q[n] = entry.weight
    BY <1>1, <1>2, <1>5, EntryChain
  <2> HIDE DEF n
  <2>4. ReachesOther(c[n], "from")
    BY <1>1, <1>3, <1>5, <2>3 DEF ReachesOther
  <2>5. W!IsWalk(query, entry.edges, entry.weight)
    BY <2>3, <2>4, ChainIsWalk
  <2>6. Connects(entry.weight, "from")
    BY <2>3, <2>4 DEF Connects
  <2>7. ASSUME NEW v, Connects(v, "from") PROVE entry.weight <= v
    <3>1. PICK d, R, m : IsChain(d, R, m, "from") /\ m > 0 /\ ReachesOther(d[m], "from") /\ R[m] = v
      BY <2>7 DEF Connects
    <3>2. m \in 1 .. m /\ R[m] \in Nat /\ Far(d[m], "from") = query.start["to"]
      BY <1>1, <3>1, ChainFacts DEF ReachesOther
    <3>3. entry.weight \in Nat /\ Estimate(query.start["to"], "from") \in Int
      BY <1>1, <1>2, <1>3, EstimateIsConsistent DEF IsEntry
    <3> SUFFICES ASSUME v < entry.weight PROVE FALSE
      BY <3>1, <3>2, <3>3
    <3>4. Key(R[m], Far(d[m], "from"), "from") < Weigh(entry, "from")
      BY <1>3, <3>1, <3>2, <3>3 DEF Key, Weigh
    <3>5. \A x \in H : Weigh(x, "from") \in Int
      BY <1>1, WeighIsInteger DEF Settled
    <3>6. \A i \in 1 .. (m - 1) : GoesBefore(d, R, i, H, "from")
      <4> TAKE i \in 1 .. (m - 1)
      <4>1. i \in 1 .. m /\ m \in i .. m
        BY <3>2
      <4>2. /\ Key(R[i], Far(d[i], "from"), "from") \in Int /\ Key(R[m], Far(d[m], "from"), "from") \in Int
            /\ Key(R[i], Far(d[i], "from"), "from") <= Key(R[m], Far(d[m], "from"), "from")
        BY <1>1, <3>1, <4>1, KeyGrows
      <4>3. ASSUME NEW x \in H PROVE Key(R[i], Far(d[i], "from"), "from") < Weigh(x, "from")
        <5>1. Weigh(entry, "from") <= Weigh(x, "from")
          OBVIOUS
        <5> QED
          BY <3>4, <3>5, <4>2, <5>1
      <4> QED
        BY <4>3 DEF GoesBefore
    <3>7. PICK y \in H : y.node = query.start["to"] /\ y.weight <= R[m]
      BY <2>1, <3>1, <3>6, GoalReached
    <3>8. y.weight \in Nat
      BY DEF Settled, IsEntry
    <3>9. ~(Weigh(entry, "from") <= Weigh(y, "from"))
      BY <1>3, <3>1, <3>2, <3>3, <3>7, <3>8 DEF Weigh
    <3> QED
      BY <3>9
  <2> QED
    BY <2>2, <2>5, <2>6, <2>7, DistanceMeaning
<1> QED
  BY <1>4, <1>5

\* Both kinds of search accept the same edges.
LEMMA AcceptsSame ==
    /\ \A e, x : Unidir!Accept(e, x) <=> Accepts(e, x, "from")
    /\ \A e, x, s : Bidir!accept(e, x, s) <=> Accepts(e, x, s)
  BY DEF Unidir!Accept, Bidir!accept, Accepts, Unidir!IsRoot, Bidir!IsRoot, IsRoot,
         Unidir!Last, Bidir!Last, Last

\* What is said of a side does not depend on the step that is taken.
LEMMA SearchedPrimed ==
    ASSUME query' = query, algorithm' = algorithm
    PROVE  /\ \A T, H, c, s, relaxing, todo :
                  Searched(T, H, c, s, relaxing, todo)' <=> Searched(T, H, c, s, relaxing, todo)
           /\ \A T, H : Open(T, H)' <=> Open(T, H)
           /\ \A T, s : Entries(T, s)' = Entries(T, s)
           /\ \A s : Root(s)' = Root(s)
           /\ W!Distance(query)' = W!Distance(query)
           /\ \A es, w : W!IsWalk(query, es, w)' <=> W!IsWalk(query, es, w)
           /\ Trivial' <=> Trivial
<1>1. /\ Arcs' = Arcs /\ \A b : Cost(b)' = Cost(b)
      /\ \A b, s : Base(b, s)' = Base(b, s) /\ Far(b, s)' = Far(b, s) /\ IdOf(b, s)' = IdOf(b, s)
  BY DEF Arcs, Cost, Base, Far, IdOf, AdjNode
<1>2. \A a, b, s : TurnCost(a, b, s)' = TurnCost(a, b, s)
  BY DEF TurnCost
<1>3. \A c, Q, n, s : IsChain(c, Q, n, s)' <=> IsChain(c, Q, n, s)
  BY <1>1, <1>2 DEF IsChain
<1>4. \A x, s : HasChain(x, s)' <=> HasChain(x, s)
  BY <1>1, <1>3 DEF HasChain
<1>5. /\ \A x, e, s : TurnFrom(x, e, s)' = TurnFrom(x, e, s)
      /\ \A e, x, s : Accepts(e, x, s)' <=> Accepts(e, x, s)
  BY DEF TurnFrom, TurnWeight, Accepts
<1>6. /\ \A s : Root(s)' = Root(s)
      /\ \A T, s : Entries(T, s)' = Entries(T, s)
  BY DEF Entries, Root
<1>7. \A x, b, s : LeadsOn(x, b, s)' <=> LeadsOn(x, b, s)
  BY <1>1, <1>5 DEF LeadsOn
<1>8. \A T, H, c, s, relaxing, todo :
         Searched(T, H, c, s, relaxing, todo)' <=> Searched(T, H, c, s, relaxing, todo)
  BY <1>1, <1>4, <1>5, <1>6, <1>7 DEF Searched, AdjNode
<1>9. \A T, H : Open(T, H)' <=> Open(T, H)
  BY <1>6 DEF Open, Unidir!IsFinished
<1>10. W!Distance(query)' = W!Distance(query)
  OBVIOUS
<1>11. \A es, w : W!IsWalk(query, es, w)' <=> W!IsWalk(query, es, w)
  OBVIOUS
<1>12. Trivial' <=> Trivial
  BY DEF Trivial
<1> QED
  BY <1>6, <1>8, <1>9, <1>10, <1>11, <1>12

\* What the searches from the start know, in the terms of UnidirInv.
IsAnswer(r) ==
    /\ r.weight = W!Distance(query)
    /\ r # Unidir!NoPath => W!IsWalk(query, r.edges, r.weight)

UnidirFound ==
    /\ pc \in {"pop", "relax"} => /\ Searched(tree, heap, curr, "from", pc = "relax", pending)
                                  /\ Open(tree, heap)
    /\ pc # "done" => result = Unidir!NoPath
    /\ pc = "done" => IsAnswer(result)

\* It holds when the search begins.
LEMMA UnidirFoundInit ==
    ASSUME algorithm \in Algorithms, ~algorithm.bidirectional, Unidir!Init
    PROVE  UnidirFound
<1>1. /\ query \in Queries /\ heap = {Root("from")} /\ pc = "pop" /\ result = Unidir!NoPath
      /\ tree = IF query.edgeBased THEN << >> ELSE [n \in {query.start["from"]} |-> Root("from")]
  BY UnidirOperators DEF Unidir!Init, Root
<1>2. "from" \in Sides /\ (pc = "relax") = FALSE
  BY <1>1 DEF Sides
<1>3. Searched(tree, heap, curr, "from", FALSE, pending)
  BY <1>1, <1>2, SearchedInit
<1>4. Open(tree, heap)
  BY <1>1 DEF Open, Entries
<1> QED
  BY <1>1, <1>2, <1>3, <1>4 DEF UnidirFound

\* The lightest entry is popped: it ends the search, or its edges come next.
LEMMA UnidirFoundPop ==
    ASSUME IndInv, UnidirFound, ~algorithm.bidirectional, Unidir!Pop, UNCHANGED algorithm
    PROVE  UnidirFound'
<1>1. /\ query \in Queries /\ algorithm \in Algorithms
      /\ query' = query /\ algorithm' = algorithm /\ tree' = tree
      /\ pc = "pop" /\ (pc = "relax") = FALSE /\ "from" \in Sides
  BY DEF IndInv, Unidir!Pop, Sides
<1>2. /\ Settled(tree, heap, curr, "from", FALSE, pending)
      /\ Searched(tree, heap, curr, "from", FALSE, pending)
      /\ Open(tree, heap) /\ result = Unidir!NoPath
  BY <1>1 DEF IndInv, UnidirInv, UnidirFound
<1>3. CASE heap = {} /\ pc' = "done" /\ UNCHANGED <<heap, curr, pending, result>>
  <2>1. W!Distance(query) = Inf
    BY <1>1, <1>2, <1>3, NothingLeft
  <2>2. IsAnswer(Unidir!NoPath)
    BY <2>1 DEF IsAnswer, Unidir!NoPath
  <2>3. IsAnswer(result)'
    BY <1>1, <1>2, <1>3, <2>2, SearchedPrimed DEF IsAnswer, Unidir!NoPath
  <2> QED
    BY <1>3, <2>3 DEF UnidirFound
<1>4. ASSUME NEW entry \in heap,
             /\ \A x \in heap : Unidir!HeapWeight(entry) <= Unidir!HeapWeight(x)
             /\ heap' = Unidir!Rest(entry)
             /\ curr' = entry
             /\ IF Unidir!IsFinished(entry)
                THEN pc' = "done" /\ pending' = {} /\ result' = Unidir!ExtractPath(entry)
                ELSE /\ UNCHANGED result
                     /\ \/ pc' = "exceeded" /\ pending' = {}
                        \/ /\ pending' = {e \in Unidir!Incident(entry.node) : Unidir!Accept(e, entry)}
                           /\ pc' = IF pending' = {} THEN "pop" ELSE "relax"
      PROVE  UnidirFound'
  <2>1. \A x \in heap : Weigh(entry, "from") <= Weigh(x, "from")
    BY <1>1, <1>2, <1>4, HeapOrder DEF Settled
  <2>2. CASE Unidir!IsFinished(entry)
    <3>1. entry.weight = W!Distance(query) /\ W!IsWalk(query, entry.edges, entry.weight)
      BY <1>1, <1>2, <2>1, <2>2, FinishedIsShortest
    <3>2. result' = Unidir!ExtractPath(entry) /\ pc' = "done"
      BY <1>4, <2>2
    <3>3. result'.weight = entry.weight /\ result'.edges = entry.edges
      BY <3>2 DEF Unidir!ExtractPath
    <3>4. IsAnswer(result)'
      BY <1>1, <3>1, <3>3, SearchedPrimed DEF IsAnswer
    <3> QED
      BY <3>2, <3>4 DEF UnidirFound
  <2>3. CASE ~Unidir!IsFinished(entry) /\ pc' = "exceeded"
    <3>1. result' = Unidir!NoPath
      BY <1>2, <1>4, <2>3
    <3> QED
      BY <2>3, <3>1 DEF UnidirFound, Unidir!NoPath
  <2>4. CASE /\ ~Unidir!IsFinished(entry)
             /\ pending' = {e \in Unidir!Incident(entry.node) : Unidir!Accept(e, entry)}
             /\ pc' = IF pending' = {} THEN "pop" ELSE "relax"
    <3>1. /\ pending' = {e \in Incident(entry.node) : Accepts(e, entry, "from")}
          /\ heap' = heap \ {entry} /\ result' = Unidir!NoPath
      BY <1>2, <1>4, <2>4, UnidirOperators, AcceptsSame DEF Unidir!Rest
    <3>2. \A todo : todo = {e \in Incident(entry.node) : Accepts(e, entry, "from")} =>
             Searched(tree, heap \ {entry}, entry, "from", TRUE, todo)
      <4> SUFFICES ASSUME NEW todo, todo = {e \in Incident(entry.node) : Accepts(e, entry, "from")}
                   PROVE  Searched(tree, heap \ {entry}, entry, "from", TRUE, todo)
        OBVIOUS
      <4> QED
        BY <1>1, <1>2, <1>4, SearchedPop
    <3>9. Searched(tree', heap', curr', "from", TRUE, pending')
      BY <1>1, <1>4, <3>1, <3>2
    <3>3. Searched(tree', heap', curr', "from", pc' = "relax", pending')
      <4>1. CASE pending' = {}
        <5>1. (pc' = "relax") = FALSE
          BY <2>4, <4>1
        <5> QED
          BY <3>9, <4>1, <5>1, SearchedWhenDone
      <4>2. CASE pending' # {}
        <5>1. (pc' = "relax") = TRUE
          BY <2>4, <4>2
        <5> QED
          BY <3>9, <5>1
      <4> QED
        BY <4>1, <4>2
    <3>4. Open(tree', heap')
      BY <1>1, <1>2, <2>4, <3>1 DEF Open
    <3>5. pc' \in {"pop", "relax"}
      BY <2>4
    <3>6. pc' # "done"
      BY <3>5
    <3>7. Searched(tree, heap, curr, "from", pc = "relax", pending)' /\ Open(tree, heap)'
      BY <1>1, <3>3, <3>4, SearchedPrimed
    <3>8. (result = Unidir!NoPath)'
      BY <3>1 DEF Unidir!NoPath
    <3> QED
      BY <3>6, <3>7, <3>8 DEF UnidirFound
  <2> QED
    BY <1>4, <2>2, <2>3, <2>4
<1> QED
  BY <1>3, <1>4 DEF Unidir!Pop

\* An edge is relaxed.
LEMMA UnidirFoundRelax ==
    ASSUME IndInv, UnidirFound, ~algorithm.bidirectional, Unidir!Relax, UNCHANGED algorithm
    PROVE  UnidirFound'
<1>1. /\ query \in Queries /\ algorithm \in Algorithms
      /\ query' = query /\ algorithm' = algorithm /\ curr' = curr /\ result' = result
      /\ pc = "relax" /\ (pc = "relax") = TRUE /\ "from" \in Sides
      /\ pc' = IF pending' = {} THEN "pop" ELSE "relax"
  BY DEF IndInv, Unidir!Relax, Sides
<1>2. /\ Settled(tree, heap, curr, "from", TRUE, pending)
      /\ Searched(tree, heap, curr, "from", TRUE, pending)
      /\ Open(tree, heap) /\ result = Unidir!NoPath
  BY <1>1 DEF IndInv, UnidirInv, UnidirFound
<1>3. PICK e \in pending :
        /\ LET entry == createEntry(e, curr, "from")
               id == TraversalID(e, curr.node, "from")
               replaced == {tree[i] : i \in DOMAIN tree \cap {id}}
           IN  IF Improves(entry, id, tree)
               THEN /\ tree' = Filed(tree, id, entry)
                    /\ heap' = (heap \ replaced) \cup {entry}
               ELSE UNCHANGED <<tree, heap>>
        /\ pending' = pending \ {e}
  BY UnidirOperators DEF Unidir!Relax
<1> DEFINE entry == createEntry(e, curr, "from")
           id == TraversalID(e, curr.node, "from")
<1>4. Searched(tree', heap', curr, "from", TRUE, pending') /\ Open(tree', heap')
  <2>1. CASE Improves(entry, id, tree)
    <3>1. /\ tree' = Filed(tree, id, entry)
          /\ heap' = Refiled(tree, heap, id, entry)
      BY <1>3, <2>1 DEF Refiled
    <3>2. \A new, i :
            new = entry /\ i = id =>
              /\ Searched(Filed(tree, i, new), Refiled(tree, heap, i, new), curr, "from", TRUE, pending \ {e})
              /\ SameVisited(tree, heap, Filed(tree, i, new), Refiled(tree, heap, i, new), "from")
      <4> SUFFICES ASSUME NEW new, NEW i, new = entry, i = id
                   PROVE  /\ Searched(Filed(tree, i, new), Refiled(tree, heap, i, new),
                                      curr, "from", TRUE, pending \ {e})
                          /\ SameVisited(tree, heap, Filed(tree, i, new), Refiled(tree, heap, i, new), "from")
        OBVIOUS
      <4>1. Improves(new, i, tree)
        BY <2>1
      <4>2. new = createEntry(e, curr, "from") /\ i = TraversalID(e, curr.node, "from")
        OBVIOUS
      <4>3. /\ Settled(tree, heap, curr, "from", TRUE, pending)
            /\ Searched(tree, heap, curr, "from", TRUE, pending)
        BY <1>2
      <4>4. query \in Queries /\ algorithm \in Algorithms /\ "from" \in Sides /\ e \in pending
        BY <1>1
      <4> HIDE DEF entry, id
      <4> QED
        BY <4>1, <4>2, <4>3, <4>4, SearchedFiled
    <3> HIDE DEF entry, id
    <3>9. /\ Searched(tree', heap', curr, "from", TRUE, pending \ {e})
          /\ SameVisited(tree, heap, tree', heap', "from")
      BY <3>1, <3>2
    <3>3. Open(tree', heap')
      BY <1>2, <3>9 DEF Open, SameVisited
    <3> QED
      BY <1>3, <3>9, <3>3
  <2>2. CASE ~Improves(entry, id, tree)
    <3>1. tree' = tree /\ heap' = heap
      BY <1>3, <2>2
    <3>2. Searched(tree, heap, curr, "from", TRUE, pending \ {e})
      BY <1>1, <1>2, <2>2, SearchedSkip
    <3> QED
      BY <1>2, <1>3, <3>1, <3>2
  <2> QED
    BY <2>1, <2>2
<1>5. Searched(tree', heap', curr', "from", pc' = "relax", pending')
  <2>1. CASE pending' = {}
    <3>1. (pc' = "relax") = FALSE
      BY <1>1, <2>1
    <3> QED
      BY <1>1, <1>4, <2>1, <3>1, SearchedWhenDone
  <2>2. CASE pending' # {}
    <3>1. (pc' = "relax") = TRUE
      BY <1>1, <2>2
    <3> QED
      BY <1>1, <1>4, <3>1
  <2> QED
    BY <2>1, <2>2
<1>6. pc' # "done"
  BY <1>1
<1>7. Searched(tree, heap, curr, "from", pc = "relax", pending)' /\ Open(tree, heap)'
  BY <1>1, <1>4, <1>5, SearchedPrimed
<1>8. (result = Unidir!NoPath)'
  BY <1>1, <1>2 DEF Unidir!NoPath
<1> QED
  BY <1>6, <1>7, <1>8 DEF UnidirFound

-----------------------------------------------------------------------------
\* The best path of a search from both ends.

\* The chain of an entry, which is empty for a root.
LEMMA ChainOfEntry ==
    ASSUME query \in Queries, NEW s \in Sides, NEW x, IsEntry(x), HasChain(x, s)
    PROVE  \E c, Q, n :
              /\ IsChain(c, Q, n, s) /\ AreEdgesOf(x.edges, c, n) /\ n \in Nat
              /\ IsRoot(x) => n = 0 /\ x.node = query.start[s] /\ x.weight = 0
              /\ ~IsRoot(x) => /\ n > 0 /\ c[n] \in Arcs /\ c[n][1] = Last(x.edges)
                               /\ Far(c[n], s) = x.node /\ Q[n] = x.weight
<1>1. CASE IsRoot(x)
  <2>1. x.node = query.start[s] /\ x.weight = 0
    BY <1>1 DEF IsRoot, HasChain
  <2>2. PICK c, Q : IsChain(c, Q, Len(x.edges), s) /\ AreEdgesOf(x.edges, c, Len(x.edges)) /\ Len(x.edges) = 0
    BY <1>1, RootChain
  <2>3. IsChain(c, Q, 0, s) /\ AreEdgesOf(x.edges, c, 0) /\ 0 \in Nat
    BY <2>2
  <2> QED
    BY <1>1, <2>1, <2>3
<1>2. CASE ~IsRoot(x)
  BY <1>2, EntryChain
<1> QED
  BY <1>1, <1>2

\* An arc is known by its edge and where it leads.
LEMMA ArcOfEnd ==
    ASSUME query \in Queries, NEW s \in Sides, NEW a \in Arcs, NEW b \in Arcs,
           a[1] = b[1], Far(a, s) = Far(b, s)
    PROVE  a = b
<1>1. /\ a = <<a[1], a[2]>> /\ b = <<b[1], b[2]>>
      /\ a[1] \in DOMAIN query.edges /\ a[2] \in Ends(a[1]) /\ b[2] \in Ends(a[1])
  BY ArcIsEdge
<1>2. a[2] = b[2]
  BY <1>1, AdjacentFacts DEF Far
<1> QED
  BY <1>1, <1>2

\* An entry filed under an arc ends where the arc leads.
LEMMA FiledAtEnd ==
    ASSUME query \in Queries, query.edgeBased, NEW s \in Sides, NEW y, NEW a, IsFiledUnder(y, a, s)
    PROVE  y.node = Far(a, s) /\ Last(y.edges) = a[1]
  BY DEF IsFiledUnder, Far

\* The turn after an entry that ends with arc a.
LEMMA TurnAfter ==
    ASSUME query \in Queries, NEW s \in Sides, NEW x, ~IsRoot(x), NEW a \in Arcs, NEW b \in Arcs,
           Last(x.edges) = a[1], x.node = Far(a, s), Base(b, s) = x.node
    PROVE  TurnFrom(x, b[1], s) = TurnCost(a, b, s)
  BY TurnFacts DEF TurnFrom

\* Both entries are at one node.
LEMMA MeetAtOneNode ==
    ASSUME query \in Queries, ~query.edgeBased,
           NEW x, IsEntry(x), HasChain(x, "from"), NEW y, IsEntry(y), HasChain(y, "to"), x.node = y.node
    PROVE  /\ W!IsWalk(query, Glued(x.edges, y.edges), x.weight + y.weight)
           /\ Trivial \/ Connects(x.weight + y.weight, "from")
<1>1. "from" \in Sides /\ "to" \in Sides /\ Other("from") = "to" /\ Other("to") = "from"
  BY DEF Sides, Other
<1>2. /\ query.only = [s \in Sides |-> AnyEdge]
      /\ query.only["from"] = AnyEdge /\ query.only["to"] = AnyEdge
  <2>1. query.only = [s \in Sides |-> AnyEdge]
    BY QueriesAssumption
  <2> QED
    BY <1>1, <2>1
<1>3. PICK c, Q, m :
         /\ IsChain(c, Q, m, "from") /\ AreEdgesOf(x.edges, c, m) /\ m \in Nat
         /\ IsRoot(x) => m = 0 /\ x.node = query.start["from"] /\ x.weight = 0
         /\ ~IsRoot(x) => /\ m > 0 /\ c[m] \in Arcs /\ c[m][1] = Last(x.edges)
                          /\ Far(c[m], "from") = x.node /\ Q[m] = x.weight
  BY <1>1, ChainOfEntry
<1>4. PICK d, R, n :
         /\ IsChain(d, R, n, "to") /\ AreEdgesOf(y.edges, d, n) /\ n \in Nat
         /\ IsRoot(y) => n = 0 /\ y.node = query.start["to"] /\ y.weight = 0
         /\ ~IsRoot(y) => /\ n > 0 /\ d[n] \in Arcs /\ d[n][1] = Last(y.edges)
                          /\ Far(d[n], "to") = y.node /\ R[n] = y.weight
  BY <1>1, ChainOfEntry
<1>5. /\ x.edges \in Seq(DOMAIN query.edges) /\ y.edges \in Seq(DOMAIN query.edges)
      /\ x.weight \in Nat /\ y.weight \in Nat
  BY DEF IsEntry
<1>6. CASE IsRoot(x) /\ IsRoot(y)
  <2>1. query.start["from"] = query.start["to"] /\ x.weight + y.weight = 0
    BY <1>3, <1>4, <1>6
  <2>2. Glued(x.edges, y.edges) = << >>
    <3>1. Reverse(<< >>) = << >>
      BY DEF Reverse
    <3>2. << >> \o << >> = << >>
      OBVIOUS
    <3> QED
      BY <1>6, <3>1, <3>2 DEF IsRoot, Glued
  <2>3. W!IsWalk(query, << >>, 0)
    BY <2>1, EmptyWalk
  <2> QED
    BY <1>2, <2>1, <2>2, <2>3 DEF Trivial
<1>7. CASE ~IsRoot(x) /\ IsRoot(y)
  <2>1. n = 0 /\ m > 0 /\ ReachesOther(c[m], "from") /\ x.weight + y.weight = Q[m]
    BY <1>1, <1>2, <1>3, <1>4, <1>5, <1>7 DEF ReachesOther
  <2>2. x.weight + y.weight = IF n = 0 THEN Q[m] ELSE WeightBefore(d[n], c, Q, m, "from") + R[n]
    BY <2>1
  <2> QED
    BY <1>3, <1>4, <1>5, <2>1, <2>2, MeetIsWalk
<1>8. CASE ~IsRoot(y)
  <2>1. n > 0 /\ d[n] \in Arcs /\ Base(d[n], "from") = x.node /\ R[n] = y.weight
    BY <1>1, <1>4, <1>8, OtherSide
  <2>2. MayFollow(d[n], c, m, "from") /\ WeightBefore(d[n], c, Q, m, "from") = x.weight
    <3>1. CASE IsRoot(x)
      BY <1>2, <1>3, <2>1, <3>1 DEF MayFollow, WeightBefore
    <3>2. CASE ~IsRoot(x)
      <4>1. m # 0 /\ c[m] \in Arcs /\ Far(c[m], "from") = x.node /\ Q[m] = x.weight
        BY <1>3, <3>2
      <4>2. TurnCost(c[m], d[n], "from") = 0
        BY <1>1, <2>1, <4>1, TurnFacts
      <4> QED
        BY <1>5, <2>1, <4>1, <4>2 DEF MayFollow, WeightBefore
    <3> QED
      BY <3>1, <3>2
  <2>3. x.weight + y.weight = IF n = 0 THEN Q[m] ELSE WeightBefore(d[n], c, Q, m, "from") + R[n]
    BY <2>1, <2>2
  <2>4. n > 0 => MayFollow(d[n], c, m, "from")
    BY <2>2
  <2>5. n = 0 => m > 0 /\ ReachesOther(c[m], "from")
    BY <2>1
  <2> QED
    BY <1>3, <1>4, <1>5, <2>3, <2>4, <2>5, MeetIsWalk
<1> QED
  BY <1>6, <1>7, <1>8

\* Both sides have been along one arc, which the entry of the other side ends with.
LEMMA MeetAlongArc ==
    ASSUME query \in Queries, query.edgeBased, NEW a \in Arcs
    PROVE  /\ \A x, y : /\ IsEntry(x) /\ HasChain(x, "from") /\ LeadsOn(x, a, "from")
                        /\ IsEntry(y) /\ HasChain(y, "to") /\ ~IsRoot(y) /\ IsFiledUnder(y, a, "to")
                 => LET w == x.weight + TurnFrom(x, a[1], "from") + y.weight
                    IN  W!IsWalk(query, Glued(x.edges, y.edges), w) /\ Connects(w, "from")
           /\ \A x, y : /\ IsEntry(x) /\ HasChain(x, "to") /\ LeadsOn(x, a, "to")
                        /\ IsEntry(y) /\ HasChain(y, "from") /\ ~IsRoot(y) /\ IsFiledUnder(y, a, "from")
                 => LET w == x.weight + TurnFrom(x, a[1], "to") + y.weight
                    IN  W!IsWalk(query, Glued(y.edges, x.edges), w) /\ Connects(w, "from")
<1>1. "from" \in Sides /\ "to" \in Sides /\ Other("from") = "to" /\ Other("to") = "from"
  BY DEF Sides, Other
<1>2. ASSUME NEW x, IsEntry(x), HasChain(x, "from"), LeadsOn(x, a, "from"),
             NEW y, IsEntry(y), HasChain(y, "to"), ~IsRoot(y), IsFiledUnder(y, a, "to"),
             NEW w, w = x.weight + TurnFrom(x, a[1], "from") + y.weight
      PROVE  W!IsWalk(query, Glued(x.edges, y.edges), w) /\ Connects(w, "from")
  <2>1. PICK c, Q, m :
           /\ IsChain(c, Q, m, "from") /\ AreEdgesOf(x.edges, c, m) /\ m \in Nat
           /\ IsRoot(x) => m = 0 /\ x.node = query.start["from"] /\ x.weight = 0
           /\ ~IsRoot(x) => /\ m > 0 /\ c[m] \in Arcs /\ c[m][1] = Last(x.edges)
                            /\ Far(c[m], "from") = x.node /\ Q[m] = x.weight
    BY <1>1, <1>2, ChainOfEntry
  <2>2. PICK d, R, n :
           /\ IsChain(d, R, n, "to") /\ AreEdgesOf(y.edges, d, n) /\ n \in Nat
           /\ n > 0 /\ d[n] \in Arcs /\ d[n][1] = Last(y.edges)
           /\ Far(d[n], "to") = y.node /\ R[n] = y.weight
    BY <1>1, <1>2, ChainOfEntry
  <2>3. d[n] = a
    BY <1>1, <1>2, <2>2, FiledAtEnd, ArcOfEnd
  <2>4. x.weight \in Nat /\ y.weight \in Nat /\ TurnFrom(x, a[1], "from") \in Nat
    BY <1>1, <1>2, EntryAlong DEF LeadsOn, IsEntry
  <2>5. MayFollow(a, c, m, "from") /\ WeightBefore(a, c, Q, m, "from") = x.weight + TurnFrom(x, a[1], "from")
    <3>1. CASE IsRoot(x)
      <4>1. TurnFrom(x, a[1], "from") = 0
        BY <3>1 DEF TurnFrom
      <4> QED
        BY <1>2, <2>1, <2>4, <3>1, <4>1 DEF MayFollow, WeightBefore, LeadsOn, Accepts
    <3>2. CASE ~IsRoot(x)
      <4>1. m # 0 /\ c[m] \in Arcs /\ Far(c[m], "from") = x.node /\ Q[m] = x.weight
            /\ c[m][1] = Last(x.edges) /\ Base(a, "from") = x.node
        BY <1>2, <2>1, <3>2 DEF LeadsOn
      <4>2. TurnFrom(x, a[1], "from") = TurnCost(c[m], a, "from")
        BY <1>1, <3>2, <4>1, TurnAfter
      <4> QED
        BY <2>4, <4>1, <4>2 DEF MayFollow, WeightBefore
    <3> QED
      BY <3>1, <3>2
  <2>6. w = IF n = 0 THEN Q[m] ELSE WeightBefore(d[n], c, Q, m, "from") + R[n]
    BY <1>2, <2>2, <2>3, <2>5
  <2>7. /\ n > 0 => MayFollow(d[n], c, m, "from")
        /\ n = 0 => m > 0 /\ ReachesOther(c[m], "from")
    BY <2>2, <2>3, <2>5
  <2>8. x.edges \in Seq(DOMAIN query.edges) /\ y.edges \in Seq(DOMAIN query.edges)
    BY <1>2 DEF IsEntry
  <2> QED
    BY <2>1, <2>2, <2>6, <2>7, <2>8, MeetIsWalk
<1>3. ASSUME NEW x, IsEntry(x), HasChain(x, "to"), LeadsOn(x, a, "to"),
             NEW y, IsEntry(y), HasChain(y, "from"), ~IsRoot(y), IsFiledUnder(y, a, "from"),
             NEW w, w = x.weight + TurnFrom(x, a[1], "to") + y.weight
      PROVE  W!IsWalk(query, Glued(y.edges, x.edges), w) /\ Connects(w, "from")
  <2>1. PICK c, Q, m :
           /\ IsChain(c, Q, m, "from") /\ AreEdgesOf(y.edges, c, m) /\ m \in Nat
           /\ m > 0 /\ c[m] \in Arcs /\ c[m][1] = Last(y.edges)
           /\ Far(c[m], "from") = y.node /\ Q[m] = y.weight
    BY <1>1, <1>3, ChainOfEntry
  <2>2. PICK d, R, n :
           /\ IsChain(d, R, n, "to") /\ AreEdgesOf(x.edges, d, n) /\ n \in Nat
           /\ IsRoot(x) => n = 0 /\ x.node = query.start["to"] /\ x.weight = 0
           /\ ~IsRoot(x) => /\ n > 0 /\ d[n] \in Arcs /\ d[n][1] = Last(x.edges)
                            /\ Far(d[n], "to") = x.node /\ R[n] = x.weight
    BY <1>1, <1>3, ChainOfEntry
  <2>3. c[m] = a
    BY <1>1, <1>3, <2>1, FiledAtEnd, ArcOfEnd
  <2>4. /\ x.weight \in Nat /\ y.weight \in Nat /\ TurnFrom(x, a[1], "to") \in Nat
        /\ Base(a, "to") = x.node /\ Far(a, "from") = x.node
    BY <1>1, <1>3, EntryAlong, OtherSide DEF LeadsOn, IsEntry
  <2>5. x.edges \in Seq(DOMAIN query.edges) /\ y.edges \in Seq(DOMAIN query.edges)
    BY <1>3 DEF IsEntry
  <2>6. CASE IsRoot(x)
    <3>1. TurnFrom(x, a[1], "to") = 0 /\ n = 0 /\ x.weight = 0
      BY <2>2, <2>6 DEF TurnFrom
    <3>2. ReachesOther(c[m], "from")
      BY <1>1, <1>3, <2>2, <2>3, <2>4, <2>6 DEF ReachesOther, LeadsOn, Accepts
    <3>3. w = IF n = 0 THEN Q[m] ELSE WeightBefore(d[n], c, Q, m, "from") + R[n]
      BY <1>3, <2>1, <2>4, <3>1
    <3>4. n > 0 => MayFollow(d[n], c, m, "from")
      BY <3>1
    <3> QED
      BY <2>1, <2>2, <2>5, <3>2, <3>3, <3>4, MeetIsWalk
  <2>7. CASE ~IsRoot(x)
    <3>1. /\ n > 0 /\ n # 0 /\ m # 0 /\ d[n] \in Arcs /\ d[n][1] = Last(x.edges)
          /\ Far(d[n], "to") = x.node /\ Base(d[n], "from") = x.node /\ R[n] = x.weight
      BY <1>1, <2>1, <2>2, <2>7, OtherSide
    <3>2. TurnFrom(x, a[1], "to") = TurnCost(d[n], a, "to") /\ TurnCost(d[n], a, "to") = TurnCost(a, d[n], "from")
      BY <1>1, <2>4, <2>7, <3>1, TurnAfter, OtherSide
    <3>3. MayFollow(d[n], c, m, "from") /\ WeightBefore(d[n], c, Q, m, "from") = y.weight + TurnFrom(x, a[1], "to")
      BY <2>1, <2>3, <2>4, <3>1, <3>2 DEF MayFollow, WeightBefore
    <3>4. w = IF n = 0 THEN Q[m] ELSE WeightBefore(d[n], c, Q, m, "from") + R[n]
      BY <1>3, <2>4, <3>1, <3>3
    <3> QED
      BY <2>1, <2>2, <2>5, <3>1, <3>3, <3>4, MeetIsWalk
  <2> QED
    BY <2>6, <2>7
<1> QED
  BY <1>2, <1>3

\* The best entries, found along arc a: the one of side s was popped and goes
\* on along a, the other one ends with a.
MetAlong(b, T, H, s, a) ==
    LET x == b.entry[s]
        y == b.entry[Other(s)]
    IN  /\ x \in Entries(T[s], s) \ H[s] /\ IsEntry(x) /\ HasChain(x, s) /\ LeadsOn(x, a, s)
        /\ IsEntry(y) /\ HasChain(y, Other(s)) /\ ~IsRoot(y) /\ IsFiledUnder(y, a, Other(s))
        /\ b.weight = x.weight + TurnFrom(x, a[1], s) + y.weight
        /\ Reached(T[s], a, x.weight + TurnFrom(x, a[1], s) + Cost(a))
        /\ Reached(T[Other(s)], a, y.weight)

\* The best entries, found at node n.
MetAtNode(b, T, n) ==
    /\ \A s \in Sides : /\ IsEntry(b.entry[s]) /\ HasChain(b.entry[s], s) /\ b.entry[s].node = n
                        /\ Reached(T[s], n, b.entry[s].weight)
    /\ b.weight = b.entry["from"].weight + b.entry["to"].weight

Met(b, T, H) ==
    IF query.edgeBased THEN \E s \in Sides, a \in Arcs : MetAlong(b, T, H, s, a)
    ELSE \E n : MetAtNode(b, T, n)

\* The weight of the path over id: edge-based both entries contain the edge.
Together(x, y, id) ==
    IF query.edgeBased THEN x.weight + y.weight - Cost(id) ELSE x.weight + y.weight

\* No path over what both trees have is lighter than the best path.
IsLightest(b, T) ==
    \A id \in DOMAIN T["from"] \cap DOMAIN T["to"] :
        b.weight # Inf /\ b.weight <= Together(T["from"][id], T["to"][id], id)

\* What the best entries and the best weight say.
BestFits(b, T, H) ==
    /\ b = [weight |-> b.weight, entry |-> [s \in Sides |-> b.entry[s]]]
    /\ b.weight = Inf => b.entry = [s \in Sides |-> NoEntry]
    /\ b.weight # Inf => b.weight \in Nat /\ Met(b, T, H)
    /\ Trivial => b.weight = 0
    /\ IsLightest(b, T)

\* The best entries are those of a path.
LEMMA BestIsPath ==
    ASSUME query \in Queries, NEW b, NEW T, NEW H, b.weight # Inf, Met(b, T, H)
    PROVE  /\ \A s \in Sides : IsEntry(b.entry[s])
           /\ b.entry["from"].node = b.entry["to"].node
           /\ W!IsWalk(query, Glued(b.entry["from"].edges, b.entry["to"].edges), b.weight)
           /\ Trivial \/ Connects(b.weight, "from")
<1>1. Sides = {"from", "to"} /\ Other("from") = "to" /\ Other("to") = "from"
  BY DEF Sides, Other
<1>2. CASE ~query.edgeBased
  <2>1. PICK n : MetAtNode(b, T, n)
    BY <1>2 DEF Met
  <2>2. /\ IsEntry(b.entry["from"]) /\ HasChain(b.entry["from"], "from") /\ b.entry["from"].node = n
        /\ IsEntry(b.entry["to"]) /\ HasChain(b.entry["to"], "to") /\ b.entry["to"].node = n
        /\ b.weight = b.entry["from"].weight + b.entry["to"].weight
    BY <1>1, <2>1 DEF MetAtNode
  <2> QED
    BY <1>1, <1>2, <2>2, MeetAtOneNode
<1>3. CASE query.edgeBased
  <2>1. PICK s \in Sides, a \in Arcs : MetAlong(b, T, H, s, a)
    BY <1>3 DEF Met
  <2> DEFINE x == b.entry[s]  y == b.entry[Other(s)]
  <2>2. /\ IsEntry(x) /\ HasChain(x, s) /\ LeadsOn(x, a, s)
        /\ IsEntry(y) /\ HasChain(y, Other(s)) /\ ~IsRoot(y) /\ IsFiledUnder(y, a, Other(s))
        /\ b.weight = x.weight + TurnFrom(x, a[1], s) + y.weight
    BY <2>1 DEF MetAlong
  <2>3. x.node = y.node
    <3>1. y.node = Far(a, Other(s)) /\ Far(a, Other(s)) = Base(a, s)
      BY <1>3, <2>2, OtherSide, FiledAtEnd
    <3> QED
      BY <2>2, <3>1 DEF LeadsOn
  <2>4. CASE s = "from"
    <3>1. x = b.entry["from"] /\ y = b.entry["to"]
      BY <1>1, <2>4
    <3> HIDE DEF x, y
    <3>2. W!IsWalk(query, Glued(x.edges, y.edges), b.weight) /\ Connects(b.weight, "from")
      BY <1>1, <1>3, <2>2, <2>4, MeetAlongArc
    <3> QED
      BY <1>1, <2>2, <2>3, <3>1, <3>2
  <2>5. CASE s = "to"
    <3>1. x = b.entry["to"] /\ y = b.entry["from"]
      BY <1>1, <2>5
    <3> HIDE DEF x, y
    <3>2. W!IsWalk(query, Glued(y.edges, x.edges), b.weight) /\ Connects(b.weight, "from")
      BY <1>1, <1>3, <2>2, <2>5, MeetAlongArc
    <3> QED
      BY <1>1, <2>2, <2>3, <3>1, <3>2
  <2> QED
    BY <1>1, <2>4, <2>5
<1> QED
  BY <1>2, <1>3

-----------------------------------------------------------------------------
\* When the sides have met, no path is lighter.

\* The first arc of a chain that the heap does not come before.
LEMMA FirstNotBefore ==
    ASSUME NEW c, NEW Q, NEW n \in Nat, n > 0, NEW H, NEW s
    PROVE  \E j \in 1 .. n : /\ \A i \in 1 .. (j - 1) : GoesBefore(c, Q, i, H, s)
                             /\ j = n \/ ~GoesBefore(c, Q, j, H, s)
<1> DEFINE All(j) == \A i \in 1 .. (j - 1) : GoesBefore(c, Q, i, H, s)
           S == {k \in 0 .. (n - 1) : All(k + 1)}
<1> SUFFICES ASSUME \A j \in 1 .. n : All(j) => j # n /\ GoesBefore(c, Q, j, H, s) PROVE FALSE
  OBVIOUS
<1>1. 0 \in S
  OBVIOUS
<1>2. \A k \in 0 .. ((n - 1) - 1) : k \in S => k + 1 \in S
  <2> SUFFICES ASSUME NEW k \in 0 .. ((n - 1) - 1), All(k + 1) PROVE k + 1 \in 0 .. (n - 1) /\ All((k + 1) + 1)
    OBVIOUS
  <2>1. k + 1 \in 1 .. n /\ k + 1 \in 0 .. (n - 1)
    OBVIOUS
  <2>2. GoesBefore(c, Q, k + 1, H, s)
    BY <2>1
  <2>3. ASSUME NEW i \in 1 .. (((k + 1) + 1) - 1) PROVE GoesBefore(c, Q, i, H, s)
    <3>1. i = k + 1 \/ i \in 1 .. ((k + 1) - 1)
      OBVIOUS
    <3> QED
      BY <2>2, <3>1
  <2> QED
    BY <2>1, <2>3
<1>3. n - 1 \in Nat /\ n - 1 \in 0 .. (n - 1) /\ (n - 1) + 1 = n /\ n \in 1 .. n
  OBVIOUS
<1> HIDE DEF S
<1>4. 0 .. (n - 1) \subseteq S
  BY <1>1, <1>2, <1>3, BoundedInduction
<1>5. All(n)
  BY <1>3, <1>4 DEF S
<1> QED
  BY <1>3, <1>5

\* A chain to the goal, seen from the goal.
LEMMA ChainReversed ==
    ASSUME query \in Queries, NEW c, NEW Q, NEW n, IsChain(c, Q, n, "from"), n > 0,
           ReachesOther(c[n], "from")
    PROVE  \E p, P : /\ IsChain(p, P, n, "to")
                     /\ \A i \in 1 .. n : /\ p[i] = c[n + 1 - i]
                                          /\ P[i] + Q[n + 1 - i] = Q[n] + Cost(c[n + 1 - i])
<1>1. "to" \in Sides /\ "from" \in Sides /\ Other("to") = "from" /\ Other("from") = "to"
  BY DEF Sides, Other
<1>2. n \in Nat /\ c[n] \in Arcs /\ Q[n] \in Nat
  <2>1. n \in Nat /\ n \in 1 .. n
    BY <1>1, ChainFacts
  <2> QED
    BY <1>1, <2>1, ChainFacts
<1>3. IsChain(<< >>, << >>, 0, "to")
  BY DEF IsChain
<1>4. MayFollow(c[n], << >>, 0, "to") /\ WeightBefore(c[n], << >>, << >>, 0, "to") = 0
  BY <1>1, OtherSide DEF MayFollow, WeightBefore, ReachesOther
<1>5. PICK p, P : /\ IsChain(p, P, 0 + n, "to")
                  /\ GoesBack(p, P, << >>, << >>, 0, c, Q, n, n - 1,
                              WeightBefore(c[n], << >>, << >>, 0, "to") + Q[n])
  BY <1>1, <1>3, <1>4, JoinChains
<1>6. IsChain(p, P, n, "to") /\ GoesBack(p, P, << >>, << >>, 0, c, Q, n, n - 1, Q[n])
  <2>1. 0 + n = n /\ WeightBefore(c[n], << >>, << >>, 0, "to") + Q[n] = Q[n]
    BY <1>2, <1>4
  <2> QED
    BY <1>5, <2>1
<1>7. ASSUME NEW i \in 1 .. n
      PROVE  p[i] = c[n + 1 - i] /\ P[i] + Q[n + 1 - i] = Q[n] + Cost(c[n + 1 - i])
  <2>1. i - 1 \in 0 .. (n - 1) /\ 0 + (i - 1) + 1 = i /\ n - (i - 1) = n + 1 - i
    BY <1>2
  <2>2. p[0 + (i - 1) + 1] = c[n - (i - 1)]
        /\ P[0 + (i - 1) + 1] + Q[n - (i - 1)] = Q[n] + Cost(c[n - (i - 1)])
    BY <1>6, <2>1 DEF GoesBack
  <2> QED
    BY <2>1, <2>2
<1> QED
  BY <1>6, <1>7

\* The estimates of both sides at a node make twice the offset (astarFinished).
LEMMA EstimatesTogether ==
    ASSUME query \in Queries, algorithm \in Algorithms, algorithm.bidirectional,
           NEW v \in DOMAIN query.pos
    PROVE  /\ Estimate(v, "from") \in Int /\ Estimate(v, "to") \in Int
           /\ Estimate(v, "from") + Estimate(v, "to") = Bidir!Approximate(query.start["to"], "to")
<1> DEFINE from == query.start["from"]
           to == query.start["to"]
<1>1. from \in DOMAIN query.pos /\ to \in DOMAIN query.pos /\ query.astar \in BOOLEAN
  BY QueryFacts
<1>2. /\ \A x, y \in DOMAIN query.pos : Beeline(query, x, y) \in Nat /\ Beeline(query, x, y) = Beeline(query, y, x)
      /\ Beeline(query, to, to) = 0
  BY <1>1, QueryFacts, BeelineFacts DEF Beeline
<1>3. \A x, y : Bidir!Beeline(query, x, y) = Beeline(query, x, y)
  BY DEF Beeline, Bidir!Beeline
<1>4. /\ \A x : Estimate(x, "from") =
                 IF ~query.astar THEN 0
                 ELSE Beeline(query, from, to) + (Beeline(query, x, to) - Beeline(query, x, from))
      /\ \A x : Estimate(x, "to") =
                 IF ~query.astar THEN 0
                 ELSE Beeline(query, from, to) - (Beeline(query, x, to) - Beeline(query, x, from))
  BY <1>3 DEF Estimate, Bidir!Approximate
<1>5. Bidir!Approximate(to, "to") = Estimate(to, "to")
  BY DEF Estimate
<1> HIDE DEF from, to
<1>6. Estimate(v, "from") + Estimate(v, "to") = Estimate(to, "to")
  BY <1>1, <1>2, <1>4
<1>7. Estimate(v, "from") \in Int /\ Estimate(v, "to") \in Int
  BY <1>1, <1>2, <1>4
<1> QED
  BY <1>5, <1>6, <1>7 DEF to

\* Both sides have popped their roots, and one has nothing left or the lightest
\* entries of both do not promise a better path (finished, astarFinished).
BothDone(b, H, c) ==
    \/ H["from"] = {} \/ H["to"] = {}
    \/ /\ b.weight \in Nat
       /\ Weigh(c["from"], "from") + Weigh(c["to"], "to")
             >= 2 * b.weight + Bidir!Approximate(query.start["to"], "to")

IsTopped(H, c, s) == IsEntry(c[s]) /\ \A x \in H[s] : Weigh(c[s], s) <= Weigh(x, s)

\* The heap has an entry that goes before the j-th arc of a chain, so what was
\* popped last did.
LEMMA ToppedBefore ==
    ASSUME query \in Queries, algorithm \in Algorithms, NEW s \in Sides,
           NEW H, NEW c, IsTopped(H, c, s), \A x \in H[s] : IsEntry(x),
           NEW d, NEW Q, NEW n, IsChain(d, Q, n, s), NEW j \in 1 .. n, ~GoesBefore(d, Q, j, H[s], s),
           NEW k \in j .. n
    PROVE  /\ H[s] # {} /\ Weigh(c[s], s) \in Int /\ Key(Q[k], Far(d[k], s), s) \in Int
           /\ Weigh(c[s], s) <= Key(Q[k], Far(d[k], s), s)
<1>1. PICK x \in H[s] : ~(Key(Q[j], Far(d[j], s), s) < Weigh(x, s))
  BY DEF GoesBefore
<1>2. /\ Key(Q[j], Far(d[j], s), s) \in Int /\ Key(Q[k], Far(d[k], s), s) \in Int
      /\ Key(Q[j], Far(d[j], s), s) <= Key(Q[k], Far(d[k], s), s)
  BY KeyGrows
<1>3. Weigh(x, s) \in Int /\ Weigh(c[s], s) \in Int /\ Weigh(c[s], s) <= Weigh(x, s)
  BY WeighIsInteger DEF IsTopped
<1> QED
  BY <1>1, <1>2, <1>3

\* A search from both ends that is over has a best path no heavier than any chain
\* from the start to the goal.
LEMMA NoLighterChain ==
    ASSUME query \in Queries, algorithm \in Algorithms, algorithm.bidirectional,
           NEW b, NEW T, NEW H, NEW c0, NEW t,
           \A s \in Sides : /\ Settled(T[s], H[s], c0[s], s, FALSE, t)
                            /\ Searched(T[s], H[s], c0[s], s, FALSE, t)
                            /\ Root(s) \notin H[s] /\ IsTopped(H, c0, s),
           IsLightest(b, T), b.weight # Inf => b.weight \in Nat, BothDone(b, H, c0),
           NEW c, NEW Q, NEW n, IsChain(c, Q, n, "from"), n > 0, ReachesOther(c[n], "from")
    PROVE  b.weight # Inf /\ b.weight <= Q[n]
<1>1. Sides = {"from", "to"} /\ Other("from") = "to" /\ Other("to") = "from"
  BY DEF Sides, Other
<1>2. /\ n \in Nat
      /\ \A i \in 1 .. n : c[i] \in Arcs /\ Q[i] \in Nat /\ Cost(c[i]) \in Nat
      /\ \A i \in 1 .. (n - 1) :
            /\ Base(c[i + 1], "from") = Far(c[i], "from")
            /\ TurnCost(c[i], c[i + 1], "from") \in Nat
            /\ Q[i + 1] = Q[i] + TurnCost(c[i], c[i + 1], "from") + Cost(c[i + 1])
  BY <1>1, ChainFacts
<1>3. PICK p, P : /\ IsChain(p, P, n, "to")
                  /\ \A i \in 1 .. n : /\ p[i] = c[n + 1 - i]
                                       /\ P[i] + Q[n + 1 - i] = Q[n] + Cost(c[n + 1 - i])
  BY ChainReversed
<1>4. \A i \in 1 .. n : P[i] \in Nat /\ p[i] \in Arcs
  BY <1>1, <1>3, ChainFacts
<1>5. PICK j \in 1 .. n : /\ \A i \in 1 .. (j - 1) : GoesBefore(c, Q, i, H["from"], "from")
                          /\ j = n \/ ~GoesBefore(c, Q, j, H["from"], "from")
  BY <1>2, FirstNotBefore
<1>6. PICK l \in 1 .. n : /\ \A i \in 1 .. (l - 1) : GoesBefore(p, P, i, H["to"], "to")
                          /\ l = n \/ ~GoesBefore(p, P, l, H["to"], "to")
  BY <1>2, FirstNotBefore
<1>7. /\ \A id \in DOMAIN T["from"] : T["from"][id].weight \in Nat
      /\ \A id \in DOMAIN T["to"] : T["to"][id].weight \in Nat
  BY <1>1 DEF Settled, IsEntry
<1>8. ASSUME j >= n + 1 - l PROVE b.weight # Inf /\ b.weight <= Q[n]
  <2>1. Reached(T["from"], IdOf(c[j], "from"), Q[j])
    BY <1>1, <1>5, ChainReached
  <2>2. ASSUME NEW k \in 1 .. l PROVE Reached(T["to"], IdOf(p[k], "to"), P[k])
    <3>1. k \in 1 .. n /\ \A i \in 1 .. (k - 1) : GoesBefore(p, P, i, H["to"], "to")
      BY <1>2, <1>6
    <3> QED
      BY <1>1, <1>3, <3>1, ChainReached
  <2>3. CASE query.edgeBased
    <3> DEFINE k == n + 1 - j
    <3>1. k \in 1 .. l /\ k \in 1 .. n /\ n + 1 - k = j
      BY <1>2, <1>8
    <3> HIDE DEF k
    <3>2. p[k] = c[j] /\ P[k] + Q[j] = Q[n] + Cost(c[j])
      BY <1>3, <3>1
    <3>3. Reached(T["to"], c[j], P[k]) /\ Reached(T["from"], c[j], Q[j])
      BY <2>1, <2>2, <2>3, <3>1, <3>2 DEF IdOf
    <3>4. /\ T["from"][c[j]].weight <= Q[j] /\ T["to"][c[j]].weight <= P[k]
          /\ T["from"][c[j]].weight \in Nat /\ T["to"][c[j]].weight \in Nat
      BY <1>7, <3>3 DEF Reached
    <3>5. b.weight # Inf /\ b.weight <= T["from"][c[j]].weight + T["to"][c[j]].weight - Cost(c[j])
      BY <2>3, <3>3 DEF IsLightest, Together, Reached
    <3> QED
      BY <1>2, <1>4, <3>1, <3>2, <3>4, <3>5
  <2>4. CASE ~query.edgeBased
    <3> DEFINE v == Far(c[j], "from")
    <3>1. ASSUME NEW w \in Nat, Reached(T["to"], v, w), w + Q[j] = Q[n]
          PROVE  b.weight # Inf /\ b.weight <= Q[n]
      <4>1. Reached(T["from"], v, Q[j])
        BY <2>1, <2>4 DEF IdOf
      <4> HIDE DEF v
      <4>2. /\ T["from"][v].weight <= Q[j] /\ T["to"][v].weight <= w
            /\ T["from"][v].weight \in Nat /\ T["to"][v].weight \in Nat
        BY <1>7, <3>1, <4>1 DEF Reached
      <4>3. b.weight # Inf /\ b.weight <= T["from"][v].weight + T["to"][v].weight
        BY <2>4, <3>1, <4>1 DEF IsLightest, Together, Reached
      <4> QED
        BY <1>2, <3>1, <4>2, <4>3
    <3>2. CASE j = n
      <4>1. Reached(T["to"], v, 0)
        BY <1>1, <2>4, <3>2 DEF Searched, ReachesOther
      <4> QED
        BY <1>2, <3>1, <3>2, <4>1
    <3>3. CASE j # n
      <4> DEFINE k == n - j
      <4>1. k \in 1 .. l /\ k \in 1 .. n /\ n + 1 - k = j + 1 /\ j \in 1 .. (n - 1) /\ j + 1 \in 1 .. n
        BY <1>2, <1>8, <3>3
      <4> HIDE DEF k
      <4>2. p[k] = c[j + 1] /\ P[k] + Q[j + 1] = Q[n] + Cost(c[j + 1])
        BY <1>3, <4>1
      <4>3. TurnCost(c[j], c[j + 1], "from") = 0 /\ IdOf(p[k], "to") = v
        BY <1>1, <1>2, <2>4, <4>1, <4>2, TurnFacts, OtherSide DEF IdOf
      <4>4. P[k] + Q[j] = Q[n] /\ P[k] \in Nat
        <5>1. /\ Q[j + 1] = Q[j] + TurnCost(c[j], c[j + 1], "from") + Cost(c[j + 1])
              /\ Q[j] \in Nat /\ Cost(c[j + 1]) \in Nat /\ P[k] \in Nat /\ n \in 1 .. n
          <6>1. /\ Q[j + 1] = Q[j] + TurnCost(c[j], c[j + 1], "from") + Cost(c[j + 1])
                /\ Q[j] \in Nat /\ Cost(c[j + 1]) \in Nat
            BY <1>2, <4>1
          <6> QED
            BY <1>2, <1>4, <4>1, <6>1
        <5>2. Q[n] \in Nat
          BY <1>2, <5>1
        <5> QED
          BY <4>2, <4>3, <5>1, <5>2
      <4>5. Reached(T["to"], v, P[k])
        BY <2>2, <4>1, <4>3
      <4> QED
        BY <3>1, <4>4, <4>5
    <3> QED
      BY <3>2, <3>3
  <2> QED
    BY <2>3, <2>4
<1>9. ASSUME j < n + 1 - l PROVE b.weight # Inf /\ b.weight <= Q[n]
  <2> DEFINE i == n - l
             v == Far(c[i], "from")
  <2>1. /\ i \in j .. n /\ i \in 1 .. (n - 1) /\ i \in 1 .. n /\ i + 1 \in 1 .. n /\ i + 1 = n + 1 - l
        /\ j # n /\ l # n /\ l \in l .. n
    BY <1>2, <1>9
  <2> HIDE DEF i
  <2>2. \A s \in Sides : \A x \in H[s] : IsEntry(x)
    BY DEF Settled
  <2>3. /\ H["from"] # {} /\ Weigh(c0["from"], "from") \in Int /\ Key(Q[i], v, "from") \in Int
        /\ Weigh(c0["from"], "from") <= Key(Q[i], v, "from")
    BY <1>1, <1>5, <2>1, <2>2, ToppedBefore
  <2>4. Far(p[l], "to") = v
    <3>1. p[l] = c[i + 1] /\ Base(c[i + 1], "from") = v
      BY <1>2, <1>3, <2>1
    <3> QED
      BY <1>1, <3>1, OtherSide
  <2>5. /\ H["to"] # {} /\ Weigh(c0["to"], "to") \in Int /\ Key(P[l], v, "to") \in Int
        /\ Weigh(c0["to"], "to") <= Key(P[l], v, "to")
    <3>1. /\ H["to"] # {} /\ Weigh(c0["to"], "to") \in Int /\ Key(P[l], Far(p[l], "to"), "to") \in Int
          /\ Weigh(c0["to"], "to") <= Key(P[l], Far(p[l], "to"), "to")
      BY <1>1, <1>3, <1>6, <2>1, <2>2, ToppedBefore
    <3> QED
      BY <2>4, <3>1
  <2>6. P[l] + Q[i] <= Q[n] /\ P[l] \in Nat /\ Q[i] \in Nat /\ Q[n] \in Nat
    <3>1. P[l] + Q[i + 1] = Q[n] + Cost(c[i + 1])
      BY <1>3, <2>1
    <3>2. /\ Q[i + 1] = Q[i] + TurnCost(c[i], c[i + 1], "from") + Cost(c[i + 1])
          /\ TurnCost(c[i], c[i + 1], "from") \in Nat /\ Q[i] \in Nat /\ Cost(c[i + 1]) \in Nat
          /\ P[l] \in Nat /\ n \in 1 .. n
      BY <1>2, <1>4, <2>1
    <3>3. Q[n] \in Nat
      BY <1>2, <3>2
    <3> QED
      BY <3>1, <3>2, <3>3
  <2>7. v \in DOMAIN query.pos
    BY <1>1, <1>2, <2>1, ArcFacts
  <2> HIDE DEF v
  <2>8. /\ Estimate(v, "from") \in Int /\ Estimate(v, "to") \in Int
        /\ Estimate(v, "from") + Estimate(v, "to") = Bidir!Approximate(query.start["to"], "to")
    BY <2>7, EstimatesTogether
  <2>9. /\ b.weight \in Nat
        /\ Weigh(c0["from"], "from") + Weigh(c0["to"], "to")
              >= 2 * b.weight + Bidir!Approximate(query.start["to"], "to")
    BY <2>3, <2>5 DEF BothDone
  <2>10. b.weight <= Q[n]
    BY <2>3, <2>5, <2>6, <2>8, <2>9 DEF Key
  <2> QED
    BY <2>9, <2>10, QueryFacts
<1>10. j >= n + 1 - l \/ j < n + 1 - l
  BY <1>2
<1> QED
  BY <1>8, <1>9, <1>10

\* So it has the distance.
LEMMA BestIsDistance ==
    ASSUME query \in Queries, algorithm \in Algorithms, algorithm.bidirectional,
           NEW b, NEW T, NEW H, NEW c0, NEW t,
           \A s \in Sides : /\ Settled(T[s], H[s], c0[s], s, FALSE, t)
                            /\ Searched(T[s], H[s], c0[s], s, FALSE, t)
                            /\ Root(s) \notin H[s] /\ IsTopped(H, c0, s),
           BestFits(b, T, H), BothDone(b, H, c0)
    PROVE  b.weight = W!Distance(query)
<1>1. CASE Trivial
  BY <1>1, DistanceMeaning DEF BestFits
<1>2. CASE ~Trivial
  <2>1. ASSUME NEW v, Connects(v, "from") PROVE b.weight # Inf /\ b.weight <= v
    <3>1. PICK c, Q, n : IsChain(c, Q, n, "from") /\ n > 0 /\ ReachesOther(c[n], "from") /\ Q[n] = v
      BY <2>1 DEF Connects
    <3>2. IsLightest(b, T) /\ (b.weight # Inf => b.weight \in Nat)
      BY DEF BestFits
    <3> QED
      BY <3>1, <3>2, NoLighterChain
  <2>2. CASE b.weight = Inf
    BY <1>2, <2>1, <2>2, DistanceMeaning
  <2>3. CASE b.weight # Inf
    <3>1. Connects(b.weight, "from")
      BY <1>2, <2>3, BestIsPath DEF BestFits
    <3> QED
      BY <1>2, <2>1, <3>1, DistanceMeaning
  <2> QED
    BY <2>2, <2>3
<1> QED
  BY <1>1, <1>2

-----------------------------------------------------------------------------
\* The best path when an entry is filed.

\* The weight of a path over id does not depend on the side it is seen from.
LEMMA TogetherEither ==
    ASSUME NEW x, NEW y, NEW id, x.weight \in Int, y.weight \in Int,
           query.edgeBased => Cost(id) \in Int
    PROVE  Together(x, y, id) = Together(y, x, id)
<1>1. CASE query.edgeBased
  BY <1>1 DEF Together
<1>2. CASE ~query.edgeBased
  BY <1>2 DEF Together
<1> QED
  BY <1>1, <1>2

\* The arc of an entry that is filed.
LEMMA FiledAlong ==
    ASSUME query \in Queries, NEW s \in Sides, NEW c, IsEntry(c),
           NEW e \in Incident(c.node), NEW new, new = createEntry(e, c, s), new.weight # Inf,
           NEW id, id = TraversalID(e, c.node, s), Accepts(e, c, s)
    PROVE  /\ IsEntry(new) /\ IsFiledUnder(new, id, s)
           /\ ~IsRoot(new) /\ Last(new.edges) = e
           /\ query.edgeBased => /\ id \in Arcs /\ id[1] = e /\ LeadsOn(c, id, s) /\ Cost(id) \in Nat
                                 /\ EdgeWeight(e, c.node, s) = Cost(id)
                                 /\ TurnFrom(c, e, s) \in Nat
                                 /\ new.weight = c.weight + TurnFrom(c, e, s) + Cost(id)
<1>1. IsEntry(new) /\ IsFiledUnder(new, id, s)
  BY NewEntryFacts
<1>2. ~IsRoot(new) /\ Last(new.edges) = e
  <2>1. new.edges = Append(c.edges, e) /\ c.edges \in Seq(DOMAIN query.edges) /\ e \in DOMAIN query.edges
    BY DEF createEntry, IsEntry, Incident
  <2>2. Append(c.edges, e) # << >> /\ Last(Append(c.edges, e)) = e
    BY <2>1, AppendFacts
  <2> QED
    BY <2>1, <2>2 DEF IsRoot
<1>3. PICK arc \in Arcs : arc[1] = e /\ Base(arc, s) = c.node /\ TurnFrom(c, e, s) # Inf
  BY EntryHasArc
<1>4. TraversalID(e, c.node, s) = IdOf(arc, s) /\ Cost(arc) \in Nat /\ EdgeWeight(e, c.node, s) = Cost(arc)
  BY <1>3, ArcFacts
<1>5. TurnFrom(c, e, s) \in Nat /\ new.weight = c.weight + TurnFrom(c, e, s) + Cost(arc)
  BY <1>3, EntryAlong
<1>6. query.edgeBased => id = arc
  BY <1>4 DEF IdOf
<1> QED
  BY <1>1, <1>2, <1>3, <1>4, <1>5, <1>6 DEF LeadsOn

\* One side while an edge is relaxed, and the other one.
Relaxing(T, H, c, s, todo) ==
    /\ Settled(T[s], H[s], c[s], s, TRUE, todo) /\ Searched(T[s], H[s], c[s], s, TRUE, todo)
    /\ Settled(T[Other(s)], H[Other(s)], c[Other(s)], Other(s), FALSE, todo)
    /\ Searched(T[Other(s)], H[Other(s)], c[Other(s)], Other(s), FALSE, todo)

\* An entry that is lighter than one of the best entries makes a better path.
LEMMA BestIsReplaced ==
    ASSUME query \in Queries, algorithm \in Algorithms, NEW s \in Sides,
           NEW T, NEW H, NEW c, NEW todo, Relaxing(T, H, c, s, todo),
           NEW b, BestFits(b, T, H),
           NEW e \in todo, NEW new, NEW id,
           new = createEntry(e, c[s], s), id = TraversalID(e, c[s].node, s), Improves(new, id, T[s]),
           id \in DOMAIN T[s], b.entry[s] = T[s][id]
    PROVE  id \in DOMAIN T[Other(s)] /\ b.weight # Inf /\ Together(new, T[Other(s)][id], id) < b.weight
<1> DEFINE o == Other(s)
           old == T[s][id]
           z == T[o][id]
<1>1. /\ o \in Sides /\ o # s /\ \A r \in Sides : r = s \/ r = o
      /\ Other(o) = s
  BY DEF Sides, Other
<1>2. /\ IsEntry(c[s]) /\ e \in Incident(c[s].node) /\ Accepts(e, c[s], s)
      /\ new.weight # Inf /\ old.weight > new.weight
      /\ IsEntry(old) /\ IsFiledUnder(old, id, s)
  BY DEF Relaxing, Settled, Searched, Improves
<1>3. /\ IsEntry(new)
      /\ query.edgeBased => id \in Arcs /\ Cost(id) \in Nat
  BY <1>2, FiledAlong
<1>4. old \in H[s]
  BY RelaxKeeps DEF Relaxing
<1>5. \A i \in DOMAIN T[o] : T[o][i].weight \in Nat
  BY DEF Relaxing, Settled, IsEntry
<1>6. new.weight \in Nat /\ old.weight \in Nat
  BY <1>2, <1>3 DEF IsEntry
<1>7. b.weight # Inf
  <2> SUFFICES ASSUME b.weight = Inf PROVE FALSE
    OBVIOUS
  <2>1. old = NoEntry
    BY DEF BestFits
  <2>2. old \in [node : DOMAIN query.pos, weight : Nat, edges : Seq(DOMAIN query.edges)]
    BY <1>2 DEF IsEntry
  <2> QED
    BY <2>1, <2>2, QueriesAssumption
<1>8. CASE query.edgeBased
  <2>1. PICK r \in Sides, a \in Arcs : MetAlong(b, T, H, r, a)
    BY <1>7, <1>8 DEF BestFits, Met
  <2>2. r # s
    <3> SUFFICES ASSUME r = s PROVE FALSE
      OBVIOUS
    <3>1. b.entry[s] \notin H[s]
      BY <2>1 DEF MetAlong
    <3> QED
      BY <1>4, <3>1
  <2>3. r = o
    BY <1>1, <2>2
  <2> DEFINE x == b.entry[o]  turn == TurnFrom(x, a[1], o)
  <2>4. /\ IsEntry(x) /\ LeadsOn(x, a, o) /\ IsFiledUnder(old, a, s)
        /\ b.weight = x.weight + turn + old.weight
        /\ Reached(T[o], a, x.weight + turn + Cost(a))
    BY <1>1, <2>1, <2>3 DEF MetAlong
  <2>5. a = id
    BY <1>2, <2>4, IdIsUnique
  <2>6. turn \in Nat /\ x.weight \in Nat
    BY <1>1, <2>4, EntryAlong DEF LeadsOn, IsEntry
  <2> HIDE DEF x, turn, old
  <2>7. id \in DOMAIN T[o] /\ z.weight <= x.weight + turn + Cost(id)
    BY <2>4, <2>5 DEF Reached
  <2>8. z.weight \in Nat
    BY <1>5, <2>7
  <2> HIDE DEF z
  <2>9. new.weight + z.weight - Cost(id) < b.weight
    BY <1>2, <1>3, <1>6, <1>8, <2>4, <2>6, <2>7, <2>8
  <2> QED
    BY <1>7, <1>8, <2>7, <2>9 DEF Together, z
<1>9. CASE ~query.edgeBased
  <2>1. PICK n : MetAtNode(b, T, n)
    BY <1>7, <1>9 DEF BestFits, Met
  <2> DEFINE x == b.entry[o]
  <2>2. /\ old.node = n /\ IsEntry(x) /\ Reached(T[o], n, x.weight)
        /\ b.weight = b.entry["from"].weight + b.entry["to"].weight
    BY <1>1, <2>1 DEF MetAtNode
  <2>3. n = id
    BY <1>2, <1>9, <2>2 DEF IsFiledUnder
  <2>4. x.weight \in Nat
    BY <2>2 DEF IsEntry
  <2>5. b.weight = x.weight + old.weight
    <3>1. CASE s = "from"
      <4>1. o = "to" /\ b.entry["from"] = old
        BY <3>1 DEF Other
      <4>2. b.entry["to"] = x
        BY <4>1
      <4> HIDE DEF o, x, old
      <4> QED
        BY <1>6, <2>2, <2>4, <4>1, <4>2
    <3>2. CASE s = "to"
      <4>1. o = "from" /\ b.entry["to"] = old
        BY <3>2 DEF Other
      <4>2. b.entry["from"] = x
        BY <4>1
      <4> HIDE DEF o, x, old
      <4> QED
        BY <1>6, <2>2, <2>4, <4>1, <4>2
    <3> QED
      BY <3>1, <3>2 DEF Sides
  <2> HIDE DEF x, old
  <2>6. id \in DOMAIN T[o] /\ z.weight <= x.weight
    BY <2>2, <2>3 DEF Reached
  <2>7. z.weight \in Nat
    BY <1>5, <2>6
  <2> HIDE DEF z
  <2>8. new.weight + z.weight < b.weight
    BY <1>2, <1>6, <2>4, <2>5, <2>6, <2>7
  <2> QED
    BY <1>7, <1>9, <2>6, <2>8 DEF Together, z
<1> QED
  BY <1>8, <1>9

\* The trees and heaps once an entry is filed on side s.
FiledOn(T, H, s, id, new, T2, H2) ==
    /\ T2[s] = Filed(T[s], id, new) /\ H2[s] = Refiled(T[s], H[s], id, new)
    /\ T2[Other(s)] = T[Other(s)] /\ H2[Other(s)] = H[Other(s)]

\* The tree has the new entry under id, and else what it had.
OnlyAt(id, new, T, T2) ==
    /\ id \in DOMAIN T2 /\ T2[id] = new
    /\ \A i : i # id => (i \in DOMAIN T2 <=> i \in DOMAIN T)
    /\ \A i \in DOMAIN T : i # id => T2[i] = T[i]

\* What was reached stays so.
Grows(T, T2) == \A i, w : w \in Int /\ Reached(T, i, w) => Reached(T2, i, w)

\* What filing does to one side.
LEMMA FiledOnSide ==
    ASSUME query \in Queries, algorithm \in Algorithms, NEW s \in Sides,
           NEW T, NEW H, NEW c, NEW todo, Relaxing(T, H, c, s, todo),
           NEW e \in todo, NEW new, NEW id,
           new = createEntry(e, c[s], s), id = TraversalID(e, c[s].node, s), Improves(new, id, T[s]),
           NEW T2, NEW H2, FiledOn(T, H, s, id, new, T2, H2)
    PROVE  /\ Searched(T2[s], H2[s], c[s], s, TRUE, todo \ {e})
           /\ \A r \in Sides : Grows(T[r], T2[r]) /\ SameVisited(T[r], H[r], T2[r], H2[r], r)
           /\ OnlyAt(id, new, T[s], T2[s])
<1>1. /\ T2[s] = Filed(T[s], id, new) /\ H2[s] = Refiled(T[s], H[s], id, new)
      /\ T2[Other(s)] = T[Other(s)] /\ H2[Other(s)] = H[Other(s)]
      /\ \A r \in Sides : r = s \/ r = Other(s)
  BY DEF FiledOn, Sides, Other
<1>2. /\ Searched(Filed(T[s], id, new), Refiled(T[s], H[s], id, new), c[s], s, TRUE, todo \ {e})
      /\ Grows(T[s], Filed(T[s], id, new))
      /\ SameVisited(T[s], H[s], Filed(T[s], id, new), Refiled(T[s], H[s], id, new), s)
  BY SearchedFiled DEF Relaxing, Grows
<1>3. OnlyAt(id, new, T[s], T2[s])
  BY <1>1 DEF Filed, OnlyAt
<1>4. /\ SameVisited(T[s], H[s], T2[s], H2[s], s) /\ Grows(T[s], T2[s])
      /\ Searched(T2[s], H2[s], c[s], s, TRUE, todo \ {e})
  BY <1>1, <1>2
<1>5. /\ SameVisited(T[Other(s)], H[Other(s)], T2[Other(s)], H2[Other(s)], Other(s))
      /\ Grows(T[Other(s)], T2[Other(s)])
  BY <1>1 DEF SameVisited, Grows
<1> QED
  BY <1>1, <1>3, <1>4, <1>5

\* Edge-based, the id of an entry is the arc it ends with.
LEMMA FiledIdIsArc ==
    ASSUME query \in Queries, query.edgeBased, NEW s \in Sides, NEW x, NEW id,
           IsEntry(x), IsFiledUnder(x, id, s), HasChain(x, s), ~IsRoot(x)
    PROVE  id \in Arcs /\ Cost(id) \in Nat
<1>1. PICK a \in Arcs : a[1] = Last(x.edges) /\ Far(a, s) = x.node
  <2>1. PICK c, Q, n : /\ ~IsRoot(x) => /\ n > 0 /\ c[n] \in Arcs /\ c[n][1] = Last(x.edges)
                                        /\ Far(c[n], s) = x.node /\ Q[n] = x.weight
    BY ChainOfEntry
  <2> QED
    BY <2>1
<1>2. /\ id = <<id[1], id[2]>> /\ id[1] = a[1] /\ id[2] \in Ends(a[1]) /\ Far(id, s) = Far(a, s)
  BY <1>1, FiledAtEnd DEF IsFiledUnder
<1>3. a = <<a[1], a[2]>> /\ a[1] \in DOMAIN query.edges /\ a[2] \in Ends(a[1])
  BY ArcIsEdge
<1>4. id[2] = a[2]
  BY <1>2, <1>3, AdjacentFacts DEF Far
<1>5. id = a
  BY <1>2, <1>3, <1>4
<1> QED
  BY <1>5, ArcFacts

\* A best path stays the lightest one when it is no heavier than before and no
\* heavier than the path over the new entry.
LEMMA LightestFiled ==
    ASSUME query \in Queries, algorithm \in Algorithms, NEW s \in Sides,
           NEW T, NEW H, NEW c, NEW todo, Relaxing(T, H, c, s, todo),
           NEW b, IsLightest(b, T), b.weight # Inf => b.weight \in Nat,
           NEW new, NEW id, NEW T2, T2[Other(s)] = T[Other(s)],
           new.weight \in Nat, query.edgeBased => Cost(id) \in Nat,
           OnlyAt(id, new, T[s], T2[s]),
           NEW b2, b2.weight # Inf => b2.weight \in Nat,
           b.weight # Inf => b2.weight # Inf /\ b2.weight <= b.weight,
           id \in DOMAIN T[Other(s)] => b2.weight # Inf /\ b2.weight <= Together(new, T[Other(s)][id], id)
    PROVE  IsLightest(b2, T2)
<1> SUFFICES ASSUME NEW k, k \in DOMAIN T2["from"], k \in DOMAIN T2["to"]
             PROVE  b2.weight # Inf /\ b2.weight <= Together(T2["from"][k], T2["to"][k], k)
  BY DEF IsLightest
<1>1. "from" \in Sides /\ "to" \in Sides /\ \A r \in Sides : r = s \/ r = Other(s)
  BY DEF Sides, Other
<1>2. \A r \in Sides : k \in DOMAIN T2[r]
  BY DEF Sides
<1>3. ASSUME NEW r \in Sides, NEW i \in DOMAIN T[r]
      PROVE  /\ T[r][i].weight \in Nat
             /\ query.edgeBased => Cost(i) \in Nat
  <2>1. /\ IsEntry(T[r][i]) /\ IsFiledUnder(T[r][i], i, r) /\ HasChain(T[r][i], r)
        /\ query.edgeBased => ~IsRoot(T[r][i])
    BY <1>1 DEF Relaxing, Settled, Searched
  <2> QED
    BY <2>1, FiledIdIsArc DEF IsEntry
<1>4. CASE k # id
  <2>1. \A r \in Sides : k \in DOMAIN T[r] /\ T2[r][k] = T[r][k]
    BY <1>1, <1>2, <1>4 DEF OnlyAt
  <2>2. b.weight # Inf /\ b.weight <= Together(T["from"][k], T["to"][k], k)
    BY <1>1, <2>1 DEF IsLightest
  <2>3. Together(T["from"][k], T["to"][k], k) \in Int
    BY <1>1, <1>3, <2>1 DEF Together
  <2>4. Together(T2["from"][k], T2["to"][k], k) = Together(T["from"][k], T["to"][k], k)
    BY <1>1, <2>1
  <2> HIDE DEF Together
  <2> QED
    BY <2>2, <2>3, <2>4
<1>5. CASE k = id
  <2>1. k \in DOMAIN T[Other(s)] /\ T2[Other(s)][k] = T[Other(s)][k] /\ T2[s][k] = new
    BY <1>2, <1>5, OtherSide DEF OnlyAt
  <2>2. b2.weight # Inf /\ b2.weight <= Together(T2[s][k], T2[Other(s)][k], k)
    BY <1>5, <2>1
  <2>3. T2[s][k].weight \in Int /\ T2[Other(s)][k].weight \in Int /\ (query.edgeBased => Cost(k) \in Int)
    BY <1>3, <1>5, <2>1, OtherSide
  <2>4. Together(T2[s][k], T2[Other(s)][k], k) = Together(T2[Other(s)][k], T2[s][k], k)
    <3> DEFINE u == T2[s][k]  v == T2[Other(s)][k]
    <3>1. u.weight \in Int /\ v.weight \in Int /\ (query.edgeBased => Cost(k) \in Int)
      BY <2>3
    <3> HIDE DEF u, v
    <3>2. Together(u, v, k) = Together(v, u, k)
      BY <3>1, TogetherEither
    <3> QED
      BY <3>2 DEF u, v
  <2>5. \/ s = "from" /\ Other(s) = "to"
        \/ s = "to" /\ Other(s) = "from"
    BY DEF Sides, Other
  <2>6. CASE s = "from"
    <3>1. Other(s) = "to"
      BY <2>5, <2>6
    <3> QED
      BY <2>2, <2>6, <3>1
  <2>7. CASE s = "to"
    <3>1. Other(s) = "from"
      BY <2>5, <2>7
    <3> QED
      BY <2>2, <2>4, <2>7, <3>1
  <2> QED
    BY <2>5, <2>6, <2>7
<1> QED
  BY <1>4, <1>5

\* Two entries that met stay so.
LEMMA MetStays ==
    ASSUME query \in Queries, algorithm \in Algorithms,
           NEW T, NEW H, NEW T2, NEW H2,
           \A r \in Sides : Grows(T[r], T2[r]) /\ SameVisited(T[r], H[r], T2[r], H2[r], r),
           NEW b, Met(b, T, H)
    PROVE  Met(b, T2, H2)
<1>1. CASE query.edgeBased
  <2>1. PICK r \in Sides, a \in Arcs : MetAlong(b, T, H, r, a)
    BY <1>1 DEF Met
  <2> DEFINE x == b.entry[r]
             y == b.entry[Other(r)]
             w == x.weight + TurnFrom(x, a[1], r) + Cost(a)
  <2>2. Other(r) \in Sides
    BY OtherSide
  <2>3. /\ x \in Entries(T[r], r) \ H[r] /\ IsEntry(x) /\ LeadsOn(x, a, r) /\ IsEntry(y)
        /\ Reached(T[r], a, w) /\ Reached(T[Other(r)], a, y.weight)
    BY <2>1 DEF MetAlong
  <2>4. w \in Int /\ y.weight \in Int
    <3>1. TurnFrom(x, a[1], r) \in Nat /\ Cost(a) \in Nat
      BY <2>3, EntryAlong, ArcFacts DEF LeadsOn
    <3> QED
      BY <2>3, <3>1 DEF IsEntry
  <2>5. x \in Entries(T2[r], r) \ H2[r]
    <3>1. SameVisited(T[r], H[r], T2[r], H2[r], r)
      OBVIOUS
    <3> HIDE DEF x
    <3> QED
      BY <2>3, <3>1 DEF SameVisited
  <2>6. Reached(T2[r], a, w) /\ Reached(T2[Other(r)], a, y.weight)
    <3> HIDE DEF w, y
    <3> QED
      BY <2>2, <2>3, <2>4 DEF Grows
  <2>7. MetAlong(b, T2, H2, r, a)
    BY <2>1, <2>5, <2>6 DEF MetAlong
  <2> QED
    BY <1>1, <2>7 DEF Met
<1>2. CASE ~query.edgeBased
  <2>1. PICK n : MetAtNode(b, T, n)
    BY <1>2 DEF Met
  <2>2. \A r \in Sides : IsEntry(b.entry[r]) /\ Reached(T[r], n, b.entry[r].weight)
    BY <2>1 DEF MetAtNode
  <2>3. ASSUME NEW r \in Sides PROVE Reached(T2[r], n, b.entry[r].weight)
    <3> DEFINE w == b.entry[r].weight
    <3>1. IsEntry(b.entry[r]) /\ Reached(T[r], n, w)
      BY <2>2
    <3>3. w \in Int
      BY <3>1 DEF IsEntry
    <3> HIDE DEF w
    <3>2. Reached(T2[r], n, w)
      BY <3>1, <3>3 DEF Grows
    <3> QED
      BY <3>2 DEF w
  <2>4. MetAtNode(b, T2, n)
    BY <2>1, <2>3 DEF MetAtNode
  <2> QED
    BY <1>2, <2>4 DEF Met
<1> QED
  BY <1>1, <1>2

\* The path over a new entry is lighter than the best one, and its best path.
Overwrites(b, T, new, id, s) ==
    id \in DOMAIN T[Other(s)] /\ (b.weight = Inf \/ Together(new, T[Other(s)][id], id) < b.weight)

Overwritten(T, c, new, id, s) ==
    [weight |-> Together(new, T[Other(s)][id], id),
     entry |-> [x \in Sides |-> IF x = s THEN IF query.edgeBased THEN c[s] ELSE new ELSE T[Other(s)][id]]]

\* The best path if the path over the new entry is no better.
LEMMA BestKept ==
    ASSUME query \in Queries, algorithm \in Algorithms, NEW s \in Sides,
           NEW T, NEW H, NEW c, NEW todo, Relaxing(T, H, c, s, todo),
           NEW b, BestFits(b, T, H),
           NEW e \in todo, NEW new, NEW id,
           new = createEntry(e, c[s], s), id = TraversalID(e, c[s].node, s), Improves(new, id, T[s]),
           NEW T2, NEW H2, FiledOn(T, H, s, id, new, T2, H2),
           ~Overwrites(b, T, new, id, s)
    PROVE  BestFits(b, T2, H2)
<1>1. /\ IsEntry(c[s]) /\ e \in Incident(c[s].node) /\ Accepts(e, c[s], s) /\ new.weight # Inf
  BY DEF Relaxing, Settled, Searched, Improves
<1>2. IsEntry(new) /\ (query.edgeBased => Cost(id) \in Nat)
  BY <1>1, FiledAlong
<1>3. new.weight \in Nat
  BY <1>2 DEF IsEntry
<1>4. /\ \A r \in Sides : Grows(T[r], T2[r]) /\ SameVisited(T[r], H[r], T2[r], H2[r], r)
      /\ OnlyAt(id, new, T[s], T2[s])
  BY FiledOnSide
<1>5. T2[Other(s)] = T[Other(s)]
  BY DEF FiledOn
<1>6. /\ b = [weight |-> b.weight, entry |-> [r \in Sides |-> b.entry[r]]]
      /\ b.weight = Inf => b.entry = [r \in Sides |-> NoEntry]
      /\ b.weight # Inf => b.weight \in Nat
      /\ b.weight # Inf => Met(b, T, H)
      /\ Trivial => b.weight = 0
      /\ IsLightest(b, T)
  BY DEF BestFits
<1>7. ASSUME id \in DOMAIN T[Other(s)]
      PROVE  b.weight # Inf /\ b.weight <= Together(new, T[Other(s)][id], id)
  <2>1. T[Other(s)][id].weight \in Nat
    BY <1>7 DEF Relaxing, Settled, IsEntry
  <2>2. Together(new, T[Other(s)][id], id) \in Int
    BY <1>2, <1>3, <2>1 DEF Together
  <2>3. b.weight # Inf /\ ~(Together(new, T[Other(s)][id], id) < b.weight)
    BY <1>7 DEF Overwrites
  <2> QED
    BY <1>6, <2>2, <2>3
<1>8. b.weight # Inf => Met(b, T2, H2)
  BY <1>4, <1>6, MetStays
<1>9. IsLightest(b, T2)
  <2>1. b.weight # Inf => b.weight # Inf /\ b.weight <= b.weight
    BY <1>6
  <2> QED
    BY <1>2, <1>3, <1>4, <1>5, <1>6, <1>7, <2>1, LightestFiled
<1> QED
  BY <1>6, <1>8, <1>9 DEF BestFits

\* The best path if it is.
LEMMA BestReplaced ==
    ASSUME query \in Queries, algorithm \in Algorithms, NEW s \in Sides,
           NEW T, NEW H, NEW c, NEW todo, Relaxing(T, H, c, s, todo),
           NEW b, BestFits(b, T, H),
           NEW e \in todo, NEW new, NEW id,
           new = createEntry(e, c[s], s), id = TraversalID(e, c[s].node, s), Improves(new, id, T[s]),
           NEW T2, NEW H2, FiledOn(T, H, s, id, new, T2, H2),
           Overwrites(b, T, new, id, s)
    PROVE  BestFits(Overwritten(T, c, new, id, s), T2, H2)
<1> DEFINE z == T[Other(s)][id]
           b2 == Overwritten(T, c, new, id, s)
<1>1. /\ IsEntry(c[s]) /\ e \in Incident(c[s].node) /\ Accepts(e, c[s], s) /\ new.weight # Inf
  BY DEF Relaxing, Settled, Searched, Improves
<1>2. /\ IsEntry(new) /\ IsFiledUnder(new, id, s)
      /\ query.edgeBased => /\ id \in Arcs /\ id[1] = e /\ LeadsOn(c[s], id, s) /\ Cost(id) \in Nat
                            /\ TurnFrom(c[s], e, s) \in Nat
                            /\ new.weight = c[s].weight + TurnFrom(c[s], e, s) + Cost(id)
  BY <1>1, FiledAlong
<1>3. new.weight \in Nat /\ c[s].weight \in Nat
  BY <1>1, <1>2 DEF IsEntry
<1>4. /\ Searched(T2[s], H2[s], c[s], s, TRUE, todo \ {e})
      /\ OnlyAt(id, new, T[s], T2[s])
  BY FiledOnSide
<1>5. T2[Other(s)] = T[Other(s)] /\ H2[Other(s)] = H[Other(s)]
  BY DEF FiledOn
<1>6. /\ Other(s) \in Sides /\ Other(s) # s /\ \A r \in Sides : r = s \/ r = Other(s)
  BY DEF Sides, Other
<1>7. id \in DOMAIN T[Other(s)] /\ (b.weight = Inf \/ Together(new, z, id) < b.weight)
  BY DEF Overwrites
<1>8. /\ IsEntry(z) /\ IsFiledUnder(z, id, Other(s)) /\ HasChain(z, Other(s))
      /\ query.edgeBased => ~IsRoot(z)
  BY <1>7 DEF Relaxing, Settled, Searched
<1>9. z.weight \in Nat
  BY <1>8 DEF IsEntry
<1>10. HasChain(new, s) /\ c[s] \in Entries(T2[s], s) \ H2[s]
  BY <1>4 DEF Searched, OnlyAt
<1>11. HasChain(c[s], s)
  <2>1. Settled(T[s], H[s], c[s], s, TRUE, todo) /\ Searched(T[s], H[s], c[s], s, TRUE, todo)
    BY DEF Relaxing
  <2>2. c[s] \in Entries(T[s], s)
    BY <2>1 DEF Searched
  <2> QED
    BY <2>1, <2>2, EntriesFacts
<1>12. /\ Together(new, z, id) \in Nat
       /\ query.edgeBased => Together(new, z, id) = c[s].weight + TurnFrom(c[s], e, s) + z.weight
       /\ ~query.edgeBased => Together(new, z, id) = new.weight + z.weight
  BY <1>2, <1>3, <1>9 DEF Together
<1>13. /\ b2 = [weight |-> b2.weight, entry |-> [r \in Sides |-> b2.entry[r]]]
       /\ b2.weight = Together(new, z, id)
       /\ b2.entry[Other(s)] = z
       /\ query.edgeBased => b2.entry[s] = c[s]
       /\ ~query.edgeBased => b2.entry[s] = new
  BY <1>6 DEF Overwritten
<1> HIDE DEF b2, z
<1>14. Inf \notin Int
  BY QueryFacts
<1>15. b2.weight \in Nat /\ b2.weight # Inf
  BY <1>12, <1>13, <1>14
<1>16. Trivial => b2.weight = 0
  <2>1. Trivial => b.weight = 0
    BY DEF BestFits
  <2> QED
    BY <1>7, <1>12, <1>14, <2>1
<1>17. IsLightest(b2, T2)
  <2>1. IsLightest(b, T) /\ (b.weight # Inf => b.weight \in Nat)
    BY DEF BestFits
  <2>2. b.weight # Inf => b2.weight # Inf /\ b2.weight <= b.weight
    BY <1>7, <1>12, <1>13, <1>15, <2>1
  <2>3. id \in DOMAIN T[Other(s)] => b2.weight # Inf /\ b2.weight <= Together(new, T[Other(s)][id], id)
    BY <1>12, <1>13, <1>15 DEF z
  <2>4. query.edgeBased => Cost(id) \in Nat
    BY <1>2
  <2> QED
    BY <1>3, <1>4, <1>5, <1>15, <2>1, <2>2, <2>3, <2>4, LightestFiled
<1>18. Met(b2, T2, H2)
  <2>1. CASE query.edgeBased
    <3> DEFINE w == c[s].weight + TurnFrom(c[s], id[1], s) + Cost(id)
    <3>1. id \in DOMAIN T2[Other(s)] /\ T2[Other(s)][id] = z
      BY <1>5, <1>7 DEF z
    <3>2. Reached(T2[Other(s)], id, z.weight)
      BY <1>9, <3>1 DEF Reached
    <3>3. Reached(T2[s], id, w)
      BY <1>2, <1>3, <1>4, <2>1 DEF Reached, OnlyAt
    <3>4. b2.weight = c[s].weight + TurnFrom(c[s], id[1], s) + z.weight
      BY <1>2, <1>12, <1>13, <2>1
    <3>5. LeadsOn(c[s], id, s) /\ ~IsRoot(z) /\ id \in Arcs
      BY <1>2, <1>8, <2>1
    <3>6. b2.entry[s] = c[s] /\ b2.entry[Other(s)] = z
      BY <1>13, <2>1
    <3>7. MetAlong(b2, T2, H2, s, id)
      BY <1>1, <1>8, <1>10, <1>11, <3>2, <3>3, <3>4, <3>5, <3>6 DEF MetAlong
    <3> QED
      BY <2>1, <3>5, <3>7 DEF Met
  <2>2. CASE ~query.edgeBased
    <3>1. b2.entry[s] = new /\ b2.entry[Other(s)] = z
      BY <1>13, <2>2
    <3>2. new.node = id /\ z.node = id
      BY <1>2, <1>8, <2>2 DEF IsFiledUnder
    <3>3. Reached(T2[s], id, new.weight) /\ Reached(T2[Other(s)], id, z.weight)
      BY <1>3, <1>4, <1>5, <1>7, <1>9 DEF Reached, z, OnlyAt
    <3>4. \A r \in Sides : /\ IsEntry(b2.entry[r]) /\ HasChain(b2.entry[r], r) /\ b2.entry[r].node = id
                           /\ Reached(T2[r], id, b2.entry[r].weight)
      BY <1>2, <1>6, <1>8, <1>10, <3>1, <3>2, <3>3
    <3>5. b2.weight = b2.entry["from"].weight + b2.entry["to"].weight
      <4>1. b2.weight = b2.entry[s].weight + b2.entry[Other(s)].weight
        BY <1>12, <1>13, <2>2, <3>1
      <4>2. b2.entry[s].weight \in Nat /\ b2.entry[Other(s)].weight \in Nat
        BY <1>3, <1>9, <3>1
      <4>3. \/ s = "from" /\ Other(s) = "to"
            \/ s = "to" /\ Other(s) = "from"
        BY DEF Sides, Other
      <4> QED
        BY <4>1, <4>2, <4>3
    <3>6. MetAtNode(b2, T2, id)
      BY <3>4, <3>5 DEF MetAtNode
    <3> QED
      BY <2>2, <3>6 DEF Met
  <2> QED
    BY <2>1, <2>2
<1>19. BestFits(b2, T2, H2)
  BY <1>13, <1>15, <1>16, <1>17, <1>18 DEF BestFits
<1> QED
  BY <1>19 DEF b2

\* updateBestPathEntry in these terms.
LEMMA UpdateMeaning ==
    ASSUME query \in Queries, NEW s \in Sides, IsEntry(curr[s]),
           NEW e \in Incident(curr[s].node), Accepts(e, curr[s], s),
           NEW new, new = createEntry(e, curr[s], s), new.weight # Inf,
           NEW id, id = TraversalID(e, curr[s].node, s), NEW b
    PROVE  Bidir!updateBestPathEntry(b, new, id, s) =
              IF Overwrites(b, tree, new, id, s) THEN Overwritten(tree, curr, new, id, s) ELSE b
<1> DEFINE other == tree[Other(s)][id]
           weight == Together(new, other, id)
           mine == IF query.edgeBased THEN curr[s] ELSE new
<1>1. /\ Last(new.edges) = e
      /\ query.edgeBased => EdgeWeight(e, curr[s].node, s) = Cost(id)
  BY FiledAlong
<1>2. /\ Bidir!Other(s) = Other(s) /\ Bidir!Sides = Sides
      /\ Bidir!Last(new.edges) = Last(new.edges)
      /\ Bidir!EdgeWeight(e, curr[s].node, s) = EdgeWeight(e, curr[s].node, s)
  BY DEF Bidir!Other, Other, Bidir!Sides, Sides, Bidir!Last, Last, Bidir!EdgeWeight, EdgeWeight
<1>3. (IF ~query.edgeBased THEN new.weight + other.weight
       ELSE new.weight + other.weight - Bidir!EdgeWeight(Bidir!Last(new.edges), curr[s].node, s)) = weight
  <2>1. CASE query.edgeBased
    BY <1>1, <1>2, <2>1 DEF Together
  <2>2. CASE ~query.edgeBased
    BY <2>2 DEF Together
  <2> QED
    BY <2>1, <2>2
<1>4. Bidir!updateBestPathEntry(b, new, id, s) =
         IF id \notin DOMAIN tree[Other(s)] THEN b
         ELSE IF b.weight = Inf \/ weight < b.weight
              THEN [weight |-> weight, entry |-> [x \in Sides |-> IF x = s THEN mine ELSE other]]
              ELSE b
  <2> HIDE DEF weight
  <2> QED
    BY <1>2, <1>3 DEF Bidir!updateBestPathEntry
<1>5. Overwritten(tree, curr, new, id, s) =
         [weight |-> weight, entry |-> [x \in Sides |-> IF x = s THEN mine ELSE other]]
  BY DEF Overwritten
<1>6. Overwrites(b, tree, new, id, s) <=>
         id \in DOMAIN tree[Other(s)] /\ (b.weight = Inf \/ weight < b.weight)
  BY DEF Overwrites
<1> HIDE DEF other, weight, mine
<1> QED
  BY <1>4, <1>5, <1>6

\* One edge of a search from both ends: what it makes of the best entries.
LEMMA BestAfter ==
    ASSUME query \in Queries, algorithm \in Algorithms, NEW s \in Sides,
           Relaxing(tree, heap, curr, s, pending), BestFits(best, tree, heap),
           NEW e \in pending, NEW new, NEW id,
           new = createEntry(e, curr[s], s), id = TraversalID(e, curr[s].node, s), Improves(new, id, tree[s]),
           NEW T2, NEW H2, FiledOn(tree, heap, s, id, new, T2, H2),
           NEW kept, kept = IF best.entry[s] \in {tree[s][i] : i \in DOMAIN tree[s] \cap {id}}
                            THEN [best EXCEPT !.entry[s] = new] ELSE best
    PROVE  BestFits(Bidir!updateBestPathEntry(kept, new, id, s), T2, H2)
<1>1. /\ IsEntry(curr[s]) /\ e \in Incident(curr[s].node) /\ Accepts(e, curr[s], s) /\ new.weight # Inf
  BY DEF Relaxing, Settled, Searched, Improves
<1>2. Bidir!updateBestPathEntry(kept, new, id, s) =
         IF Overwrites(kept, tree, new, id, s) THEN Overwritten(tree, curr, new, id, s) ELSE kept
  BY <1>1, UpdateMeaning
<1>3. Overwrites(best, tree, new, id, s) => BestFits(Overwritten(tree, curr, new, id, s), T2, H2)
  BY BestReplaced
<1>4. ~Overwrites(best, tree, new, id, s) => BestFits(best, T2, H2)
  BY BestKept
<1>5. CASE best.entry[s] \in {tree[s][i] : i \in DOMAIN tree[s] \cap {id}}
  <2>1. id \in DOMAIN tree[s] /\ best.entry[s] = tree[s][id]
    BY <1>5
  <2>2. id \in DOMAIN tree[Other(s)] /\ Together(new, tree[Other(s)][id], id) < best.weight
    BY <2>1, BestIsReplaced
  <2>3. kept.weight = best.weight
    <3>1. best = [weight |-> best.weight, entry |-> [r \in Sides |-> best.entry[r]]]
      BY DEF BestFits
    <3>2. kept = [best EXCEPT !.entry[s] = new]
      BY <1>5
    <3> QED
      BY <3>1, <3>2
  <2>4. Overwrites(best, tree, new, id, s) /\ Overwrites(kept, tree, new, id, s)
    BY <2>2, <2>3 DEF Overwrites
  <2> QED
    BY <1>2, <1>3, <2>4
<1>6. CASE best.entry[s] \notin {tree[s][i] : i \in DOMAIN tree[s] \cap {id}}
  <2>1. kept = best
    BY <1>6
  <2> QED
    BY <1>2, <1>3, <1>4, <2>1
<1> QED
  BY <1>5, <1>6

-----------------------------------------------------------------------------
\* The searches from both ends.

\* What comes next while the root of a side has not been popped.
WhileFirst(s) ==
    IF s = "from" THEN {<<"fill", "from">>}
    ELSE {<<"fill", "from">>, <<"relax", "from">>, <<"fill", "to">>}

\* What one side of a search from both ends knows.
Known(T, H, c, f, p, todo, s) ==
    /\ Searched(T[s], H[s], c[s], s, p = <<"relax", s>>, todo)
    /\ IsTopped(H, c, s)
    /\ f[s] => H[s] = {}
    /\ p = <<"relax", s>> => ~f[s]
    /\ Root(s) \in H[s] => p \in WhileFirst(s)

\* A side on which nothing happens, or where nothing is left.
LEMMA KnownElsewhere ==
    ASSUME NEW s \in Sides, NEW T, NEW H, NEW c, NEW f, NEW p, NEW todo, Known(T, H, c, f, p, todo, s),
           NEW T2, NEW H2, NEW c2, NEW f2, NEW p2, NEW todo2,
           p # <<"relax", s>>, p2 # <<"relax", s>>,
           T2[s] = T[s], H2[s] = H[s], c2[s] = c[s], f2[s] => f[s] \/ H[s] = {},
           Root(s) \in H[s] => p2 \in WhileFirst(s)
    PROVE  Known(T2, H2, c2, f2, p2, todo2, s)
<1>1. (p = <<"relax", s>>) = FALSE /\ (p2 = <<"relax", s>>) = FALSE
  OBVIOUS
<1>2. Searched(T[s], H[s], c[s], s, FALSE, todo)
  BY <1>1 DEF Known
<1>3. Searched(T2[s], H2[s], c2[s], s, p2 = <<"relax", s>>, todo2)
  <2>1. Searched(T[s], H[s], c2[s], s, FALSE, todo2)
    BY <1>2, SearchedWhenIdle
  <2> QED
    BY <1>1, <2>1
<1>4. IsTopped(H2, c2, s)
  BY DEF Known, IsTopped
<1> QED
  BY <1>3, <1>4 DEF Known

\* The side of a popped entry.
LEMMA KnownPop ==
    ASSUME query \in Queries, NEW s \in Sides,
           NEW T, NEW H, NEW c, NEW f, NEW p, NEW t, Known(T, H, c, f, p, t, s), p # <<"relax", s>>,
           NEW entry \in H[s], IsEntry(entry), \A x \in H[s] : Weigh(entry, s) <= Weigh(x, s),
           NEW todo, todo = {e \in Incident(entry.node) : Accepts(e, entry, s)},
           NEW H2, NEW c2, NEW p2, H2[s] = H[s] \ {entry}, c2[s] = entry,
           p2 # <<"relax", s>> => todo = {}
    PROVE  Known(T, H2, c2, f, p2, todo, s)
<1>1. (p = <<"relax", s>>) = FALSE
  OBVIOUS
<1>2. Searched(T[s], H[s], c[s], s, FALSE, t)
  BY <1>1 DEF Known
<1>3. Searched(T[s], H[s] \ {entry}, entry, s, TRUE, todo)
  BY <1>2, SearchedPop
<1>4. Searched(T[s], H2[s], c2[s], s, TRUE, todo)
  BY <1>3
<1>5. Searched(T[s], H2[s], c2[s], s, p2 = <<"relax", s>>, todo)
  <2>1. CASE p2 = <<"relax", s>>
    <3>1. (p2 = <<"relax", s>>) = TRUE
      BY <2>1
    <3> QED
      BY <1>4, <3>1
  <2>2. CASE p2 # <<"relax", s>>
    <3>1. (p2 = <<"relax", s>>) = FALSE /\ todo = {}
      BY <2>2
    <3>2. Searched(T[s], H2[s], c2[s], s, TRUE, {})
      BY <1>4, <3>1
    <3>3. Searched(T[s], H2[s], c2[s], s, FALSE, todo)
      BY <3>2, SearchedWhenDone
    <3> QED
      BY <3>1, <3>3
  <2> QED
    BY <2>1, <2>2
<1>6. IsTopped(H2, c2, s)
  BY DEF IsTopped
<1>7. ~f[s]
  BY DEF Known
<1>8. Root(s) \notin H2[s]
  BY <1>4 DEF Searched
<1> QED
  BY <1>5, <1>6, <1>7, <1>8 DEF Known

\* The side whose edge e has been relaxed.
LEMMA KnownRelaxed ==
    ASSUME query \in Queries, NEW s \in Sides,
           NEW T, NEW H, NEW c, NEW f, NEW p, NEW t, Known(T, H, c, f, p, t, s), p = <<"relax", s>>,
           NEW todo, NEW T2, NEW H2, NEW p2,
           Searched(T2[s], H2[s], c[s], s, TRUE, todo), \A x \in H2[s] : Weigh(c[s], s) <= Weigh(x, s),
           p2 # <<"relax", s>> => todo = {}
    PROVE  Known(T2, H2, c, f, p2, todo, s)
<1>1. Searched(T2[s], H2[s], c[s], s, p2 = <<"relax", s>>, todo)
  <2>1. CASE p2 = <<"relax", s>>
    <3>1. (p2 = <<"relax", s>>) = TRUE
      BY <2>1
    <3> QED
      BY <3>1
  <2>2. CASE p2 # <<"relax", s>>
    <3>1. (p2 = <<"relax", s>>) = FALSE /\ todo = {}
      BY <2>2
    <3>2. Searched(T2[s], H2[s], c[s], s, TRUE, {})
      BY <3>1
    <3>3. Searched(T2[s], H2[s], c[s], s, FALSE, todo)
      BY <3>2, SearchedWhenDone
    <3> QED
      BY <3>1, <3>3
  <2> QED
    BY <2>1, <2>2
<1>2. IsTopped(H2, c, s)
  BY DEF IsTopped, Known
<1>3. ~f[s]
  BY DEF Known
<1>4. Root(s) \notin H2[s]
  BY DEF Searched
<1> QED
  BY <1>1, <1>2, <1>3, <1>4 DEF Known

\* What is said of the two sides does not depend on the step that is taken.
LEMMA FitsPrimed ==
    ASSUME query' = query, algorithm' = algorithm
    PROVE  /\ \A T, H, c, f, p, todo, s :
                  Known(T, H, c, f, p, todo, s)' <=> Known(T, H, c, f, p, todo, s)
           /\ \A b, T, H : BestFits(b, T, H)' <=> BestFits(b, T, H)
<1>1. /\ Arcs' = Arcs /\ \A b : Cost(b)' = Cost(b)
      /\ \A b, s : Base(b, s)' = Base(b, s) /\ Far(b, s)' = Far(b, s)
  BY DEF Arcs, Cost, Base, Far, AdjNode
<1>2. \A a, b, s : TurnCost(a, b, s)' = TurnCost(a, b, s)
  BY DEF TurnCost
<1>3. \A c, Q, n, s : IsChain(c, Q, n, s)' <=> IsChain(c, Q, n, s)
  BY <1>1, <1>2 DEF IsChain
<1>4. \A x, s : HasChain(x, s)' <=> HasChain(x, s)
  BY <1>1, <1>3 DEF HasChain
<1>5. /\ \A x, e, s : TurnFrom(x, e, s)' = TurnFrom(x, e, s)
      /\ \A e, x, s : Accepts(e, x, s)' <=> Accepts(e, x, s)
  BY DEF TurnFrom, TurnWeight, Accepts
<1>6. \A x, b, s : LeadsOn(x, b, s)' <=> LeadsOn(x, b, s)
  BY <1>1, <1>5 DEF LeadsOn
<1>7. \A x : IsEntry(x)' <=> IsEntry(x)
  BY DEF IsEntry
<1>8. \A x, i, s : IsFiledUnder(x, i, s)' <=> IsFiledUnder(x, i, s)
  BY DEF IsFiledUnder, Ends, AdjNode
<1>9. \A n, s : Estimate(n, s)' = Estimate(n, s)
  BY DEF Estimate, Bidir!Approximate, Unidir!Approximate, Bidir!Beeline, Unidir!Beeline
<1>10. \A x, s : Weigh(x, s)' = Weigh(x, s)
  BY <1>9 DEF Weigh
<1>11. /\ \A T, s : Entries(T, s)' = Entries(T, s)
       /\ \A s : Root(s)' = Root(s)
       /\ \A T, H, c, s, relaxing, todo :
             Searched(T, H, c, s, relaxing, todo)' <=> Searched(T, H, c, s, relaxing, todo)
       /\ Trivial' <=> Trivial
  BY SearchedPrimed
<1>12. \A H, c, s : IsTopped(H, c, s)' <=> IsTopped(H, c, s)
  BY <1>7, <1>10 DEF IsTopped
<1>13. \A b, T, H, s, a : MetAlong(b, T, H, s, a)' <=> MetAlong(b, T, H, s, a)
  BY <1>1, <1>4, <1>5, <1>6, <1>7, <1>8, <1>11 DEF MetAlong
<1>14. \A b, T, n : MetAtNode(b, T, n)' <=> MetAtNode(b, T, n)
  BY <1>4, <1>7 DEF MetAtNode
<1>15. \A b, T, H : Met(b, T, H)' <=> Met(b, T, H)
  BY <1>1, <1>13, <1>14 DEF Met
<1>16. \A x, y, i : Together(x, y, i)' = Together(x, y, i)
  BY <1>1 DEF Together
<1>17. \A b, T : IsLightest(b, T)' <=> IsLightest(b, T)
  BY <1>16 DEF IsLightest
<1>18. \A b, T, H : BestFits(b, T, H)' <=> BestFits(b, T, H)
  BY <1>11, <1>15, <1>17 DEF BestFits
<1>19. \A T, H, c, f, p, todo, s : Known(T, H, c, f, p, todo, s)' <=> Known(T, H, c, f, p, todo, s)
  BY <1>11, <1>12 DEF Known
<1> QED
  BY <1>18, <1>19

\* Edge-based with equal ends and no restrictions, the search is over at once.
AtOnce == query.edgeBased /\ Trivial

\* What the searches from both ends know, in the terms of BidirInv.
BidirFound ==
    /\ AtOnce => /\ pc[1] \in {"head", "done"}
                 /\ finished = [s \in Sides |-> TRUE]
                 /\ best = [weight |-> 0, entry |-> [s \in Sides |-> Root(s)]]
    /\ ~AtOnce => /\ finished \in [Sides -> BOOLEAN]
                  /\ \A s \in Sides : Known(tree, heap, curr, finished, pc, pending, s)
                  /\ BestFits(best, tree, heap)
    /\ pc[1] = "done" => result.weight = W!Distance(query)

\* The best entries when the search begins.
LEMMA BestInit ==
    ASSUME query \in Queries, ~AtOnce, NEW H, NEW T, NEW b,
           T = [s \in Sides |-> IF query.edgeBased THEN << >> ELSE [n \in {query.start[s]} |-> Root(s)]],
           b = IF Trivial THEN [weight |-> 0, entry |-> [s \in Sides |-> Root(s)]]
               ELSE [weight |-> Inf, entry |-> [s \in Sides |-> NoEntry]]
    PROVE  BestFits(b, T, H)
<1>1. /\ Inf # 0 /\ Inf \notin Int
      /\ "from" \in Sides /\ "to" \in Sides
  BY QueryFacts DEF Sides
<1>2. b = [weight |-> b.weight, entry |-> [s \in Sides |-> b.entry[s]]]
  OBVIOUS
<1>3. CASE Trivial
  <2>1. ~query.edgeBased /\ query.start["from"] = query.start["to"]
    BY <1>3 DEF AtOnce, Trivial
  <2>2. b.weight = 0 /\ \A s \in Sides : b.entry[s] = Root(s)
    BY <1>3
  <2>3. \A s \in Sides : query.start[s] = query.start["from"]
    BY <2>1 DEF Sides
  <2>4. \A s \in Sides : /\ IsEntry(Root(s)) /\ HasChain(Root(s), s)
                         /\ Root(s).node = query.start["from"] /\ Root(s).weight = 0
    BY <2>3, RootHasChain DEF Root, NewSPTEntry
  <2>5. \A s \in Sides : DOMAIN T[s] = {query.start["from"]} /\ T[s][query.start["from"]] = Root(s)
    BY <2>1, <2>3
  <2>6. MetAtNode(b, T, query.start["from"])
    <3>1. ASSUME NEW s \in Sides PROVE Reached(T[s], query.start["from"], b.entry[s].weight)
      <4>1. query.start["from"] \in DOMAIN T[s] /\ T[s][query.start["from"]] = Root(s)
        BY <2>5
      <4>2. b.entry[s] = Root(s) /\ Root(s).weight = 0
        BY <2>2, <2>4
      <4>3. Reached(T[s], query.start["from"], 0)
        BY <4>1, <4>2 DEF Reached
      <4> QED
        BY <4>2, <4>3
    <3>2. b.weight = b.entry["from"].weight + b.entry["to"].weight
      <4>1. b.weight = 0 /\ b.entry["from"].weight = 0 /\ b.entry["to"].weight = 0
        BY <1>1, <2>2, <2>4
      <4> QED
        BY <4>1
    <3>3. \A s \in Sides : /\ IsEntry(b.entry[s]) /\ HasChain(b.entry[s], s)
                           /\ b.entry[s].node = query.start["from"]
      BY <2>2, <2>4
    <3> QED
      BY <3>1, <3>2, <3>3 DEF MetAtNode
  <2>7. Met(b, T, H)
    BY <2>1, <2>6 DEF Met
  <2>8. IsLightest(b, T)
    <3>1. Together(Root("from"), Root("to"), query.start["from"]) = 0
      BY <1>1, <2>1, <2>4 DEF Together
    <3> QED
      BY <1>1, <2>2, <2>5, <3>1 DEF IsLightest
  <2> QED
    BY <1>1, <1>2, <2>2, <2>7, <2>8 DEF BestFits
<1>4. CASE ~Trivial
  <2>1. b.weight = Inf /\ b.entry = [s \in Sides |-> NoEntry]
    BY <1>4
  <2>2. DOMAIN T["from"] \cap DOMAIN T["to"] = {}
    <3>1. CASE query.edgeBased
      BY <1>1, <3>1
    <3>2. CASE ~query.edgeBased
      <4>1. query.only = [s \in Sides |-> AnyEdge]
        BY <3>2, QueriesAssumption
      <4>2. query.start["from"] # query.start["to"]
        BY <1>4, <4>1 DEF Trivial
      <4>3. DOMAIN T["from"] = {query.start["from"]} /\ DOMAIN T["to"] = {query.start["to"]}
        BY <1>1, <3>2
      <4> QED
        BY <4>2, <4>3
    <3> QED
      BY <3>1, <3>2
  <2>3. IsLightest(b, T)
    BY <2>2 DEF IsLightest
  <2> QED
    BY <1>2, <1>4, <2>1, <2>3 DEF BestFits
<1> QED
  BY <1>3, <1>4

\* It holds when the search begins.
LEMMA BidirFoundInit ==
    ASSUME algorithm \in Algorithms, algorithm.bidirectional, Bidir!Init
    PROVE  BidirFound
<1>1. /\ query \in Queries
      /\ curr = [s \in Sides |-> Root(s)]
      /\ heap = [s \in Sides |-> {curr[s]}]
      /\ tree = [s \in Sides |-> IF query.edgeBased THEN << >> ELSE [n \in {query.start[s]} |-> curr[s]]]
  BY BidirOperators DEF Bidir!Init, Root
<1>2. /\ best = IF Trivial THEN [weight |-> 0, entry |-> curr] ELSE Bidir!NoBest
      /\ IF AtOnce
         THEN finished = [s \in Sides |-> TRUE] /\ pc = <<"head", "from">>
         ELSE finished = [s \in Sides |-> FALSE] /\ pc = <<"fill", "from">>
  BY BidirOperators DEF Bidir!Init, Trivial, AtOnce
<1>3. Bidir!NoBest = [weight |-> Inf, entry |-> [s \in Sides |-> NoEntry]]
  BY BidirOperators DEF Bidir!NoBest
<1>4. pc[1] \in {"head", "fill"}
  BY <1>2
<1>5. CASE AtOnce
  <2>1. best = [weight |-> 0, entry |-> [s \in Sides |-> Root(s)]]
    BY <1>1, <1>2, <1>5 DEF AtOnce
  <2>2. pc = <<"head", "from">> /\ finished = [s \in Sides |-> TRUE]
    BY <1>2, <1>5
  <2> QED
    BY <1>4, <1>5, <2>1, <2>2 DEF BidirFound
<1>6. CASE ~AtOnce
  <2>1. finished = [s \in Sides |-> FALSE] /\ pc = <<"fill", "from">>
    BY <1>2, <1>6
  <2>2. ASSUME NEW s \in Sides PROVE Known(tree, heap, curr, finished, pc, pending, s)
    <3>1. (pc = <<"relax", s>>) = FALSE
      BY <2>1
    <3>2. /\ curr[s] = Root(s) /\ heap[s] = {Root(s)}
          /\ tree[s] = IF query.edgeBased THEN << >> ELSE [n \in {query.start[s]} |-> Root(s)]
      BY <1>1
    <3>3. Searched(tree[s], heap[s], curr[s], s, FALSE, pending)
      BY <1>1, <3>2, SearchedInit
    <3>4. IsEntry(Root(s))
      BY <1>1, RootHasChain DEF Root
    <3>5. IsTopped(heap, curr, s)
      <4>1. Weigh(Root(s), s) \in Int
        BY <1>1, <3>4, WeighIsInteger
      <4> QED
        BY <3>2, <3>4, <4>1 DEF IsTopped
    <3>6. pc \in WhileFirst(s)
      BY <2>1 DEF WhileFirst
    <3> QED
      BY <2>1, <3>1, <3>3, <3>5, <3>6 DEF Known
  <2>3. BestFits(best, tree, heap)
    <3>1. tree = [s \in Sides |-> IF query.edgeBased THEN << >> ELSE [n \in {query.start[s]} |-> Root(s)]]
      BY <1>1
    <3>2. best = IF Trivial THEN [weight |-> 0, entry |-> [s \in Sides |-> Root(s)]]
                 ELSE [weight |-> Inf, entry |-> [s \in Sides |-> NoEntry]]
      BY <1>1, <1>2, <1>3
    <3> QED
      BY <1>1, <1>6, <3>1, <3>2, BestInit
  <2>4. finished \in [Sides -> BOOLEAN]
    BY <2>1
  <2> QED
    BY <1>4, <1>6, <2>2, <2>3, <2>4 DEF BidirFound
<1> QED
  BY <1>5, <1>6

\* What has to be shown of a step, unless the search was over at once.
LEMMA BidirFoundNext ==
    ASSUME query' = query, algorithm' = algorithm, ~AtOnce,
           finished' \in [Sides -> BOOLEAN],
           \A s \in Sides : Known(tree', heap', curr', finished', pc', pending', s),
           BestFits(best', tree', heap'),
           pc'[1] = "done" => result'.weight = W!Distance(query)
    PROVE  BidirFound'
<1>1. AtOnce' <=> AtOnce
  BY SearchedPrimed DEF AtOnce
<1>2. (finished \in [Sides -> BOOLEAN])'
  BY DEF Sides
<1>3. BestFits(best, tree, heap)'
  BY FitsPrimed
<1>4. \A s \in Sides : Known(tree, heap, curr, finished, pc, pending, s)'
  BY FitsPrimed
<1>5. (\A s \in Sides : Known(tree, heap, curr, finished, pc, pending, s))'
  BY <1>4 DEF Sides
<1>6. (pc[1] = "done" => result.weight = W!Distance(query))'
  BY SearchedPrimed
<1> QED
  BY <1>1, <1>2, <1>3, <1>5, <1>6 DEF BidirFound

\* The best entries stay so when an entry is popped.
LEMMA BestPopped ==
    ASSUME NEW b, NEW T, NEW H, BestFits(b, T, H),
           NEW H2, \A r \in Sides : H2[r] \subseteq H[r]
    PROVE  BestFits(b, T, H2)
<1>1. Met(b, T, H) => Met(b, T, H2)
  <2>1. \A r \in Sides, a \in Arcs : MetAlong(b, T, H, r, a) => MetAlong(b, T, H2, r, a)
    BY DEF MetAlong
  <2> QED
    BY <2>1 DEF Met
<1> QED
  BY <1>1 DEF BestFits

\* fillEdgesFrom / fillEdgesTo: the lightest entry is popped, or nothing is left.
LEMMA BidirFoundPop ==
    ASSUME IndInv, BidirFound, algorithm.bidirectional, NEW s \in Sides, Bidir!Pop(s), UNCHANGED algorithm
    PROVE  BidirFound'
<1>1. /\ query \in Queries /\ algorithm \in Algorithms /\ BidirInv
      /\ query' = query /\ algorithm' = algorithm /\ tree' = tree /\ best' = best /\ result' = result
      /\ pc = <<"fill", s>>
  BY DEF IndInv, Bidir!Pop
<1>2. /\ \A r \in Sides : pc # <<"relax", r>>
      /\ pc[1] \notin {"head", "done"}
  BY <1>1
<1>3. /\ ~AtOnce /\ finished \in [Sides -> BOOLEAN]
      /\ \A r \in Sides : Known(tree, heap, curr, finished, pc, pending, r)
      /\ BestFits(best, tree, heap)
  BY <1>2 DEF BidirFound
<1>4. \A r \in Sides : \A x \in heap[r] : IsEntry(x)
  BY <1>1 DEF BidirInv, Settled
<1>5. ASSUME NEW r \in Sides, r # s, Root(r) \in heap[r]
      PROVE  s = "from" /\ r = "to" /\ WhileFirst(r) = {<<"fill", "from">>, <<"relax", "from">>, <<"fill", "to">>}
  <2>1. <<"fill", s>> \in WhileFirst(r)
    BY <1>1, <1>3, <1>5 DEF Known
  <2> QED
    BY <1>5, <2>1 DEF WhileFirst, Sides
<1>6. Bidir!After(s) = IF s = "from" THEN <<"fill", "to">> ELSE <<"head", "from">>
  BY DEF Bidir!After
<1>7. CASE /\ finished[s] \/ heap[s] = {}
           /\ finished' = [finished EXCEPT ![s] = TRUE]
           /\ pc' = Bidir!After(s) /\ UNCHANGED <<heap, curr, pending>>
  <2>1. heap[s] = {}
    BY <1>3, <1>7 DEF Known
  <2>2. pc' \in {<<"fill", "to">>, <<"head", "from">>}
    BY <1>6, <1>7
  <2>3. /\ finished' \in [Sides -> BOOLEAN]
        /\ \A r \in Sides : r # s => finished'[r] = finished[r]
    BY <1>3, <1>7
  <2>4. ASSUME NEW r \in Sides PROVE Known(tree', heap', curr', finished', pc', pending', r)
    <3>1. pc' # <<"relax", r>> /\ pc # <<"relax", r>>
      BY <1>2, <2>2
    <3>2. finished'[r] => finished[r] \/ heap[r] = {}
      BY <2>1, <2>3
    <3>3. Root(r) \in heap[r] => pc' \in WhileFirst(r)
      BY <1>5, <1>6, <1>7, <2>1
    <3>4. tree'[r] = tree[r] /\ heap'[r] = heap[r] /\ curr'[r] = curr[r]
      BY <1>1, <1>7
    <3>5. Known(tree, heap, curr, finished, pc, pending, r)
      BY <1>3
    <3> QED
      BY <3>1, <3>2, <3>3, <3>4, <3>5, KnownElsewhere
  <2>5. BestFits(best', tree', heap')
    BY <1>1, <1>3, <1>7
  <2>6. pc'[1] # "done"
    BY <2>2
  <2> QED
    BY <1>1, <1>3, <2>3, <2>4, <2>5, <2>6, BidirFoundNext
<1>8. ASSUME NEW entry \in heap[s],
             /\ \A x \in heap[s] : Bidir!HeapWeight(entry, s) <= Bidir!HeapWeight(x, s)
             /\ heap' = [heap EXCEPT ![s] = @ \ {entry}]
             /\ curr' = [curr EXCEPT ![s] = entry]
             /\ pending' = {e \in Bidir!Incident(entry.node) : Bidir!accept(e, entry, s)}
             /\ pc' = IF pending' = {} THEN Bidir!After(s) ELSE <<"relax", s>>
             /\ UNCHANGED finished
      PROVE  BidirFound'
  <2>1. \A x \in heap[s] : Weigh(entry, s) <= Weigh(x, s)
    BY <1>1, <1>4, <1>8, HeapOrder
  <2>2. pending' = {e \in Incident(entry.node) : Accepts(e, entry, s)}
    BY <1>8, BidirOperators, AcceptsSame
  <2>3. /\ heap'[s] = heap[s] \ {entry} /\ curr'[s] = entry
        /\ \A r \in Sides : r # s => heap'[r] = heap[r] /\ curr'[r] = curr[r]
    BY <1>1, <1>8 DEF BidirInv
  <2>4. /\ pc' \in {<<"fill", "to">>, <<"head", "from">>, <<"relax", s>>}
        /\ s = "from" => pc' \in {<<"fill", "to">>, <<"relax", "from">>}
        /\ pc' # <<"relax", s>> => pending' = {}
    BY <1>6, <1>8
  <2>5. Known(tree', heap', curr', finished', pc', pending', s)
    <3>1. \A H2, c2, todo, p2 :
             /\ H2[s] = heap[s] \ {entry} /\ c2[s] = entry
             /\ todo = {e \in Incident(entry.node) : Accepts(e, entry, s)}
             /\ p2 # <<"relax", s>> => todo = {}
             => Known(tree, H2, c2, finished, p2, todo, s)
      <4> SUFFICES ASSUME NEW H2, NEW c2, NEW todo, NEW p2,
                          H2[s] = heap[s] \ {entry}, c2[s] = entry,
                          todo = {e \in Incident(entry.node) : Accepts(e, entry, s)},
                          p2 # <<"relax", s>> => todo = {}
                   PROVE  Known(tree, H2, c2, finished, p2, todo, s)
        OBVIOUS
      <4>1. Known(tree, heap, curr, finished, pc, pending, s) /\ pc # <<"relax", s>>
        BY <1>2, <1>3
      <4>2. IsEntry(entry) /\ query \in Queries
        BY <1>1, <1>4
      <4> QED
        BY <2>1, <4>1, <4>2, KnownPop
    <3>2. tree' = tree /\ finished' = finished
      BY <1>1, <1>8
    <3> QED
      BY <2>2, <2>3, <2>4, <3>1, <3>2
  <2>6. ASSUME NEW r \in Sides, r # s PROVE Known(tree', heap', curr', finished', pc', pending', r)
    <3>1. pc' # <<"relax", r>> /\ pc # <<"relax", r>>
      BY <1>2, <2>4, <2>6
    <3>2. finished'[r] => finished[r] \/ heap[r] = {}
      BY <1>8
    <3>3. Root(r) \in heap[r] => pc' \in WhileFirst(r)
      BY <1>5, <2>4, <2>6
    <3>4. tree'[r] = tree[r] /\ heap'[r] = heap[r] /\ curr'[r] = curr[r]
      BY <1>1, <2>3, <2>6
    <3>5. Known(tree, heap, curr, finished, pc, pending, r)
      BY <1>3
    <3> QED
      BY <3>1, <3>2, <3>3, <3>4, <3>5, KnownElsewhere
  <2>7. BestFits(best', tree', heap')
    <3>1. \A r \in Sides : heap'[r] \subseteq heap[r]
      BY <2>3
    <3>2. BestFits(best, tree, heap')
      BY <1>3, <3>1, BestPopped
    <3> QED
      BY <1>1, <3>2
  <2>8. \A r \in Sides : Known(tree', heap', curr', finished', pc', pending', r)
    BY <2>5, <2>6
  <2>9. pc'[1] # "done" /\ finished' \in [Sides -> BOOLEAN]
    BY <1>3, <1>8, <2>4
  <2> QED
    BY <1>1, <1>3, <2>7, <2>8, <2>9, BidirFoundNext
<1> QED
  BY <1>7, <1>8 DEF Bidir!Pop

\* One edge of fillEdges is relaxed.
LEMMA BidirFoundRelax ==
    ASSUME IndInv, BidirFound, algorithm.bidirectional, NEW s \in Sides, Bidir!Relax(s), UNCHANGED algorithm
    PROVE  BidirFound'
<1>1. /\ query \in Queries /\ algorithm \in Algorithms /\ BidirInv
      /\ query' = query /\ algorithm' = algorithm /\ curr' = curr /\ finished' = finished /\ result' = result
      /\ pc = <<"relax", s>>
      /\ pc' = IF pending' = {} THEN Bidir!After(s) ELSE pc
  BY DEF IndInv, Bidir!Relax
<1>2. /\ (pc = <<"relax", s>>) = TRUE
      /\ \A r \in Sides : r # s => pc # <<"relax", r>> /\ (pc = <<"relax", r>>) = FALSE
      /\ pc[1] \notin {"head", "done"}
  BY <1>1
<1>3. /\ ~AtOnce /\ finished \in [Sides -> BOOLEAN]
      /\ \A r \in Sides : Known(tree, heap, curr, finished, pc, pending, r)
      /\ BestFits(best, tree, heap)
  BY <1>2 DEF BidirFound
<1>4. Other(s) \in Sides /\ Other(s) # s /\ \A r \in Sides : r = s \/ r = Other(s)
  BY DEF Sides, Other
<1>5. Relaxing(tree, heap, curr, s, pending)
  <2>1. Settled(tree[s], heap[s], curr[s], s, TRUE, pending)
    BY <1>1, <1>2 DEF BidirInv
  <2>2. Settled(tree[Other(s)], heap[Other(s)], curr[Other(s)], Other(s), FALSE, pending)
    BY <1>1, <1>2, <1>4 DEF BidirInv
  <2>3. Searched(tree[s], heap[s], curr[s], s, TRUE, pending)
    BY <1>2, <1>3 DEF Known
  <2>4. Searched(tree[Other(s)], heap[Other(s)], curr[Other(s)], Other(s), FALSE, pending)
    BY <1>2, <1>3, <1>4 DEF Known
  <2> QED
    BY <2>1, <2>2, <2>3, <2>4 DEF Relaxing
<1>6. PICK e \in pending :
        /\ LET entry == createEntry(e, curr[s], s)
               id == TraversalID(e, curr[s].node, s)
               replaced == {tree[s][i] : i \in DOMAIN tree[s] \cap {id}}
               kept == IF best.entry[s] \in replaced
                       THEN [best EXCEPT !.entry[s] = entry] ELSE best
           IN  IF Improves(entry, id, tree[s])
               THEN /\ tree' = [tree EXCEPT ![s] = Filed(tree[s], id, entry)]
                    /\ heap' = [heap EXCEPT ![s] = (heap[s] \ replaced) \cup {entry}]
                    /\ best' = Bidir!updateBestPathEntry(kept, entry, id, s)
               ELSE UNCHANGED <<tree, heap, best>>
        /\ pending' = pending \ {e}
  BY BidirOperators DEF Bidir!Relax
<1> DEFINE entry == createEntry(e, curr[s], s)
           id == TraversalID(e, curr[s].node, s)
           kept == IF best.entry[s] \in {tree[s][i] : i \in DOMAIN tree[s] \cap {id}}
                   THEN [best EXCEPT !.entry[s] = entry] ELSE best
<1>7. /\ Searched(tree'[s], heap'[s], curr[s], s, TRUE, pending')
      /\ \A x \in heap'[s] : Weigh(curr[s], s) <= Weigh(x, s)
      /\ tree'[Other(s)] = tree[Other(s)] /\ heap'[Other(s)] = heap[Other(s)]
      /\ BestFits(best', tree', heap')
  <2>1. CASE Improves(entry, id, tree[s])
    <3>1. /\ tree' = [tree EXCEPT ![s] = Filed(tree[s], id, entry)]
          /\ heap' = [heap EXCEPT ![s] = Refiled(tree[s], heap[s], id, entry)]
          /\ best' = Bidir!updateBestPathEntry(kept, entry, id, s)
          /\ pending' = pending \ {e}
      BY <1>6, <2>1 DEF Refiled
    <3>2. \A new, i, k :
            new = entry /\ i = id /\ k = kept =>
              \A T2, H2 : FiledOn(tree, heap, s, i, new, T2, H2) =>
                 /\ Searched(T2[s], H2[s], curr[s], s, TRUE, pending \ {e})
                 /\ BestFits(Bidir!updateBestPathEntry(k, new, i, s), T2, H2)
      <4> SUFFICES ASSUME NEW new, NEW i, NEW k, new = entry, i = id, k = kept,
                          NEW T2, NEW H2, FiledOn(tree, heap, s, i, new, T2, H2)
                   PROVE  /\ Searched(T2[s], H2[s], curr[s], s, TRUE, pending \ {e})
                          /\ BestFits(Bidir!updateBestPathEntry(k, new, i, s), T2, H2)
        OBVIOUS
      <4>1. Improves(new, i, tree[s])
        BY <2>1
      <4>2. new = createEntry(e, curr[s], s) /\ i = TraversalID(e, curr[s].node, s)
        OBVIOUS
      <4>3. k = IF best.entry[s] \in {tree[s][j] : j \in DOMAIN tree[s] \cap {i}}
                THEN [best EXCEPT !.entry[s] = new] ELSE best
        OBVIOUS
      <4>4. query \in Queries /\ algorithm \in Algorithms /\ e \in pending
        BY <1>1
      <4> HIDE DEF entry, id, kept
      <4>5. Searched(T2[s], H2[s], curr[s], s, TRUE, pending \ {e})
        BY <1>5, <4>1, <4>2, <4>4, FiledOnSide
      <4>6. BestFits(Bidir!updateBestPathEntry(k, new, i, s), T2, H2)
        BY <1>3, <1>5, <4>1, <4>2, <4>3, <4>4, BestAfter
      <4> QED
        BY <4>5, <4>6
    <3>3. \A new, i : new = entry /\ i = id =>
             \A x \in Refiled(tree[s], heap[s], i, new) : Weigh(curr[s], s) <= Weigh(x, s)
      <4> SUFFICES ASSUME NEW new, NEW i, new = entry, i = id
                   PROVE  \A x \in Refiled(tree[s], heap[s], i, new) : Weigh(curr[s], s) <= Weigh(x, s)
        OBVIOUS
      <4>1. Improves(new, i, tree[s])
        BY <2>1
      <4>2. new = createEntry(e, curr[s], s) /\ i = TraversalID(e, curr[s].node, s)
        OBVIOUS
      <4>3. query \in Queries /\ algorithm \in Algorithms /\ e \in pending
        BY <1>1
      <4>4. Settled(tree[s], heap[s], curr[s], s, TRUE, pending)
        BY <1>5 DEF Relaxing
      <4> HIDE DEF entry, id
      <4>5. Settled(Filed(tree[s], i, new), Refiled(tree[s], heap[s], i, new), curr[s], s, TRUE, pending)
        BY <4>1, <4>2, <4>3, <4>4, RelaxKeeps DEF Refiled
      <4> QED
        BY <4>5 DEF Settled
    <3> HIDE DEF entry, id, kept
    <3>4. /\ tree'[s] = Filed(tree[s], id, entry) /\ heap'[s] = Refiled(tree[s], heap[s], id, entry)
          /\ tree'[Other(s)] = tree[Other(s)] /\ heap'[Other(s)] = heap[Other(s)]
      BY <1>1, <1>4, <3>1 DEF BidirInv
    <3>5. FiledOn(tree, heap, s, id, entry, tree', heap')
      BY <3>4 DEF FiledOn
    <3>6. /\ Searched(tree'[s], heap'[s], curr[s], s, TRUE, pending \ {e})
          /\ BestFits(Bidir!updateBestPathEntry(kept, entry, id, s), tree', heap')
      BY <3>2, <3>5
    <3>7. \A x \in heap'[s] : Weigh(curr[s], s) <= Weigh(x, s)
      BY <3>3, <3>4
    <3> QED
      BY <3>1, <3>4, <3>6, <3>7
  <2>2. CASE ~Improves(entry, id, tree[s])
    <3>1. tree' = tree /\ heap' = heap /\ best' = best /\ pending' = pending \ {e}
      BY <1>6, <2>2
    <3>2. Settled(tree[s], heap[s], curr[s], s, TRUE, pending) /\ Searched(tree[s], heap[s], curr[s], s, TRUE, pending)
      BY <1>5 DEF Relaxing
    <3>3. Searched(tree[s], heap[s], curr[s], s, TRUE, pending \ {e})
      BY <1>1, <2>2, <3>2, SearchedSkip
    <3>4. \A x \in heap[s] : Weigh(curr[s], s) <= Weigh(x, s)
      BY <3>2 DEF Settled
    <3> QED
      BY <1>3, <3>1, <3>3, <3>4
  <2> QED
    BY <2>1, <2>2
<1> HIDE DEF entry, id, kept
<1>8. /\ pc' # <<"relax", s>> => pending' = {}
      /\ pc' \in {<<"relax", s>>, <<"fill", "to">>, <<"head", "from">>}
      /\ s = "from" => pc' \in {<<"relax", "from">>, <<"fill", "to">>}
  BY <1>1 DEF Bidir!After
<1>9. Known(tree', heap', curr', finished', pc', pending', s)
  <2>1. \A T2, H2, todo, p2 :
           /\ Searched(T2[s], H2[s], curr[s], s, TRUE, todo) /\ (\A x \in H2[s] : Weigh(curr[s], s) <= Weigh(x, s))
           /\ p2 # <<"relax", s>> => todo = {}
           => Known(T2, H2, curr, finished, p2, todo, s)
    <3>1. query \in Queries /\ Known(tree, heap, curr, finished, pc, pending, s) /\ pc = <<"relax", s>>
      BY <1>1, <1>3
    <3> QED
      BY <3>1, KnownRelaxed
  <2> QED
    BY <1>1, <1>7, <1>8, <2>1
<1>10. Known(tree', heap', curr', finished', pc', pending', Other(s))
  <2> DEFINE r == Other(s)
  <2>1. pc' # <<"relax", r>> /\ pc # <<"relax", r>> /\ r \in Sides
    BY <1>2, <1>4, <1>8
  <2>2. finished'[r] => finished[r] \/ heap[r] = {}
    BY <1>1
  <2>3. Root(r) \in heap[r] => pc' \in WhileFirst(r)
    <3>1. Root(r) \in heap[r] => pc \in WhileFirst(r)
      BY <1>3, <1>4 DEF Known
    <3> QED
      BY <1>1, <1>4, <1>8, <3>1 DEF WhileFirst, Sides
  <2>4. tree'[r] = tree[r] /\ heap'[r] = heap[r] /\ curr'[r] = curr[r]
    BY <1>1, <1>7
  <2>5. Known(tree, heap, curr, finished, pc, pending, r)
    BY <1>3, <1>4
  <2> HIDE DEF r
  <2>6. Known(tree', heap', curr', finished', pc', pending', r)
    BY <2>1, <2>2, <2>3, <2>4, <2>5, KnownElsewhere
  <2> QED
    BY <2>6 DEF r
<1>11. \A r \in Sides : Known(tree', heap', curr', finished', pc', pending', r)
  BY <1>4, <1>9, <1>10
<1>12. pc'[1] # "done" /\ finished' \in [Sides -> BOOLEAN]
  BY <1>1, <1>3, <1>8
<1> QED
  BY <1>1, <1>3, <1>7, <1>11, <1>12, BidirFoundNext

\* The loop condition of runAlgo: a search that ends with a path has the lightest.
LEMMA BidirFoundHead ==
    ASSUME IndInv, BidirFound, algorithm.bidirectional, Bidir!runAlgo, UNCHANGED algorithm
    PROVE  BidirFound'
<1>1. /\ query \in Queries /\ algorithm \in Algorithms /\ BidirInv
      /\ query' = query /\ algorithm' = algorithm
      /\ UNCHANGED <<tree, heap, curr, pending, finished, best>>
      /\ pc = <<"head", "from">>
      /\ \/ ~Bidir!IsFinished /\ pc' \in {<<"fill", "from">>, <<"exceeded", "from">>}
         \/ Bidir!IsFinished /\ pc' = <<"done", "from">> /\ result' = Bidir!Extract
  BY DEF IndInv, Bidir!runAlgo
<1>2. "from" \in Sides /\ "to" \in Sides /\ Bidir!Sides = Sides
  BY BidirOperators DEF Sides
<1>3. /\ NoEntry \notin [node : DOMAIN query.pos, weight : Nat, edges : Seq(DOMAIN query.edges)]
      /\ \A x : IsEntry(x) => x # NoEntry
  <2>1. NoEntry \notin [node : DOMAIN query.pos, weight : Nat, edges : Seq(DOMAIN query.edges)]
    BY <1>1, QueriesAssumption
  <2>2. \A x : IsEntry(x) => x \in [node : DOMAIN query.pos, weight : Nat, edges : Seq(DOMAIN query.edges)]
    BY DEF IsEntry
  <2> QED
    BY <2>1, <2>2
<1>4. CASE AtOnce
  <2>1. finished = [s \in Sides |-> TRUE] /\ best = [weight |-> 0, entry |-> [s \in Sides |-> Root(s)]]
    BY <1>4 DEF BidirFound
  <2>2. Bidir!IsFinished
    BY <1>2, <2>1 DEF Bidir!IsFinished
  <2>3. pc' = <<"done", "from">> /\ result' = Bidir!Extract
    BY <1>1, <2>2
  <2>4. IsEntry(Root("from")) /\ IsEntry(Root("to"))
    BY <1>1, <1>2, RootHasChain DEF Root
  <2>5. best.entry["from"] = Root("from") /\ best.entry["to"] = Root("to") /\ best.weight = 0
    BY <1>2, <2>1
  <2>6. result'.weight = 0
    BY <1>3, <2>3, <2>4, <2>5 DEF Bidir!Extract
  <2>7. W!Distance(query) = 0
    BY <1>1, <1>4, DistanceMeaning DEF AtOnce
  <2>8. AtOnce' /\ (W!Distance(query))' = 0 /\ \A s : Root(s)' = Root(s)
    BY <1>1, <1>4, <2>7, SearchedPrimed DEF AtOnce
  <2>9. (pc[1] \in {"head", "done"})' /\ (result.weight = W!Distance(query))'
    BY <2>3, <2>6, <2>8
  <2>10. (finished = [s \in Sides |-> TRUE])'
    BY <1>1, <2>1 DEF Sides
  <2>11. (best = [weight |-> 0, entry |-> [s \in Sides |-> Root(s)]])'
    BY <1>1, <2>1 DEF Sides, Root, NewSPTEntry
  <2> QED
    BY <2>8, <2>9, <2>10, <2>11 DEF BidirFound
<1>5. CASE ~AtOnce
  <2>1. /\ finished \in [Sides -> BOOLEAN]
        /\ \A r \in Sides : Known(tree, heap, curr, finished, pc, pending, r)
        /\ BestFits(best, tree, heap)
    BY <1>5 DEF BidirFound
  <2>2. ASSUME NEW r \in Sides PROVE Root(r) \notin heap[r] /\ (pc = <<"relax", r>>) = FALSE
    BY <1>1, <2>1 DEF Known, WhileFirst
  <2>3. ASSUME NEW r \in Sides PROVE Known(tree', heap', curr', finished', pc', pending', r)
    <3>1. pc' # <<"relax", r>> /\ pc # <<"relax", r>>
      BY <1>1
    <3>2. finished'[r] => finished[r] \/ heap[r] = {}
      BY <1>1
    <3>3. Root(r) \in heap[r] => pc' \in WhileFirst(r)
      BY <2>2
    <3>4. tree'[r] = tree[r] /\ heap'[r] = heap[r] /\ curr'[r] = curr[r]
      BY <1>1
    <3>5. Known(tree, heap, curr, finished, pc, pending, r)
      BY <2>1
    <3> QED
      BY <3>1, <3>2, <3>3, <3>4, <3>5, KnownElsewhere
  <2>4. ASSUME pc'[1] = "done" PROVE result'.weight = W!Distance(query)
    <3>1. Bidir!IsFinished /\ result' = Bidir!Extract
      BY <1>1, <2>4
    <3>2. \A s \in Sides : /\ Settled(tree[s], heap[s], curr[s], s, FALSE, pending)
                           /\ Searched(tree[s], heap[s], curr[s], s, FALSE, pending)
                           /\ Root(s) \notin heap[s] /\ IsTopped(heap, curr, s)
      BY <1>1, <2>1, <2>2 DEF BidirInv, Known
    <3>3. BothDone(best, heap, curr)
      <4>1. CASE \E s \in Sides : finished[s]
        <5>1. PICK s \in Sides : finished[s]
          BY <4>1
        <5>2. heap[s] = {}
          BY <2>1, <5>1 DEF Known
        <5> QED
          BY <5>2 DEF BothDone, Sides
      <4>2. CASE ~ \E s \in Sides : finished[s]
        <5>1. /\ best.weight # Inf
              /\ Bidir!HeapWeight(curr["from"], "from") + Bidir!HeapWeight(curr["to"], "to")
                    >= 2 * best.weight + Bidir!Approximate(query.start["to"], "to")
          BY <1>2, <3>1, <4>2 DEF Bidir!IsFinished
        <5>2. \A x, s : Bidir!HeapWeight(x, s) = Weigh(x, s)
          BY DEF Weigh, Estimate, Bidir!HeapWeight
        <5>3. best.weight \in Nat
          BY <2>1, <5>1 DEF BestFits
        <5> QED
          BY <5>1, <5>2, <5>3 DEF BothDone
      <4> QED
        BY <4>1, <4>2
    <3>4. best.weight = W!Distance(query)
      BY <1>1, <2>1, <3>2, <3>3, BestIsDistance
    <3>5. result'.weight = best.weight
      <4>1. CASE best.weight = Inf
        <5>1. best.entry["from"] = NoEntry
          BY <1>2, <2>1, <4>1 DEF BestFits
        <5> QED
          BY <3>1, <4>1, <5>1 DEF Bidir!Extract, Bidir!NoPath
      <4>2. CASE best.weight # Inf
        <5>1. \A s \in Sides : IsEntry(best.entry[s])
          BY <1>1, <2>1, <4>2, BestIsPath DEF BestFits
        <5>2. best.entry["from"] # NoEntry /\ best.entry["to"] # NoEntry
          BY <1>2, <1>3, <5>1
        <5> QED
          BY <3>1, <5>2 DEF Bidir!Extract
      <4> QED
        BY <4>1, <4>2
    <3> QED
      BY <3>4, <3>5
  <2>5. BestFits(best', tree', heap') /\ finished' \in [Sides -> BOOLEAN]
    BY <1>1, <2>1
  <2> QED
    BY <1>1, <1>5, <2>3, <2>4, <2>5, BidirFoundNext
<1> QED
  BY <1>4, <1>5

-----------------------------------------------------------------------------
\* The inductive invariant of both kinds of search, and what follows from it.

Found == IF algorithm.bidirectional THEN BidirFound ELSE UnidirFound

\* A step that changes nothing.
LEMMA FoundStays ==
    ASSUME IndInv, Found, UNCHANGED vars
    PROVE  Found'
<1>1. /\ query' = query /\ algorithm' = algorithm /\ pc' = pc /\ tree' = tree /\ heap' = heap
      /\ curr' = curr /\ pending' = pending /\ finished' = finished /\ best' = best /\ result' = result
  BY DEF vars
<1>2. CASE ~algorithm.bidirectional
  <2>1. UnidirFound
    BY <1>2 DEF Found
  <2>2. (pc \in {"pop", "relax"} => /\ Searched(tree, heap, curr, "from", pc = "relax", pending)
                                    /\ Open(tree, heap))'
    BY <1>1, <2>1, SearchedPrimed DEF UnidirFound
  <2>3. (pc # "done" => result = Unidir!NoPath)'
    BY <1>1, <2>1 DEF UnidirFound, Unidir!NoPath
  <2>4. (pc = "done" => IsAnswer(result))'
    BY <1>1, <2>1, SearchedPrimed DEF UnidirFound, IsAnswer, Unidir!NoPath
  <2>5. UnidirFound'
    BY <2>2, <2>3, <2>4 DEF UnidirFound
  <2> QED
    BY <1>1, <1>2, <2>5 DEF Found
<1>3. CASE algorithm.bidirectional
  <2>1. BidirFound
    BY <1>3 DEF Found
  <2>2. BidirFound'
    <3>1. CASE ~AtOnce
      <4>1. /\ finished' \in [Sides -> BOOLEAN]
            /\ \A s \in Sides : Known(tree', heap', curr', finished', pc', pending', s)
            /\ BestFits(best', tree', heap')
            /\ pc'[1] = "done" => result'.weight = W!Distance(query)
        BY <1>1, <2>1, <3>1 DEF BidirFound
      <4> QED
        BY <1>1, <3>1, <4>1, BidirFoundNext
    <3>2. CASE AtOnce
      <4>1. /\ AtOnce' /\ \A s : Root(s)' = Root(s)
            /\ W!Distance(query)' = W!Distance(query)
        BY <1>1, <3>2, SearchedPrimed DEF AtOnce
      <4>2. (pc[1] = "done" => result.weight = W!Distance(query))'
        BY <1>1, <2>1, <4>1 DEF BidirFound
      <4>3. (pc[1] \in {"head", "done"})' /\ (finished = [s \in Sides |-> TRUE])'
        BY <1>1, <2>1, <3>2 DEF BidirFound, Sides
      <4>4. (best = [weight |-> 0, entry |-> [s \in Sides |-> Root(s)]])'
        BY <1>1, <2>1, <3>2 DEF BidirFound, Sides, Root, NewSPTEntry
      <4> QED
        BY <4>1, <4>2, <4>3, <4>4 DEF BidirFound
    <3> QED
      BY <3>1, <3>2
  <2> QED
    BY <1>1, <1>3, <2>2 DEF Found
<1> QED
  BY <1>2, <1>3

\* One step of any search.
LEMMA FoundStep ==
    ASSUME IndInv, Found, [Next]_vars
    PROVE  Found'
<1>1. CASE Bidirectional
  <2>1. algorithm.bidirectional /\ Bidir!Next /\ UNCHANGED algorithm
    BY <1>1 DEF Bidirectional
  <2>2. BidirFound
    BY <2>1 DEF Found
  <2>3. BidirFound'
    BY <2>1, <2>2, BidirOperators, BidirFoundPop, BidirFoundRelax, BidirFoundHead DEF Bidir!Next
  <2> QED
    BY <2>1, <2>3 DEF Found
<1>2. CASE Unidirectional
  <2>1. ~algorithm.bidirectional /\ Unidir!Next /\ UNCHANGED algorithm
    BY <1>2 DEF Unidirectional
  <2>2. UnidirFound
    BY <2>1 DEF Found
  <2>3. UnidirFound'
    BY <2>1, <2>2, UnidirFoundPop, UnidirFoundRelax DEF Unidir!Next
  <2> QED
    BY <2>1, <2>3 DEF Found
<1>3. CASE UNCHANGED vars
  BY <1>3, FoundStays
<1> QED
  BY <1>1, <1>2, <1>3 DEF Next

\* What a search has found so far: every arc that leads on from an entry that was
\* popped has its entry, and the best entries of a search from both ends are
\* those of a walk no heavier than any that both trees know of (fillEdgesFrom,
\* fillEdgesTo, updateBestPathEntry).
THEOREM SearchFindsAll == Spec => []Found
<1>1. Init => IndInv /\ Found
  <2> SUFFICES ASSUME Init PROVE IndInv /\ Found
    OBVIOUS
  <2>1. CASE algorithm.bidirectional
    <3>1. Bidir!Init /\ algorithm \in Algorithms
      BY <2>1 DEF Init
    <3> QED
      BY <2>1, <3>1, BidirInit, BidirFoundInit DEF Found
  <2>2. CASE ~algorithm.bidirectional
    <3>1. Unidir!Init /\ algorithm \in Algorithms
      BY <2>2 DEF Init
    <3> QED
      BY <2>2, <3>1, UnidirInit, UnidirFoundInit DEF Found
  <2> QED
    BY <2>1, <2>2
<1>2. IndInv /\ Found /\ [Next]_vars => Found'
  BY FoundStep
<1>3. Spec => []IndInv
  BY PoppedInOrder
<1> QED
  BY <1>1, <1>2, <1>3, PTL DEF Spec

\* ShortestPathFound: whatever the network and the request, CalcPath reports a
\* path exactly when there is one, and its weight is the least.
THEOREM ShortestPathIsFound == Spec => []ShortestPathFound
<1>1. Found => ShortestPathFound
  BY DEF Found, BidirFound, UnidirFound, IsAnswer, ShortestPathFound
<1> QED
  BY <1>1, SearchFindsAll, PTL

\* The path of a search from both ends is the two chains of edges, glued.
LEMMA ExtractGlues ==
    ASSUME best.entry["from"] # NoEntry, best.entry["to"] # NoEntry
    PROVE  Bidir!Extract.edges = Glued(best.entry["from"].edges, best.entry["to"].edges)
<1>1. \A es : Bidir!Reverse(es) = Reverse(es)
  BY DEF Bidir!Reverse, Reverse
<1>2. Bidir!Extract = [weight |-> best.weight,
                       edges |-> best.entry["from"].edges \o Bidir!Reverse(best.entry["to"].edges)]
  BY DEF Bidir!Extract
<1> QED
  BY <1>1, <1>2 DEF Glued

\* The best entries always are those of the path that would be extracted.
LEMMA BestOfFound ==
    ASSUME IndInv, Found
    PROVE  BestWeightIsOfBestPath
<1> SUFFICES ASSUME algorithm.bidirectional, best.weight # Inf
             PROVE  /\ best.entry["from"].node = best.entry["to"].node
                    /\ W!IsWalk(query, Bidir!Extract.edges, best.weight)
  BY DEF BestWeightIsOfBestPath
<1>1. query \in Queries /\ BidirFound /\ "from" \in Sides /\ "to" \in Sides
  BY DEF IndInv, Found, Sides
<1>2. /\ NoEntry \notin [node : DOMAIN query.pos, weight : Nat, edges : Seq(DOMAIN query.edges)]
      /\ \A x : IsEntry(x) => x # NoEntry
  <2>1. NoEntry \notin [node : DOMAIN query.pos, weight : Nat, edges : Seq(DOMAIN query.edges)]
    BY <1>1, QueriesAssumption
  <2>2. \A x : IsEntry(x) => x \in [node : DOMAIN query.pos, weight : Nat, edges : Seq(DOMAIN query.edges)]
    BY DEF IsEntry
  <2> QED
    BY <2>1, <2>2
<1>3. CASE AtOnce
  <2>1. best = [weight |-> 0, entry |-> [s \in Sides |-> Root(s)]]
    BY <1>1, <1>3 DEF BidirFound
  <2>2. best.entry["from"] = Root("from") /\ best.entry["to"] = Root("to") /\ best.weight = 0
    BY <1>1, <2>1
  <2>3. /\ IsEntry(Root("from")) /\ IsEntry(Root("to"))
        /\ Root("from").edges = << >> /\ Root("to").edges = << >>
        /\ Root("from").node = query.start["from"] /\ Root("to").node = query.start["to"]
    BY <1>1, RootHasChain DEF Root, NewSPTEntry
  <2>4. query.start["from"] = query.start["to"]
    BY <1>3 DEF AtOnce, Trivial
  <2>5. Glued(<< >>, << >>) = << >>
    BY DEF Glued, Reverse
  <2>6. Bidir!Extract.edges = << >>
    BY <1>2, <2>2, <2>3, <2>5, ExtractGlues
  <2> QED
    BY <1>1, <2>2, <2>3, <2>4, <2>6, EmptyWalk
<1>4. CASE ~AtOnce
  <2>1. BestFits(best, tree, heap)
    BY <1>1, <1>4 DEF BidirFound
  <2>2. Met(best, tree, heap)
    BY <2>1 DEF BestFits
  <2>3. /\ \A s \in Sides : IsEntry(best.entry[s])
        /\ best.entry["from"].node = best.entry["to"].node
        /\ W!IsWalk(query, Glued(best.entry["from"].edges, best.entry["to"].edges), best.weight)
    BY <1>1, <2>2, BestIsPath
  <2>4. Bidir!Extract.edges = Glued(best.entry["from"].edges, best.entry["to"].edges)
    BY <1>1, <1>2, <2>3, ExtractGlues
  <2> QED
    BY <2>3, <2>4
<1> QED
  BY <1>3, <1>4

\* BestWeightIsOfBestPath: extractPath never glues chains that end in different
\* nodes, and the best weight never is that of another path.
THEOREM BestWeightFits == Spec => []BestWeightIsOfBestPath
  BY PoppedInOrder, SearchFindsAll, BestOfFound, PTL

=============================================================================
