--------------------------- MODULE CHSearchProofs ---------------------------
(***************************************************************************)
(* Queries on a contraction hierarchy, for any network, any order of the   *)
(* nodes and any request: as the nodes are contracted, the walks up the    *)
(* hierarchy go on to meet at the distance of their ends; the search that  *)
(* climbs it from both ends, stalls entries on demand and stops early      *)
(* reports a route of the base graph, and none is shorter.                 *)
(***************************************************************************)
EXTENDS CHRoutingProofs

-----------------------------------------------------------------------------

\* A walk from s to x[1] of weight x[2] has a first arc.
HasFirstArc(N, arcs, s, x) ==
    \E arc \in arcs, r \in Nat :
        /\ arc[1] = s /\ arc[3] # Inf
        /\ <<x[1], r>> \in Walked(N, arcs, arc[2]) /\ x[2] = arc[3] + r

\* Every walk but the empty one has.
LEMMA WalkedFirst ==
    ASSUME NEW N, NEW arcs, IsArcs(arcs, N), NEW s \in N, NEW x \in Walked(N, arcs, s),
           x # <<s, 0>>
    PROVE  HasFirstArc(N, arcs, s, x)
<1> DEFINE Begins(z) ==
              \E arc \in arcs, r \in Nat :
                 /\ arc[1] = s /\ arc[3] # Inf
                 /\ <<z[1], r>> \in Walked(N, arcs, arc[2]) /\ z[2] = arc[3] + r
           C == {z \in N \X Nat : z = <<s, 0>> \/ Begins(z)}
<1>1. <<s, 0>> \in C
  OBVIOUS
<1>2. ASSUME NEW z \in Walked(N, arcs, s) \cap C, NEW arc \in arcs,
             arc[1] = z[1], arc[3] # Inf
      PROVE  <<arc[2], z[2] + arc[3]>> \in C
  <2>1. z \in N \X Nat /\ arc[1] \in N /\ arc[2] \in N /\ arc[3] \in Nat
    BY <1>2 DEF IsArcs
  <2>2. <<arc[2], z[2] + arc[3]>> \in N \X Nat
    BY <2>1
  <2>3. CASE z = <<s, 0>>
    <3>1. arc[1] = s /\ z[2] = 0
      BY <1>2, <2>3
    <3>2. <<arc[2], 0>> \in Walked(N, arcs, arc[2])
      BY <2>1, WalkedClosed DEF IsClosed
    <3>3. z[2] + arc[3] = arc[3] + 0
      BY <2>1, <3>1
    <3>4. Begins(<<arc[2], z[2] + arc[3]>>)
      BY <1>2, <3>1, <3>2, <3>3
    <3> QED
      BY <2>2, <3>4
  <2>4. CASE Begins(z)
    <3>1. PICK first \in arcs, r \in Nat :
             /\ first[1] = s /\ first[3] # Inf
             /\ <<z[1], r>> \in Walked(N, arcs, first[2]) /\ z[2] = first[3] + r
      BY <2>4
    <3>2. first[2] \in N /\ first[3] \in Nat
      BY <3>1 DEF IsArcs
    <3>3. <<arc[2], r + arc[3]>> \in Walked(N, arcs, first[2])
      BY <1>2, <3>1, <3>2, WalkedClosed DEF IsClosed
    <3>4. r + arc[3] \in Nat /\ z[2] + arc[3] = first[3] + (r + arc[3])
      BY <2>1, <3>1, <3>2
    <3>5. Begins(<<arc[2], z[2] + arc[3]>>)
      BY <3>1, <3>3, <3>4
    <3> QED
      BY <2>2, <3>5
  <2> QED
    BY <2>3, <2>4
<1> HIDE DEF C
<1>3. Walked(N, arcs, s) \subseteq C
  BY <1>1, <1>2, WalkedInduction
<1>4. x \in C
  BY <1>3
<1> QED
  BY <1>4 DEF C, HasFirstArc

\* More arcs, more walks.
LEMMA WalkedMore ==
    ASSUME NEW N, NEW A, NEW B, A \subseteq B, IsArcs(B, N), NEW s \in N
    PROVE  IsArcs(A, N) /\ Walked(N, A, s) \subseteq Walked(N, B, s)
<1>1. IsArcs(A, N)
  BY DEF IsArcs
<1>2. IsClosed(Walked(N, B, s), B, s)
  BY WalkedClosed
<1> DEFINE C == Walked(N, B, s)
<1>3. <<s, 0>> \in C
  BY <1>2 DEF IsClosed
<1>4. ASSUME NEW x \in Walked(N, A, s) \cap C, NEW arc \in A, arc[1] = x[1], arc[3] # Inf
      PROVE  <<arc[2], x[2] + arc[3]>> \in C
  BY <1>2, <1>4 DEF IsClosed
<1> HIDE DEF C
<1>5. Walked(N, A, s) \subseteq C
  BY <1>1, <1>3, <1>4, WalkedInduction
<1> QED
  BY <1>1, <1>5 DEF C

-----------------------------------------------------------------------------

\* An edge of the hierarchy leads up from u to v.
Climbs(e, u, v) == CHEnds(e) = {u, v} /\ level[u] < level[v]

\* The arcs a side of the search may take up the hierarchy: an edge that is
\* explored at its lower end, with its weight towards the upper end when the
\* search comes from the start and away from it when it comes from the goal.
UpArcs(s) ==
    {arc \in Nodes \X Nodes \X (Nat \ {0}) :
        \E e \in Explore(arc[1]) :
           /\ Climbs(e, arc[1], arc[2])
           /\ arc[3] = CHWeight(e, IF s = "from" THEN arc[1] ELSE arc[2])}

\* A walk up from the start and one up from the goal meet, within weight x.
Meets(a, b, x) ==
    \E m \in Nodes, v, w \in Nat :
        /\ <<m, v>> \in Walked(Nodes, UpArcs("from"), a)
        /\ <<m, w>> \in Walked(Nodes, UpArcs("to"), b)
        /\ v + w <= x

\* They reach two nodes that are not contracted yet and are joined by a walk on
\* the base graph, within weight x.
IsCrossing(a, b, x, c, d, v, u, w) ==
    /\ c \in Alive /\ d \in Alive /\ v \in Nat /\ u \in Nat /\ w \in Nat
    /\ <<c, v>> \in Walked(Nodes, UpArcs("from"), a)
    /\ <<d, u>> \in Walked(Nodes, BaseArcs, c)
    /\ <<d, w>> \in Walked(Nodes, UpArcs("to"), b)
    /\ v + u + w <= x
\* The walks up from both ends leave a gap between remaining nodes.
Crosses(a, b, x) == \E c, d, v, u, w : IsCrossing(a, b, x, c, d, v, u, w)

\* Every walk of the base graph is matched by one that goes up the hierarchy
\* from both of its ends, apart from what is not contracted yet.
WalksClimb ==
    \A a, b \in Nodes : \A x \in Nat :
        x < MaxStoredWeight /\ <<b, x>> \in Walked(Nodes, BaseArcs, a) =>
            Meets(a, b, x) \/ Crosses(a, b, x)

\* A node has no shortcuts before it is contracted.
LastInv ==
    /\ lastShortcut \in [Nodes -> {NoShortcut} \cup (1 .. Len(shortcuts))]
    /\ \A n \in Alive : lastShortcut[n] = NoShortcut

\* The walks up the hierarchy and the shortcuts they use.
ClimbInv == LastInv /\ WalksClimb

\* They are arcs.
LEMMA UpArcsTyped == \A s : IsArcs(UpArcs(s), Nodes)
  BY DEF IsArcs, UpArcs

\* At first nothing is contracted.
LEMMA InitClimb ==
    ASSUME Init
    PROVE  ClimbInv
<1>1. graph \in Graphs /\ phase = "poll" /\ level = [n \in Nodes |-> MaxLevel]
      /\ lastShortcut = [n \in Nodes |-> NoShortcut]
  BY DEF Init, EmptyStorage
<1>2. Alive = Nodes
  BY <1>1 DEF Alive
<1>3. LastInv
  BY <1>1, <1>2 DEF LastInv
<1>4. ASSUME NEW a \in Nodes, NEW b \in Nodes, NEW x \in Nat, <<b, x>> \in Walked(Nodes, BaseArcs, a)
      PROVE  Crosses(a, b, x)
  <2>1. <<a, 0>> \in Walked(Nodes, UpArcs("from"), a)
    BY UpArcsTyped, WalkedClosed DEF IsClosed
  <2>2. <<b, 0>> \in Walked(Nodes, UpArcs("to"), b)
    BY UpArcsTyped, WalkedClosed DEF IsClosed
  <2>3. 0 + x + 0 <= x
    OBVIOUS
  <2>4. IsCrossing(a, b, x, a, b, 0, x, 0)
    BY <1>2, <1>4, <2>1, <2>2, <2>3 DEF IsCrossing
  <2> QED
    BY <2>4 DEF Crosses
<1>5. WalksClimb
  BY <1>4 DEF WalksClimb
<1> QED
  BY <1>3, <1>5 DEF ClimbInv

-----------------------------------------------------------------------------

\* The same after a step.
LEMMA UpArcsTypedNext == TRUE => (\A s : IsArcs(UpArcs(s), Nodes))'
<1>1. TRUE => \A s : IsArcs(UpArcs(s), Nodes)
  BY UpArcsTyped
<1> QED
  BY <1>1, PTL

\* Explored edges and levels that stay make up arcs that stay.
LEMMA UpArcsGrow ==
    ASSUME graph' = graph, NEW s,
           \A u \in Nodes : \A e \in Explore(u) : e \in Explore(u)' /\ CHEdges'[e] = CHEdges[e],
           \A u, v \in Nodes : level[u] < level[v] => level'[u] < level'[v]
    PROVE  UpArcs(s) \subseteq UpArcs(s)'
<1>1. Nodes' = Nodes
  BY DEF Nodes
<1> SUFFICES ASSUME NEW arc \in UpArcs(s) PROVE arc \in UpArcs(s)'
  OBVIOUS
<1>2. PICK e \in Explore(arc[1]) :
         Climbs(e, arc[1], arc[2]) /\ arc[3] = CHWeight(e, IF s = "from" THEN arc[1] ELSE arc[2])
  BY DEF UpArcs
<1>3. arc \in Nodes \X Nodes \X (Nat \ {0}) /\ arc[1] \in Nodes /\ arc[2] \in Nodes
  BY DEF UpArcs
<1>4. e \in Explore(arc[1])' /\ CHEdges'[e] = CHEdges[e]
  BY <1>2, <1>3
<1>5. Climbs(e, arc[1], arc[2])'
  BY <1>2, <1>3, <1>4 DEF Climbs, CHEnds
<1>6. arc[3] = CHWeight(e, IF s = "from" THEN arc[1] ELSE arc[2])'
  BY <1>2, <1>4 DEF CHWeight
<1> QED
  BY <1>1, <1>3, <1>4, <1>5, <1>6 DEF UpArcs

\* More walks up the hierarchy meet where the walks before met.
LEMMA WalksUpStay ==
    ASSUME graph' = graph, \A s : UpArcs(s) \subseteq UpArcs(s)', NEW s, NEW a \in Nodes
    PROVE  Walked(Nodes, UpArcs(s), a) \subseteq Walked(Nodes, UpArcs(s)', a)
<1>1. Nodes' = Nodes
  BY DEF Nodes
<1>2. IsArcs(UpArcs(s)', Nodes)
  <2>1. (\A t : IsArcs(UpArcs(t), Nodes))'
    BY UpArcsTypedNext
  <2> QED
    BY <1>1, <2>1
<1>3. PICK B : B = UpArcs(s)'
  OBVIOUS
<1>4. UpArcs(s) \subseteq B /\ IsArcs(B, Nodes)
  BY <1>2, <1>3
<1>5. Walked(Nodes, UpArcs(s), a) \subseteq Walked(Nodes, B, a)
  BY <1>4, WalkedMore
<1> QED
  BY <1>3, <1>5

\* Two walks that meet go on to meet.
LEMMA MeetsStay ==
    ASSUME graph' = graph, \A s : UpArcs(s) \subseteq UpArcs(s)',
           NEW a \in Nodes, NEW b \in Nodes, NEW x \in Nat, Meets(a, b, x)
    PROVE  Meets(a, b, x)'
<1>1. PICK m \in Nodes, v \in Nat, w \in Nat :
        /\ <<m, v>> \in Walked(Nodes, UpArcs("from"), a)
        /\ <<m, w>> \in Walked(Nodes, UpArcs("to"), b)
        /\ v + w <= x
  BY DEF Meets
<1>2. /\ <<m, v>> \in Walked(Nodes, UpArcs("from")', a)
      /\ <<m, w>> \in Walked(Nodes, UpArcs("to")', b)
  BY <1>1, WalksUpStay
<1>3. Nodes' = Nodes
  BY DEF Nodes
<1> QED
  BY <1>1, <1>2, <1>3 DEF Meets

\* A gap stays one as long as the nodes at its sides are not contracted.
LEMMA CrossingStays ==
    ASSUME graph' = graph, \A s : UpArcs(s) \subseteq UpArcs(s)',
           NEW a \in Nodes, NEW b \in Nodes, NEW x \in Nat, NEW c, NEW d, NEW v, NEW u, NEW w,
           IsCrossing(a, b, x, c, d, v, u, w), c \in Alive', d \in Alive'
    PROVE  IsCrossing(a, b, x, c, d, v, u, w)'
<1>1. /\ v \in Nat /\ u \in Nat /\ w \in Nat
      /\ <<c, v>> \in Walked(Nodes, UpArcs("from"), a)
      /\ <<d, u>> \in Walked(Nodes, BaseArcs, c)
      /\ <<d, w>> \in Walked(Nodes, UpArcs("to"), b)
      /\ v + u + w <= x
  BY DEF IsCrossing
<1>2. /\ <<c, v>> \in Walked(Nodes, UpArcs("from")', a)
      /\ <<d, w>> \in Walked(Nodes, UpArcs("to")', b)
  BY <1>1, WalksUpStay
<1>3. Nodes' = Nodes /\ BaseArcs' = BaseArcs
  BY DEF Nodes, BaseArcs
<1> QED
  BY <1>1, <1>2, <1>3 DEF IsCrossing

\* Steps that contract no node.
LEMMA WalksClimbStay ==
    ASSUME WalksClimb, graph' = graph, \A s : UpArcs(s) \subseteq UpArcs(s)', Alive' = Alive
    PROVE  WalksClimb'
<1>1. Nodes' = Nodes /\ BaseArcs' = BaseArcs
  BY DEF Nodes, BaseArcs
<1> SUFFICES ASSUME NEW a \in Nodes, NEW b \in Nodes, NEW x \in Nat,
                    x < MaxStoredWeight, <<b, x>> \in Walked(Nodes, BaseArcs, a)
             PROVE  Meets(a, b, x)' \/ Crosses(a, b, x)'
  BY <1>1 DEF WalksClimb
<1>2. Meets(a, b, x) \/ Crosses(a, b, x)
  BY DEF WalksClimb
<1>3. CASE Meets(a, b, x)
  BY <1>3, MeetsStay
<1>4. CASE Crosses(a, b, x)
  <2>1. PICK c, d, v, u, w : IsCrossing(a, b, x, c, d, v, u, w)
    BY <1>4 DEF Crosses
  <2>2. c \in Alive' /\ d \in Alive'
    BY <2>1 DEF IsCrossing
  <2>3. IsCrossing(a, b, x, c, d, v, u, w)'
    BY <2>1, <2>2, CrossingStays
  <2> QED
    BY <2>3 DEF Crosses
<1> QED
  BY <1>2, <1>3, <1>4

-----------------------------------------------------------------------------

\* What is explored at a node is stored and ends there.
ExploredStored == \A n \in Nodes : \A e \in Explore(n) : e \in StoredEdges /\ n \in CHEnds(e)

\* The edges explored at a node are stored: base edges and its own shortcuts.
LEMMA ExploreFacts ==
    ASSUME graph \in Graphs, shortcuts \in Seq(StoredShortcut), LastInv
    PROVE  ExploredStored
<1> SUFFICES ASSUME NEW n \in Nodes, NEW e \in Explore(n) PROVE e \in StoredEdges /\ n \in CHEnds(e)
  BY DEF ExploredStored
<1>1. GetEdges \in Nat /\ Len(shortcuts) \in Nat
  BY CHEdgesFacts
<1>2. CASE e \in 1 .. GetEdges /\ n \in {graph.edges[e].a, graph.edges[e].b}
  <2>1. e \in StoredEdges /\ CHEdges[e] = graph.edges[e]
    BY <1>2, CHEdgesFacts
  <2> QED
    BY <1>2, <2>1 DEF CHEnds
<1>3. CASE \E i \in ShortcutsOf(n) : e = GetEdges + i
  <2>1. PICK i \in ShortcutsOf(n) : e = GetEdges + i
    BY <1>3
  <2>2. lastShortcut[n] # NoShortcut /\ i \in 1 .. lastShortcut[n]
        /\ \A j \in i .. lastShortcut[n] : shortcuts[j].a = n
    BY DEF ShortcutsOf
  <2>3. lastShortcut[n] \in 1 .. Len(shortcuts)
    BY <2>2 DEF LastInv
  <2>4. i \in 1 .. Len(shortcuts) /\ i \in i .. lastShortcut[n]
    BY <1>1, <2>2, <2>3
  <2>5. shortcuts[i].a = n
    BY <2>2, <2>4
  <2>6. e \in StoredEdges /\ CHEdges[e] = RecordEdge(shortcuts[i])
    BY <2>1, <2>4, CHEdgesFacts
  <2> QED
    BY <2>5, <2>6 DEF CHEnds, RecordEdge
<1> QED
  BY <1>2, <1>3 DEF Explore

\* Steps that leave the hierarchy alone.
LEMMA SameClimb ==
    ASSUME ClimbInv, graph' = graph, level' = level, lastShortcut' = lastShortcut,
           shortcuts' = shortcuts, Alive' = Alive
    PROVE  ClimbInv'
<1>1. \A u : Explore(u)' = Explore(u)
  BY DEF Explore, ShortcutsOf, GetEdges
<1>2. CHEdges' = CHEdges
  BY DEF CHEdges
<1>3. \A s : UpArcs(s) \subseteq UpArcs(s)'
  BY <1>1, <1>2, UpArcsGrow
<1>4. WalksClimb'
  BY <1>3, WalksClimbStay DEF ClimbInv
<1>5. Nodes' = Nodes
  BY DEF Nodes
<1>6. LastInv'
  BY <1>5 DEF ClimbInv, LastInv
<1> QED
  BY <1>4, <1>6 DEF ClimbInv

\* A node that is taken from the queue gets a level above all others.
LEMMA PollClimb ==
    ASSUME ListsInv, LevelsInv, ClimbInv, NEW n \in Nodes, PollNode(n)
    PROVE  ClimbInv'
<1>1. /\ graph' = graph /\ lastShortcut' = lastShortcut /\ shortcuts' = shortcuts
  BY DEF PollNode
<1>2. graph \in Graphs /\ level \in [Nodes -> 0 .. MaxLevel] /\ MaxLevel \in Nat
  BY BaseFacts DEF ListsInv, LevelsInv
<1>3. /\ Alive' = Alive /\ n \in Remaining
      /\ level' = [level EXCEPT ![n] = Cardinality(Contracted)]
      /\ Cardinality(Contracted) \in 0 .. (MaxLevel - 1)
  BY <1>2, PollAlive DEF Contracted
<1>4. ASSUME NEW u \in Nodes, NEW v \in Nodes, level[u] < level[v]
      PROVE  level'[u] < level'[v]
  <2>1. level[u] \in 0 .. MaxLevel /\ level[v] \in 0 .. MaxLevel /\ level[n] = MaxLevel
    BY <1>2, <1>3 DEF Remaining
  <2>2. u # n /\ level[u] # MaxLevel
    BY <1>2, <1>4, <2>1
  <2>3. u \in Contracted
    BY <2>2 DEF Contracted, Remaining
  <2>4. level[u] < Cardinality(Contracted)
    BY <2>3 DEF LevelsInv
  <2> QED
    BY <1>2, <1>3, <1>4, <2>2, <2>4
<1>5. \A u : Explore(u)' = Explore(u)
  BY <1>1 DEF Explore, ShortcutsOf, GetEdges
<1>6. CHEdges' = CHEdges
  BY <1>1 DEF CHEdges
<1>7. \A s : UpArcs(s) \subseteq UpArcs(s)'
  BY <1>1, <1>4, <1>5, <1>6, UpArcsGrow
<1>8. WalksClimb'
  BY <1>1, <1>3, <1>7, WalksClimbStay DEF ClimbInv
<1>9. Nodes' = Nodes
  BY <1>1 DEF Nodes
<1>10. LastInv'
  BY <1>1, <1>3, <1>9 DEF ClimbInv, LastInv
<1> QED
  BY <1>8, <1>10 DEF ClimbInv

\* Renaming the skipped edges changes no end and no weight.
LEMMA FinishClimb ==
    ASSUME ListsInv, StoreInv, ClimbInv, FinishContraction
    PROVE  ClimbInv'
<1>1. /\ graph' = graph /\ lastShortcut' = lastShortcut /\ level' = level /\ node' = node
      /\ phase = "poll" /\ phase' = "done"
  BY DEF FinishContraction
<1>2. /\ shortcuts \in Seq(StoredShortcut)
      /\ shortcuts' \in Seq(StoredShortcut) /\ Len(shortcuts') = Len(shortcuts)
      /\ \A i \in 1 .. Len(shortcuts) : ReplacedAs(shortcuts'[i], shortcuts[i])
  BY FinishEffect DEF StoreInv
<1>3. DOMAIN shortcuts = 1 .. Len(shortcuts) /\ DOMAIN shortcuts' = 1 .. Len(shortcuts)
      /\ Len(shortcuts) \in Nat
  BY <1>2, ElementsOf
<1>4. \A i \in 1 .. Len(shortcuts) :
         /\ shortcuts'[i].a = shortcuts[i].a /\ shortcuts'[i].b = shortcuts[i].b
         /\ shortcuts'[i].fwd = shortcuts[i].fwd /\ shortcuts'[i].bwd = shortcuts[i].bwd
         /\ shortcuts'[i].weight = shortcuts[i].weight
  BY <1>2 DEF ReplacedAs
<1>5. CHEdges' = CHEdges
  BY <1>1, <1>3, <1>4 DEF CHEdges
<1>6. LastInv
  BY DEF ClimbInv
<1>7. ASSUME NEW u \in Nodes, NEW e \in Explore(u) PROVE e \in Explore(u)'
  <2>1. CASE e \in 1 .. GetEdges /\ u \in {graph.edges[e].a, graph.edges[e].b}
    BY <1>1, <2>1 DEF Explore, GetEdges
  <2>2. CASE \E i \in ShortcutsOf(u) : e = GetEdges + i
    <3>1. PICK i \in ShortcutsOf(u) : e = GetEdges + i
      BY <2>2
    <3>2. lastShortcut[u] # NoShortcut /\ i \in 1 .. lastShortcut[u]
          /\ \A j \in i .. lastShortcut[u] : shortcuts[j].a = u
      BY DEF ShortcutsOf
    <3>3. lastShortcut[u] \in 1 .. Len(shortcuts)
      BY <3>2, <1>6 DEF LastInv
    <3>4. \A j \in i .. lastShortcut[u] : shortcuts'[j].a = u
      <4> SUFFICES ASSUME NEW j \in i .. lastShortcut[u] PROVE shortcuts'[j].a = u
        OBVIOUS
      <4>1. j \in 1 .. Len(shortcuts)
        BY <1>3, <3>2, <3>3
      <4> QED
        BY <1>4, <3>2, <4>1
    <3>5. i \in ShortcutsOf(u)'
      BY <1>1, <3>2, <3>4 DEF ShortcutsOf
    <3> QED
      BY <1>1, <3>1, <3>5 DEF Explore, GetEdges
  <2> QED
    BY <2>1, <2>2 DEF Explore
<1>8. \A s : UpArcs(s) \subseteq UpArcs(s)'
  BY <1>1, <1>5, <1>7, UpArcsGrow
<1>9. Nodes' = Nodes /\ MaxLevel' = MaxLevel
  BY <1>1 DEF Nodes, MaxLevel
<1>10. Alive' = Alive
  BY <1>1, <1>9 DEF Alive
<1>11. WalksClimb'
  BY <1>1, <1>8, <1>10, WalksClimbStay DEF ClimbInv
<1>12. LastInv'
  BY <1>1, <1>2, <1>6, <1>9, <1>10 DEF LastInv
<1> QED
  BY <1>11, <1>12 DEF ClimbInv

-----------------------------------------------------------------------------

\* What the ids of stored edges stand for.
StoredEdgesNumbered ==
    /\ \A k \in 1 .. GetEdges : CHEdges[k] = graph.edges[k]
    /\ \A i \in 1 .. Len(shortcuts) : CHEdges[GetEdges + i] = RecordEdge(shortcuts[i])

\* The ids of the stored edges are those of the base edges and of the shortcuts.
LEMMA EdgesNumbered ==
    graph \in Graphs /\ shortcuts \in Seq(StoredShortcut) => StoredEdgesNumbered
  BY CHEdgesFacts DEF StoredEdgesNumbered

\* The same after a step.
LEMMA EdgesNumberedNext ==
    (graph \in Graphs /\ shortcuts \in Seq(StoredShortcut))' => StoredEdgesNumbered'
  BY EdgesNumbered, PTL

\* The iterator begins at the last of the new shortcuts.
LEMMA LastEffect ==
    ASSUME ListsInv, LastInv, InsertShortcuts, NEW new, Stores(new), shortcuts \in Seq(StoredShortcut)
    PROVE  /\ \A u \in Nodes \ {node} : lastShortcut'[u] = lastShortcut[u]
           /\ lastShortcut' \in [Nodes -> {NoShortcut} \cup (1 .. Len(shortcuts'))]
           /\ Len(new) > 0 => lastShortcut'[node] = Len(shortcuts')
<1> DEFINE all == NewShortcuts
           records == [i \in DOMAIN all |-> all[i].record]
           stored == [i \in DOMAIN records |-> [records[i] EXCEPT !.weight = StoredWeight(@)]]
           n == Len(all)
<1>1. /\ shortcuts' = shortcuts \o stored
      /\ lastShortcut' = [lastShortcut EXCEPT ![node] = IF records = << >> THEN @ ELSE Len(shortcuts')]
  BY DEF InsertShortcuts, AddShortcuts
<1>2. node \in Nodes /\ phase = "contract" /\ node \in Alive /\ graph \in Graphs
  BY DEF InsertShortcuts, ListsInv, Alive
<1>3. /\ lastShortcut \in [Nodes -> {NoShortcut} \cup (1 .. Len(shortcuts))]
      /\ lastShortcut[node] = NoShortcut
  BY <1>2 DEF LastInv
<1>4. Len(shortcuts') = Len(shortcuts) + Len(new) /\ Len(new) \in Nat /\ Len(shortcuts) \in Nat
  BY DEF Stores, ServesAll
<1>5. all \in Seq(NewEntry)
  BY <1>2, NewShortcutsServe DEF ServesAll
<1> HIDE DEF all
<1>6. n \in Nat /\ DOMAIN all = 1 .. n /\ \A i \in 1 .. n : all[i].record \in NewRecord
  <2>1. \A x \in NewEntry : x.record \in NewRecord
    BY DEF NewEntry
  <2> QED
    BY <1>5, <2>1
<1>7. \A i \in 1 .. n : stored[i] \in StoredShortcut
  <2> SUFFICES ASSUME NEW i \in 1 .. n PROVE stored[i] \in StoredShortcut
    OBVIOUS
  <2>1. PICK r \in NewRecord : r = all[i].record
    BY <1>6
  <2>2. stored[i] = [r EXCEPT !.weight = StoredWeight(@)]
    BY <1>6, <2>1
  <2> QED
    BY <1>2, <2>2, StoredFits
<1>8. stored \in [1 .. n -> StoredShortcut]
  <2>1. stored = [i \in 1 .. n |-> stored[i]]
    BY <1>6
  <2> HIDE DEF stored
  <2> QED
    BY <1>7, <2>1
<1>9. records # << >> => n > 0
  BY <1>6
<1>10. n > 0 => records # << >>
  BY <1>6
<1> HIDE DEF stored, records
<1>11. stored \in Seq(StoredShortcut) /\ Len(stored) = n
  BY <1>6, <1>8, FunctionIsList
<1>12. Len(shortcuts') = Len(shortcuts) + n
  <2>1. PICK x, y : x = shortcuts /\ y = stored
    OBVIOUS
  <2>2. x \in Seq(StoredShortcut) /\ y \in Seq(StoredShortcut) /\ Len(y) = n
    BY <1>11, <2>1
  <2>3. Len(x \o y) = Len(x) + Len(y)
    <3> HIDE DEF n
    <3> QED
      BY <2>2, ConcatProperties
  <2> QED
    BY <1>1, <2>1, <2>2, <2>3
<1> HIDE DEF n
<1>13. n = Len(new)
  BY <1>4, <1>6, <1>12
<1>14. \A u \in Nodes \ {node} : lastShortcut'[u] = lastShortcut[u]
  BY <1>1, <1>3
<1>15. lastShortcut'[node] = IF n > 0 THEN Len(shortcuts') ELSE NoShortcut
  BY <1>1, <1>2, <1>3, <1>9, <1>10
<1>16. n > 0 => Len(shortcuts') \in 1 .. Len(shortcuts')
  BY <1>4, <1>13
<1>17. lastShortcut' \in [Nodes -> {NoShortcut} \cup (1 .. Len(shortcuts'))]
  <2>1. \A u \in Nodes : lastShortcut'[u] \in {NoShortcut} \cup (1 .. Len(shortcuts'))
    BY <1>3, <1>4, <1>14, <1>15, <1>16
  <2>2. DOMAIN lastShortcut' = Nodes /\ lastShortcut' = [u \in DOMAIN lastShortcut' |-> lastShortcut'[u]]
    BY <1>1, <1>3
  <2> QED
    BY <2>1, <2>2
<1> QED
  BY <1>13, <1>14, <1>15, <1>17

-----------------------------------------------------------------------------

\* What was explored before a node's shortcuts are inserted is explored afterwards.
LEMMA InsertExplored ==
    ASSUME ListsInv, StoreInv, LastInv, InsertShortcuts, NEW new, Stores(new)
    PROVE  \A u \in Nodes : \A e \in Explore(u) : e \in Explore(u)' /\ CHEdges'[e] = CHEdges[e]
<1>1. /\ graph \in Graphs /\ graph' = graph /\ shortcuts \in Seq(StoredShortcut) /\ GetEdges' = GetEdges
      /\ node \in Nodes /\ node \in Alive
  BY DEF ListsInv, InsertShortcuts, StoreInv, GetEdges, Alive
<1>2. StoredShortcut' = StoredShortcut
  BY <1>1 DEF StoredShortcut, Nodes
<1>3. shortcuts' \in Seq(StoredShortcut)
  BY DEF Stores
<1>4. StoredEdgesNumbered /\ StoredEdgesNumbered'
  BY <1>1, <1>2, <1>3, EdgesNumbered, EdgesNumberedNext
<1>5. /\ Len(shortcuts') = Len(shortcuts) + Len(new) /\ Len(new) \in Nat /\ Len(shortcuts) \in Nat
      /\ \A i \in 1 .. Len(shortcuts) : shortcuts'[i] = shortcuts[i]
  BY DEF Stores, ServesAll
<1>6. \A u \in Nodes \ {node} : lastShortcut'[u] = lastShortcut[u]
  BY <1>1, LastEffect
<1>7. \A i \in 1 .. Len(shortcuts) : i \in 1 .. Len(shortcuts')
  BY <1>5
<1> SUFFICES ASSUME NEW u \in Nodes, NEW e \in Explore(u)
             PROVE  e \in Explore(u)' /\ CHEdges'[e] = CHEdges[e]
  OBVIOUS
<1>8. CASE e \in 1 .. GetEdges /\ u \in {graph.edges[e].a, graph.edges[e].b}
  <2>1. e \in Explore(u)'
    BY <1>1, <1>8 DEF Explore
  <2>2. CHEdges[e] = graph.edges[e] /\ CHEdges'[e] = graph.edges[e]
    BY <1>1, <1>4, <1>8 DEF StoredEdgesNumbered
  <2> QED
    BY <2>1, <2>2
<1>9. CASE \E i \in ShortcutsOf(u) : e = GetEdges + i
  <2>1. PICK i \in ShortcutsOf(u) : e = GetEdges + i
    BY <1>9
  <2>2. lastShortcut[u] # NoShortcut /\ i \in 1 .. lastShortcut[u]
        /\ \A j \in i .. lastShortcut[u] : shortcuts[j].a = u
    BY DEF ShortcutsOf
  <2>3. lastShortcut[u] \in 1 .. Len(shortcuts)
    BY <2>2 DEF LastInv
  <2>4. u # node
    BY <1>1, <2>2 DEF LastInv
  <2>5. \A j \in i .. lastShortcut[u] : shortcuts'[j].a = u
    <3> SUFFICES ASSUME NEW j \in i .. lastShortcut[u] PROVE shortcuts'[j].a = u
      OBVIOUS
    <3>1. j \in 1 .. Len(shortcuts)
      BY <1>5, <2>2, <2>3
    <3> QED
      BY <1>5, <2>2, <3>1
  <2>6. lastShortcut'[u] = lastShortcut[u]
    BY <1>6, <2>4
  <2>7. i \in ShortcutsOf(u)'
    BY <2>2, <2>5, <2>6 DEF ShortcutsOf
  <2>8. e \in Explore(u)'
    BY <1>1, <2>1, <2>7 DEF Explore
  <2>9. i \in 1 .. Len(shortcuts) /\ i \in 1 .. Len(shortcuts')
    BY <1>5, <1>7, <2>2, <2>3
  <2>10. CHEdges[GetEdges + i] = RecordEdge(shortcuts[i])
    BY <1>4, <2>9 DEF StoredEdgesNumbered
  <2>11. CHEdges'[GetEdges + i] = RecordEdge(shortcuts'[i])
    BY <1>1, <1>4, <2>9 DEF StoredEdgesNumbered, RecordEdge
  <2> QED
    BY <1>5, <2>1, <2>8, <2>9, <2>10, <2>11
<1> QED
  BY <1>8, <1>9 DEF Explore

\* An edge is explored at n, leads to c and has the weights of a prepare edge that
\* leaves or enters n, as far as they can be stored.
IsStoredFor(e, n, c, leaves, enters, v, w) ==
    /\ e \in Explore(n) /\ CHEnds(e) = {n, c}
    /\ leaves /\ v < MaxStoredWeight => CHWeight(e, n) = v
    /\ enters /\ w < MaxStoredWeight => CHWeight(e, c) = w

\* Every prepare edge at the contracted node is explored there from now on.
LEMMA ListedStored ==
    ASSUME ListsInv, StoreInv, LastInv, InsertShortcuts, NEW new, Stores(new),
           NEW id, id \in ToSet(out[node]) \cup ToSet(in[node]),
           NEW n, n = node, NEW c, c = AdjacentNode(id, node),
           NEW leaves, leaves = (id \in ToSet(out[node])), NEW enters, enters = (id \in ToSet(in[node])),
           NEW v, v = Weight(id, n), NEW w, w = Weight(id, c)
    PROVE  \E e : IsStoredFor(e, n, c, leaves, enters, v, w)'
<1>1. /\ graph \in Graphs /\ graph' = graph /\ shortcuts \in Seq(StoredShortcut) /\ GetEdges' = GetEdges
      /\ n \in Nodes /\ n \in Alive
  BY DEF ListsInv, InsertShortcuts, StoreInv, GetEdges, Alive
<1>2. StoredShortcut' = StoredShortcut
  BY <1>1 DEF StoredShortcut, Nodes
<1>3. shortcuts' \in Seq(StoredShortcut)
  BY DEF Stores
<1>4. StoredEdgesNumbered'
  BY <1>1, <1>2, <1>3, EdgesNumberedNext
<1>5. id \in PrepareEdges /\ n \in Ends(id)
  BY <1>1, ListedFacts
<1>6. /\ c \in Nodes /\ c # n /\ Ends(id) = {n, c}
  BY <1>1, <1>5, AdjacentFacts DEF ListsInv
<1>7. CASE ~ IsShortcut(id)
  <2>1. id \in 1 .. GetEdges /\ EdgeAt(id) = graph.edges[id]
    BY <1>1, <1>5, <1>7, BaseFacts DEF IsShortcut, PrepareEdges, EdgeAt
  <2>2. CHEdges'[id] = graph.edges[id]
    BY <1>1, <1>4, <2>1 DEF StoredEdgesNumbered
  <2>3. n \in {graph.edges[id].a, graph.edges[id].b} /\ {graph.edges[id].a, graph.edges[id].b} = {n, c}
    BY <1>6, <2>1 DEF Ends
  <2>4. id \in Explore(n)'
    BY <1>1, <2>1, <2>3 DEF Explore
  <2>5. CHEnds(id)' = {n, c}
    BY <2>2, <2>3 DEF CHEnds
  <2>6. CHWeight(id, n)' = v /\ CHWeight(id, c)' = w
    BY <2>1, <2>2 DEF CHWeight, Weight
  <2>7. IsStoredFor(id, n, c, leaves, enters, v, w)'
    BY <2>4, <2>5, <2>6 DEF IsStoredFor
  <2> QED
    BY <2>7
<1>8. CASE IsShortcut(id)
  <2>1. id \in Leaving \cup Entering /\ (leaves => id \in Leaving) /\ (enters => id \in Entering)
    BY <1>8 DEF Leaving, Entering
  <2>2. /\ EdgeAt(id) = Shortcut(id) /\ Shortcut(id).fwd \in Nat \ {0}
        /\ id \in Leaving => Shortcut(id).a = n /\ Shortcut(id).b = c
        /\ id \in Entering => Shortcut(id).b = n /\ Shortcut(id).a = c
    BY <1>1, <2>1, ListedShortcut
  <2>3. PICK j \in 1 .. Len(new) : id \in new[j].ids
    BY <2>1 DEF Stores
  <2>4. /\ Serves(new[j]) /\ Len(new) \in Nat /\ Len(shortcuts) \in Nat
        /\ Len(shortcuts') = Len(shortcuts) + Len(new)
        /\ \A k \in 1 .. Len(new) : Serves(new[k]) /\ StoredAs(shortcuts'[Len(shortcuts) + k], new[k].record)
    BY <2>3 DEF Stores, ServesAll
  <2>5. PICK r : r = new[j].record
    OBVIOUS
  <2>6. r.a = n /\ (Outward(r, id) \/ Inward(r, id))
    BY <2>3, <2>4, <2>5 DEF Serves
  <2>7. PICK i : i = Len(shortcuts) + j
    OBVIOUS
  <2>8. i \in 1 .. Len(shortcuts') /\ i \in Nat
    BY <2>3, <2>4, <2>7
  <2>9. lastShortcut'[n] = Len(shortcuts')
    BY <1>1, <2>3, <2>4, LastEffect
  <2>10. \A k \in i .. Len(shortcuts') : shortcuts'[k].a = n
    <3> SUFFICES ASSUME NEW k \in i .. Len(shortcuts') PROVE shortcuts'[k].a = n
      OBVIOUS
    <3>1. k - Len(shortcuts) \in 1 .. Len(new) /\ k = Len(shortcuts) + (k - Len(shortcuts))
      BY <2>3, <2>4, <2>7
    <3>2. StoredAs(shortcuts'[k], new[k - Len(shortcuts)].record) /\ Serves(new[k - Len(shortcuts)])
      BY <2>4, <3>1
    <3> QED
      BY <3>2 DEF StoredAs, Serves
  <2>11. i \in ShortcutsOf(n)'
    <3>1. Len(shortcuts') # NoShortcut
      BY <2>4, GraphsAssumption
    <3> QED
      BY <2>8, <2>9, <2>10, <3>1 DEF ShortcutsOf
  <2>12. GetEdges + i \in Explore(n)'
    BY <1>1, <2>11 DEF Explore
  <2>13. CHEdges'[GetEdges + i] = RecordEdge(shortcuts'[i])
    BY <1>1, <1>4, <2>8 DEF StoredEdgesNumbered, RecordEdge
  <2>14. StoredAs(shortcuts'[i], r)
    BY <2>3, <2>4, <2>5, <2>7
  <2>15. PICK e : e = GetEdges + i
    OBVIOUS
  <2>16. /\ CHEdges'[e].a = n /\ CHEdges'[e].b = r.b
         /\ r.fwd => CHEdges'[e].fwd = StoredWeight(r.weight)
         /\ r.bwd => CHEdges'[e].bwd = StoredWeight(r.weight)
    BY <2>6, <2>13, <2>14, <2>15 DEF RecordEdge, StoredAs
  <2>17. r.b = c /\ r.weight = Shortcut(id).fwd
    BY <2>6 DEF Outward, Inward
  <2>18. CHEnds(e)' = {n, c}
    BY <2>16, <2>17 DEF CHEnds
  <2>19. Shortcut(id).fwd < MaxStoredWeight => StoredWeight(r.weight) = Shortcut(id).fwd
    BY <2>2, <2>17, GraphsAssumption DEF StoredWeight
  <2>20. ASSUME leaves, v < MaxStoredWeight PROVE CHWeight(e, n)' = v
    <3>1. id \in Leaving /\ id \notin Entering
      BY <1>6, <2>1, <2>2, <2>20
    <3>2. r.fwd
      BY <2>6, <3>1 DEF Outward, Inward
    <3>3. v = Shortcut(id).fwd
      BY <2>2, <3>1 DEF Weight
    <3>4. CHWeight(e, n)' = StoredWeight(r.weight)
      BY <2>16, <3>2 DEF CHWeight
    <3> QED
      BY <2>19, <2>20, <3>3, <3>4
  <2>21. ASSUME enters, w < MaxStoredWeight PROVE CHWeight(e, c)' = w
    <3>1. id \in Entering /\ id \notin Leaving
      BY <1>6, <2>1, <2>2, <2>21
    <3>2. r.bwd
      BY <2>6, <3>1 DEF Outward, Inward
    <3>3. w = Shortcut(id).fwd
      BY <2>2, <3>1 DEF Weight
    <3>4. CHWeight(e, c)' = StoredWeight(r.weight)
      BY <1>6, <2>16, <3>2 DEF CHWeight
    <3> QED
      BY <2>19, <2>21, <3>3, <3>4
  <2>22. IsStoredFor(e, n, c, leaves, enters, v, w)'
    BY <2>12, <2>15, <2>18, <2>20, <2>21 DEF IsStoredFor
  <2> QED
    BY <2>22
<1> QED
  BY <1>7, <1>8

-----------------------------------------------------------------------------

\* The first step of a walk that leaves the contracted node, or the last one of
\* a walk that enters it, is a step up the hierarchy once its shortcuts are stored.
StepUp(s, n, c, v) == n \in Nodes /\ c \in Nodes /\ v \in Nat /\ <<c, v>> \in Walked(Nodes, UpArcs(s), n)

\* An edge stored for the contracted node leads up from it to a remaining one.
LEMMA StoredStepsUp ==
    ASSUME ListsInv, LevelsInv, InsertShortcuts, NEW n, n = node, NEW c \in Alive \ {n},
           NEW s, NEW e, NEW v \in Nat \ {0},
           e \in Explore(n)', CHEnds(e)' = {n, c},
           CHWeight(e, IF s = "from" THEN n ELSE c)' = v
    PROVE  StepUp(s, n, c, v)'
<1>1. /\ graph' = graph /\ level' = level /\ n \in Nodes /\ Nodes' = Nodes /\ c \in Nodes
      /\ level \in [Nodes -> 0 .. MaxLevel] /\ MaxLevel \in Nat /\ n \in Contracted
      /\ graph \in Graphs
  BY BaseFacts DEF ListsInv, LevelsInv, InsertShortcuts, Nodes, Alive
<1>2. level[n] < level[c]
  <2>1. level[c] = MaxLevel
    BY <1>1 DEF Alive
  <2>2. level[n] # MaxLevel
    BY <1>1 DEF Contracted, Remaining
  <2> QED
    BY <1>1, <2>1, <2>2
<1>3. PICK arc : arc = <<n, c, v>>
  OBVIOUS
<1>4. arc[1] = n /\ arc[2] = c /\ arc[3] = v /\ arc \in Nodes \X Nodes \X (Nat \ {0})
  BY <1>1, <1>3
<1>5. Climbs(e, n, c)'
  BY <1>1, <1>2 DEF Climbs
<1>6. arc \in UpArcs(s)'
  BY <1>1, <1>4, <1>5 DEF UpArcs
<1>7. PICK A : A = UpArcs(s)'
  OBVIOUS
<1>8. IsArcs(A, Nodes)
  BY <1>1, <1>7, UpArcsTypedNext
<1>9. arc[3] # Inf
  BY <1>1, <1>4, BaseFacts
<1>10. <<c, v>> \in Walked(Nodes, A, n)
  BY <1>4, <1>6, <1>7, <1>8, <1>9, ArcWalked
<1> QED
  BY <1>1, <1>7, <1>10 DEF StepUp

\* A walk of the base graph from the contracted node to a remaining one can
\* begin with a step up: the prepare graph has an arc that is as light.
LEMMA LeavesUp ==
    ASSUME ListsInv, LevelsInv, StoreInv, PreservedInv, LastInv, InsertShortcuts,
           NEW n, n = node, NEW d \in Alive \ {n}, NEW x \in Nat, x < MaxStoredWeight,
           <<d, x>> \in Walked(Nodes, BaseArcs, n)
    PROVE  \E c \in Alive \ {n}, v \in Nat, r \in Nat :
              /\ StepUp("from", n, c, v)' /\ v + r <= x
              /\ <<d, r>> \in Walked(Nodes, BaseArcs, c)
<1>1. n \in Nodes /\ n \in Alive /\ graph \in Graphs /\ MaxStoredWeight \in Nat
  BY GraphsAssumption DEF ListsInv, InsertShortcuts, Alive
<1>2. PICK w \in Nat : w <= x /\ <<d, w>> \in Walked(Nodes, Arcs(-1), n)
  BY <1>1 DEF PreservedInv, WalksKept
<1>3. IsArcs(Arcs(-1), Nodes)
  BY ArcsTyped
<1>4. PICK arc \in Arcs(-1), r \in Nat :
         /\ arc[1] = n /\ arc[3] # Inf
         /\ <<d, r>> \in Walked(Nodes, Arcs(-1), arc[2]) /\ w = arc[3] + r
  <2>1. <<d, w>> # <<n, 0>>
    OBVIOUS
  <2>2. HasFirstArc(Nodes, Arcs(-1), n, <<d, w>>)
    BY <1>1, <1>2, <1>3, <2>1, WalkedFirst
  <2> QED
    BY <2>2 DEF HasFirstArc
<1>5. PICK id \in ToSet(out[n]) : arc[2] = AdjacentNode(id, n) /\ arc[3] = Weight(id, n)
  BY <1>4, ArcsFacts
<1>6. PICK c, v : c = arc[2] /\ v = arc[3]
  OBVIOUS
<1>7. /\ c = AdjacentNode(id, n) /\ v = Weight(id, n) /\ v \in Nat \ {0} /\ c \in Alive
      /\ id \in PrepareEdges /\ n \in Ends(id)
  BY <1>1, <1>5, <1>6, ListedFacts
<1>8. c # n /\ c \in Nodes
  BY <1>7, AdjacentFacts DEF ListsInv
<1>9. v + r <= x /\ v < MaxStoredWeight
  BY <1>1, <1>2, <1>4, <1>6, <1>7
<1>10. PICK new : Stores(new)
  BY StoreEffect DEF StoreInv
<1>11. PICK leaves, enters, u : /\ leaves = (id \in ToSet(out[node]))
                                /\ enters = (id \in ToSet(in[node])) /\ u = Weight(id, c)
  OBVIOUS
<1>12. PICK e : IsStoredFor(e, n, c, leaves, enters, v, u)'
  <2>1. id \in ToSet(out[node]) \cup ToSet(in[node]) /\ c = AdjacentNode(id, node) /\ v = Weight(id, n)
    BY <1>5, <1>7
  <2> QED
    BY <1>10, <1>11, <2>1, ListedStored
<1>13. e \in Explore(n)' /\ CHEnds(e)' = {n, c} /\ CHWeight(e, n)' = v
  BY <1>5, <1>9, <1>11, <1>12 DEF IsStoredFor
<1>14. StepUp("from", n, c, v)'
  <2>1. CHWeight(e, IF "from" = "from" THEN n ELSE c)' = v
    BY <1>13
  <2> QED
    BY <1>7, <1>8, <1>13, <2>1, StoredStepsUp
<1>15. <<d, r>> \in Walked(Nodes, BaseArcs, c)
  BY <1>4, <1>6, <1>8, ArcsSound DEF PreservedInv
<1> QED
  BY <1>7, <1>8, <1>9, <1>14, <1>15

\* The same for a walk that ends in the contracted node, seen from its end.
LEMMA EntersDown ==
    ASSUME ListsInv, LevelsInv, StoreInv, PreservedInv, LastInv, InsertShortcuts,
           NEW n, n = node, NEW d \in Alive \ {n}, NEW x \in Nat, x < MaxStoredWeight,
           <<n, x>> \in Walked(Nodes, BaseArcs, d)
    PROVE  \E c \in Alive \ {n}, v \in Nat, r \in Nat :
              /\ StepUp("to", n, c, v)' /\ r + v <= x
              /\ <<c, r>> \in Walked(Nodes, BaseArcs, d)
<1>1. n \in Nodes /\ n \in Alive /\ d \in Nodes /\ graph \in Graphs /\ MaxStoredWeight \in Nat
  BY GraphsAssumption DEF ListsInv, InsertShortcuts, Alive
<1>2. PICK w \in Nat : w <= x /\ <<n, w>> \in Walked(Nodes, Arcs(-1), d)
  BY <1>1 DEF PreservedInv, WalksKept
<1>3. IsArcs(Arcs(-1), Nodes)
  BY ArcsTyped
<1>4. PICK y \in Walked(Nodes, Arcs(-1), d), arc \in Arcs(-1) :
         arc[1] = y[1] /\ arc[3] # Inf /\ <<n, w>> = <<arc[2], y[2] + arc[3]>>
  <2>1. <<n, w>> # <<d, 0>>
    OBVIOUS
  <2> QED
    BY <1>1, <1>2, <1>3, <2>1, WalkedLast
<1>5. PICK id \in ToSet(out[arc[1]]) :
         arc[1] \in Nodes /\ arc[2] = AdjacentNode(id, arc[1]) /\ arc[3] = Weight(id, arc[1])
  BY <1>4, ArcsFacts
<1>6. PICK c, v, r : c = arc[1] /\ v = arc[3] /\ r = y[2]
  OBVIOUS
<1>7. /\ c \in Nodes /\ id \in ToSet(out[c]) /\ n = AdjacentNode(id, c) /\ v = Weight(id, c)
      /\ y = <<c, r>> /\ r \in Nat /\ w = r + v
  <2>1. y \in Nodes \X Nat
    BY DEF Walked
  <2> QED
    BY <1>4, <1>5, <1>6, <2>1
<1>8. /\ v \in Nat \ {0} /\ c \in Alive /\ id \in ToSet(in[n]) /\ id \in PrepareEdges /\ c \in Ends(id)
  BY <1>7, ListedFacts
<1>9. c # n /\ c = AdjacentNode(id, n)
  BY <1>7, <1>8, AdjacentFacts DEF ListsInv
<1>10. r + v <= x /\ v < MaxStoredWeight
  BY <1>1, <1>2, <1>7, <1>8
<1>11. PICK new : Stores(new)
  BY StoreEffect DEF StoreInv
<1>12. PICK leaves, enters, u : /\ leaves = (id \in ToSet(out[node]))
                                /\ enters = (id \in ToSet(in[node])) /\ u = Weight(id, n)
  OBVIOUS
<1>13. PICK e : IsStoredFor(e, n, c, leaves, enters, u, v)'
  <2>1. id \in ToSet(out[node]) \cup ToSet(in[node]) /\ c = AdjacentNode(id, node) /\ v = Weight(id, c)
    BY <1>7, <1>8, <1>9
  <2> QED
    BY <1>11, <1>12, <2>1, ListedStored
<1>14. e \in Explore(n)' /\ CHEnds(e)' = {n, c} /\ CHWeight(e, c)' = v
  BY <1>8, <1>10, <1>12, <1>13 DEF IsStoredFor
<1>15. StepUp("to", n, c, v)'
  <2>1. CHWeight(e, IF "to" = "from" THEN n ELSE c)' = v
    BY <1>14
  <2> QED
    BY <1>8, <1>9, <1>14, <2>1, StoredStepsUp
<1>16. <<c, r>> \in Walked(Nodes, BaseArcs, d)
  <2>1. <<c, r>> \in Walked(Nodes, Arcs(-1), d)
    BY <1>7
  <2>2. EdgesSound /\ d \in Nodes
    BY <1>1 DEF PreservedInv
  <2>3. Walked(Nodes, Arcs(-1), d) \subseteq Walked(Nodes, BaseArcs, d)
    BY <2>2, ArcsSound
  <2> QED
    BY <2>1, <2>3
<1> QED
  BY <1>7, <1>8, <1>9, <1>10, <1>15, <1>16

-----------------------------------------------------------------------------

\* A walk up and a step up are a walk up.
LEMMA WalkStepUp ==
    ASSUME graph' = graph, \A s : UpArcs(s) \subseteq UpArcs(s)', NEW s, NEW a \in Nodes,
           NEW n, NEW c, NEW v \in Nat, NEW w, StepUp(s, n, c, w)',
           <<n, v>> \in Walked(Nodes, UpArcs(s), a)
    PROVE  w \in Nat /\ <<c, v + w>> \in Walked(Nodes, UpArcs(s)', a)
<1>1. Nodes' = Nodes
  BY DEF Nodes
<1>2. n \in Nodes /\ w \in Nat /\ <<c, w>> \in Walked(Nodes, UpArcs(s)', n)
  BY <1>1 DEF StepUp
<1>3. <<n, v>> \in Walked(Nodes, UpArcs(s)', a)
  BY WalksUpStay
<1>4. PICK A : A = UpArcs(s)'
  OBVIOUS
<1>5. IsArcs(A, Nodes)
  BY <1>1, <1>4, UpArcsTypedNext
<1>6. <<c, v + w>> \in Walked(Nodes, A, a)
  BY <1>2, <1>3, <1>4, <1>5, WalkedOn
<1> QED
  BY <1>2, <1>4, <1>6

\* The walks between nodes that are left cross there; one that begins or ends at
\* the contracted node goes up from it.
LEMMA InsertCrosses ==
    ASSUME ListsInv, LevelsInv, StoreInv, PreservedInv, LastInv, InsertShortcuts,
           \A s : UpArcs(s) \subseteq UpArcs(s)', Alive' = Alive \ {node},
           NEW a \in Nodes, NEW b \in Nodes, NEW x \in Nat, x < MaxStoredWeight,
           NEW c, NEW d, NEW v, NEW u, NEW w, IsCrossing(a, b, x, c, d, v, u, w)
    PROVE  Meets(a, b, x)' \/ Crosses(a, b, x)'
<1>1. /\ c \in Alive /\ d \in Alive /\ v \in Nat /\ u \in Nat /\ w \in Nat
      /\ <<c, v>> \in Walked(Nodes, UpArcs("from"), a)
      /\ <<d, u>> \in Walked(Nodes, BaseArcs, c)
      /\ <<d, w>> \in Walked(Nodes, UpArcs("to"), b)
      /\ v + u + w <= x
  BY DEF IsCrossing
<1>2. graph' = graph /\ Nodes' = Nodes /\ BaseArcs' = BaseArcs /\ MaxStoredWeight \in Nat
  BY GraphsAssumption DEF InsertShortcuts, Nodes, BaseArcs
<1>3. PICK n : n = node
  OBVIOUS
<1>4. <<c, v>> \in Walked(Nodes, UpArcs("from")', a) /\ <<d, w>> \in Walked(Nodes, UpArcs("to")', b)
  BY <1>1, <1>2, WalksUpStay
<1>5. u < MaxStoredWeight
  BY <1>1, <1>2
<1>6. CASE c # n /\ d # n
  <2>1. c \in Alive' /\ d \in Alive'
    BY <1>1, <1>3, <1>6
  <2>2. IsCrossing(a, b, x, c, d, v, u, w)'
    BY <1>2, <2>1, CrossingStays
  <2> QED
    BY <2>2 DEF Crosses
<1>7. CASE c = n /\ d = n
  <2>1. v + u + w <= x /\ v \in Nat /\ u \in Nat /\ w \in Nat
    BY <1>1
  <2>2. v + w <= x
    BY <2>1
  <2>3. n \in Nodes'
    BY <1>1, <1>2, <1>7 DEF Alive
  <2>4. <<n, v>> \in Walked(Nodes, UpArcs("from"), a)' /\ <<n, w>> \in Walked(Nodes, UpArcs("to"), b)'
    BY <1>2, <1>4, <1>7
  <2>5. Meets(a, b, x)'
    BY <2>1, <2>2, <2>3, <2>4 DEF Meets
  <2> QED
    BY <2>5
<1>8. CASE c = n /\ d # n
  <2>1. PICK e \in Alive \ {n}, p \in Nat, r \in Nat :
           /\ StepUp("from", n, e, p)' /\ p + r <= u
           /\ <<d, r>> \in Walked(Nodes, BaseArcs, e)
    BY <1>1, <1>3, <1>5, <1>8, LeavesUp
  <2>2. <<e, v + p>> \in Walked(Nodes, UpArcs("from")', a)
    BY <1>1, <1>2, <1>8, <2>1, WalkStepUp
  <2>3. e \in Alive' /\ d \in Alive'
    BY <1>1, <1>3, <1>8, <2>1
  <2>4. (v + p) + r + w <= x /\ v + p \in Nat
    BY <1>1, <2>1
  <2>5. IsCrossing(a, b, x, e, d, v + p, r, w)'
    BY <1>1, <1>2, <1>4, <2>1, <2>2, <2>3, <2>4 DEF IsCrossing
  <2> QED
    BY <2>5 DEF Crosses
<1>9. CASE c # n /\ d = n
  <2>1. PICK e \in Alive \ {n}, p \in Nat, r \in Nat :
           /\ StepUp("to", n, e, p)' /\ r + p <= u
           /\ <<e, r>> \in Walked(Nodes, BaseArcs, c)
    BY <1>1, <1>3, <1>5, <1>9, EntersDown
  <2>2. <<e, w + p>> \in Walked(Nodes, UpArcs("to")', b)
    BY <1>1, <1>2, <1>9, <2>1, WalkStepUp
  <2>3. e \in Alive' /\ c \in Alive'
    BY <1>1, <1>3, <1>9, <2>1
  <2>4. v + r + (w + p) <= x /\ w + p \in Nat
    BY <1>1, <2>1
  <2>5. IsCrossing(a, b, x, c, e, v, r, w + p)'
    BY <1>1, <1>2, <1>4, <2>1, <2>2, <2>3, <2>4 DEF IsCrossing
  <2> QED
    BY <2>5 DEF Crosses
<1> QED
  BY <1>6, <1>7, <1>8, <1>9

\* The node that is contracted leaves, its shortcuts lead up from it.
LEMMA InsertClimb ==
    ASSUME ListsInv, LevelsInv, StoreInv, PreservedInv, ClimbInv, InsertShortcuts
    PROVE  ClimbInv'
<1>1. LastInv /\ WalksClimb
  BY DEF ClimbInv
<1>2. PICK new : Stores(new)
  BY StoreEffect DEF StoreInv
<1>3. /\ graph' = graph /\ level' = level /\ Nodes' = Nodes /\ BaseArcs' = BaseArcs /\ MaxLevel' = MaxLevel
      /\ phase = "contract" /\ phase' = "poll" /\ node' = node /\ node \in Nodes
      /\ shortcuts \in Seq(StoredShortcut)
  BY DEF ListsInv, StoreInv, InsertShortcuts, Nodes, BaseArcs, MaxLevel
<1>4. \A u \in Nodes : \A e \in Explore(u) : e \in Explore(u)' /\ CHEdges'[e] = CHEdges[e]
  BY <1>1, <1>2, InsertExplored
<1>5. \A s : UpArcs(s) \subseteq UpArcs(s)'
  BY <1>3, <1>4, UpArcsGrow
<1>6. Alive' = Alive \ {node}
  <2>1. level[node] # MaxLevel
    BY <1>3 DEF LevelsInv, Contracted, Remaining
  <2> QED
    BY <1>3, <2>1 DEF Alive
<1>7. WalksClimb'
  <2> SUFFICES ASSUME NEW a \in Nodes, NEW b \in Nodes, NEW x \in Nat,
                      x < MaxStoredWeight, <<b, x>> \in Walked(Nodes, BaseArcs, a)
               PROVE  Meets(a, b, x)' \/ Crosses(a, b, x)'
    BY <1>3 DEF WalksClimb
  <2>1. Meets(a, b, x) \/ Crosses(a, b, x)
    BY <1>1 DEF WalksClimb
  <2>2. CASE Meets(a, b, x)
    BY <1>3, <1>5, <2>2, MeetsStay
  <2>3. CASE Crosses(a, b, x)
    <3>1. PICK c, d, v, u, w : IsCrossing(a, b, x, c, d, v, u, w)
      BY <2>3 DEF Crosses
    <3> QED
      BY <1>1, <1>5, <1>6, <3>1, InsertCrosses
  <2> QED
    BY <2>1, <2>2, <2>3
<1>8. LastInv'
  <2>1. \A u \in Nodes \ {node} : lastShortcut'[u] = lastShortcut[u]
    BY <1>1, <1>2, <1>3, LastEffect
  <2>2. lastShortcut' \in [Nodes -> {NoShortcut} \cup (1 .. Len(shortcuts'))]
    BY <1>1, <1>2, <1>3, LastEffect
  <2>3. \A u \in Alive \ {node} : lastShortcut'[u] = NoShortcut
    BY <1>1, <2>1 DEF LastInv, Alive
  <2> QED
    BY <1>3, <1>6, <2>2, <2>3 DEF LastInv
<1> QED
  BY <1>7, <1>8 DEF ClimbInv

-----------------------------------------------------------------------------

\* The invariant of the hierarchy is inductive.
LEMMA ClimbKept ==
    ListsInv /\ LevelsInv /\ StoreInv /\ PreservedInv /\ ClimbInv /\ [RoutingNext]_vars => ClimbInv'
<1> SUFFICES ASSUME ListsInv, LevelsInv, StoreInv, PreservedInv, ClimbInv, [RoutingNext]_vars
             PROVE  ClimbInv'
  OBVIOUS
<1>1. CASE HandlePair
  <2>1. /\ graph' = graph /\ level' = level /\ lastShortcut' = lastShortcut /\ shortcuts' = shortcuts
        /\ phase' = phase /\ node' = node
    BY <1>1 DEF HandlePair, storage
  <2>2. Alive' = Alive
    BY <2>1 DEF Alive, Nodes, MaxLevel
  <2> QED
    BY <2>1, <2>2, SameClimb
<1>2. CASE InsertShortcuts
  BY <1>2, InsertClimb
<1>3. CASE FinishContraction
  BY <1>3, FinishClimb
<1>4. CASE \E n \in Nodes : PollNode(n)
  BY <1>4, PollClimb
<1>5. CASE UNCHANGED contractionVars
  <2>1. /\ graph' = graph /\ level' = level /\ lastShortcut' = lastShortcut /\ shortcuts' = shortcuts
        /\ phase' = phase /\ node' = node
    BY <1>5, ContractionUnchanged
  <2>2. Alive' = Alive
    BY <2>1 DEF Alive, Nodes, MaxLevel
  <2> QED
    BY <2>1, <2>2, SameClimb
<1> QED
  BY <1>1, <1>2, <1>3, <1>4, <1>5, ContractionSteps

\* So it always holds.
LEMMA ClimbAlways == Spec => []ClimbInv
<1>1. RoutingInit => ClimbInv
  BY InitClimb DEF RoutingInit
<1> QED
  BY <1>1, ClimbKept, ListsAlways, StoreAlways, PreservedAlways, PTL DEF Spec

-----------------------------------------------------------------------------

\* When all nodes are contracted, the walks up the hierarchy meet.
LEMMA MeetsWhenDone ==
    ASSUME LevelsInv, ClimbInv, phase = "done", NEW a \in Nodes, NEW b \in Nodes, NEW x \in Nat,
           x < MaxStoredWeight, <<b, x>> \in Walked(Nodes, BaseArcs, a)
    PROVE  Meets(a, b, x)
<1>1. Alive = {}
  BY DEF Alive, LevelsInv, Remaining
<1>2. ~ Crosses(a, b, x)
  BY <1>1 DEF Crosses, IsCrossing
<1> QED
  BY <1>2 DEF ClimbInv, WalksClimb

\* No stored edge is a loop.
LEMMA StoredEnds ==
    ASSUME Prepared, NEW e \in StoredEdges, NEW n \in CHEnds(e)
    PROVE  /\ n \in Nodes /\ BaseNode(e, n) \in Nodes /\ BaseNode(e, n) # n
           /\ CHEnds(e) = {n, BaseNode(e, n)} /\ BaseNode(e, n) \in CHEnds(e)
           /\ BaseNode(e, BaseNode(e, n)) = n
           /\ \A m : CHEnds(e) = {n, m} => m = BaseNode(e, n)
<1>1. CHEdges[e].a \in Nodes /\ CHEdges[e].b \in Nodes
  BY CHNodes
<1>2. CHEdges[e].a # CHEdges[e].b
  <2>1. CASE e <= GetEdges
    BY <2>1, CHNodes, BaseFacts DEF Prepared
  <2>2. CASE ~ (e <= GetEdges)
    <3>1. PICK i : i = e - GetEdges
      OBVIOUS
    <3>2. i \in 1 .. Len(shortcuts) /\ CHEdges[e] = RecordEdge(shortcuts[i])
      BY <2>2, <3>1, CHNodes
    <3>3. Composed(i)
      BY <3>2 DEF Prepared
    <3>4. shortcuts[i].a # shortcuts[i].b
      BY <3>3 DEF Composed, Over
    <3> QED
      BY <3>2, <3>4 DEF RecordEdge
  <2> QED
    BY <2>1, <2>2
<1> QED
  BY <1>1, <1>2 DEF CHEnds, BaseNode

\* A trace of base edges is a walk.
LEMMA TracedWalked ==
    ASSUME graph \in Graphs, NEW list, NEW x, NEW y, NEW w, Traced(list, x, y, TRUE, w)
    PROVE  w \in Nat /\ x \in Nodes /\ y \in Nodes /\ <<y, w>> \in Walked(Nodes, BaseArcs, x)
<1>1. list \in Seq(1 .. GetEdges)
  BY DEF Traced
<1>2. PICK p \in [0 .. Len(list) -> Nodes], t \in [0 .. Len(list) -> Int] :
         /\ IsTrace(list, p, t, TRUE)
         /\ p[0] = x /\ p[Len(list)] = y /\ t[0] = 0 /\ t[Len(list)] = w
  BY DEF Traced
<1>3. PICK n : n = Len(list)
  OBVIOUS
<1>4. n \in Nat /\ x \in Nodes /\ 0 \in 0 .. n /\ n \in 0 .. n /\ Inf \notin Int
  BY <1>1, <1>2, <1>3, BaseFacts
<1>5. IsArcs(BaseArcs, Nodes)
  BY BaseArcsFacts
<1>6. IsClosed(Walked(Nodes, BaseArcs, x), BaseArcs, x)
  BY <1>4, <1>5, WalkedClosed
<1> DEFINE T == {j \in 0 .. n : t[j] \in Nat /\ <<p[j], t[j]>> \in Walked(Nodes, BaseArcs, x)}
<1>7. 0 \in T
  <2>1. <<x, 0>> \in Walked(Nodes, BaseArcs, x)
    BY <1>6 DEF IsClosed
  <2>2. t[0] \in Nat /\ <<p[0], t[0]>> \in Walked(Nodes, BaseArcs, x)
    BY <1>2, <2>1
  <2> QED
    BY <1>4, <2>2
<1>8. ASSUME NEW j \in 0 .. (n - 1), j \in T PROVE j + 1 \in T
  <2>1. j + 1 \in 1 .. Len(list) /\ (j + 1) - 1 = j /\ j \in 0 .. n /\ j + 1 \in 0 .. n
    BY <1>3, <1>4
  <2>2. PICK k : k = j + 1
    OBVIOUS
  <2>3. BaseStep(list[k], p[k - 1], p[k], t[k] - t[k - 1])
    BY <1>2, <2>1, <2>2 DEF IsTrace
  <2>4. k - 1 = j
    BY <1>4, <2>1, <2>2
  <2>5. list[k] \in 1 .. GetEdges /\ t[k] \in Int /\ t[j] \in Nat
    <3>1. k \in 1 .. Len(list) /\ k \in 0 .. Len(list)
      BY <1>3, <2>1, <2>2, Zenon
    <3>2. list[k] \in 1 .. GetEdges
      BY <1>1, <3>1
    <3>3. t[k] \in Int
      BY <1>2, <3>1
    <3>4. t[j] \in Nat
      BY <1>8
    <3> QED
      BY <3>2, <3>3, <3>4
  <2>6. PICK e : e = graph.edges[list[k]]
    OBVIOUS
  <2>7. /\ e.fwd \in (Nat \ {0}) \cup {Inf} /\ e.bwd \in (Nat \ {0}) \cup {Inf} /\ e.a # e.b
        /\ <<e.a, e.b, e.fwd>> \in BaseArcs /\ <<e.b, e.a, e.bwd>> \in BaseArcs
    BY <2>5, <2>6, BaseFacts, BaseArcsFacts
  <2>8. /\ {e.a, e.b} = {p[j], p[k]} /\ p[j] # p[k]
        /\ (IF e.a = p[j] THEN e.fwd ELSE e.bwd) = t[k] - t[j]
    <3>1. PICK i : i = k - 1
      OBVIOUS
    <3>2. BaseStep(list[k], p[i], p[k], t[k] - t[i])
      BY <2>3, <3>1
    <3>3. i = j
      BY <2>4, <3>1
    <3> QED
      BY <2>6, <3>2, <3>3 DEF BaseStep
  <2>9. PICK c : c = t[k] - t[j]
    OBVIOUS
  <2>10. c \in Int /\ c \in (Nat \ {0}) \cup {Inf}
    BY <2>5, <2>7, <2>8, <2>9
  <2>11. c \in Nat /\ c # Inf
    BY <1>4, <2>10
  <2>12. <<p[j], p[k], c>> \in BaseArcs
    BY <2>7, <2>8, <2>9
  <2>13. <<p[k], t[j] + c>> \in Walked(Nodes, BaseArcs, x)
    <3>1. PICK z, arc : z = <<p[j], t[j]>> /\ arc = <<p[j], p[k], c>>
      OBVIOUS
    <3>2. z \in Walked(Nodes, BaseArcs, x) /\ arc \in BaseArcs /\ arc[1] = z[1] /\ arc[3] # Inf
      BY <1>8, <2>11, <2>12, <3>1
    <3>3. <<arc[2], z[2] + arc[3]>> \in Walked(Nodes, BaseArcs, x)
      BY <1>6, <3>2 DEF IsClosed
    <3> QED
      BY <3>1, <3>3
  <2>14. t[j] + c = t[k] /\ t[k] \in Nat
    BY <2>5, <2>9, <2>11
  <2> QED
    BY <2>1, <2>2, <2>13, <2>14
<1> HIDE DEF T
<1>9. 0 .. n \subseteq T
  BY <1>4, <1>7, <1>8, BoundedInduction
<1>10. n \in T
  BY <1>4, <1>9
<1> QED
  BY <1>2, <1>3, <1>4, <1>10 DEF T

\* A stored edge weighs as much as a walk on the base graph.
LEMMA StoredWalked ==
    ASSUME Prepared, NEW e \in StoredEdges, NEW n \in CHEnds(e), NEW w \in Nat, CHWeight(e, n) = w
    PROVE  <<BaseNode(e, n), w>> \in Walked(Nodes, BaseArcs, n)
<1>1. Traced(Unpack(e, n), n, BaseNode(e, n), TRUE, w)
  BY UnpackTraced
<1> QED
  BY <1>1, TracedWalked DEF Prepared

-----------------------------------------------------------------------------

\* There is a walk of weight w on the base graph from the start o to v, or from
\* v to the goal o.
Reaches(o, s, v, w) ==
    IF s = "from" THEN <<v, w>> \in Walked(Nodes, BaseArcs, o)
                  ELSE <<o, w>> \in Walked(Nodes, BaseArcs, v)

\* The weight of an edge explored at n, for a side of the search.
SearchWeight(e, n, s) == CHWeight(e, IF s = "from" THEN n ELSE BaseNode(e, n))

\* A walk goes on along an edge that is explored at its end.
LEMMA ReachesOn ==
    ASSUME Prepared, NEW e \in StoredEdges, NEW n \in CHEnds(e), NEW s, NEW o \in Nodes,
           NEW w \in Nat, Reaches(o, s, n, w), NEW c \in Nat, SearchWeight(e, n, s) = c
    PROVE  Reaches(o, s, BaseNode(e, n), w + c)
<1>1. graph \in Graphs /\ IsArcs(BaseArcs, Nodes)
  BY BaseArcsFacts DEF Prepared
<1>2. PICK m : m = BaseNode(e, n)
  OBVIOUS
<1>3. n \in Nodes /\ m \in Nodes /\ m \in CHEnds(e) /\ BaseNode(e, m) = n
  BY <1>2, StoredEnds
<1>4. CASE s = "from"
  <2>1. <<m, c>> \in Walked(Nodes, BaseArcs, n)
    BY <1>2, <1>4, StoredWalked DEF SearchWeight
  <2>2. <<n, w>> \in Walked(Nodes, BaseArcs, o)
    BY <1>4 DEF Reaches
  <2>3. <<m, w + c>> \in Walked(Nodes, BaseArcs, o)
    BY <1>1, <1>3, <2>1, <2>2, WalkedOn
  <2> QED
    BY <1>2, <1>4, <2>3 DEF Reaches
<1>5. CASE s # "from"
  <2>1. CHWeight(e, m) = c
    BY <1>2, <1>5 DEF SearchWeight
  <2>2. <<n, c>> \in Walked(Nodes, BaseArcs, m)
    BY <1>3, <2>1, StoredWalked
  <2>3. <<o, w>> \in Walked(Nodes, BaseArcs, n)
    BY <1>5 DEF Reaches
  <2>4. <<o, c + w>> \in Walked(Nodes, BaseArcs, m)
    BY <1>1, <1>3, <2>2, <2>3, WalkedOn
  <2>5. c + w = w + c
    OBVIOUS
  <2> QED
    BY <1>2, <1>5, <2>4, <2>5 DEF Reaches
<1> QED
  BY <1>4, <1>5

-----------------------------------------------------------------------------

\* What is explored when the hierarchy is complete.
SearchReady == Prepared /\ ExploredStored /\ phase = "done"

\* A walk up the hierarchy is a walk on the base graph.
LEMMA ClimbReaches ==
    ASSUME SearchReady, NEW s, NEW o \in Nodes, NEW v, NEW w,
           <<v, w>> \in Walked(Nodes, UpArcs(s), o)
    PROVE  v \in Nodes /\ w \in Nat /\ Reaches(o, s, v, w)
<1> DEFINE C == {z \in Nodes \X Nat : Reaches(o, s, z[1], z[2])}
<1>1. graph \in Graphs /\ IsArcs(BaseArcs, Nodes) /\ IsArcs(UpArcs(s), Nodes) /\ Inf \notin Int
  BY BaseArcsFacts, BaseFacts, UpArcsTyped DEF SearchReady, Prepared
<1>2. <<o, 0>> \in C
  <2>1. <<o, 0>> \in Walked(Nodes, BaseArcs, o)
    BY <1>1, WalkedClosed DEF IsClosed
  <2> QED
    BY <2>1 DEF Reaches
<1>3. ASSUME NEW z \in Walked(Nodes, UpArcs(s), o) \cap C, NEW arc \in UpArcs(s),
             arc[1] = z[1], arc[3] # Inf
      PROVE  <<arc[2], z[2] + arc[3]>> \in C
  <2>1. PICK n, m, c, x : n = arc[1] /\ m = arc[2] /\ c = arc[3] /\ x = z[2]
    OBVIOUS
  <2>2. n \in Nodes /\ m \in Nodes /\ c \in Nat /\ x \in Nat /\ Reaches(o, s, n, x)
    BY <1>3, <2>1 DEF UpArcs
  <2>3. PICK e \in Explore(n) : Climbs(e, n, m) /\ c = CHWeight(e, IF s = "from" THEN n ELSE m)
    BY <2>1 DEF UpArcs
  <2>4. e \in StoredEdges /\ n \in CHEnds(e) /\ CHEnds(e) = {n, m} /\ Prepared
    BY <2>2, <2>3 DEF SearchReady, ExploredStored, Climbs
  <2>5. m = BaseNode(e, n)
    BY <2>4, StoredEnds
  <2>6. SearchWeight(e, n, s) = c
    BY <2>3, <2>5 DEF SearchWeight
  <2>7. Reaches(o, s, m, x + c)
    BY <2>2, <2>4, <2>5, <2>6, ReachesOn
  <2>8. x + c \in Nat
    BY <2>2
  <2> QED
    BY <2>1, <2>2, <2>7, <2>8
<1> HIDE DEF C
<1>4. Walked(Nodes, UpArcs(s), o) \subseteq C
  BY <1>1, <1>2, <1>3, WalkedInduction
<1>5. <<v, w>> \in C
  BY <1>4
<1> QED
  BY <1>5 DEF C

-----------------------------------------------------------------------------

\* The weights of the lightest walks between v and where a side of the search began.
ShortestWeights(s, v) ==
    {w \in Nat : /\ Reaches(query.start[s], s, v, w)
                 /\ \A x \in Nat : Reaches(query.start[s], s, v, x) => w <= x}

\* p and t are the nodes along a chain of stored edges and the weights up to them.
IsRoute(p, t, edges, s) ==
    \A i \in 1 .. Len(edges) :
        /\ p[i - 1] \in CHEnds(edges[i]) /\ p[i] = BaseNode(edges[i], p[i - 1])
        /\ SearchWeight(edges[i], p[i - 1], s) \in Nat
        /\ t[i] = t[i - 1] + SearchWeight(edges[i], p[i - 1], s)

\* What an entry of the search tree says is true of the base graph, and its
\* chain climbs.
Entries(s) ==
    {x \in [node : Nodes, weight : Nat, edges : Seq(StoredEdges)] :
        /\ Reaches(query.start[s], s, x.node, x.weight)
        /\ x.edges # << >> => level[BaseNode(Last(x.edges), x.node)] < level[x.node]
        /\ \E p \in [0 .. Len(x.edges) -> Nodes], t \in [0 .. Len(x.edges) -> Nat] :
              /\ IsRoute(p, t, x.edges, s)
              /\ p[0] = query.start[s] /\ t[0] = 0
              /\ p[Len(x.edges)] = x.node /\ t[Len(x.edges)] = x.weight}

\* The edges explored at a node that lead up.
UpEdges(n) == {e \in Explore(n) : level[n] < level[BaseNode(e, n)]}

\* The search asks for a route on the hierarchy that was prepared.
QueryInv ==
    /\ phase = "done"
    /\ query.edges = CHEdges /\ query.restricted = {} /\ query.uTurn = 0
    /\ \A s \in Q!Sides : query.start[s] \in Nodes

\* Each entry is filed under its node; where a side began is filed at once.
TreeInv ==
    /\ tree = [s \in Q!Sides |-> tree[s]]
    /\ \A s \in Q!Sides :
        /\ DOMAIN tree[s] \subseteq Nodes
        /\ \A n \in DOMAIN tree[s] : tree[s][n] \in Entries(s) /\ tree[s][n].node = n
        /\ query.start[s] \in DOMAIN tree[s] /\ tree[s][query.start[s]].weight = 0

\* What is in the heap is in the tree, and no lighter than what was taken last.
HeapInv ==
    /\ heap = [s \in Q!Sides |-> heap[s]] /\ curr = [s \in Q!Sides |-> curr[s]]
    /\ finished = [s \in Q!Sides |-> finished[s]]
    /\ \A s \in Q!Sides :
        /\ curr[s] \in Entries(s)
        /\ \A x \in heap[s] : /\ x.node \in DOMAIN tree[s] /\ x = tree[s][x.node]
                              /\ curr[s].weight <= x.weight
        /\ finished[s] => heap[s] = {}

\* Only edges that lead up from the node taken last are still to be relaxed.
PendingInv ==
    /\ pc \in ({"fill", "relax"} \X Q!Sides) \cup {<<"head", "from">>, <<"done", "from">>, <<"exceeded", "from">>}
    /\ \A s \in Q!Sides : pc = <<"relax", s>> =>
          /\ ~ finished[s]
          /\ \A n \in Nodes : curr[s].node = n => pending \subseteq UpEdges(n)

\* An edge up from n has been relaxed: there is an entry no heavier than over it.
IsRelaxed(s, n, e) ==
    SearchWeight(e, n, s) # Inf =>
        /\ BaseNode(e, n) \in DOMAIN tree[s]
        /\ tree[s][BaseNode(e, n)].weight <= tree[s][n].weight + SearchWeight(e, n, s)

\* An entry that is as light as can be is not stalled, so when it has left the
\* heap the edges up from its node are relaxed or about to be.
RelaxedInv ==
    \A s \in Q!Sides : \A n \in DOMAIN tree[s] :
        tree[s][n] \notin heap[s] /\ tree[s][n].weight \in ShortestWeights(s, n) =>
            \A e \in UpEdges(n) :
                \/ IsRelaxed(s, n, e)
                \/ pc = <<"relax", s>> /\ curr[s] = tree[s][n] /\ e \in pending

\* The best weight is that of two entries that meet, and no pair is lighter.
BestInv ==
    /\ best = [weight |-> best.weight, entry |-> best.entry]
    /\ best.entry = [s \in Q!Sides |-> best.entry[s]]
    /\ \A n \in DOMAIN tree["from"] \cap DOMAIN tree["to"] :
          best.weight # Inf /\ best.weight <= tree["from"][n].weight + tree["to"][n].weight
    /\ best.weight # Inf =>
          \E n \in DOMAIN tree["from"] \cap DOMAIN tree["to"] :
             /\ best.weight = tree["from"][n].weight + tree["to"][n].weight
             /\ \A s \in Q!Sides : best.entry[s] = tree[s][n]

\* What is reported when the search is over: the best pair, unpacked.
ResultInv ==
    pc[1] = "done" =>
        /\ Q!IsFinished /\ result.weight = best.weight
        /\ best.weight # Inf =>
              Traced(result.edges, query.start["from"], query.start["to"], TRUE, best.weight)

\* The state of a search, before it begins and from then on.
SearchInv ==
    IF pc[1] = "idle" THEN pc = <<"idle", "from">> /\ finished = [s \in Q!Sides |-> FALSE]
    ELSE QueryInv /\ TreeInv /\ HeapInv /\ PendingInv /\ RelaxedInv /\ BestInv /\ ResultInv

-----------------------------------------------------------------------------

\* The hierarchy stays what it is while it is searched.
LEMMA HierarchyStays ==
    ASSUME UNCHANGED contractionVars
    PROVE  /\ Nodes' = Nodes /\ CHEdges' = CHEdges /\ StoredEdges' = StoredEdges
           /\ level' = level /\ phase' = phase /\ graph' = graph /\ shortcuts' = shortcuts
           /\ \A e, n : BaseNode(e, n)' = BaseNode(e, n)
           /\ \A e, n, s : SearchWeight(e, n, s)' = SearchWeight(e, n, s)
           /\ \A n : UpEdges(n)' = UpEdges(n)
<1>1. graph' = graph /\ level' = level /\ phase' = phase /\ lastShortcut' = lastShortcut
      /\ shortcuts' = shortcuts
  BY ContractionUnchanged
<1>2. Nodes' = Nodes /\ CHEdges' = CHEdges /\ StoredEdges' = StoredEdges
  BY <1>1 DEF Nodes, CHEdges, StoredEdges, GetEdges
<1>3. \A e, n : BaseNode(e, n)' = BaseNode(e, n)
  BY <1>2 DEF BaseNode
<1>4. \A e, n, s : SearchWeight(e, n, s)' = SearchWeight(e, n, s)
  BY <1>2 DEF SearchWeight, CHWeight, BaseNode
<1>5. \A n : Explore(n)' = Explore(n)
  BY <1>1 DEF Explore, ShortcutsOf, GetEdges
<1>6. \A n : UpEdges(n)' = UpEdges(n)
  BY <1>1, <1>3, <1>5 DEF UpEdges
<1> QED
  BY <1>1, <1>2, <1>3, <1>4, <1>6

\* So what can be said of it does.
LEMMA EntriesStay ==
    ASSUME UNCHANGED contractionVars, query' = query, NEW s
    PROVE  Entries(s)' = Entries(s) /\ \A v : ShortestWeights(s, v)' = ShortestWeights(s, v)
<1>1. Nodes' = Nodes /\ CHEdges' = CHEdges /\ StoredEdges' = StoredEdges /\ level' = level /\ graph' = graph
  BY HierarchyStays
<1>2. BaseArcs' = BaseArcs
  BY <1>1 DEF BaseArcs
<1>3. \A o, v, w : Reaches(o, s, v, w)' <=> Reaches(o, s, v, w)
  BY <1>1, <1>2 DEF Reaches
<1>4. \A p, t, edges : IsRoute(p, t, edges, s)' <=> IsRoute(p, t, edges, s)
  BY <1>1 DEF IsRoute, CHEnds, BaseNode, SearchWeight, CHWeight
<1>5. \A e, n : BaseNode(e, n)' = BaseNode(e, n)
  BY <1>1 DEF BaseNode
<1>6. \A v : ShortestWeights(s, v)' = ShortestWeights(s, v)
  BY <1>3 DEF ShortestWeights
<1>7. PICK o : o = query.start[s]
  OBVIOUS
<1>8. Entries(s)' = Entries(s)
  BY <1>1, <1>3, <1>4, <1>5, <1>7 DEF Entries
<1> QED
  BY <1>6, <1>8

-----------------------------------------------------------------------------

\* The search runs on the stored hierarchy.
LEMMA SearchSees ==
    /\ Q!CHEdges = CHEdges /\ Q!Nodes = Nodes /\ Q!Sides = {"from", "to"}
    /\ \A n : Q!Explore(n) = Explore(n)
    /\ \A e, n : Q!BaseNode(e, n) = BaseNode(e, n)
<1>1. Q!CHEdges = CHEdges /\ Q!Nodes = Nodes /\ Q!GetEdges = GetEdges
  BY DEF Q!CHEdges, CHEdges, Q!Nodes, Nodes, Q!GetEdges, GetEdges
<1>2. \A n : Q!Explore(n) = Explore(n)
  BY <1>1 DEF Q!Explore, Explore, Q!ShortcutsOf, ShortcutsOf
<1>3. \A e, n : Q!BaseNode(e, n) = BaseNode(e, n)
  BY <1>1 DEF Q!BaseNode, BaseNode
<1> QED
  BY <1>1, <1>2, <1>3 DEF Q!Sides

\* What the search unpacks is what the hierarchy unpacks.
LEMMA SearchUnpackMeaning ==
    ASSUME Prepared, NEW edge \in StoredEdges
    PROVE  \E h : IsExpansion(h, edge) /\ \A end : Q!Unpack(edge, end) = h[<<edge, end>>]
<1> DEFINE Rule(h) == h = [x \in (1 .. edge) \X Q!Nodes |->
            LET id == x[1]  adj == x[2]
            IN  IF id <= Q!GetEdges THEN <<id>>
                ELSE LET s == shortcuts[id - Q!GetEdges]
                         near == IF Q!Touches(s.skip2, adj) THEN s.skip2 ELSE s.skip1
                         far == IF near = s.skip2 THEN s.skip1 ELSE s.skip2
                     IN  IF near >= id \/ far >= id THEN << >>
                         ELSE h[<<near, adj>>] \o h[<<far, Q!BaseNode(near, adj)>>]]
           As(h) == h = [x \in (1 .. edge) \X Nodes |-> Expands(h, x[1], x[2])]
<1>1. \A h : Rule(h) <=> As(h)
  <2>1. Q!Nodes = Nodes /\ Q!GetEdges = GetEdges /\ Q!CHEdges = CHEdges
    BY SearchSees DEF Q!GetEdges, GetEdges
  <2> QED
    BY <2>1 DEF Expands, Near, Far, Q!BaseNode, BaseNode, Q!Touches, Touches
<1>2. PICK f \in [(1 .. edge) \X Nodes -> Seq(1 .. GetEdges)] : IsExpansion(f, edge)
  BY ExpansionExists
<1>3. As(f)
  <2>1. \A x \in (1 .. edge) \X Nodes : f[x] = Expands(f, x[1], x[2])
    BY <1>2 DEF IsExpansion
  <2>2. f = [x \in (1 .. edge) \X Nodes |-> f[x]]
    BY <1>2
  <2> QED
    BY <2>1, <2>2
<1> DEFINE g == CHOOSE h : Rule(h)
<1>4. Rule(g)
  <2>1. Rule(f)
    BY <1>1, <1>3
  <2> HIDE DEF Rule
  <2> QED
    BY <2>1
<1>5. \A end : Q!Unpack(edge, end) = g[<<edge, end>>]
  BY DEF Q!Unpack
<1> HIDE DEF g, Rule
<1>6. As(g)
  BY <1>1, <1>4
<1>7. IsExpansion(g, edge)
  BY <1>6 DEF IsExpansion
<1> QED
  BY <1>5, <1>7

\* So it is traced along base edges.
LEMMA SearchUnpackTraced ==
    ASSUME Prepared, NEW k \in StoredEdges, NEW end \in CHEnds(k), NEW along \in BOOLEAN,
           NEW w \in Nat, w = CHWeight(k, IF along THEN end ELSE BaseNode(k, end))
    PROVE  Traced(Q!Unpack(k, end), end, BaseNode(k, end), along, w)
<1>1. PICK h : IsExpansion(h, k) /\ \A n : Q!Unpack(k, n) = h[<<k, n>>]
  BY SearchUnpackMeaning
<1>2. Unpacks(h, k)
  BY <1>1, EveryEdgeUnpacks
<1> QED
  BY <1>1, <1>2 DEF Unpacks

\* The weights the search computes are those of the stored edges.
LEMMA SearchWeighs ==
    ASSUME SearchReady, QueryInv, NEW n \in Nodes, NEW e \in Explore(n), NEW s \in Q!Sides
    PROVE  /\ e \in StoredEdges /\ n \in CHEnds(e) /\ BaseNode(e, n) \in Nodes
           /\ Q!AdjNode(e, n) = BaseNode(e, n)
           /\ SearchWeight(e, n, s) \in Nat \cup {Inf} /\ Inf \notin Int
           /\ Q!EdgeWeight(e, n, s) = SearchWeight(e, n, s)
           /\ Q!EdgeWeight(e, n, Q!Other(s)) = SearchWeight(e, BaseNode(e, n), s)
<1>1. e \in StoredEdges /\ n \in CHEnds(e) /\ Prepared /\ graph \in Graphs
  BY DEF SearchReady, ExploredStored, Prepared
<1>2. query.edges = CHEdges /\ s \in {"from", "to"}
  BY SearchSees DEF QueryInv
<1>3. BaseNode(e, n) \in Nodes /\ BaseNode(e, n) # n /\ BaseNode(e, BaseNode(e, n)) = n
  BY <1>1, StoredEnds
<1>4. CHEdges[e].fwd \in Nat \cup {Inf} /\ CHEdges[e].bwd \in Nat \cup {Inf}
  BY <1>1, CHNodes
<1>5. Q!AdjNode(e, n) = BaseNode(e, n)
  BY <1>2 DEF Q!AdjNode, BaseNode
<1>6. SearchWeight(e, n, s) \in Nat \cup {Inf} /\ Inf \notin Int
  BY <1>1, <1>4, BaseFacts DEF SearchWeight, CHWeight
<1>7. \A x \in {"from", "to"} : Q!EdgeWeight(e, n, x) = SearchWeight(e, n, x)
  <2>1. Q!EdgeWeight(e, n, "from") = SearchWeight(e, n, "from")
    BY <1>2 DEF Q!EdgeWeight, SearchWeight, CHWeight
  <2>2. Q!EdgeWeight(e, n, "to") = SearchWeight(e, n, "to")
    BY <1>2, <1>3 DEF Q!EdgeWeight, SearchWeight, CHWeight, BaseNode
  <2> QED
    BY <2>1, <2>2
<1>8. SearchWeight(e, n, Q!Other(s)) = SearchWeight(e, BaseNode(e, n), s)
  BY <1>2, <1>3 DEF SearchWeight, Q!Other
<1>9. Q!Other(s) \in {"from", "to"}
  BY DEF Q!Other
<1> QED
  BY <1>1, <1>2, <1>3, <1>5, <1>6, <1>7, <1>8, <1>9

\* The weight of an entry and that of an edge explored at it.
Onward(entry, e, s) ==
    IF SearchWeight(e, entry.node, s) = Inf THEN Inf
    ELSE entry.weight + SearchWeight(e, entry.node, s)

\* The entry over an edge.
LEMMA EntryOver ==
    ASSUME SearchReady, QueryInv, NEW s \in Q!Sides, NEW entry \in Entries(s),
           NEW e \in Explore(entry.node)
    PROVE  Q!createEntry(e, entry, s) =
              [node |-> BaseNode(e, entry.node), weight |-> Onward(entry, e, s),
               edges |-> Append(entry.edges, e)]
<1>1. PICK n, w : n = entry.node /\ w = entry.weight
  OBVIOUS
<1>2. n \in Nodes /\ w \in Nat
  BY <1>1 DEF Entries
<1>3. /\ Q!AdjNode(e, n) = BaseNode(e, n) /\ Q!EdgeWeight(e, n, s) = SearchWeight(e, n, s)
      /\ SearchWeight(e, n, s) \in Nat \cup {Inf} /\ Inf \notin Int
  BY <1>1, <1>2, SearchWeighs
<1>4. \A x, y, z : Q!TurnWeight(x, y, z) = 0
  BY DEF QueryInv, Q!TurnWeight
<1>5. Q!calcWeight(e, entry, s) = Q!Add(Q!Add(SearchWeight(e, n, s), 0), w)
  BY <1>1, <1>3, <1>4 DEF Q!calcWeight
<1>6. Q!calcWeight(e, entry, s) = Onward(entry, e, s)
  <2>1. PICK c : c = SearchWeight(e, n, s)
    OBVIOUS
  <2>2. Q!Add(Q!Add(c, 0), w) = IF c = Inf THEN Inf ELSE w + c
    BY <1>2, <1>3, <2>1 DEF Q!Add
  <2> QED
    BY <1>1, <1>5, <2>1, <2>2 DEF Onward
<1> QED
  BY <1>1, <1>3, <1>6 DEF Q!createEntry

-----------------------------------------------------------------------------

\* Where a side begins.
Root(s) == [node |-> query.start[s], weight |-> 0, edges |-> << >>]
\* The entries a search begins with.
RootsAreEntries == \A s \in Q!Sides : Root(s) \in Entries(s)

\* They are entries: of the chain that has no edge.
LEMMA RootEntries == SearchReady /\ QueryInv => RootsAreEntries
<1> SUFFICES ASSUME SearchReady, QueryInv, NEW s \in Q!Sides PROVE Root(s) \in Entries(s)
  BY DEF RootsAreEntries
<1>1. PICK o : o = query.start[s]
  OBVIOUS
<1>2. o \in Nodes /\ graph \in Graphs
  BY <1>1 DEF QueryInv, SearchReady, Prepared
<1>3. Reaches(o, s, o, 0)
  <2>1. <<o, 0>> \in Walked(Nodes, BaseArcs, o)
    BY <1>2, BaseArcsFacts, WalkedClosed DEF IsClosed
  <2> QED
    BY <2>1 DEF Reaches
<1>4. PICK x : x = Root(s)
  OBVIOUS
<1>5. x.node = o /\ x.weight = 0 /\ x.edges = << >> /\ Len(x.edges) = 0
      /\ x \in [node : Nodes, weight : Nat, edges : Seq(StoredEdges)]
  BY <1>1, <1>2, <1>4 DEF Root
<1>6. PICK p, t : p = [i \in 0 .. 0 |-> o] /\ t = [i \in 0 .. 0 |-> 0]
  OBVIOUS
<1>7. p \in [0 .. Len(x.edges) -> Nodes] /\ t \in [0 .. Len(x.edges) -> Nat]
      /\ p[0] = o /\ t[0] = 0
  BY <1>2, <1>5, <1>6
<1>8. IsRoute(p, t, x.edges, s)
  BY <1>5 DEF IsRoute
<1>9. x \in Entries(s)
  BY <1>1, <1>3, <1>5, <1>7, <1>8 DEF Entries
<1> QED
  BY <1>4, <1>9

\* The same after a step.
LEMMA RootEntriesNext == SearchReady' /\ QueryInv' => RootsAreEntries'
BY RootEntries, PTL

\* A chain of stored edges can be continued.
LEMMA RouteOn ==
    ASSUME SearchReady, NEW s, NEW edges \in Seq(StoredEdges),
           NEW p \in [0 .. Len(edges) -> Nodes], NEW t \in [0 .. Len(edges) -> Nat],
           IsRoute(p, t, edges, s),
           NEW e \in StoredEdges, NEW n, n = p[Len(edges)], n \in CHEnds(e), BaseNode(e, n) \in Nodes,
           NEW c \in Nat, c = SearchWeight(e, n, s)
    PROVE  \E q \in [0 .. (Len(edges) + 1) -> Nodes], u \in [0 .. (Len(edges) + 1) -> Nat] :
              /\ IsRoute(q, u, Append(edges, e), s)
              /\ q[0] = p[0] /\ u[0] = t[0]
              /\ q[Len(edges) + 1] = BaseNode(e, n) /\ u[Len(edges) + 1] = t[Len(edges)] + c
<1>1. PICK k, m : k = Len(edges) /\ m = BaseNode(e, n)
  OBVIOUS
<1>2. k \in Nat /\ 0 \in 0 .. k /\ k \in 0 .. k /\ k + 1 \in 0 .. (k + 1) /\ 0 \in 0 .. (k + 1)
  BY <1>1
<1>3. PICK q : q = [i \in 0 .. (k + 1) |-> IF i <= k THEN p[i] ELSE m]
  OBVIOUS
<1>4. PICK u : u = [i \in 0 .. (k + 1) |-> IF i <= k THEN t[i] ELSE t[k] + c]
  OBVIOUS
<1>5. t[k] \in Nat
  BY <1>1, <1>2
<1>6. q \in [0 .. (k + 1) -> Nodes] /\ u \in [0 .. (k + 1) -> Nat]
  BY <1>1, <1>2, <1>3, <1>4, <1>5
<1>7. \A i \in 0 .. k : q[i] = p[i] /\ u[i] = t[i]
  BY <1>2, <1>3, <1>4
<1>8. q[k + 1] = m /\ u[k + 1] = t[k] + c
  BY <1>2, <1>3, <1>4
<1>9. PICK more : more = Append(edges, e)
  OBVIOUS
<1>10. Len(more) = k + 1 /\ more[k + 1] = e /\ \A i \in 1 .. k : more[i] = edges[i]
  BY <1>1, <1>9
<1>11. IsRoute(q, u, more, s)
  <2> SUFFICES ASSUME NEW i \in 1 .. (k + 1)
               PROVE  /\ q[i - 1] \in CHEnds(more[i]) /\ q[i] = BaseNode(more[i], q[i - 1])
                      /\ SearchWeight(more[i], q[i - 1], s) \in Nat
                      /\ u[i] = u[i - 1] + SearchWeight(more[i], q[i - 1], s)
    BY <1>10 DEF IsRoute
  <2>1. PICK j : j = i - 1
    OBVIOUS
  <2>2. j \in 0 .. k
    BY <1>2, <2>1
  <2>3. CASE i \in 1 .. k
    <3>1. more[i] = edges[i] /\ q[j] = p[j] /\ u[j] = t[j] /\ q[i] = p[i] /\ u[i] = t[i]
      BY <1>2, <1>7, <1>10, <2>2, <2>3
    <3>2. /\ p[i - 1] \in CHEnds(edges[i]) /\ p[i] = BaseNode(edges[i], p[i - 1])
          /\ SearchWeight(edges[i], p[i - 1], s) \in Nat
          /\ t[i] = t[i - 1] + SearchWeight(edges[i], p[i - 1], s)
      BY <1>1, <2>3 DEF IsRoute
    <3> QED
      BY <2>1, <3>1, <3>2
  <2>4. CASE i = k + 1
    <3>1. j = k
      BY <1>2, <2>1, <2>4
    <3>2. more[i] = e /\ q[j] = n /\ q[i] = m /\ u[i] = t[k] + c /\ u[j] = t[k]
      BY <1>1, <1>2, <1>7, <1>8, <1>10, <2>4, <3>1
    <3> QED
      BY <1>1, <2>1, <3>2
  <2> QED
    BY <1>2, <2>3, <2>4
<1>12. q[0] = p[0] /\ u[0] = t[0]
  BY <1>2, <1>7
<1> QED
  BY <1>1, <1>6, <1>8, <1>9, <1>11, <1>12

\* An edge up from the node of an entry leads to an entry.
LEMMA NextEntry ==
    ASSUME SearchReady, QueryInv, NEW s \in Q!Sides, NEW x \in Entries(s), NEW n, n = x.node,
           NEW e \in UpEdges(n), NEW c \in Nat, c = SearchWeight(e, n, s)
    PROVE  [node |-> BaseNode(e, n), weight |-> x.weight + c, edges |-> Append(x.edges, e)] \in Entries(s)
<1>1. PICK o, m, k, edges, w : o = query.start[s] /\ m = BaseNode(e, n) /\ edges = x.edges
                              /\ k = Len(edges) /\ w = x.weight
  OBVIOUS
<1>2. n \in Nodes /\ w \in Nat /\ edges \in Seq(StoredEdges) /\ Reaches(o, s, n, w)
      /\ o \in Nodes /\ Prepared
  BY <1>1 DEF Entries, QueryInv, SearchReady
<1>3. e \in Explore(n) /\ level[n] < level[m]
  BY <1>1 DEF UpEdges
<1>4. e \in StoredEdges /\ n \in CHEnds(e) /\ m \in Nodes
  BY <1>1, <1>2, <1>3, SearchWeighs
<1>5. BaseNode(e, m) = n
  BY <1>1, <1>2, <1>4, StoredEnds
<1>6. Reaches(o, s, m, w + c)
  BY <1>1, <1>2, <1>4, ReachesOn
<1>7. PICK p \in [0 .. k -> Nodes], t \in [0 .. k -> Nat] :
         IsRoute(p, t, edges, s) /\ p[0] = o /\ t[0] = 0 /\ p[k] = n /\ t[k] = w
  BY <1>1 DEF Entries
<1>8. PICK more : more = Append(edges, e)
  OBVIOUS
<1>9. \E q \in [0 .. (k + 1) -> Nodes], u \in [0 .. (k + 1) -> Nat] :
         /\ IsRoute(q, u, more, s) /\ q[0] = p[0] /\ u[0] = t[0]
         /\ q[k + 1] = m /\ u[k + 1] = t[k] + c
  <2>1. p \in [0 .. Len(edges) -> Nodes] /\ t \in [0 .. Len(edges) -> Nat]
        /\ IsRoute(p, t, edges, s) /\ n = p[Len(edges)]
    BY <1>1, <1>7
  <2>2. BaseNode(e, n) \in Nodes /\ edges \in Seq(StoredEdges) /\ e \in StoredEdges /\ n \in CHEnds(e)
    BY <1>1, <1>2, <1>4
  <2>3. \E q \in [0 .. (Len(edges) + 1) -> Nodes], u \in [0 .. (Len(edges) + 1) -> Nat] :
         /\ IsRoute(q, u, Append(edges, e), s) /\ q[0] = p[0] /\ u[0] = t[0]
         /\ q[Len(edges) + 1] = BaseNode(e, n) /\ u[Len(edges) + 1] = t[Len(edges)] + c
    BY <2>1, <2>2, RouteOn
  <2> QED
    BY <1>1, <1>8, <2>3
<1>10. k \in Nat /\ Len(more) = k + 1 /\ more \in Seq(StoredEdges) /\ more # << >> /\ Last(more) = e
  BY <1>1, <1>2, <1>4, <1>8 DEF Last
<1>11. PICK y : y = [node |-> m, weight |-> w + c, edges |-> more]
  OBVIOUS
<1>12. y.node = m /\ y.weight = w + c /\ y.edges = more
       /\ y \in [node : Nodes, weight : Nat, edges : Seq(StoredEdges)]
  BY <1>2, <1>4, <1>10, <1>11
<1>13. level[BaseNode(Last(y.edges), y.node)] < level[y.node]
  BY <1>3, <1>5, <1>10, <1>12
<1>14. \E q \in [0 .. Len(y.edges) -> Nodes], u \in [0 .. Len(y.edges) -> Nat] :
          /\ IsRoute(q, u, y.edges, s) /\ q[0] = o /\ u[0] = 0
          /\ q[Len(y.edges)] = y.node /\ u[Len(y.edges)] = y.weight
  BY <1>7, <1>9, <1>10, <1>12
<1>15. y \in Entries(s)
  BY <1>1, <1>6, <1>12, <1>13, <1>14 DEF Entries
<1> QED
  BY <1>1, <1>8, <1>11, <1>15

-----------------------------------------------------------------------------

\* What is known of the hierarchy when it is complete.
HierarchyInv == ListsInv /\ LevelsInv /\ StoreInv /\ RecordsInv /\ ClimbInv
\* No two nodes are on one level.
LevelsApart ==
    /\ level \in [Nodes -> Nat]
    /\ \A m, n \in Nodes : level[m] = level[n] => m = n

\* So it can be searched.
LEMMA HierarchyReady == HierarchyInv /\ phase = "done" => SearchReady /\ LevelsApart
<1> SUFFICES ASSUME HierarchyInv, phase = "done" PROVE SearchReady /\ LevelsApart
  OBVIOUS
<1>1. ListsInv /\ LevelsInv /\ StoreInv /\ RecordsInv /\ LastInv
  BY DEF HierarchyInv, ClimbInv
<1>2. graph \in Graphs /\ shortcuts \in Seq(StoredShortcut)
  BY <1>1 DEF ListsInv, StoreInv
<1>3. Prepared
  BY <1>1, <1>2, AllComposed DEF Prepared
<1>4. ExploredStored
  BY <1>1, <1>2, ExploreFacts
<1>5. Contracted = Nodes
  BY <1>1 DEF LevelsInv, Contracted
<1>6. level \in [Nodes -> 0 .. MaxLevel] /\ MaxLevel \in Nat
  BY <1>1, <1>2, BaseFacts DEF LevelsInv
<1>7. LevelsApart
  BY <1>1, <1>5, <1>6 DEF LevelsInv, LevelsApart
<1> QED
  BY <1>3, <1>4, <1>7 DEF SearchReady

\* The same after a step.
LEMMA HierarchyReadyNext ==
    HierarchyInv' /\ phase' = "done" => SearchReady' /\ LevelsApart'
<1>1. (HierarchyInv /\ phase = "done")' => (SearchReady /\ LevelsApart)'
  BY HierarchyReady, PTL
<1> QED
  BY <1>1

\* A search begins with the entries of its two ends.
LEMMA CalcPathSearch ==
    ASSUME HierarchyInv', SearchInv, UNCHANGED contractionVars, phase = "done",
           NEW r \in Requests, r.graph = graph, Q!CalcPath(r.from, r.to, r.stall)
    PROVE  SearchInv'
<1>1. pc = <<"idle", "from">> /\ pc' = <<"fill", "from">> /\ finished' = finished
      /\ finished = [s \in {"from", "to"} |-> FALSE] /\ Q!Sides = {"from", "to"}
  BY DEF Q!CalcPath, SearchInv, Q!Sides
<1>2. PICK from, to : from = r.from /\ to = r.to
  OBVIOUS
<1>3. from \in Nodes /\ to \in Nodes
  BY <1>2, RequestsAssumption DEF Nodes
<1>4. Nodes' = Nodes /\ CHEdges' = CHEdges /\ phase' = "done"
  BY HierarchyStays
<1>5. /\ query'.edges = CHEdges /\ query'.restricted = {} /\ query'.uTurn = 0
      /\ query'.start = [s \in {"from", "to"} |-> IF s = "from" THEN from ELSE to]
  BY <1>1, <1>2, SearchSees DEF Q!CalcPath
<1>6. QueryInv'
  BY <1>1, <1>3, <1>4, <1>5 DEF QueryInv, Q!Sides
<1>7. RootsAreEntries'
  BY <1>4, <1>6, HierarchyReadyNext, RootEntriesNext
<1>8. \A s \in Q!Sides : Root(s)' \in Entries(s)'
  BY <1>7 DEF RootsAreEntries, Q!Sides
<1>9. /\ curr' = [s \in Q!Sides |-> Root(s)']
      /\ heap' = [s \in Q!Sides |-> {Root(s)'}]
      /\ tree' = [s \in Q!Sides |-> [n \in {Root(s)'.node} |-> Root(s)']]
      /\ best' = IF from = to THEN [weight |-> 0, entry |-> curr'] ELSE Q!NoBest
  BY <1>1, <1>2 DEF Q!CalcPath, Q!NewSPTEntry, Root
<1>10. \A s \in Q!Sides : /\ Root(s)'.node = query'.start[s] /\ Root(s)'.weight = 0
                          /\ Root(s)'.node \in Nodes
  BY <1>1, <1>3, <1>5 DEF Root
<1>11. TreeInv'
  BY <1>4, <1>8, <1>9, <1>10 DEF TreeInv, Q!Sides
<1>12. HeapInv'
  BY <1>1, <1>8, <1>9, <1>10 DEF HeapInv, Q!Sides
<1>13. PendingInv'
  BY <1>1 DEF PendingInv, Q!Sides
<1>14. RelaxedInv'
  BY <1>9 DEF RelaxedInv, Q!Sides
<1>15. ResultInv'
  BY <1>1 DEF ResultInv
<1>16. BestInv'
  <2>1. /\ Root("from")'.node = from /\ Root("to")'.node = to
        /\ Root("from")'.weight = 0 /\ Root("to")'.weight = 0
    BY <1>1, <1>5, <1>10
  <2>2. DOMAIN tree'["from"] = {from} /\ DOMAIN tree'["to"] = {to}
    BY <1>1, <1>9, <2>1
  <2>3. CASE from = to
    <3>1. best' = [weight |-> 0, entry |-> curr'] /\ 0 # Inf
      BY <1>9, <2>3, GraphsAssumption
    <3>2. DOMAIN tree'["from"] \cap DOMAIN tree'["to"] = {from}
      BY <2>2, <2>3
    <3>3. \A s \in Q!Sides : tree'[s][from] = curr'[s] /\ tree'[s][from].weight = 0
      BY <1>1, <1>9, <2>1, <2>3
    <3>4. best' = [weight |-> best'.weight, entry |-> best'.entry]
          /\ best'.entry = [s \in Q!Sides |-> best'.entry[s]]
      BY <1>9, <3>1
    <3> QED
      BY <1>1, <3>1, <3>2, <3>3, <3>4 DEF BestInv, Q!Sides
  <2>4. CASE from # to
    <3>1. best' = [weight |-> Inf, entry |-> [s \in {"from", "to"} |-> NoEntry]]
      BY <1>9, <2>4 DEF Q!NoBest, Q!Sides
    <3>2. DOMAIN tree'["from"] \cap DOMAIN tree'["to"] = {}
      BY <2>2, <2>4
    <3> QED
      BY <3>1, <3>2 DEF BestInv, Q!Sides
  <2> QED
    BY <2>3, <2>4
<1> QED
  BY <1>1, <1>6, <1>11, <1>12, <1>13, <1>14, <1>15, <1>16 DEF SearchInv

-----------------------------------------------------------------------------

\* An entry that is as light as can be is not stalled.
LEMMA NotStalled ==
    ASSUME SearchReady, QueryInv, TreeInv, NEW s \in Q!Sides, NEW entry \in Entries(s),
           entry.weight \in ShortestWeights(s, entry.node)
    PROVE  ~ Q!EntryIsStallable(entry, s)
<1> SUFFICES ASSUME Q!EntryIsStallable(entry, s) PROVE FALSE
  OBVIOUS
<1>1. PICK n, o, w : n = entry.node /\ o = query.start[s] /\ w = entry.weight
  OBVIOUS
<1>2. n \in Nodes /\ w \in Nat /\ o \in Nodes /\ Prepared /\ w \in ShortestWeights(s, n)
  BY <1>1 DEF Entries, QueryInv, SearchReady
<1>3. PICK e \in Explore(n) :
         /\ Q!AdjNode(e, n) \in DOMAIN tree[s]
         /\ Q!Add(tree[s][Q!AdjNode(e, n)].weight, Q!EdgeWeight(e, n, Q!Other(s))) \in 0 .. (w - 1)
  BY <1>1, SearchSees DEF Q!EntryIsStallable
<1>4. PICK m, c, v : m = BaseNode(e, n) /\ c = SearchWeight(e, m, s) /\ v = tree[s][m].weight
  OBVIOUS
<1>5. /\ Q!AdjNode(e, n) = m /\ Q!EdgeWeight(e, n, Q!Other(s)) = c /\ Inf \notin Int
      /\ e \in StoredEdges /\ n \in CHEnds(e)
  BY <1>2, <1>4, SearchWeighs
<1>6. m \in Nodes /\ m \in CHEnds(e) /\ BaseNode(e, m) = n
  BY <1>2, <1>4, <1>5, StoredEnds
<1>7. c # Inf /\ v + c < w /\ v # Inf
  BY <1>2, <1>3, <1>4, <1>5 DEF Q!Add
<1>8. v \in Nat /\ Reaches(o, s, m, v)
  BY <1>1, <1>3, <1>4, <1>5 DEF TreeInv, Entries
<1>9. c \in Nat
  BY <1>4, <1>5, <1>7, CHNodes, <1>2 DEF SearchWeight, CHWeight
<1>10. Reaches(o, s, n, v + c)
  BY <1>2, <1>4, <1>5, <1>6, <1>8, <1>9, ReachesOn
<1>11. w <= v + c
  <2>1. v + c \in Nat
    BY <1>8, <1>9
  <2> QED
    BY <1>1, <1>2, <1>10, <2>1 DEF ShortestWeights
<1> QED
  BY <1>2, <1>7, <1>8, <1>9, <1>11

\* The edges that are accepted are those that lead up.
LEMMA AcceptsUp ==
    ASSUME SearchReady, LevelsApart, QueryInv, NEW s \in Q!Sides, NEW entry \in Entries(s),
           NEW n, n = entry.node
    PROVE  {e \in Q!Explore(n) : Q!Accept(e, entry)} = UpEdges(n)
<1>1. n \in Nodes /\ Q!Explore(n) = Explore(n) /\ Prepared
  BY SearchSees DEF Entries, SearchReady
<1>2. ASSUME NEW e \in Explore(n) PROVE Q!Accept(e, entry) <=> level[n] < level[BaseNode(e, n)]
  <2>1. PICK m : m = BaseNode(e, n)
    OBVIOUS
  <2>2. /\ Q!AdjNode(e, n) = m /\ m \in Nodes /\ e \in StoredEdges /\ n \in CHEnds(e)
    BY <1>1, <2>1, SearchWeighs
  <2>3. m # n
    BY <1>1, <2>1, <2>2, StoredEnds
  <2>4. level[n] \in Nat /\ level[m] \in Nat /\ level[n] # level[m]
    BY <1>1, <2>2, <2>3 DEF LevelsApart
  <2>5. PICK edges : edges = entry.edges
    OBVIOUS
  <2>6. Q!Accept(e, entry) <=> /\ (edges = << >> \/ e # Last(edges)) /\ level[n] <= level[m]
    BY <2>2, <2>5 DEF Q!Accept, Q!IsRoot, Q!Last, Last
  <2>7. edges # << >> => level[BaseNode(Last(edges), n)] < level[n]
    BY <2>5 DEF Entries
  <2>8. level[n] < level[m] /\ edges # << >> => e # Last(edges)
    BY <2>1, <2>4, <2>7
  <2> QED
    BY <2>1, <2>4, <2>6, <2>8
<1> QED
  BY <1>1, <1>2 DEF UpEdges

-----------------------------------------------------------------------------

\* A side has no more entries, or takes its lightest one.
RunsDry(s) ==
    /\ finished[s] \/ heap[s] = {}
    /\ finished' = [finished EXCEPT ![s] = TRUE]
    /\ pc' = Q!After(s)
    /\ heap' = heap /\ curr' = curr /\ pending' = pending

\* The lightest entry leaves the heap; unless it is stalled, the edges up from
\* its node are to be relaxed.
Takes(s, entry) ==
    /\ ~ finished[s] /\ entry \in heap[s]
    /\ \A x \in heap[s] : entry.weight <= x.weight
    /\ heap' = [heap EXCEPT ![s] = @ \ {entry}]
    /\ curr' = [curr EXCEPT ![s] = entry]
    /\ pending' = IF query.stall /\ Q!EntryIsStallable(entry, s) THEN {}
                  ELSE {e \in Q!Explore(entry.node) : Q!Accept(e, entry)}
    /\ pc' = IF pending' = {} THEN Q!After(s) ELSE <<"relax", s>>
    /\ finished' = finished

\* What Pop does, for a search on the hierarchy.
LEMMA PopMeaning ==
    ASSUME NEW s, Q!Pop(s)
    PROVE  /\ pc = <<"fill", s>> /\ query' = query /\ tree' = tree /\ best' = best /\ result' = result
           /\ RunsDry(s) \/ \E entry : Takes(s, entry)
<1>1. pc = <<"fill", s>> /\ query' = query /\ tree' = tree /\ best' = best /\ result' = result
  BY DEF Q!Pop
<1>2. CASE finished[s] \/ heap[s] = {}
  <2>1. RunsDry(s)
    BY <1>2 DEF Q!Pop, RunsDry
  <2> QED
    BY <1>1, <2>1
<1>3. CASE ~ (finished[s] \/ heap[s] = {})
  <2>1. PICK entry \in heap[s] :
            /\ \A x \in heap[s] : entry.weight <= x.weight
            /\ heap' = [heap EXCEPT ![s] = @ \ {entry}]
            /\ curr' = [curr EXCEPT ![s] = entry]
            /\ pending' = IF query.stall /\ Q!EntryIsStallable(entry, s) THEN {}
                          ELSE {e \in Q!Explore(entry.node) : Q!Accept(e, entry)}
            /\ pc' = IF pending' = {} THEN Q!After(s) ELSE <<"relax", s>>
            /\ UNCHANGED finished
    BY <1>3 DEF Q!Pop
  <2>2. Takes(s, entry)
    BY <1>3, <2>1 DEF Takes
  <2> QED
    BY <1>1, <2>2
<1> QED
  BY <1>2, <1>3

\* What stays the same as long as the query does.
LEMMA QueryStays ==
    ASSUME UNCHANGED contractionVars, query' = query
    PROVE  /\ QueryInv => QueryInv'
           /\ tree' = tree /\ TreeInv => TreeInv'
           /\ tree' = tree /\ best' = best /\ BestInv => BestInv'
<1>1. Nodes' = Nodes /\ CHEdges' = CHEdges /\ phase' = phase
  BY HierarchyStays
<1>2. \A s : Entries(s)' = Entries(s)
  BY EntriesStay
<1>3. QueryInv => QueryInv'
  BY <1>1 DEF QueryInv, Q!Sides
<1>4. tree' = tree /\ TreeInv => TreeInv'
  BY <1>1, <1>2 DEF TreeInv, Q!Sides
<1>5. tree' = tree /\ best' = best /\ BestInv => BestInv'
  BY DEF BestInv, Q!Sides
<1> QED
  BY <1>3, <1>4, <1>5

\* Whose turn it is after a side is done with an entry.
LEMMA AfterFacts == \A s : Q!After(s) = <<"fill", "to">> \/ Q!After(s) = <<"head", "from">>
BY DEF Q!After

\* A side that has no entries left is finished.
LEMMA DrySearch ==
    ASSUME UNCHANGED contractionVars, HeapInv, RelaxedInv, NEW s \in Q!Sides, pc = <<"fill", s>>,
           query' = query, tree' = tree, RunsDry(s)
    PROVE  HeapInv' /\ PendingInv' /\ RelaxedInv' /\ ResultInv' /\ pc'[1] # "idle"
<1>1. \A x : Entries(x)' = Entries(x) /\ \A v : ShortestWeights(x, v)' = ShortestWeights(x, v)
  BY EntriesStay
<1>2. heap' = heap /\ curr' = curr /\ (finished[s] \/ heap[s] = {})
      /\ finished' = [finished EXCEPT ![s] = TRUE]
  BY DEF RunsDry
<1>3. pc' = <<"fill", "to">> \/ pc' = <<"head", "from">>
  BY AfterFacts DEF RunsDry
<1>4. HeapInv'
  <2>1. finished' = [x \in Q!Sides |-> finished'[x]]
        /\ \A x \in Q!Sides : finished'[x] => finished[x] \/ heap[x] = {}
    BY <1>2 DEF HeapInv
  <2> QED
    BY <1>1, <1>2, <2>1 DEF HeapInv, Q!Sides
<1>5. PendingInv'
  BY <1>3 DEF PendingInv, Q!Sides
<1>6. RelaxedInv'
  <2>1. \A x, n, e : IsRelaxed(x, n, e) => IsRelaxed(x, n, e)'
    BY HierarchyStays DEF IsRelaxed
  <2>2. \A n : UpEdges(n)' = UpEdges(n)
    BY HierarchyStays
  <2>3. \A x \in Q!Sides : pc # <<"relax", x>>
    OBVIOUS
  <2> SUFFICES ASSUME NEW x \in Q!Sides, NEW n \in DOMAIN tree[x], tree[x][n] \notin heap[x],
                      tree[x][n].weight \in ShortestWeights(x, n), NEW e \in UpEdges(n)
               PROVE  IsRelaxed(x, n, e)'
    BY <1>1, <1>2, <2>2 DEF RelaxedInv, Q!Sides
  <2>4. IsRelaxed(x, n, e)
    BY <2>3 DEF RelaxedInv
  <2> QED
    BY <2>1, <2>4
<1>7. pc'[1] # "idle" /\ pc'[1] # "done"
  <2>1. CASE pc' = <<"fill", "to">>
    BY <2>1
  <2>2. CASE pc' = <<"head", "from">>
    BY <2>2
  <2> QED
    BY <1>3, <2>1, <2>2
<1>8. ResultInv'
  BY <1>7 DEF ResultInv
<1> QED
  BY <1>4, <1>5, <1>6, <1>7, <1>8

-----------------------------------------------------------------------------

\* The lightest entry is taken: unless it is stalled, the edges up from its
\* node are relaxed next.
LEMMA TakeSearch ==
    ASSUME SearchReady, LevelsApart, QueryInv, TreeInv, HeapInv, RelaxedInv, UNCHANGED contractionVars,
           NEW s \in Q!Sides, pc = <<"fill", s>>, query' = query, tree' = tree,
           NEW entry, Takes(s, entry)
    PROVE  HeapInv' /\ PendingInv' /\ RelaxedInv' /\ ResultInv' /\ pc'[1] # "idle"
<1>1. \A x : Entries(x)' = Entries(x) /\ \A v : ShortestWeights(x, v)' = ShortestWeights(x, v)
  BY EntriesStay
<1>2. PICK n : n = entry.node
  OBVIOUS
<1>3. /\ ~ finished[s] /\ entry \in heap[s] /\ \A x \in heap[s] : entry.weight <= x.weight
      /\ heap' = [heap EXCEPT ![s] = @ \ {entry}] /\ curr' = [curr EXCEPT ![s] = entry]
      /\ finished' = finished
  BY DEF Takes
<1>4. n \in DOMAIN tree[s] /\ entry = tree[s][n] /\ entry \in Entries(s) /\ n \in Nodes
  BY <1>2, <1>3 DEF HeapInv, TreeInv
<1>5. pending' = {} \/ pending' = UpEdges(n)
  <2>1. {e \in Q!Explore(entry.node) : Q!Accept(e, entry)} = UpEdges(n)
    BY <1>2, <1>4, AcceptsUp
  <2> QED
    BY <2>1 DEF Takes
<1>6. entry.weight \in ShortestWeights(s, n) => pending' = UpEdges(n)
  <2> SUFFICES ASSUME entry.weight \in ShortestWeights(s, n) PROVE pending' = UpEdges(n)
    OBVIOUS
  <2>1. ~ Q!EntryIsStallable(entry, s)
    BY <1>2, <1>4, NotStalled
  <2>2. {e \in Q!Explore(entry.node) : Q!Accept(e, entry)} = UpEdges(n)
    BY <1>2, <1>4, AcceptsUp
  <2> QED
    BY <2>1, <2>2 DEF Takes
<1>7. /\ heap = [x \in Q!Sides |-> heap[x]] /\ curr = [x \in Q!Sides |-> curr[x]]
      /\ finished = [x \in Q!Sides |-> finished[x]]
  BY DEF HeapInv
<1>8. /\ heap'[s] = heap[s] \ {entry} /\ curr'[s] = entry
      /\ \A x \in Q!Sides \ {s} : heap'[x] = heap[x] /\ curr'[x] = curr[x]
      /\ heap' = [x \in Q!Sides |-> heap'[x]] /\ curr' = [x \in Q!Sides |-> curr'[x]]
  BY <1>3, <1>7
<1>9. HeapInv'
  <2>1. \A x \in Q!Sides :
          /\ curr'[x] \in Entries(x)
          /\ \A y \in heap'[x] : /\ y.node \in DOMAIN tree'[x] /\ y = tree'[x][y.node]
                                 /\ curr'[x].weight <= y.weight
          /\ finished'[x] => heap'[x] = {}
    <3> SUFFICES ASSUME NEW x \in Q!Sides
                 PROVE  /\ curr'[x] \in Entries(x)
                        /\ \A y \in heap'[x] : /\ y.node \in DOMAIN tree'[x] /\ y = tree'[x][y.node]
                                               /\ curr'[x].weight <= y.weight
                        /\ finished'[x] => heap'[x] = {}
      OBVIOUS
    <3>1. CASE x = s
      BY <1>3, <1>4, <1>8, <3>1 DEF HeapInv
    <3>2. CASE x # s
      BY <1>3, <1>8, <3>2 DEF HeapInv
    <3> QED
      BY <3>1, <3>2
  <2> QED
    BY <1>1, <1>3, <1>7, <1>8, <2>1 DEF HeapInv, Q!Sides
<1>10. IF pending' = {} THEN pc' = <<"fill", "to">> \/ pc' = <<"head", "from">>
                        ELSE pc' = <<"relax", s>>
  BY AfterFacts DEF Takes
<1>11. pc' = <<"fill", "to">> \/ pc' = <<"head", "from">> \/ pc' = <<"relax", s>>
  BY <1>10
<1>12. pc'[1] # "idle" /\ pc'[1] # "done"
  <2>1. CASE pc' = <<"fill", "to">>
    BY <2>1
  <2>2. CASE pc' = <<"head", "from">>
    BY <2>2
  <2>3. CASE pc' = <<"relax", s>>
    BY <2>3
  <2> QED
    BY <1>11, <2>1, <2>2, <2>3
<1>13. ResultInv'
  BY <1>12 DEF ResultInv
<1>14. PendingInv'
  <2>1. \A x \in Q!Sides : pc' = <<"relax", x>> => x = s
    BY <1>11
  <2>2. pc' \in ({"fill", "relax"} \X Q!Sides) \cup {<<"head", "from">>, <<"done", "from">>, <<"exceeded", "from">>}
    BY <1>11 DEF Q!Sides
  <2>3. \A m \in Nodes : curr'[s].node = m => pending' \subseteq UpEdges(m)
    BY <1>2, <1>5, <1>8
  <2>4. Nodes' = Nodes /\ \A m : UpEdges(m)' = UpEdges(m)
    BY HierarchyStays
  <2>5. \A m \in Nodes' : curr'[s].node = m => pending' \subseteq UpEdges(m)'
    BY <2>3, <2>4
  <2> QED
    BY <1>3, <2>1, <2>2, <2>5 DEF PendingInv, Q!Sides
<1>15. RelaxedInv'
  <2>1. \A x, m, e : IsRelaxed(x, m, e) => IsRelaxed(x, m, e)'
    BY HierarchyStays DEF IsRelaxed
  <2>2. \A m : UpEdges(m)' = UpEdges(m)
    BY HierarchyStays
  <2> SUFFICES ASSUME NEW x \in Q!Sides, NEW m \in DOMAIN tree[x], tree[x][m] \notin heap'[x],
                      tree[x][m].weight \in ShortestWeights(x, m), NEW e \in UpEdges(m)
               PROVE  \/ IsRelaxed(x, m, e)'
                      \/ pc' = <<"relax", x>> /\ curr'[x] = tree[x][m] /\ e \in pending'
    BY <1>1, <2>2 DEF RelaxedInv, Q!Sides
  <2>3. CASE tree[x][m] \notin heap[x]
    <3>1. IsRelaxed(x, m, e)
      BY <2>3 DEF RelaxedInv
    <3> QED
      BY <2>1, <3>1
  <2>4. CASE tree[x][m] \in heap[x]
    <3>1. x = s /\ tree[x][m] = entry
      BY <1>8, <2>4
    <3>2. m = n
      BY <1>2, <3>1 DEF TreeInv
    <3>3. pending' = UpEdges(n)
      BY <1>6, <3>1, <3>2
    <3>4. e \in pending' /\ pc' = <<"relax", s>>
      BY <1>10, <3>2, <3>3
    <3> QED
      BY <1>8, <3>1, <3>4
  <2> QED
    BY <2>3, <2>4
<1> QED
  BY <1>9, <1>12, <1>13, <1>14, <1>15

-----------------------------------------------------------------------------

\* An edge is relaxed: its entry is filed or not.
Relaxes(s, e) ==
    /\ e \in pending /\ pending' = pending \ {e}
    /\ pc' = IF pending' = {} THEN Q!After(s) ELSE pc

\* There is an entry of the node that is as light.
Passes(s, y) == ~ Q!Improves(y, y.node, tree[s]) /\ tree' = tree /\ heap' = heap /\ best' = best

\* The entry of the node that a new one takes the place of.
Replaced(s, y) == {tree[s][n] : n \in DOMAIN tree[s] \cap {y.node}}
\* The best pair if the entry that is replaced is one of it.
KeptBest(s, y) ==
    IF best.entry[s] \in Replaced(s, y) THEN [best EXCEPT !.entry[s] = y] ELSE best
\* The new entry is filed, and may improve the best pair.
Files(s, y) ==
    /\ Q!Improves(y, y.node, tree[s])
    /\ tree' = [tree EXCEPT ![s] = Q!Filed(@, y.node, y)]
    /\ heap' = [heap EXCEPT ![s] = (@ \ Replaced(s, y)) \cup {y}]
    /\ best' = Q!UpdateBestPathEntry(KeptBest(s, y), y, s)

\* What Relax does, for a search on the hierarchy.
LEMMA RelaxMeaning ==
    ASSUME NEW s, Q!Relax(s)
    PROVE  /\ pc = <<"relax", s>> /\ query' = query /\ curr' = curr /\ finished' = finished
           /\ \E e, y : /\ Relaxes(s, e) /\ y = Q!createEntry(e, curr[s], s)
                        /\ Passes(s, y) \/ Files(s, y)
<1>1. /\ pc = <<"relax", s>> /\ query' = query /\ curr' = curr /\ finished' = finished
      /\ pc' = IF pending' = {} THEN Q!After(s) ELSE pc
  BY DEF Q!Relax
<1>2. PICK e \in pending :
         /\ LET entry == Q!createEntry(e, curr[s], s)
                replaced == {tree[s][n] : n \in DOMAIN tree[s] \cap {entry.node}}
                kept == IF best.entry[s] \in replaced
                        THEN [best EXCEPT !.entry[s] = entry] ELSE best
            IN  IF Q!Improves(entry, entry.node, tree[s])
                THEN /\ tree' = [tree EXCEPT ![s] = Q!Filed(@, entry.node, entry)]
                     /\ heap' = [heap EXCEPT ![s] = (@ \ replaced) \cup {entry}]
                     /\ best' = Q!UpdateBestPathEntry(kept, entry, s)
                ELSE UNCHANGED <<tree, heap, best>>
         /\ pending' = pending \ {e}
  BY DEF Q!Relax
<1>3. PICK y : y = Q!createEntry(e, curr[s], s)
  OBVIOUS
<1>4. Relaxes(s, e)
  BY <1>1, <1>2 DEF Relaxes
<1>5. Passes(s, y) \/ Files(s, y)
  BY <1>2, <1>3 DEF Passes, Files, Replaced, KeptBest
<1> QED
  BY <1>1, <1>3, <1>4, <1>5

\* What is left to relax leads up, too.
LEMMA RelaxPending ==
    ASSUME UNCHANGED contractionVars, PendingInv, NEW s \in Q!Sides, pc = <<"relax", s>>,
           query' = query, curr' = curr, finished' = finished, NEW e, Relaxes(s, e)
    PROVE  PendingInv' /\ ResultInv' /\ pc'[1] # "idle"
<1>1. pending' \subseteq pending /\ ~ finished[s]
      /\ \A n \in Nodes : curr[s].node = n => pending \subseteq UpEdges(n)
  BY DEF Relaxes, PendingInv
<1>2. pc' = <<"fill", "to">> \/ pc' = <<"head", "from">> \/ pc' = <<"relax", s>>
  BY AfterFacts DEF Relaxes
<1>3. pc'[1] # "idle" /\ pc'[1] # "done"
  <2>1. CASE pc' = <<"fill", "to">>
    BY <2>1
  <2>2. CASE pc' = <<"head", "from">>
    BY <2>2
  <2>3. CASE pc' = <<"relax", s>>
    BY <2>3
  <2> QED
    BY <1>2, <2>1, <2>2, <2>3
<1>4. ResultInv'
  BY <1>3 DEF ResultInv
<1>5. PendingInv'
  <2>1. \A x \in Q!Sides : pc' = <<"relax", x>> => x = s
    BY <1>2
  <2>2. pc' \in ({"fill", "relax"} \X Q!Sides) \cup {<<"head", "from">>, <<"done", "from">>, <<"exceeded", "from">>}
    BY <1>2 DEF Q!Sides
  <2>3. Nodes' = Nodes /\ \A m : UpEdges(m)' = UpEdges(m)
    BY HierarchyStays
  <2>4. \A m \in Nodes' : curr'[s].node = m => pending' \subseteq UpEdges(m)'
    BY <1>1, <2>3
  <2> QED
    BY <1>1, <2>1, <2>2, <2>4 DEF PendingInv, Q!Sides
<1> QED
  BY <1>3, <1>4, <1>5

\* The entry over an edge up, in short.
IsOver(s, n, e, m, c, w, y) ==
    /\ n \in Nodes /\ n = curr[s].node /\ e \in UpEdges(n) /\ m = BaseNode(e, n)
    /\ c = SearchWeight(e, n, s) /\ w = curr[s].weight /\ c \in Nat \cup {Inf} /\ w \in Nat
    /\ y.node = m /\ y.weight = (IF c = Inf THEN Inf ELSE w + c)
    /\ c # Inf => y \in Entries(s)

\* The edge that is relaxed and its entry.
LEMMA RelaxedOver ==
    ASSUME SearchReady, QueryInv, HeapInv, PendingInv, NEW s \in Q!Sides, pc = <<"relax", s>>,
           NEW e, e \in pending, NEW y, y = Q!createEntry(e, curr[s], s)
    PROVE  \E n, m, c, w : IsOver(s, n, e, m, c, w, y)
<1>1. PICK n, m, c, w, x : n = curr[s].node /\ m = BaseNode(e, n) /\ c = SearchWeight(e, n, s)
                          /\ x = curr[s] /\ w = x.weight
  OBVIOUS
<1>2. x \in Entries(s) /\ n \in Nodes /\ w \in Nat /\ n = x.node
  BY <1>1 DEF HeapInv, Entries
<1>3. e \in UpEdges(n) /\ e \in Explore(n)
  BY <1>1, <1>2 DEF PendingInv, UpEdges
<1>4. c \in Nat \cup {Inf} /\ Inf \notin Int
  BY <1>1, <1>2, <1>3, SearchWeighs
<1>5. y = [node |-> m, weight |-> Onward(x, e, s), edges |-> Append(x.edges, e)]
  BY <1>1, <1>2, <1>3, EntryOver
<1>6. Onward(x, e, s) = IF c = Inf THEN Inf ELSE w + c
  BY <1>1 DEF Onward
<1>7. c # Inf => y \in Entries(s)
  <2> SUFFICES ASSUME c # Inf PROVE y \in Entries(s)
    OBVIOUS
  <2>1. c \in Nat
    BY <1>4
  <2>2. [node |-> BaseNode(e, n), weight |-> x.weight + c, edges |-> Append(x.edges, e)] \in Entries(s)
    BY <1>1, <1>2, <1>3, <2>1, NextEntry
  <2> QED
    BY <1>1, <1>5, <1>6, <2>2
<1> QED
  BY <1>1, <1>2, <1>3, <1>4, <1>5, <1>6, <1>7 DEF IsOver

-----------------------------------------------------------------------------

\* An edge over which nothing is lighter has been relaxed.
LEMMA PassSearch ==
    ASSUME UNCHANGED contractionVars, TreeInv, HeapInv, RelaxedInv, NEW s \in Q!Sides,
           pc = <<"relax", s>>, query' = query, curr' = curr, finished' = finished,
           NEW e, Relaxes(s, e), NEW n, NEW m, NEW c, NEW w, NEW y, IsOver(s, n, e, m, c, w, y),
           Passes(s, y)
    PROVE  HeapInv' /\ RelaxedInv'
<1>1. \A x : Entries(x)' = Entries(x) /\ \A v : ShortestWeights(x, v)' = ShortestWeights(x, v)
  BY EntriesStay
<1>2. tree' = tree /\ heap' = heap /\ ~ Q!Improves(y, y.node, tree[s])
  BY DEF Passes
<1>3. HeapInv'
  BY <1>1, <1>2 DEF HeapInv, Q!Sides
<1>4. RelaxedInv'
  <2>1. \A x, u, f : IsRelaxed(x, u, f) => IsRelaxed(x, u, f)'
    BY <1>2, HierarchyStays DEF IsRelaxed
  <2>2. \A u : UpEdges(u)' = UpEdges(u)
    BY HierarchyStays
  <2> SUFFICES ASSUME NEW x \in Q!Sides, NEW u \in DOMAIN tree[x], tree[x][u] \notin heap[x],
                      tree[x][u].weight \in ShortestWeights(x, u), NEW f \in UpEdges(u)
               PROVE  \/ IsRelaxed(x, u, f)
                      \/ pc' = <<"relax", x>> /\ curr[x] = tree[x][u] /\ f \in pending'
    BY <1>1, <1>2, <2>1, <2>2 DEF RelaxedInv, Q!Sides
  <2>3. CASE IsRelaxed(x, u, f)
    BY <2>3
  <2>4. CASE ~ IsRelaxed(x, u, f)
    <3>1. pc = <<"relax", x>> /\ curr[x] = tree[x][u] /\ f \in pending
      BY <2>4 DEF RelaxedInv
    <3>2. x = s /\ u = n
      BY <3>1 DEF TreeInv, IsOver
    <3>3. CASE f = e
      <4>1. c # Inf => m \in DOMAIN tree[s] /\ tree[s][m].weight <= w + c
        <5> SUFFICES ASSUME c # Inf PROVE m \in DOMAIN tree[s] /\ tree[s][m].weight <= w + c
          OBVIOUS
        <5>1. y.weight = w + c /\ y.node = m /\ w + c \in Nat /\ w + c # Inf
          BY GraphsAssumption DEF IsOver
        <5>2. m \in DOMAIN tree[s] /\ ~ (tree[s][m].weight > w + c)
          BY <1>2, <5>1 DEF Q!Improves
        <5>3. tree[s][m].weight \in Nat
          BY <5>2 DEF TreeInv, Entries
        <5> QED
          BY <5>1, <5>2, <5>3
      <4>2. IsRelaxed(s, n, e)
        BY <3>1, <3>2, <4>1 DEF IsRelaxed, IsOver
      <4> QED
        BY <3>2, <3>3, <4>2
    <3>4. CASE f # e
      <4>1. f \in pending' /\ pc' = pc
        BY <3>1, <3>4 DEF Relaxes
      <4> QED
        BY <3>1, <4>1
    <3> QED
      BY <3>3, <3>4
  <2> QED
    BY <2>3, <2>4
<1> QED
  BY <1>3, <1>4

\* The tree and the heap after an entry is filed.
IsFiled(s, m, y) ==
    /\ m \in Nodes /\ y \in Entries(s) /\ y.node = m /\ y.weight \in Nat
    /\ m \in DOMAIN tree[s] => tree[s][m].weight > y.weight
    /\ tree' = [x \in Q!Sides |-> tree'[x]] /\ heap' = [x \in Q!Sides |-> heap'[x]]
    /\ \A x \in Q!Sides \ {s} : tree'[x] = tree[x] /\ heap'[x] = heap[x]
    /\ DOMAIN tree'[s] = DOMAIN tree[s] \cup {m} /\ tree'[s][m] = y
    /\ \A u \in DOMAIN tree[s] \ {m} : tree'[s][u] = tree[s][u]
    /\ y \in heap'[s]
    /\ \A x \in heap[s] : x.node # m => x \in heap'[s]
    /\ \A x \in heap'[s] \ {y} : x \in heap[s] /\ x.node # m

\* Filed and Replaced say that.
LEMMA FiledMeaning ==
    ASSUME SearchReady, TreeInv, HeapInv, NEW s \in Q!Sides, NEW e, NEW n, NEW m, NEW c, NEW w, NEW y,
           IsOver(s, n, e, m, c, w, y), Files(s, y)
    PROVE  IsFiled(s, m, y) /\ c \in Nat /\ y.weight = w + c
<1>1. Q!Improves(y, m, tree[s]) /\ y.node = m /\ Inf \notin Int
  BY GraphsAssumption DEF Files, IsOver
<1>2. c \in Nat /\ y.weight = w + c /\ y \in Entries(s) /\ y.weight \in Nat
  BY <1>1 DEF Q!Improves, IsOver
<1>3. m \in Nodes /\ (m \in DOMAIN tree[s] => tree[s][m].weight > y.weight)
  BY <1>1, <1>2 DEF Q!Improves, Entries
<1>4. PICK d : d = DOMAIN tree[s]
  OBVIOUS
<1>5. tree = [x \in Q!Sides |-> tree[x]] /\ heap = [x \in Q!Sides |-> heap[x]]
  BY DEF TreeInv, HeapInv
<1>6. tree' = [tree EXCEPT ![s] = [i \in d \cup {m} |-> IF i = m THEN y ELSE tree[s][i]]]
  BY <1>1, <1>4, <1>5 DEF Files, Q!Filed
<1>7. PICK filed : filed = [i \in d \cup {m} |-> IF i = m THEN y ELSE tree[s][i]]
  OBVIOUS
<1>8. tree'[s] = filed /\ tree' = [x \in Q!Sides |-> tree'[x]]
      /\ \A x \in Q!Sides \ {s} : tree'[x] = tree[x]
  BY <1>5, <1>6, <1>7
<1>9. DOMAIN tree'[s] = d \cup {m} /\ tree'[s][m] = y /\ \A u \in d \ {m} : tree'[s][u] = tree[s][u]
  BY <1>7, <1>8
<1>10. heap' = [heap EXCEPT ![s] = (@ \ Replaced(s, y)) \cup {y}]
  BY DEF Files
<1>11. heap'[s] = (heap[s] \ Replaced(s, y)) \cup {y} /\ heap' = [x \in Q!Sides |-> heap'[x]]
       /\ \A x \in Q!Sides \ {s} : heap'[x] = heap[x]
  BY <1>5, <1>10
<1>12. \A x \in heap[s] : x.node # m <=> x \notin Replaced(s, y)
  <2> SUFFICES ASSUME NEW x \in heap[s] PROVE x.node # m <=> x \notin Replaced(s, y)
    OBVIOUS
  <2>1. x.node \in DOMAIN tree[s] /\ x = tree[s][x.node]
    BY DEF HeapInv
  <2>2. \A u \in DOMAIN tree[s] : tree[s][u].node = u
    BY DEF TreeInv
  <2> QED
    BY <1>1, <2>1, <2>2 DEF Replaced
<1>13. y \in heap'[s] /\ (\A x \in heap[s] : x.node # m => x \in heap'[s])
       /\ \A x \in heap'[s] \ {y} : x \in heap[s] /\ x.node # m
  BY <1>11, <1>12
<1> QED
  BY <1>1, <1>2, <1>3, <1>4, <1>8, <1>9, <1>11, <1>13 DEF IsFiled

-----------------------------------------------------------------------------

\* An entry is filed; a heavier one of its node leaves the tree and the heap.
LEMMA FileTree ==
    ASSUME UNCHANGED contractionVars, TreeInv, HeapInv, NEW s \in Q!Sides, query' = query,
           curr' = curr, finished' = finished, ~ finished[s],
           NEW m, NEW y, IsFiled(s, m, y), curr[s].weight <= y.weight
    PROVE  TreeInv' /\ HeapInv'
<1>1. Nodes' = Nodes /\ \A x : Entries(x)' = Entries(x)
  BY HierarchyStays, EntriesStay
<1>2. \A x \in Q!Sides :
        /\ DOMAIN tree'[x] \subseteq Nodes
        /\ \A u \in DOMAIN tree'[x] : tree'[x][u] \in Entries(x) /\ tree'[x][u].node = u
        /\ query.start[x] \in DOMAIN tree'[x] /\ tree'[x][query.start[x]].weight = 0
  <2> SUFFICES ASSUME NEW x \in Q!Sides
               PROVE  /\ DOMAIN tree'[x] \subseteq Nodes
                      /\ \A u \in DOMAIN tree'[x] : tree'[x][u] \in Entries(x) /\ tree'[x][u].node = u
                      /\ query.start[x] \in DOMAIN tree'[x] /\ tree'[x][query.start[x]].weight = 0
    OBVIOUS
  <2>1. CASE x # s
    BY <2>1 DEF TreeInv, IsFiled
  <2>2. CASE x = s
    <3>1. PICK d : d = DOMAIN tree[s]
      OBVIOUS
    <3>2. d \subseteq Nodes /\ \A u \in d : tree[s][u] \in Entries(s) /\ tree[s][u].node = u
      BY <3>1 DEF TreeInv
    <3>3. DOMAIN tree'[s] = d \cup {m} /\ tree'[s][m] = y /\ \A u \in d \ {m} : tree'[s][u] = tree[s][u]
      BY <3>1 DEF IsFiled
    <3>4. m \in Nodes /\ y \in Entries(s) /\ y.node = m /\ y.weight \in Nat
      BY DEF IsFiled
    <3>5. PICK o : o = query.start[s]
      OBVIOUS
    <3>6. o \in d /\ tree[s][o].weight = 0
      BY <3>1, <3>5 DEF TreeInv
    <3>7. o # m
      BY <3>1, <3>4, <3>6 DEF IsFiled
    <3>8. o \in DOMAIN tree'[s] /\ tree'[s][o].weight = 0
      BY <3>3, <3>6, <3>7
    <3>9. DOMAIN tree'[s] \subseteq Nodes
      BY <3>2, <3>3, <3>4
    <3>10. \A u \in DOMAIN tree'[s] : tree'[s][u] \in Entries(s) /\ tree'[s][u].node = u
      BY <3>2, <3>3, <3>4
    <3> QED
      BY <2>2, <3>5, <3>8, <3>9, <3>10
  <2> QED
    BY <2>1, <2>2
<1>3. TreeInv'
  <2>1. tree' = [x \in Q!Sides |-> tree'[x]]
    BY DEF IsFiled
  <2> QED
    BY <1>1, <1>2, <2>1 DEF TreeInv, Q!Sides
<1>4. \A x \in Q!Sides :
        /\ \A z \in heap'[x] : /\ z.node \in DOMAIN tree'[x] /\ z = tree'[x][z.node]
                               /\ curr[x].weight <= z.weight
        /\ finished[x] => heap'[x] = {}
  <2> SUFFICES ASSUME NEW x \in Q!Sides
               PROVE  /\ \A z \in heap'[x] : /\ z.node \in DOMAIN tree'[x] /\ z = tree'[x][z.node]
                                             /\ curr[x].weight <= z.weight
                      /\ finished[x] => heap'[x] = {}
    OBVIOUS
  <2>1. CASE x # s
    BY <2>1 DEF HeapInv, IsFiled
  <2>2. CASE x = s
    <3> SUFFICES ASSUME NEW z \in heap'[s]
                 PROVE  /\ z.node \in DOMAIN tree'[s] /\ z = tree'[s][z.node]
                        /\ curr[s].weight <= z.weight
      BY <2>2
    <3>1. CASE z = y
      BY <3>1 DEF IsFiled
    <3>2. CASE z # y
      <4>1. z \in heap[s] /\ z.node # m
        BY <3>2 DEF IsFiled
      <4>2. z.node \in DOMAIN tree[s] /\ z = tree[s][z.node] /\ curr[s].weight <= z.weight
        BY <4>1 DEF HeapInv
      <4>3. z.node \in DOMAIN tree'[s] /\ tree'[s][z.node] = tree[s][z.node]
        BY <4>1, <4>2 DEF IsFiled
      <4> QED
        BY <4>2, <4>3
    <3> QED
      BY <3>1, <3>2
  <2> QED
    BY <2>1, <2>2
<1>5. HeapInv'
  <2>1. heap' = [x \in Q!Sides |-> heap'[x]]
    BY DEF IsFiled
  <2> QED
    BY <1>1, <1>4, <2>1 DEF HeapInv, Q!Sides
<1> QED
  BY <1>3, <1>5

\* What was relaxed stays relaxed, and so is the edge of the new entry.
LEMMA FileRelaxed ==
    ASSUME SearchReady, QueryInv, UNCHANGED contractionVars, TreeInv, RelaxedInv, NEW s \in Q!Sides,
           pc = <<"relax", s>>, query' = query, curr' = curr,
           NEW e, Relaxes(s, e), NEW n, NEW m, NEW c \in Nat, NEW w, NEW y, IsOver(s, n, e, m, c, w, y),
           IsFiled(s, m, y), y.weight = w + c
    PROVE  RelaxedInv'
<1>1. \A x, v : ShortestWeights(x, v)' = ShortestWeights(x, v)
  BY EntriesStay
<1>2. \A u : UpEdges(u)' = UpEdges(u)
  BY HierarchyStays
<1>3. \A x \in Q!Sides : DOMAIN tree[x] \subseteq DOMAIN tree'[x]
  <2>1. \A x \in Q!Sides \ {s} : tree'[x] = tree[x]
    BY DEF IsFiled
  <2>2. DOMAIN tree'[s] = DOMAIN tree[s] \cup {m}
    BY DEF IsFiled
  <2> QED
    BY <2>1, <2>2
<1>4. \A x \in Q!Sides : \A u \in DOMAIN tree[x] : tree'[x][u].weight <= tree[x][u].weight
  <2> SUFFICES ASSUME NEW x \in Q!Sides, NEW u \in DOMAIN tree[x]
               PROVE  tree'[x][u].weight <= tree[x][u].weight
    OBVIOUS
  <2>1. PICK v : v = tree[x][u].weight
    OBVIOUS
  <2>2. v \in Nat
    BY <2>1 DEF TreeInv, Entries
  <2>3. CASE x = s /\ u = m
    BY <2>1, <2>2, <2>3 DEF IsFiled
  <2>4. CASE ~ (x = s /\ u = m)
    <3>1. tree'[x][u] = tree[x][u]
      BY <2>4 DEF IsFiled
    <3> QED
      BY <2>1, <2>2, <3>1
  <2> QED
    BY <2>3, <2>4
<1>5. ASSUME NEW x \in Q!Sides, NEW u \in DOMAIN tree[x], tree'[x][u] = tree[x][u],
             NEW f \in UpEdges(u), IsRelaxed(x, u, f)
      PROVE  IsRelaxed(x, u, f)'
  <2>1. PICK b, v : b = BaseNode(f, u) /\ v = SearchWeight(f, u, x)
    OBVIOUS
  <2>2. BaseNode(f, u)' = b /\ SearchWeight(f, u, x)' = v
    BY <2>1, HierarchyStays
  <2>3. v # Inf => b \in DOMAIN tree'[x] /\ tree'[x][b].weight <= tree'[x][u].weight + v
    <3> SUFFICES ASSUME v # Inf
                 PROVE  b \in DOMAIN tree'[x] /\ tree'[x][b].weight <= tree'[x][u].weight + v
      OBVIOUS
    <3>1. b \in DOMAIN tree[x] /\ tree[x][b].weight <= tree[x][u].weight + v
      BY <1>5, <2>1 DEF IsRelaxed
    <3>2. PICK p, q, r : p = tree'[x][b].weight /\ q = tree[x][b].weight /\ r = tree[x][u].weight + v
      OBVIOUS
    <3>3. p <= q /\ q <= r
      BY <1>4, <3>1, <3>2
    <3>4. q \in Nat /\ p \in Nat
      <4>1. q \in Nat
        BY <3>1, <3>2 DEF TreeInv, Entries
      <4>2. p \in Nat
        <5>1. CASE x = s /\ b = m
          BY <3>2, <5>1 DEF IsFiled
        <5>2. CASE ~ (x = s /\ b = m)
          <6>1. tree'[x][b] = tree[x][b]
            BY <3>1, <5>2 DEF IsFiled
          <6> QED
            BY <3>2, <4>1, <6>1
        <5> QED
          BY <5>1, <5>2
      <4> QED
        BY <4>1, <4>2
    <3>5. r \in Nat
      <4>1. u \in Nodes /\ f \in Explore(u) /\ tree[x][u].weight \in Nat
        BY DEF UpEdges, TreeInv, Entries
      <4>2. v \in Nat
        BY <2>1, <4>1, SearchWeighs
      <4> QED
        BY <3>2, <4>1, <4>2
    <3>6. p <= r
      BY <3>3, <3>4, <3>5
    <3> QED
      BY <1>3, <1>5, <3>1, <3>2, <3>6
  <2> QED
    BY <2>2, <2>3 DEF IsRelaxed
<1>6. IsRelaxed(s, n, e)' \/ tree'[s][n] # curr[s]
  <2> SUFFICES ASSUME tree'[s][n] = curr[s] PROVE IsRelaxed(s, n, e)'
    OBVIOUS
  <2>1. BaseNode(e, n)' = m /\ SearchWeight(e, n, s)' = c
    BY HierarchyStays DEF IsOver
  <2>2. tree'[s][n].weight = w /\ m \in DOMAIN tree'[s] /\ tree'[s][m].weight = w + c /\ w + c \in Nat
    BY DEF IsOver, IsFiled
  <2>3. tree'[s][m].weight <= tree'[s][n].weight + c
    BY <2>2
  <2> QED
    BY <2>1, <2>2, <2>3 DEF IsRelaxed
<1>7. RelaxedInv'
  <2> SUFFICES ASSUME NEW x \in Q!Sides, NEW u \in DOMAIN tree'[x], tree'[x][u] \notin heap'[x],
                      tree'[x][u].weight \in ShortestWeights(x, u), NEW f \in UpEdges(u)
               PROVE  \/ IsRelaxed(x, u, f)'
                      \/ pc' = <<"relax", x>> /\ curr[x] = tree'[x][u] /\ f \in pending'
    BY <1>1, <1>2 DEF RelaxedInv, Q!Sides
  <2>1. ~ (x = s /\ u = m)
    BY DEF IsFiled
  <2>2. u \in DOMAIN tree[x] /\ tree'[x][u] = tree[x][u]
    BY <2>1 DEF IsFiled
  <2>3. tree[x][u].node = u
    BY <2>2 DEF TreeInv
  <2>4. tree[x][u] \notin heap[x]
    BY <2>1, <2>2, <2>3 DEF IsFiled
  <2>5. \/ IsRelaxed(x, u, f)
        \/ pc = <<"relax", x>> /\ curr[x] = tree[x][u] /\ f \in pending
    BY <2>2, <2>4 DEF RelaxedInv
  <2>6. CASE IsRelaxed(x, u, f)
    BY <1>5, <2>2, <2>6
  <2>7. CASE pc = <<"relax", x>> /\ curr[x] = tree[x][u] /\ f \in pending
    <3>1. x = s /\ u = n
      BY <2>3, <2>7 DEF IsOver
    <3>2. CASE f = e
      BY <1>6, <2>2, <2>7, <3>1, <3>2
    <3>3. CASE f # e
      <4>1. f \in pending' /\ pc' = pc
        BY <2>7, <3>3 DEF Relaxes
      <4> QED
        BY <2>2, <2>7, <4>1
    <3> QED
      BY <3>2, <3>3
  <2> QED
    BY <2>5, <2>6, <2>7
<1> QED
  BY <1>7

-----------------------------------------------------------------------------

\* The best pair, seen from either side.
BestFor(s, o) ==
    /\ best = [weight |-> best.weight, entry |-> best.entry]
    /\ best.entry = [x \in Q!Sides |-> best.entry[x]]
    /\ \A n \in DOMAIN tree[s] \cap DOMAIN tree[o] :
          best.weight # Inf /\ best.weight <= tree[s][n].weight + tree[o][n].weight
    /\ best.weight # Inf =>
          \E n \in DOMAIN tree[s] \cap DOMAIN tree[o] :
             /\ best.weight = tree[s][n].weight + tree[o][n].weight
             /\ best.entry[s] = tree[s][n] /\ best.entry[o] = tree[o][n]

\* It is the same from both.
LEMMA BestSides == TreeInv => \A s \in Q!Sides : BestInv <=> BestFor(s, Q!Other(s))
<1> SUFFICES ASSUME TreeInv, NEW s \in Q!Sides PROVE BestInv <=> BestFor(s, Q!Other(s))
  OBVIOUS
<1>1. (s = "from" /\ Q!Other(s) = "to") \/ (s = "to" /\ Q!Other(s) = "from")
  <2>1. s = "from" \/ s = "to"
    BY DEF Q!Sides
  <2>2. "from" # "to"
    OBVIOUS
  <2>3. CASE s = "from"
    BY <2>3 DEF Q!Other
  <2>4. CASE s = "to"
    BY <2>2, <2>4 DEF Q!Other
  <2> QED
    BY <2>1, <2>3, <2>4
<1>2. \A x \in Q!Sides : x = "from" \/ x = "to"
  BY DEF Q!Sides
<1>3. BestInv <=> BestFor("from", "to")
  <2>1. BestInv => BestFor("from", "to")
    BY <1>2 DEF BestInv, BestFor, Q!Sides
  <2>2. BestFor("from", "to") => BestInv
    BY <1>2 DEF BestInv, BestFor, Q!Sides
  <2> QED
    BY <2>1, <2>2
<1>4. BestFor("from", "to") <=> BestFor("to", "from")
  <2>1. \A n : n \in DOMAIN tree["from"] \cap DOMAIN tree["to"] <=> n \in DOMAIN tree["to"] \cap DOMAIN tree["from"]
    OBVIOUS
  <2>2. \A n \in DOMAIN tree["from"] \cap DOMAIN tree["to"] :
          tree["from"][n].weight + tree["to"][n].weight = tree["to"][n].weight + tree["from"][n].weight
    BY DEF TreeInv, Entries, Q!Sides
  <2> QED
    BY <2>1, <2>2 DEF BestFor
<1> QED
  BY <1>1, <1>3, <1>4

\* The same after a step.
LEMMA BestSidesNext == TreeInv' => (\A s \in Q!Sides : BestInv <=> BestFor(s, Q!Other(s)))'
BY BestSides, PTL

\* The entry that is filed may meet the other side's.
LEMMA FileBest ==
    ASSUME TreeInv, TreeInv', BestInv, NEW s \in Q!Sides, NEW m, NEW y, IsFiled(s, m, y), Files(s, y)
    PROVE  BestInv'
<1>1. PICK o : o = Q!Other(s)
  OBVIOUS
<1>2. o \in Q!Sides /\ o # s /\ Q!Sides = {s, o} /\ Inf \notin Int
  BY <1>1, GraphsAssumption DEF Q!Sides, Q!Other
<1>3. BestFor(s, o)
  BY <1>1, BestSides
<1>4. /\ tree'[o] = tree[o] /\ DOMAIN tree'[s] = DOMAIN tree[s] \cup {m} /\ tree'[s][m] = y
      /\ \A n \in DOMAIN tree[s] \ {m} : tree'[s][n] = tree[s][n]
      /\ y.node = m /\ y.weight \in Nat
      /\ m \in DOMAIN tree[s] => tree[s][m].weight > y.weight
  BY <1>2 DEF IsFiled
<1>5. \A x \in Q!Sides : \A n \in DOMAIN tree[x] : tree[x][n].node = n /\ tree[x][n].weight \in Nat
  BY DEF TreeInv, Entries
<1>6. best' = Q!UpdateBestPathEntry(KeptBest(s, y), y, s)
  BY DEF Files
<1>7. PICK b : b = KeptBest(s, y)
  OBVIOUS
<1>8. /\ b = [weight |-> b.weight, entry |-> b.entry] /\ b.weight = best.weight
      /\ b.entry = [x \in Q!Sides |-> b.entry[x]] /\ b.entry[o] = best.entry[o]
      /\ b.entry[s] = best.entry[s] \/ best.entry[s] \in Replaced(s, y)
  <2>1. best = [weight |-> best.weight, entry |-> best.entry]
        /\ best.entry = [x \in Q!Sides |-> best.entry[x]]
    BY <1>3 DEF BestFor
  <2>2. CASE best.entry[s] \in Replaced(s, y)
    <3>1. b = [best EXCEPT !.entry[s] = y]
      BY <1>7, <2>2 DEF KeptBest
    <3>2. b = [weight |-> best.weight, entry |-> [best.entry EXCEPT ![s] = y]]
      BY <2>1, <3>1
    <3> QED
      BY <1>2, <2>1, <2>2, <3>2
  <2>3. CASE best.entry[s] \notin Replaced(s, y)
    <3>1. b = best
      BY <1>7, <2>3 DEF KeptBest
    <3> QED
      BY <2>1, <3>1
  <2> QED
    BY <2>2, <2>3
<1>9. \A n \in DOMAIN tree[s] \ {m} : best.entry[s] = tree[s][n] => b.entry[s] = best.entry[s]
  BY <1>4, <1>5, <1>8 DEF Replaced
<1>10. BestFor(s, o)'
  <2>1. CASE m \notin DOMAIN tree[o]
    <3>1. best' = b
      BY <1>1, <1>4, <1>6, <1>7, <2>1 DEF Q!UpdateBestPathEntry
    <3>2. \A n \in DOMAIN tree'[s] \cap DOMAIN tree'[o] :
             n \in DOMAIN tree[s] \cap DOMAIN tree[o] /\ n # m /\ tree'[s][n] = tree[s][n]
      BY <1>4, <2>1
    <3>3. \A n \in DOMAIN tree[s] \cap DOMAIN tree[o] :
             n \in DOMAIN tree'[s] \cap DOMAIN tree'[o] /\ n # m /\ tree'[s][n] = tree[s][n]
      BY <1>4, <2>1
    <3>4. \A n \in DOMAIN tree'[s] \cap DOMAIN tree'[o] :
             best'.weight # Inf /\ best'.weight <= tree'[s][n].weight + tree'[o][n].weight
      BY <1>3, <1>4, <1>8, <3>1, <3>2 DEF BestFor
    <3>5. ASSUME best'.weight # Inf
          PROVE  \E n \in DOMAIN tree'[s] \cap DOMAIN tree'[o] :
                    /\ best'.weight = tree'[s][n].weight + tree'[o][n].weight
                    /\ best'.entry[s] = tree'[s][n] /\ best'.entry[o] = tree'[o][n]
      <4>1. PICK n \in DOMAIN tree[s] \cap DOMAIN tree[o] :
               /\ best.weight = tree[s][n].weight + tree[o][n].weight
               /\ best.entry[s] = tree[s][n] /\ best.entry[o] = tree[o][n]
        BY <1>3, <1>8, <3>1, <3>5 DEF BestFor
      <4>2. b.entry[s] = tree[s][n]
        BY <1>9, <3>3, <4>1
      <4> QED
        BY <1>4, <1>8, <3>1, <3>3, <4>1, <4>2
    <3> QED
      BY <1>8, <3>1, <3>4, <3>5 DEF BestFor, Q!Sides
  <2>2. CASE m \in DOMAIN tree[o]
    <3>1. PICK v, w : v = tree[o][m].weight /\ w = y.weight + v
      OBVIOUS
    <3>2. v \in Nat /\ w \in Nat
      BY <1>2, <1>4, <1>5, <2>2, <3>1
    <3>3. best' = IF b.weight = Inf \/ w < b.weight
                  THEN [weight |-> w, entry |-> [x \in Q!Sides |-> IF x = s THEN y ELSE tree[o][m]]]
                  ELSE b
      BY <1>1, <1>4, <1>6, <1>7, <2>2, <3>1 DEF Q!UpdateBestPathEntry
    <3>4. m \in DOMAIN tree'[s] \cap DOMAIN tree'[o] /\ tree'[o][m].weight = v /\ tree'[s][m].weight = y.weight
      BY <1>4, <2>2, <3>1
    <3>5. \A n \in DOMAIN tree'[s] \cap DOMAIN tree'[o] : n # m =>
             /\ n \in DOMAIN tree[s] \cap DOMAIN tree[o] /\ tree'[s][n] = tree[s][n]
             /\ best.weight # Inf /\ best.weight <= tree[s][n].weight + tree[o][n].weight
      BY <1>3, <1>4 DEF BestFor
    <3>6. best.weight # Inf => best.weight \in Nat
      BY <1>2, <1>3, <1>5 DEF BestFor
    <3>7. CASE b.weight = Inf \/ w < b.weight
      <4>1. best' = [weight |-> w, entry |-> [x \in Q!Sides |-> IF x = s THEN y ELSE tree[o][m]]]
        BY <3>3, <3>7
      <4>2. best'.weight = w /\ best'.entry[s] = y /\ best'.entry[o] = tree[o][m] /\ w # Inf
            /\ best' = [weight |-> best'.weight, entry |-> best'.entry]
            /\ best'.entry = [x \in Q!Sides |-> best'.entry[x]]
        BY <1>2, <3>2, <4>1
      <4>3. ASSUME NEW n \in DOMAIN tree'[s] \cap DOMAIN tree'[o]
            PROVE  w <= tree'[s][n].weight + tree'[o][n].weight
        <5>1. CASE n = m
          BY <3>1, <3>2, <3>4, <5>1
        <5>2. CASE n # m
          <6>1. /\ n \in DOMAIN tree[s] \cap DOMAIN tree[o] /\ tree'[s][n] = tree[s][n]
                /\ best.weight # Inf /\ best.weight <= tree[s][n].weight + tree[o][n].weight
            BY <3>5, <5>2
          <6>2. w < best.weight /\ best.weight \in Nat
            BY <1>8, <3>6, <3>7, <6>1
          <6>3. tree[s][n].weight + tree[o][n].weight \in Nat
            BY <1>2, <1>5, <6>1
          <6>4. w <= tree[s][n].weight + tree[o][n].weight
            BY <3>2, <6>1, <6>2, <6>3
          <6> QED
            BY <1>4, <6>1, <6>4
        <5> QED
          BY <5>1, <5>2
      <4>4. /\ best'.weight = tree'[s][m].weight + tree'[o][m].weight
            /\ best'.entry[s] = tree'[s][m] /\ best'.entry[o] = tree'[o][m]
        BY <1>4, <3>1, <3>4, <4>2
      <4> QED
        BY <3>4, <4>2, <4>3, <4>4 DEF BestFor, Q!Sides
    <3>8. CASE ~ (b.weight = Inf \/ w < b.weight)
      <4>1. best' = b /\ best'.weight = best.weight /\ best.weight # Inf /\ best.weight <= w
        BY <1>8, <3>2, <3>3, <3>6, <3>8
      <4>2. PICK n \in DOMAIN tree[s] \cap DOMAIN tree[o] :
               /\ best.weight = tree[s][n].weight + tree[o][n].weight
               /\ best.entry[s] = tree[s][n] /\ best.entry[o] = tree[o][n]
        BY <1>3, <4>1 DEF BestFor
      <4>3. n # m
        <5>1. tree[s][n].weight \in Nat
          BY <1>5, <4>2
        <5> QED
          BY <1>4, <3>1, <3>2, <4>1, <4>2, <5>1
      <4>4. n \in DOMAIN tree'[s] \cap DOMAIN tree'[o] /\ tree'[s][n] = tree[s][n] /\ tree'[o][n] = tree[o][n]
        BY <1>4, <4>2, <4>3
      <4>5. best'.entry[s] = tree'[s][n] /\ best'.entry[o] = tree'[o][n]
        BY <1>8, <1>9, <4>1, <4>2, <4>3, <4>4
      <4>6. ASSUME NEW u \in DOMAIN tree'[s] \cap DOMAIN tree'[o]
            PROVE  best'.weight <= tree'[s][u].weight + tree'[o][u].weight
        <5>1. CASE u = m
          BY <3>1, <3>4, <4>1, <5>1
        <5>2. CASE u # m
          BY <1>4, <3>5, <4>1, <5>2
        <5> QED
          BY <5>1, <5>2
      <4>7. best' = [weight |-> best'.weight, entry |-> best'.entry]
            /\ best'.entry = [x \in Q!Sides |-> best'.entry[x]]
        BY <1>8, <4>1
      <4> QED
        BY <4>1, <4>2, <4>4, <4>5, <4>6, <4>7 DEF BestFor, Q!Sides
    <3> QED
      BY <3>7, <3>8
  <2> QED
    BY <2>1, <2>2
<1> QED
  BY <1>1, <1>2, <1>10, BestSidesNext DEF Q!Sides, Q!Other

-----------------------------------------------------------------------------

\* Nothing is traced where a side begins.
LEMMA TracedNothing ==
    ASSUME NEW x \in Nodes, NEW along \in BOOLEAN
    PROVE  Traced(<< >>, x, x, along, 0)
<1>1. PICK p, t : p = [i \in 0 .. 0 |-> x] /\ t = [i \in 0 .. 0 |-> 0]
  OBVIOUS
<1>2. Len(<< >>) = 0 /\ << >> \in Seq(1 .. GetEdges)
  OBVIOUS
<1>3. p \in [0 .. 0 -> Nodes] /\ t \in [0 .. 0 -> Int] /\ p[0] = x /\ t[0] = 0
  BY <1>1
<1>4. IsTrace(<< >>, p, t, along)
  BY <1>2 DEF IsTrace
<1>5. \E q \in [0 .. 0 -> Nodes], u \in [0 .. 0 -> Int] :
         IsTrace(<< >>, q, u, along) /\ q[0] = x /\ q[0] = x /\ u[0] = 0 /\ u[0] = 0
  BY <1>3, <1>4
<1> QED
  BY <1>2, <1>5 DEF Traced

\* An edge of a chain unpacks from the far end to the near one.
LEMMA ChainEdgeTraced ==
    ASSUME Prepared, NEW s \in Q!Sides, NEW e \in StoredEdges, NEW n \in CHEnds(e), NEW m, m = BaseNode(e, n),
           NEW c \in Nat, c = SearchWeight(e, n, s), NEW along, along = (s = "to")
    PROVE  Traced(Q!Unpack(e, m), m, n, along, c)
<1>1. m \in CHEnds(e) /\ BaseNode(e, m) = n
  BY StoredEnds
<1>2. c = CHWeight(e, IF along THEN m ELSE BaseNode(e, m))
  <2>1. CASE s = "from"
    BY <1>1, <2>1 DEF SearchWeight
  <2>2. CASE s = "to"
    BY <1>1, <2>2 DEF SearchWeight
  <2> QED
    BY <2>1, <2>2 DEF Q!Sides
<1>3. along \in BOOLEAN
  OBVIOUS
<1> QED
  BY <1>1, <1>2, <1>3, SearchUnpackTraced

\* The chain of an entry unpacks to a trace between its node and where the side
\* began.
LEMMA ChainTraced ==
    ASSUME SearchReady, QueryInv, NEW s \in Q!Sides, NEW x \in Entries(s)
    PROVE  Traced(Q!UnpackChain(x, query.start[s]), x.node, query.start[s], s = "to", x.weight)
<1>1. PICK o, along, chain, n : o = query.start[s] /\ along = (s = "to") /\ chain = x.edges
                               /\ n = Len(chain)
  OBVIOUS
<1>2. chain \in Seq(StoredEdges) /\ n \in Nat /\ o \in Nodes /\ Prepared /\ along \in BOOLEAN
      /\ graph \in Graphs
  BY <1>1 DEF Entries, QueryInv, SearchReady, Prepared
<1>3. PICK p \in [0 .. n -> Nodes], t \in [0 .. n -> Nat] :
         IsRoute(p, t, chain, s) /\ p[0] = o /\ t[0] = 0 /\ p[n] = x.node /\ t[n] = x.weight
  BY <1>1 DEF Entries
<1>4. ASSUME NEW i \in 1 .. n
      PROVE  /\ i - 1 \in 0 .. n /\ i \in 0 .. n /\ chain[i] \in StoredEdges
             /\ p[i - 1] \in Nodes /\ p[i] = BaseNode(chain[i], p[i - 1])
             /\ Q!AdjNode(chain[i], p[i - 1]) = p[i]
             /\ Traced(Q!Unpack(chain[i], p[i]), p[i], p[i - 1], along, t[i] - t[i - 1])
             /\ t[i] - t[i - 1] \in Nat
  <2>1. PICK e, j : e = chain[i] /\ j = i - 1
    OBVIOUS
  <2>2. j \in 0 .. n /\ i \in 0 .. n /\ e \in StoredEdges
    BY <1>1, <1>2, <2>1
  <2>3. PICK u, m, c : u = p[j] /\ m = p[i] /\ c = SearchWeight(e, u, s)
    OBVIOUS
  <2>4. u \in CHEnds(e) /\ m = BaseNode(e, u) /\ c \in Nat /\ t[i] = t[j] + c
    BY <1>1, <1>3, <2>1, <2>3 DEF IsRoute
  <2>5. u \in Nodes /\ t[j] \in Nat
    BY <1>3, <2>2, <2>3
  <2>6. Q!AdjNode(e, u) = m
    BY <2>4 DEF Q!AdjNode, BaseNode, QueryInv
  <2>7. Traced(Q!Unpack(e, m), m, u, along, c)
    BY <1>1, <1>2, <2>2, <2>3, <2>4, ChainEdgeTraced
  <2>8. t[i] - t[j] = c
    BY <2>4, <2>5
  <2> QED
    BY <2>1, <2>2, <2>3, <2>4, <2>5, <2>6, <2>7, <2>8
<1> DEFINE Rule(f) == f = [i \in 0 .. n |->
            IF i = 0 THEN [at |-> o, edges |-> << >>]
            ELSE LET at == Q!AdjNode(chain[i], f[i - 1].at)
                 IN  [at |-> at, edges |-> Q!Unpack(chain[i], at) \o f[i - 1].edges]]
<1>5. \E f : Rule(f)
  <2>1. PICK V : V = Seq(1 .. GetEdges)
    OBVIOUS
  <2>2. PICK step : step = [z \in (1 .. n) \X V |-> Q!Unpack(chain[z[1]], p[z[1]]) \o z[2]]
    OBVIOUS
  <2>3. step \in [(1 .. n) \X V -> V]
    <3>1. ASSUME NEW i \in 1 .. n, NEW v \in V PROVE Q!Unpack(chain[i], p[i]) \o v \in V
      <4>1. Q!Unpack(chain[i], p[i]) \in V
        BY <1>4, <2>1 DEF Traced
      <4> QED
        BY <2>1, <4>1
    <3> QED
      BY <2>2, <3>1
  <2>4. << >> \in V
    BY <2>1
  <2>5. PICK g \in [0 .. n -> V] : IsIndexedRecursion(g, n, << >>, step)
    BY <1>2, <2>3, <2>4, IndexedRecursionExists
  <2>6. PICK f : f = [i \in 0 .. n |-> [at |-> p[i], edges |-> g[i]]]
    OBVIOUS
  <2>7. ASSUME NEW i \in 0 .. n
        PROVE  f[i] = IF i = 0 THEN [at |-> o, edges |-> << >>]
                      ELSE LET at == Q!AdjNode(chain[i], f[i - 1].at)
                           IN  [at |-> at, edges |-> Q!Unpack(chain[i], at) \o f[i - 1].edges]
    <3>1. f[i] = [at |-> p[i], edges |-> g[i]]
      BY <2>6
    <3>2. CASE i = 0
      BY <1>3, <2>5, <3>1, <3>2 DEF IsIndexedRecursion
    <3>3. CASE i # 0
      <4>1. i \in 1 .. n
        BY <1>2, <3>3
      <4>2. PICK j : j = i - 1
        OBVIOUS
      <4>3. j \in 0 .. n /\ f[j] = [at |-> p[j], edges |-> g[j]]
        BY <1>2, <2>6, <4>1, <4>2
      <4>4. Q!AdjNode(chain[i], p[j]) = p[i]
        BY <1>4, <4>1, <4>2
      <4>5. g[i] = step[<<i, g[j]>>] /\ g[j] \in V
        BY <2>5, <4>1, <4>2, <4>3 DEF IsIndexedRecursion
      <4>6. g[i] = Q!Unpack(chain[i], p[i]) \o g[j]
        BY <2>2, <4>1, <4>5
      <4>7. f[i - 1].at = p[j] /\ f[i - 1].edges = g[j]
        BY <4>2, <4>3
      <4>8. Q!AdjNode(chain[i], f[i - 1].at) = p[i]
        BY <4>4, <4>7
      <4> QED
        BY <3>1, <3>3, <4>6, <4>7, <4>8
    <3> QED
      BY <3>2, <3>3
  <2>8. f = [i \in 0 .. n |->
            IF i = 0 THEN [at |-> o, edges |-> << >>]
            ELSE LET at == Q!AdjNode(chain[i], f[i - 1].at)
                 IN  [at |-> at, edges |-> Q!Unpack(chain[i], at) \o f[i - 1].edges]]
    BY <2>6, <2>7
  <2> QED
    BY <2>8
<1> DEFINE walk == CHOOSE f : Rule(f)
<1>6. Q!UnpackChain(x, o) = walk[n].edges
  BY <1>1 DEF Q!UnpackChain
<1> HIDE DEF Rule
<1>7. Rule(walk)
  BY <1>5
<1> HIDE DEF walk
<1>8. walk[0] = [at |-> o, edges |-> << >>]
      /\ \A i \in 1 .. n : walk[i] = [at |-> Q!AdjNode(chain[i], walk[i - 1].at),
                                      edges |-> Q!Unpack(chain[i], Q!AdjNode(chain[i], walk[i - 1].at))
                                                   \o walk[i - 1].edges]
  <2>1. 0 \in 0 .. n /\ \A i \in 1 .. n : i \in 0 .. n /\ i # 0
    BY <1>2
  <2> QED
    BY <1>7, <2>1 DEF Rule
<1> DEFINE T == {i \in 0 .. n : walk[i].at = p[i] /\ Traced(walk[i].edges, p[i], o, along, t[i])}
<1>9. 0 \in T
  BY <1>2, <1>3, <1>8, TracedNothing
<1>10. ASSUME NEW k \in 0 .. (n - 1), k \in T PROVE k + 1 \in T
  <2>1. PICK i : i = k + 1
    OBVIOUS
  <2>2. i \in 1 .. n /\ i - 1 = k /\ i \in 0 .. n /\ k \in 0 .. n
    BY <1>2, <2>1
  <2>3. walk[k].at = p[k] /\ Traced(walk[k].edges, p[k], o, along, t[k])
    BY <1>10
  <2>4. /\ Q!AdjNode(chain[i], p[k]) = p[i]
        /\ Traced(Q!Unpack(chain[i], p[i]), p[i], p[k], along, t[i] - t[k])
        /\ t[i] - t[k] \in Nat
    BY <1>4, <2>2
  <2>5. walk[i].at = p[i] /\ walk[i].edges = Q!Unpack(chain[i], p[i]) \o walk[k].edges
    <3>1. walk[i] = [at |-> Q!AdjNode(chain[i], walk[i - 1].at),
                     edges |-> Q!Unpack(chain[i], Q!AdjNode(chain[i], walk[i - 1].at))
                                  \o walk[i - 1].edges]
      BY <1>8, <2>2
    <3>2. walk[i - 1] = walk[k]
      BY <2>2
    <3>3. Q!AdjNode(chain[i], walk[i - 1].at) = p[i]
      BY <2>3, <2>4, <3>2
    <3>5. PICK a, b : a = Q!AdjNode(chain[i], walk[i - 1].at) /\ b = Q!Unpack(chain[i], a) \o walk[i - 1].edges
      OBVIOUS
    <3>6. walk[i] = [at |-> a, edges |-> b] /\ a = p[i]
      BY <3>1, <3>3, <3>5
    <3>4. walk[i].at = p[i] /\ walk[i].edges = Q!Unpack(chain[i], p[i]) \o walk[i - 1].edges
      <4>1. walk[i].at = a /\ walk[i].edges = b
        BY <3>6
      <4>2. b = Q!Unpack(chain[i], p[i]) \o walk[i - 1].edges
        BY <3>5, <3>6, Zenon
      <4> QED
        BY <3>6, <4>1, <4>2, Zenon
    <3> QED
      BY <3>2, <3>4
  <2>6. PICK v, w : v = t[i] - t[k] /\ w = t[k]
    OBVIOUS
  <2>7. Traced(Q!Unpack(chain[i], p[i]) \o walk[k].edges, p[i], o, along, v + w)
    BY <1>2, <2>3, <2>4, <2>6, TracedJoin
  <2>8. v + w = t[i]
    <3>1. t[i] \in Nat /\ t[k] \in Nat
      BY <1>3, <2>2
    <3> QED
      BY <2>6, <3>1
  <2> QED
    BY <2>1, <2>2, <2>5, <2>7, <2>8
<1> HIDE DEF T
<1>11. \A k \in 0 .. (n - 1) : k \in T => k + 1 \in T
  BY <1>10
<1>12. 0 .. n \subseteq T
  BY <1>2, <1>9, <1>11, BoundedInduction
<1>13. n \in T
  BY <1>2, <1>12
<1> QED
  BY <1>1, <1>3, <1>6, <1>13 DEF T

-----------------------------------------------------------------------------

\* The two chains of the best pair make a trace from the start to the goal.
LEMMA ExtractTraced ==
    ASSUME SearchReady, QueryInv, TreeInv, BestInv, best.weight # Inf
    PROVE  /\ Q!Extract.weight = best.weight
           /\ Traced(Q!Extract.edges, query.start["from"], query.start["to"], TRUE, best.weight)
<1>1. PICK n \in DOMAIN tree["from"] \cap DOMAIN tree["to"] :
         /\ best.weight = tree["from"][n].weight + tree["to"][n].weight
         /\ \A s \in Q!Sides : best.entry[s] = tree[s][n]
  BY DEF BestInv
<1>2. PICK x, y, from, to : /\ x = tree["from"][n] /\ y = tree["to"][n]
                            /\ from = query.start["from"] /\ to = query.start["to"]
  OBVIOUS
<1>3. "from" \in Q!Sides /\ "to" \in Q!Sides
  BY DEF Q!Sides
<1>4. x \in Entries("from") /\ y \in Entries("to") /\ x.node = n /\ y.node = n
  BY <1>1, <1>2, <1>3 DEF TreeInv
<1>5. Traced(Q!UnpackChain(x, from), n, from, FALSE, x.weight)
  <2>1. Traced(Q!UnpackChain(x, query.start["from"]), x.node, query.start["from"], "from" = "to", x.weight)
    BY <1>3, <1>4, ChainTraced
  <2>2. ("from" = "to") = FALSE
    OBVIOUS
  <2> QED
    BY <1>2, <1>4, <2>1, <2>2
<1>6. Traced(Q!UnpackChain(y, to), n, to, TRUE, y.weight)
  <2>1. Traced(Q!UnpackChain(y, query.start["to"]), y.node, query.start["to"], "to" = "to", y.weight)
    BY <1>3, <1>4, ChainTraced
  <2>2. ("to" = "to") = TRUE
    OBVIOUS
  <2> QED
    BY <1>2, <1>4, <2>1, <2>2
<1>7. Traced(Reverse(Q!UnpackChain(x, from)), from, n, TRUE, x.weight)
  <2>1. PICK along : along = FALSE
    OBVIOUS
  <2>2. Traced(Reverse(Q!UnpackChain(x, from)), from, n, ~ along, x.weight)
    BY <1>5, <2>1, TracedReverse
  <2>3. (~ along) = TRUE
    BY <2>1
  <2> QED
    BY <2>2, <2>3
<1>8. PICK a, b : a = Reverse(Q!UnpackChain(x, from)) /\ b = Q!UnpackChain(y, to)
  OBVIOUS
<1>9. Traced(a \o b, from, to, TRUE, x.weight + y.weight)
  BY <1>6, <1>7, <1>8, TracedJoin
<1>10. Q!Extract = [weight |-> best.weight, edges |-> a \o b]
  <2>1. best.entry["from"] = x /\ best.entry["to"] = y
    BY <1>1, <1>2, <1>3
  <2> QED
    BY <1>2, <1>8, <2>1 DEF Q!Extract, Q!Reverse, Reverse
<1> QED
  BY <1>1, <1>2, <1>9, <1>10

\* A trace of base edges stays one.
LEMMA TracedStays ==
    ASSUME graph' = graph, NEW list, NEW x, NEW y, NEW w
    PROVE  Traced(list, x, y, TRUE, w) => Traced(list, x, y, TRUE, w)'
<1>1. Nodes' = Nodes /\ GetEdges' = GetEdges
  BY DEF Nodes, GetEdges
<1>2. ASSUME NEW p, NEW t, IsTrace(list, p, t, TRUE) PROVE IsTrace(list, p, t, TRUE)'
  BY <1>2 DEF IsTrace, BaseStep
<1> QED
  BY <1>1, <1>2 DEF Traced

\* The search goes on, ends, or exceeds a limit.
LEMMA RunAlgoSearch ==
    ASSUME SearchReady, QueryInv, TreeInv, HeapInv, RelaxedInv, BestInv, UNCHANGED contractionVars,
           Q!RunAlgo
    PROVE  HeapInv' /\ PendingInv' /\ RelaxedInv' /\ ResultInv' /\ pc'[1] # "idle"
<1>1. pc = <<"head", "from">> /\ query' = query /\ tree' = tree /\ heap' = heap /\ curr' = curr
      /\ finished' = finished /\ best' = best
  BY DEF Q!RunAlgo
<1>2. \/ pc' = <<"fill", "from">>
      \/ pc' = <<"done", "from">> /\ Q!IsFinished /\ result' = Q!Extract
      \/ pc' = <<"exceeded", "from">>
  BY DEF Q!RunAlgo
<1>3. \A x : Entries(x)' = Entries(x) /\ \A v : ShortestWeights(x, v)' = ShortestWeights(x, v)
  BY <1>1, EntriesStay
<1>4. HeapInv'
  BY <1>1, <1>3 DEF HeapInv, Q!Sides
<1>5. pc' \in {<<"fill", "from">>, <<"done", "from">>, <<"exceeded", "from">>}
  BY <1>2
<1>6. \A x \in Q!Sides : pc # <<"relax", x>> /\ pc' # <<"relax", x>>
  BY <1>1, <1>5
<1>7. PendingInv'
  BY <1>5, <1>6 DEF PendingInv, Q!Sides
<1>8. RelaxedInv'
  <2>1. \A x, n, e : IsRelaxed(x, n, e) => IsRelaxed(x, n, e)'
    BY <1>1, HierarchyStays DEF IsRelaxed
  <2>2. \A n : UpEdges(n)' = UpEdges(n)
    BY HierarchyStays
  <2> SUFFICES ASSUME NEW x \in Q!Sides, NEW n \in DOMAIN tree[x], tree[x][n] \notin heap[x],
                      tree[x][n].weight \in ShortestWeights(x, n), NEW e \in UpEdges(n)
               PROVE  IsRelaxed(x, n, e)'
    BY <1>1, <1>3, <2>2 DEF RelaxedInv, Q!Sides
  <2>3. IsRelaxed(x, n, e)
    BY <1>6 DEF RelaxedInv
  <2> QED
    BY <2>1, <2>3
<1>9. ResultInv'
  <2>1. CASE pc' = <<"done", "from">>
    <3>1. Q!IsFinished /\ result' = Q!Extract
      BY <1>2, <2>1
    <3>2. Q!IsFinished'
      BY <1>1, <3>1 DEF Q!IsFinished, Q!Sides
    <3>3. CASE best.weight = Inf
      <4>1. result'.weight = best.weight
        BY <3>1, <3>3 DEF Q!Extract, Q!NoPath
      <4> QED
        BY <1>1, <3>2, <3>3, <4>1 DEF ResultInv
    <3>4. CASE best.weight # Inf
      <4>1. PICK list, from, to, w : /\ list = Q!Extract.edges /\ w = best.weight
                                     /\ from = query.start["from"] /\ to = query.start["to"]
        OBVIOUS
      <4>2. Q!Extract.weight = w /\ Traced(list, from, to, TRUE, w)
        BY <3>4, <4>1, ExtractTraced
      <4>3. Traced(list, from, to, TRUE, w)'
        BY <4>2, TracedStays, HierarchyStays
      <4>4. result'.edges = list /\ result'.weight = best'.weight /\ best'.weight = w
            /\ query'.start["from"] = from /\ query'.start["to"] = to
        BY <1>1, <3>1, <4>1, <4>2
      <4>5. Traced(result.edges, query.start["from"], query.start["to"], TRUE, best.weight)'
        BY <4>3, <4>4 DEF Traced
      <4> QED
        BY <3>2, <4>4, <4>5 DEF ResultInv
    <3> QED
      BY <3>3, <3>4
  <2>2. CASE pc' # <<"done", "from">>
    <3>1. pc'[1] # "done"
      BY <1>5, <2>2
    <3> QED
      BY <3>1 DEF ResultInv
  <2> QED
    BY <2>1, <2>2
<1>10. pc'[1] # "idle"
  BY <1>5
<1> QED
  BY <1>4, <1>7, <1>8, <1>9, <1>10

-----------------------------------------------------------------------------

\* A step that leaves hierarchy and search alone.
LEMMA SameSearch ==
    ASSUME SearchInv, UNCHANGED contractionVars, UNCHANGED queryVars
    PROVE  SearchInv'
<1>1. /\ query' = query /\ pc' = pc /\ tree' = tree /\ heap' = heap /\ curr' = curr
      /\ pending' = pending /\ finished' = finished /\ best' = best /\ result' = result
  BY DEF queryVars
<1>2. CASE pc[1] = "idle"
  BY <1>1, <1>2 DEF SearchInv, Q!Sides
<1>3. CASE pc[1] # "idle"
  <2>1. QueryInv /\ TreeInv /\ HeapInv /\ PendingInv /\ RelaxedInv /\ BestInv /\ ResultInv
    BY <1>3 DEF SearchInv
  <2>2. QueryInv' /\ TreeInv' /\ BestInv'
    BY <1>1, <2>1, QueryStays
  <2>3. \A x : Entries(x)' = Entries(x) /\ \A v : ShortestWeights(x, v)' = ShortestWeights(x, v)
    BY <1>1, EntriesStay
  <2>4. Nodes' = Nodes /\ \A n : UpEdges(n)' = UpEdges(n)
    BY HierarchyStays
  <2>5. HeapInv'
    BY <1>1, <2>1, <2>3 DEF HeapInv, Q!Sides
  <2>6. PendingInv'
    BY <1>1, <2>1, <2>4 DEF PendingInv, Q!Sides
  <2>7. \A x, n, e : IsRelaxed(x, n, e) => IsRelaxed(x, n, e)'
    BY <1>1, HierarchyStays DEF IsRelaxed
  <2>8. RelaxedInv'
    <3> SUFFICES ASSUME NEW x \in Q!Sides, NEW n \in DOMAIN tree[x], tree[x][n] \notin heap[x],
                        tree[x][n].weight \in ShortestWeights(x, n), NEW e \in UpEdges(n)
                 PROVE  \/ IsRelaxed(x, n, e)'
                        \/ pc = <<"relax", x>> /\ curr[x] = tree[x][n] /\ e \in pending
      BY <1>1, <2>3, <2>4 DEF RelaxedInv, Q!Sides
    <3>1. \/ IsRelaxed(x, n, e)
          \/ pc = <<"relax", x>> /\ curr[x] = tree[x][n] /\ e \in pending
      BY <2>1 DEF RelaxedInv
    <3> QED
      BY <2>7, <3>1
  <2>9. ResultInv'
    <3> SUFFICES ASSUME pc[1] = "done"
                 PROVE  /\ Q!IsFinished' /\ result'.weight = best'.weight
                        /\ best'.weight # Inf =>
                              Traced(result.edges, query.start["from"], query.start["to"], TRUE, best.weight)'
      BY <1>1 DEF ResultInv
    <3>1. Q!IsFinished'
      BY <1>1, <2>1 DEF ResultInv, Q!IsFinished, Q!Sides
    <3>2. PICK list, from, to, w : /\ list = result.edges /\ w = best.weight
                                   /\ from = query.start["from"] /\ to = query.start["to"]
      OBVIOUS
    <3>3. w # Inf => Traced(list, from, to, TRUE, w)
      BY <2>1, <3>2 DEF ResultInv
    <3>4. w # Inf => Traced(list, from, to, TRUE, w)'
      BY <3>3, TracedStays, HierarchyStays
    <3>5. result'.edges = list /\ best'.weight = w /\ query'.start["from"] = from /\ query'.start["to"] = to
      BY <1>1, <3>2
    <3>6. w # Inf => Traced(result.edges, query.start["from"], query.start["to"], TRUE, best.weight)'
      BY <3>4, <3>5 DEF Traced
    <3>7. result'.weight = best'.weight
      BY <1>1, <2>1 DEF ResultInv
    <3> QED
      BY <3>1, <3>5, <3>6, <3>7
  <2> QED
    BY <1>1, <1>3, <2>2, <2>5, <2>6, <2>8, <2>9 DEF SearchInv
<1> QED
  BY <1>2, <1>3

\* Every step of the search keeps what is said of it.
LEMMA SearchSteps ==
    ASSUME HierarchyInv, HierarchyInv', SearchInv, UNCHANGED contractionVars, phase = "done", Q!Next
    PROVE  SearchInv'
<1>1. \/ \E r \in Requests : r.graph = graph /\ Q!CalcPath(r.from, r.to, r.stall)
      \/ Q!RunAlgo
      \/ \E s \in Q!Sides : Q!Pop(s) \/ Q!Relax(s)
  BY DEF Q!Next
<1>2. SearchReady /\ LevelsApart
  BY HierarchyReady
<1>3. CASE \E r \in Requests : r.graph = graph /\ Q!CalcPath(r.from, r.to, r.stall)
  BY <1>3, CalcPathSearch
<1>4. CASE Q!RunAlgo
  <2>1. pc = <<"head", "from">> /\ query' = query /\ tree' = tree /\ best' = best
    BY <1>4 DEF Q!RunAlgo
  <2>2. QueryInv /\ TreeInv /\ HeapInv /\ RelaxedInv /\ BestInv
    BY <2>1 DEF SearchInv
  <2>3. QueryInv' /\ TreeInv' /\ BestInv'
    BY <2>1, <2>2, QueryStays
  <2>4. HeapInv' /\ PendingInv' /\ RelaxedInv' /\ ResultInv' /\ pc'[1] # "idle"
    BY <1>2, <1>4, <2>2, RunAlgoSearch
  <2> QED
    BY <2>3, <2>4 DEF SearchInv
<1>5. ASSUME NEW s \in Q!Sides, Q!Pop(s) PROVE SearchInv'
  <2>1. /\ pc = <<"fill", s>> /\ query' = query /\ tree' = tree /\ best' = best
        /\ RunsDry(s) \/ \E entry : Takes(s, entry)
    BY <1>5, PopMeaning
  <2>2. QueryInv /\ TreeInv /\ HeapInv /\ RelaxedInv /\ BestInv
    BY <2>1 DEF SearchInv
  <2>3. QueryInv' /\ TreeInv' /\ BestInv'
    BY <2>1, <2>2, QueryStays
  <2>4. HeapInv' /\ PendingInv' /\ RelaxedInv' /\ ResultInv' /\ pc'[1] # "idle"
    <3>1. CASE RunsDry(s)
      BY <2>1, <2>2, <3>1, DrySearch
    <3>2. ASSUME NEW entry, Takes(s, entry)
          PROVE  HeapInv' /\ PendingInv' /\ RelaxedInv' /\ ResultInv' /\ pc'[1] # "idle"
      BY <1>2, <2>1, <2>2, <3>2, TakeSearch
    <3> QED
      BY <2>1, <3>1, <3>2
  <2> QED
    BY <2>3, <2>4 DEF SearchInv
<1>6. ASSUME NEW s \in Q!Sides, Q!Relax(s) PROVE SearchInv'
  <2>1. pc = <<"relax", s>> /\ query' = query /\ curr' = curr /\ finished' = finished
    BY <1>6, RelaxMeaning
  <2>2. PICK e, y : /\ Relaxes(s, e) /\ y = Q!createEntry(e, curr[s], s)
                    /\ Passes(s, y) \/ Files(s, y)
    BY <1>6, RelaxMeaning
  <2>3. QueryInv /\ TreeInv /\ HeapInv /\ PendingInv /\ RelaxedInv /\ BestInv
    BY <2>1 DEF SearchInv
  <2>4. e \in pending /\ ~ finished[s]
    BY <2>1, <2>2, <2>3 DEF Relaxes, PendingInv
  <2>5. PICK n, m, c, w : IsOver(s, n, e, m, c, w, y)
    BY <1>2, <2>1, <2>2, <2>3, <2>4, RelaxedOver
  <2>6. PendingInv' /\ ResultInv' /\ pc'[1] # "idle"
    BY <2>1, <2>2, <2>3, RelaxPending
  <2>7. QueryInv'
    BY <2>1, <2>3, QueryStays
  <2>8. TreeInv' /\ HeapInv' /\ RelaxedInv' /\ BestInv'
    <3>1. CASE Passes(s, y)
      <4>1. HeapInv' /\ RelaxedInv'
        BY <2>1, <2>2, <2>3, <2>5, <3>1, PassSearch
      <4>2. tree' = tree /\ best' = best
        BY <3>1 DEF Passes
      <4> QED
        BY <2>1, <2>3, <4>1, <4>2, QueryStays
    <3>2. CASE Files(s, y)
      <4>1. IsFiled(s, m, y) /\ c \in Nat /\ y.weight = w + c
        BY <1>2, <2>3, <2>5, <3>2, FiledMeaning
      <4>2. curr[s].weight <= y.weight
        <5>1. w \in Nat /\ w = curr[s].weight
          BY <2>5 DEF IsOver
        <5> QED
          BY <4>1, <5>1
      <4>3. TreeInv' /\ HeapInv'
        BY <2>1, <2>3, <2>4, <4>1, <4>2, FileTree
      <4>4. RelaxedInv'
        BY <1>2, <2>1, <2>2, <2>3, <2>5, <4>1, FileRelaxed
      <4>5. BestInv'
        BY <2>3, <3>2, <4>1, <4>3, FileBest
      <4> QED
        BY <4>3, <4>4, <4>5
    <3> QED
      BY <2>2, <3>1, <3>2
  <2> QED
    BY <2>6, <2>7, <2>8 DEF SearchInv
<1> QED
  BY <1>1, <1>3, <1>4, <1>5, <1>6

\* The invariant of the search is inductive.
LEMMA SearchKept == HierarchyInv /\ HierarchyInv' /\ SearchInv /\ [RoutingNext]_vars => SearchInv'
<1> SUFFICES ASSUME HierarchyInv, HierarchyInv', SearchInv, [RoutingNext]_vars PROVE SearchInv'
  OBVIOUS
<1>1. CASE UNCHANGED contractionVars
  <2>1. (phase = "done" /\ Q!Next) \/ UNCHANGED queryVars
    BY <1>1 DEF RoutingNext, vars, Next, queryVars
  <2> QED
    BY <1>1, <2>1, SameSearch, SearchSteps
<1>2. CASE ~ UNCHANGED contractionVars
  <2>1. UNCHANGED queryVars /\ (HandlePair \/ InsertShortcuts \/ FinishContraction \/ \E n \in Nodes : PollNode(n))
    BY <1>2, ContractionSteps
  <2>2. phase # "done"
    BY <2>1 DEF HandlePair, InsertShortcuts, FinishContraction, PollNode
  <2>3. pc[1] = "idle"
    BY <2>2 DEF SearchInv, QueryInv
  <2>4. pc' = pc /\ finished' = finished
    BY <2>1 DEF queryVars
  <2> QED
    BY <2>3, <2>4 DEF SearchInv, Q!Sides
<1> QED
  BY <1>1, <1>2

\* What is known of the hierarchy always holds,
LEMMA HierarchyAlways == Spec => []HierarchyInv
<1>1. ListsInv /\ LevelsInv /\ StoreInv /\ RecordsInv /\ ClimbInv => HierarchyInv
  BY DEF HierarchyInv
<1> QED
  BY <1>1, ListsAlways, StoreAlways, RecordsAlways, ClimbAlways, PTL

\* ... and so does what is known of the search.
LEMMA SearchAlways == Spec => []SearchInv
<1>1. RoutingInit => SearchInv
  BY DEF RoutingInit, Q!Init, SearchInv
<1> QED
  BY <1>1, HierarchyAlways, SearchKept, PTL DEF Spec

-----------------------------------------------------------------------------

\* A walk up the hierarchy as light as can be was found by its side, or the best
\* pair is no heavier.
ClimbedTo(s, n, x) ==
    \/ n \in DOMAIN tree[s] /\ tree[s][n].weight <= x
    \/ best.weight # Inf /\ best.weight <= x

\* The best weight, if there is one, is a number.
LEMMA BestTyped ==
    ASSUME TreeInv, BestInv, best.weight # Inf
    PROVE  best.weight \in Nat
BY DEF TreeInv, BestInv, Entries, Q!Sides

\* By induction along the walk: the entry at its last node but one is as light as
\* can be and so is not stalled. It was popped, or the search stopped because of
\* the best pair.
LEMMA ClimbsFound ==
    ASSUME SearchReady, QueryInv, TreeInv, HeapInv, RelaxedInv, BestInv, Q!IsFinished, pc[1] = "done",
           NEW s \in Q!Sides, NEW m, NEW v, <<m, v>> \in Walked(Nodes, UpArcs(s), query.start[s]),
           v \in ShortestWeights(s, m)
    PROVE  ClimbedTo(s, m, v)
<1>1. PICK o : o = query.start[s]
  OBVIOUS
<1>2. o \in Nodes /\ graph \in Graphs /\ IsArcs(UpArcs(s), Nodes) /\ Inf \notin Int /\ Prepared
  BY <1>1, UpArcsTyped, BaseFacts DEF QueryInv, SearchReady, Prepared
<1> DEFINE C == {z \in Nodes \X Nat : z[2] \in ShortestWeights(s, z[1]) => ClimbedTo(s, z[1], z[2])}
<1>3. <<o, 0>> \in C
  <2>1. ClimbedTo(s, o, 0)
    BY <1>1 DEF TreeInv, ClimbedTo
  <2> QED
    BY <1>2, <2>1
<1>4. ASSUME NEW z \in Walked(Nodes, UpArcs(s), o) \cap C, NEW arc \in UpArcs(s),
             arc[1] = z[1], arc[3] # Inf
      PROVE  <<arc[2], z[2] + arc[3]>> \in C
  <2>1. PICK n, u, c, x : n = arc[1] /\ u = arc[2] /\ c = arc[3] /\ x = z[2]
    OBVIOUS
  <2>2. n \in Nodes /\ u \in Nodes /\ c \in Nat /\ x \in Nat /\ z = <<n, x>>
        /\ (x \in ShortestWeights(s, n) => ClimbedTo(s, n, x))
    BY <1>4, <2>1 DEF UpArcs
  <2>3. PICK e \in Explore(n) : Climbs(e, n, u) /\ c = CHWeight(e, IF s = "from" THEN n ELSE u)
    BY <2>1 DEF UpArcs
  <2>4. e \in StoredEdges /\ n \in CHEnds(e) /\ CHEnds(e) = {n, u} /\ level[n] < level[u]
    BY <2>2, <2>3 DEF SearchReady, ExploredStored, Climbs
  <2>5. u = BaseNode(e, n)
    BY <1>2, <2>4, StoredEnds
  <2>6. SearchWeight(e, n, s) = c /\ e \in UpEdges(n)
    BY <2>3, <2>4, <2>5 DEF SearchWeight, UpEdges
  <2>7. Reaches(o, s, n, x)
    BY <1>2, <1>4, <2>2, ClimbReaches
  <2>8. ASSUME NEW y \in Nat, Reaches(o, s, n, y) PROVE Reaches(o, s, u, y + c)
    BY <1>2, <2>2, <2>4, <2>5, <2>6, <2>8, ReachesOn
  <2>9. ASSUME x + c \in ShortestWeights(s, u) PROVE ClimbedTo(s, u, x + c)
    <3>1. ASSUME NEW y, Reaches(o, s, n, y) PROVE y \in Nat
      BY <3>1 DEF Reaches, Walked
    <3>2. x \in ShortestWeights(s, n)
      <4>1. ASSUME NEW y \in Nat, Reaches(o, s, n, y) PROVE x <= y
        <5>1. Reaches(o, s, u, y + c) /\ y + c \in Nat
          BY <2>2, <2>8, <4>1
        <5>2. x + c <= y + c
          BY <1>1, <2>9, <5>1 DEF ShortestWeights
        <5> QED
          BY <2>2, <5>2
      <4> QED
        BY <1>1, <2>2, <2>7, <3>1, <4>1 DEF ShortestWeights
    <3>3. ClimbedTo(s, n, x)
      BY <2>2, <3>2
    <3>4. CASE best.weight # Inf /\ best.weight <= x
      <4>1. best.weight \in Nat
        BY <3>4, BestTyped
      <4>2. best.weight <= x + c
        BY <2>2, <3>4, <4>1
      <4> QED
        BY <3>4, <4>2 DEF ClimbedTo
    <3>5. CASE n \in DOMAIN tree[s] /\ tree[s][n].weight <= x
      <4>1. PICK t : t = tree[s][n].weight
        OBVIOUS
      <4>2. t \in Nat /\ Reaches(o, s, n, t) /\ t <= x
        <5>1. tree[s][n] \in Entries(s) /\ tree[s][n].node = n
          BY <3>5 DEF TreeInv
        <5> QED
          BY <1>1, <3>5, <4>1, <5>1 DEF Entries
      <4>3. t = x
        <5>1. x <= t
          BY <1>1, <3>2, <4>2 DEF ShortestWeights
        <5> QED
          BY <2>2, <4>2, <5>1
      <4>4. CASE tree[s][n] \in heap[s]
        <5>1. ~ finished[s] /\ curr[s].weight <= t /\ curr[s].weight \in Nat
          BY <4>1, <4>4 DEF HeapInv, Entries
        <5>2. best.weight # Inf /\ curr[s].weight >= best.weight
          BY <5>1 DEF Q!IsFinished
        <5>3. best.weight \in Nat
          BY <5>2, BestTyped
        <5>4. best.weight <= x + c
          BY <2>2, <4>3, <5>1, <5>2, <5>3
        <5> QED
          BY <5>2, <5>4 DEF ClimbedTo
      <4>5. CASE tree[s][n] \notin heap[s]
        <5>1. pc # <<"relax", s>>
          OBVIOUS
        <5>2. IsRelaxed(s, n, e)
          BY <2>6, <3>2, <3>5, <4>1, <4>3, <4>5, <5>1 DEF RelaxedInv
        <5>3. c # Inf
          BY <1>2, <2>2
        <5>4. u \in DOMAIN tree[s] /\ tree[s][u].weight <= t + c
          BY <2>5, <2>6, <4>1, <5>2, <5>3 DEF IsRelaxed
        <5> QED
          BY <4>3, <5>4 DEF ClimbedTo
      <4> QED
        BY <4>4, <4>5
    <3> QED
      BY <3>3, <3>4, <3>5 DEF ClimbedTo
  <2>10. x + c \in Nat
    BY <2>2
  <2> QED
    BY <2>1, <2>2, <2>9, <2>10
<1> HIDE DEF C
<1>5. Walked(Nodes, UpArcs(s), o) \subseteq C
  BY <1>2, <1>3, <1>4, WalkedInduction
<1>6. <<m, v>> \in C
  BY <1>1, <1>5
<1> QED
  BY <1>6 DEF C

-----------------------------------------------------------------------------

\* When the search is over, the best weight is the distance on the base graph,
\* unless that is too large to be stored.
LEMMA BestIsLeast ==
    ASSUME HierarchyInv, SearchInv, pc[1] = "done", NEW a, a = query.start["from"], NEW b, b = query.start["to"],
           NEW d \in Nat, d < MaxStoredWeight, <<b, d>> \in Walked(Nodes, BaseArcs, a),
           \A x \in Nat : <<b, x>> \in Walked(Nodes, BaseArcs, a) => d <= x
    PROVE  best.weight # Inf /\ best.weight <= d
<1>1. QueryInv /\ TreeInv /\ HeapInv /\ RelaxedInv /\ BestInv /\ Q!IsFinished /\ phase = "done"
  BY DEF SearchInv, ResultInv, QueryInv
<1>2. SearchReady /\ graph \in Graphs
  BY <1>1, HierarchyReady DEF SearchReady, Prepared
<1>3. a \in Nodes /\ b \in Nodes /\ "from" \in Q!Sides /\ "to" \in Q!Sides /\ "from" # "to"
  BY <1>1 DEF QueryInv, Q!Sides
<1>4. IsArcs(BaseArcs, Nodes)
  BY <1>2, BaseArcsFacts
<1>5. Meets(a, b, d)
  BY <1>1, <1>3, MeetsWhenDone DEF HierarchyInv
<1>6. PICK m \in Nodes, v \in Nat, w \in Nat :
         /\ <<m, v>> \in Walked(Nodes, UpArcs("from"), a)
         /\ <<m, w>> \in Walked(Nodes, UpArcs("to"), b)
         /\ v + w <= d
  BY <1>5 DEF Meets
<1>7. <<m, v>> \in Walked(Nodes, BaseArcs, a)
  <2>1. Reaches(a, "from", m, v)
    BY <1>2, <1>3, <1>6, ClimbReaches
  <2> QED
    BY <2>1 DEF Reaches
<1>8. <<b, w>> \in Walked(Nodes, BaseArcs, m)
  <2>1. Reaches(b, "to", m, w)
    BY <1>2, <1>3, <1>6, ClimbReaches
  <2> QED
    BY <1>3, <2>1 DEF Reaches
<1>9. v \in ShortestWeights("from", m)
  <2>1. ASSUME NEW x \in Nat, <<m, x>> \in Walked(Nodes, BaseArcs, a) PROVE v <= x
    <3>1. <<b, x + w>> \in Walked(Nodes, BaseArcs, a)
      BY <1>3, <1>4, <1>8, <2>1, WalkedOn
    <3>2. d <= x + w
      BY <3>1, <1>6
    <3> QED
      BY <1>6, <3>2
  <2>2. Reaches(a, "from", m, v) /\ \A x \in Nat : Reaches(a, "from", m, x) => v <= x
    BY <1>7, <2>1 DEF Reaches
  <2>3. ASSUME NEW x, Reaches(a, "from", m, x) PROVE x \in Nat
    BY <2>3 DEF Reaches, Walked
  <2> QED
    BY <1>6, <2>2, <2>3 DEF ShortestWeights
<1>10. w \in ShortestWeights("to", m)
  <2>1. ASSUME NEW x \in Nat, <<b, x>> \in Walked(Nodes, BaseArcs, m) PROVE w <= x
    <3>1. <<b, v + x>> \in Walked(Nodes, BaseArcs, a)
      BY <1>3, <1>4, <1>6, <1>7, <2>1, WalkedOn
    <3>2. d <= v + x
      BY <3>1, <1>6
    <3> QED
      BY <1>6, <3>2
  <2>2. Reaches(b, "to", m, w) /\ \A x \in Nat : Reaches(b, "to", m, x) => w <= x
    BY <1>3, <1>8, <2>1 DEF Reaches
  <2>3. ASSUME NEW x, Reaches(b, "to", m, x) PROVE x \in Nat
    BY <1>3, <2>3 DEF Reaches, Walked
  <2> QED
    BY <1>6, <2>2, <2>3 DEF ShortestWeights
<1>11. ClimbedTo("from", m, v)
  BY <1>1, <1>2, <1>3, <1>6, <1>9, ClimbsFound
<1>12. ClimbedTo("to", m, w)
  BY <1>1, <1>2, <1>3, <1>6, <1>10, ClimbsFound
<1>13. CASE best.weight # Inf /\ (best.weight <= v \/ best.weight <= w)
  <2>1. best.weight \in Nat
    BY <1>1, <1>13, BestTyped
  <2> QED
    BY <1>6, <1>13, <2>1
<1>14. CASE ~ (best.weight # Inf /\ (best.weight <= v \/ best.weight <= w))
  <2>1. PICK x, y : x = tree["from"][m].weight /\ y = tree["to"][m].weight
    OBVIOUS
  <2>2. m \in DOMAIN tree["from"] \cap DOMAIN tree["to"] /\ x <= v /\ y <= w
    BY <1>11, <1>12, <1>14, <2>1 DEF ClimbedTo
  <2>3. best.weight # Inf /\ best.weight <= x + y
    BY <1>1, <2>1, <2>2 DEF BestInv
  <2>4. x \in Nat /\ y \in Nat
    BY <1>1, <1>3, <2>1, <2>2 DEF TreeInv, Entries
  <2>5. best.weight \in Nat
    BY <1>1, <2>3, BestTyped
  <2> QED
    BY <1>6, <2>2, <2>3, <2>4, <2>5
<1> QED
  BY <1>13, <1>14

-----------------------------------------------------------------------------

\* What a finished search reports is a walk over base edges of the weight it
\* says, and so no lighter than the distance.
RouteIsWalk ==
    pc[1] = "done" /\ result.weight # Inf =>
        LET from == query.start["from"]  to == query.start["to"]
        IN  /\ W!IsWalk(BaseQuery(from, to), result.edges, result.weight)
            /\ BaseDistances[<<from, to>>] # Inf /\ BaseDistances[<<from, to>>] <= result.weight

\* The distance on the base graph is the least weight of a walk.
LEMMA TheDistance ==
    ASSUME graph \in Graphs, NEW a \in Nodes, NEW b \in Nodes
    PROVE  /\ BaseDistances[<<a, b>>] \in Nat \cup {Inf}
           /\ IsLeastOf(BaseDistances[<<a, b>>], WalkWeights(Nodes, BaseArcs, a, b))
<1>1. IsFiniteSet(Nodes) /\ Inf \notin Int /\ IsArcs(BaseArcs, Nodes)
  BY BaseFacts, BaseArcsFacts
<1>2. /\ D!Distances(Nodes, BaseArcs)[<<a, b>>] \in Weights
      /\ IsLeastOf(D!Distances(Nodes, BaseArcs)[<<a, b>>], WalkWeights(Nodes, BaseArcs, a, b))
  BY <1>1, DistanceIsLeast
<1> QED
  BY <1>2, BaseDistancesMeaning DEF Weights

\* That follows from the invariants.
LEMMA ResultIsWalk ==
    ASSUME HierarchyInv, SearchInv
    PROVE  RouteIsWalk
<1> SUFFICES ASSUME pc[1] = "done", result.weight # Inf,
                    NEW a, a = query.start["from"], NEW b, b = query.start["to"],
                    NEW w, w = result.weight
             PROVE  /\ W!IsWalk(BaseQuery(a, b), result.edges, w)
                    /\ BaseDistances[<<a, b>>] # Inf /\ BaseDistances[<<a, b>>] <= w
  BY DEF RouteIsWalk
<1>1. phase = "done" /\ w = best.weight /\ Traced(result.edges, a, b, TRUE, w)
  BY DEF SearchInv, QueryInv, ResultInv
<1>2. graph \in Graphs
  BY <1>1, HierarchyReady DEF SearchReady, Prepared
<1>3. W!IsWalk(BaseQuery(a, b), result.edges, w)
  BY <1>1, <1>2, TracedWalk
<1>4. w \in Nat /\ a \in Nodes /\ b \in Nodes /\ <<b, w>> \in Walked(Nodes, BaseArcs, a)
  BY <1>1, <1>2, TracedWalked
<1>5. w \in WalkWeights(Nodes, BaseArcs, a, b)
  BY <1>4 DEF WalkWeights
<1>6. IsLeastOf(BaseDistances[<<a, b>>], WalkWeights(Nodes, BaseArcs, a, b))
      /\ Inf \notin Int
  BY <1>2, <1>4, TheDistance, BaseFacts
<1>7. BaseDistances[<<a, b>>] # Inf /\ BaseDistances[<<a, b>>] <= w
  BY <1>5, <1>6 DEF IsLeastOf, WalkWeights
<1> QED
  BY <1>3, <1>7

\* For every network, order of the nodes, witness limits and request between two
\* nodes, and whatever the weights: what AbstractBidirCHAlgo reports (ExtractPath,
\* with ShortcutUnpacker) is a route of the base graph that weighs what is said.
THEOREM ReportedRouteIsWalk == Spec => []RouteIsWalk
<1>1. HierarchyInv /\ SearchInv => RouteIsWalk
  BY ResultIsWalk
<1> QED
  BY <1>1, HierarchyAlways, SearchAlways, PTL

\* The distance asked for is less than the weight that is stored as infinite.
DistanceCanBeStored ==
    LET d == BaseDistances[<<query.start["from"], query.start["to"]>>] IN d = Inf \/ d < MaxStoredWeight

\* ... and that nothing is lighter from how the walks up the hierarchy are found.
LEMMA ResultIsShortest ==
    ASSUME HierarchyInv, SearchInv, DistanceCanBeStored
    PROVE  ShortestPathFound
<1> SUFFICES ASSUME pc[1] = "done", NEW a, a = query.start["from"], NEW b, b = query.start["to"]
             PROVE  /\ result.weight = BaseDistances[<<a, b>>]
                    /\ result.weight # Inf => W!IsWalk(BaseQuery(a, b), result.edges, result.weight)
  BY DEF ShortestPathFound
<1>1. RouteIsWalk
  BY ResultIsWalk
<1>2. QueryInv /\ result.weight = best.weight /\ phase = "done" /\ TreeInv /\ BestInv
  BY DEF SearchInv, ResultInv, QueryInv
<1>3. graph \in Graphs /\ a \in Nodes /\ b \in Nodes
  BY <1>2, HierarchyReady DEF SearchReady, Prepared, QueryInv, Q!Sides
<1>4. PICK d : d = BaseDistances[<<a, b>>]
  OBVIOUS
<1>5. /\ d \in Nat \cup {Inf} /\ IsLeastOf(d, WalkWeights(Nodes, BaseArcs, a, b)) /\ Inf \notin Int
      /\ d = Inf \/ d < MaxStoredWeight
  BY <1>3, <1>4, TheDistance, BaseFacts DEF DistanceCanBeStored
<1>6. result.weight # Inf => /\ W!IsWalk(BaseQuery(a, b), result.edges, result.weight)
                             /\ d # Inf /\ d <= result.weight
  BY <1>1, <1>4 DEF RouteIsWalk
<1>7. result.weight = d
  <2>1. CASE d = Inf
    BY <1>6, <2>1
  <2>2. CASE d # Inf
    <3>1. d \in Nat /\ d < MaxStoredWeight
      BY <1>5, <2>2
    <3>2. d \in WalkWeights(Nodes, BaseArcs, a, b) /\ \A x \in WalkWeights(Nodes, BaseArcs, a, b) : d <= x
      BY <1>5, <2>2, <3>1 DEF IsLeastOf
    <3>3. /\ <<b, d>> \in Walked(Nodes, BaseArcs, a)
          /\ \A x \in Nat : <<b, x>> \in Walked(Nodes, BaseArcs, a) => d <= x
      BY <3>2 DEF WalkWeights
    <3>4. best.weight # Inf /\ best.weight <= d
      BY <3>1, <3>3, BestIsLeast
    <3>5. best.weight \in Nat
      BY <1>2, <3>4, BestTyped
    <3> QED
      BY <1>2, <1>6, <3>1, <3>4, <3>5
  <2> QED
    BY <2>1, <2>2
<1> QED
  BY <1>4, <1>6, <1>7

\* For every network, order of the nodes, witness limits and request between two
\* nodes: AbstractBidirCHAlgo, which climbs the hierarchy from both ends, stalls
\* entries on demand and stops at the best weight, reports a route exactly when
\* there is one and none is shorter, as long as the distance is not as large as
\* the weight CHStorage keeps for infinity.
THEOREM ShortestPathsFound == Spec => [](DistanceCanBeStored => ShortestPathFound)
<1>1. HierarchyInv /\ SearchInv => (DistanceCanBeStored => ShortestPathFound)
  BY ResultIsShortest
<1> QED
  BY <1>1, HierarchyAlways, SearchAlways, PTL

=============================================================================
