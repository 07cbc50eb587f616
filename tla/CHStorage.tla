----------------------------- MODULE CHStorage -----------------------------
(***************************************************************************)
(* A contraction hierarchy as it is stored (core/storage/ch_storage.go,    *)
(* ch_storage_builder.go), explored (routing_ch_edge_iterator_impl.go) and *)
(* unpacked (core/routing/ch/shortcut_unpacker.go), node-based.            *)
(*                                                                         *)
(* Edges are numbered from 1; the ids of shortcuts follow those of the     *)
(* base edges.  All weights are multiples of a unit larger than the 0.001  *)
(* the codec rounds to, so only its marker for infinity is left.           *)
(***************************************************************************)
EXTENDS Weights, Sequences, FiniteSets, SequencesExt

CONSTANTS MaxStoredWeight,  \* maxWeight: from here on a weight is stored as infinite
          NoShortcut        \* -1 as a reference to a shortcut

VARIABLES graph,        \* the frozen base graph: its nodes and edges
          level,        \* nodesCH: the level of each node,
          lastShortcut, \* ... and the last of its shortcuts
          shortcuts     \* the shortcut records

storage == <<graph, level, lastShortcut, shortcuts>>

Nodes == graph.nodes
GetEdges == Len(graph.edges)

\* Create, then SetLevelForAllNodes(maxLevel): no node has been contracted.
MaxLevel == Cardinality(Nodes)
EmptyStorage ==
    /\ level = [n \in Nodes |-> MaxLevel]
    /\ lastShortcut = [n \in Nodes |-> NoShortcut]
    /\ shortcuts = << >>

-----------------------------------------------------------------------------

\* weightToDouble after weightFromDouble.
StoredWeight(w) == IF w >= MaxStoredWeight THEN Inf ELSE w

\* CHStorageBuilder.checkNewShortcut, which panics unless the level of the new
\* shortcut's node is below that of the other end and not below that of the
\* previous shortcut.
CheckNewShortcut(n, adj) ==
    /\ level[n] < MaxLevel /\ level[n] < level[adj]
    /\ shortcuts # << >> => level[Last(shortcuts).a] <= level[n]

\* AddShortcutNodeBased for each of the new shortcuts, all of node n.
AddShortcuts(n, new) ==
    /\ shortcuts' = shortcuts \o [i \in DOMAIN new |->
                                     [new[i] EXCEPT !.weight = StoredWeight(@)]]
    /\ lastShortcut' = [lastShortcut EXCEPT ![n] = IF new = << >> THEN @ ELSE Len(shortcuts')]

\* ReplaceSkippedEdges: the ids the preparation used become ids of this graph.
ReplaceSkippedEdges(mapping) ==
    shortcuts' = [i \in DOMAIN shortcuts |->
                     [shortcuts[i] EXCEPT !.skip1 = mapping[@], !.skip2 = mapping[@]]]

-----------------------------------------------------------------------------

\* Base edges and shortcuts together, by id.
CHEdges ==
    graph.edges \o [i \in DOMAIN shortcuts |->
        [a |-> shortcuts[i].a, b |-> shortcuts[i].b,
         fwd |-> IF shortcuts[i].fwd THEN shortcuts[i].weight ELSE Inf,
         bwd |-> IF shortcuts[i].bwd THEN shortcuts[i].weight ELSE Inf]]

\* What the iterator walks through: from the last shortcut of the node down as
\* long as they are the node's, then its base edges.
ShortcutsOf(n) ==
    IF lastShortcut[n] = NoShortcut THEN {}
    ELSE {i \in 1 .. lastShortcut[n] : \A j \in i .. lastShortcut[n] : shortcuts[j].a = n}

Explore(n) ==
    {e \in 1 .. GetEdges : n \in {graph.edges[e].a, graph.edges[e].b}}
      \cup {GetEdges + i : i \in ShortcutsOf(n)}

\* GetEdgeIteratorState(id, adj) finds an edge, and the base node it has then.
Touches(id, adj) == adj \in {CHEdges[id].a, CHEdges[id].b}
BaseNode(id, adj) == IF CHEdges[id].a = adj THEN CHEdges[id].b ELSE CHEdges[id].a

\* expandEdge in reverse order: the base edges of an edge, beginning at adj.  A
\* skipped edge with an id above the shortcut's own cannot be unpacked.
Unpack(edge, end) ==
    LET expand[x \in (1 .. edge) \X Nodes] ==
            LET id == x[1]  adj == x[2]
            IN  IF id <= GetEdges THEN <<id>>
                ELSE LET s == shortcuts[id - GetEdges]
                         near == IF Touches(s.skip2, adj) THEN s.skip2 ELSE s.skip1
                         far == IF near = s.skip2 THEN s.skip1 ELSE s.skip2
                     IN  IF near >= id \/ far >= id THEN << >>
                         ELSE expand[<<near, adj>>] \o expand[<<far, BaseNode(near, adj)>>]
    IN  expand[<<edge, end>>]
=============================================================================
