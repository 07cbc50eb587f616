---------------------------- MODULE Contraction ----------------------------
(***************************************************************************)
(* The node-based preparation of a contraction hierarchy:                  *)
(* core/routing/ch/prepare_contraction_hierarchies.go with                 *)
(* node_based_node_contractor.go on prepare_graph.go.                      *)
(*                                                                         *)
(* The nodes are contracted in any order.  This covers fixed orderings and *)
(* the heap of priorities with its lazy and neighbour updates, which do    *)
(* nothing but choose the next node.  The witness search may give up at    *)
(* any time, as maxPollFactorContraction allows.  All nodes are            *)
(* contracted (prepare.ch.contracted_nodes is 100, the default).           *)
(***************************************************************************)
EXTENDS CHStorage

CONSTANT Graphs   \* the base graphs: records [nodes, edges]

ASSUME GraphsAssumption ==
    /\ Inf \notin Int /\ NoShortcut \notin Nat /\ MaxStoredWeight \in Nat
    /\ \A g \in Graphs :
        /\ g.nodes \subseteq Nat /\ IsFiniteSet(g.nodes)
        /\ g.edges \in Seq(ToSet(g.edges))
        /\ \A i \in DOMAIN g.edges :
            LET e == g.edges[i]
            IN  /\ e.a \in g.nodes /\ e.b \in g.nodes /\ e.a # e.b
                /\ {e.fwd, e.bwd} \subseteq (Nat \ {0}) \cup {Inf}

VARIABLES prepareShortcuts, \* the prepare edges added; their ids follow the base edges
          out, in,          \* prepareEdgesOut, prepareEdgesIn: per node, newest first
          shortcutFor,      \* shortcutsByPrepareEdges: where a prepare edge is stored
          phase,            \* "poll", "contract" or "done"
          node,             \* the node being contracted
          todo              \* pairs of an edge into the node and one out of it

prepareGraph == <<prepareShortcuts, out, in, shortcutFor>>
contractionVars == <<storage, prepareGraph, phase, node, todo>>

-----------------------------------------------------------------------------

IsShortcut(id) == id > GetEdges
Shortcut(id) == prepareShortcuts[id - GetEdges]

\* The weight of a prepare edge that leaves n, and the node it leads to.
EdgeAt(id) == IF IsShortcut(id) THEN Shortcut(id) ELSE graph.edges[id]
AdjacentNode(id, n) == IF EdgeAt(id).a = n THEN EdgeAt(id).b ELSE EdgeAt(id).a
Weight(id, n) == IF EdgeAt(id).a = n THEN EdgeAt(id).fwd ELSE EdgeAt(id).bwd

GetShortcutForPrepareEdge(id) == IF IsShortcut(id) THEN shortcutFor[id] ELSE id

\* The part of a list that is in a set.
Keep(list, ids) ==
    LET kept[k \in 0 .. Len(list)] ==
            IF k = 0 THEN << >>
            ELSE IF list[k] \in ids THEN Append(kept[k - 1], list[k]) ELSE kept[k - 1]
    IN  kept[Len(list)]

\* BuildFromGraph: each edge is prepended to the lists it is passable for.
BuildFromGraph ==
    LET newestFirst == [i \in 1 .. GetEdges |-> GetEdges + 1 - i]
        At(n) == {id \in 1 .. GetEdges : n \in {graph.edges[id].a, graph.edges[id].b}}
        Leaving(n) ==
            {id \in At(n) :
                LET e == graph.edges[id] IN (IF e.a = n THEN e.fwd ELSE e.bwd) # Inf}
        Entering(n) ==
            {id \in At(n) :
                LET e == graph.edges[id] IN (IF e.a = n THEN e.bwd ELSE e.fwd) # Inf}
    IN  /\ out = [n \in Nodes |-> Keep(newestFirst, Leaving(n))]
        /\ in = [n \in Nodes |-> Keep(newestFirst, Entering(n))]
        /\ prepareShortcuts = << >>
        /\ shortcutFor = << >>

Init ==
    /\ graph \in Graphs
    /\ EmptyStorage
    /\ BuildFromGraph
    /\ phase = "poll"
    /\ node = CHOOSE n \in Nodes : TRUE
    /\ todo = << >>

Remaining == {n \in Nodes : level[n] = MaxLevel}

\* contractNode up to the loops of findAndHandleShortcuts.
PollNode(n) ==
    /\ phase = "poll" /\ n \in Remaining
    /\ level' = [level EXCEPT ![n] = Cardinality(Nodes \ Remaining)]
    /\ node' = n
    /\ todo' = FlattenSeq([i \in DOMAIN in[n] |->
                   [j \in 1 .. Len(out[n]) |-> <<in[n][i], out[n][j]>>]])
    /\ phase' = "contract"
    /\ UNCHANGED <<graph, lastShortcut, shortcuts, prepareGraph>>

-----------------------------------------------------------------------------

D == INSTANCE Distances

\* The arcs of the prepare graph that do not end in the ignored node.
Arcs(ignored) ==
    {arc \in UNION {{<<n, AdjacentNode(id, n), Weight(id, n)>> : id \in ToSet(out[n])} : n \in Nodes} :
        arc[2] # ignored}

\* Mutation: the witness search does not ignore the node.
WitnessThrough(from, to, weight) ==
    D!Distances(Nodes, Arcs(-1))[<<from, to>>] \in 0 .. weight

\* FindUpperBound may return at most the weight: there is a path around the node.
Witness(from, to, weight) ==
    D!Distances(Nodes, Arcs(node))[<<from, to>>] \in 0 .. weight

\* addOrUpdateShortcut: at most one shortcut leads from one node to another;
\* a lighter one takes its place.
AddOrUpdateShortcut(from, to, weight, inEdge, outEdge) ==
    LET existing == {id \in ToSet(out[from]) : IsShortcut(id) /\ AdjacentNode(id, from) = to}
        new == [a |-> from, b |-> to, fwd |-> weight, bwd |-> Inf,
                skip1 |-> inEdge, skip2 |-> outEdge]
        id == GetEdges + Len(prepareShortcuts) + 1
    IN  IF existing = {}
        THEN /\ prepareShortcuts' = Append(prepareShortcuts, new)
             /\ out' = [out EXCEPT ![from] = <<id>> \o @]
             /\ in' = [in EXCEPT ![to] = <<id>> \o @]
        ELSE /\ prepareShortcuts' =
                   [i \in DOMAIN prepareShortcuts |->
                      IF GetEdges + i \in existing /\ weight < prepareShortcuts[i].fwd
                      THEN new ELSE prepareShortcuts[i]]
             /\ UNCHANGED <<out, in>>

\* One iteration of the loops of findAndHandleShortcuts.  A shortcut may be
\* added although there is a witness: the search gives up after so many nodes.
HandlePair ==
    /\ phase = "contract" /\ todo # << >>
    /\ LET inEdge == Head(todo)[1]
           outEdge == Head(todo)[2]
           from == AdjacentNode(inEdge, node)
           to == AdjacentNode(outEdge, node)
           weight == Weight(inEdge, from) + Weight(outEdge, node)
       IN  \/ /\ from = to \/ Witness(from, to, weight)
              /\ UNCHANGED prepareGraph
           \/ /\ from # to
              /\ AddOrUpdateShortcut(from, to, weight, inEdge, outEdge)
              /\ UNCHANGED shortcutFor
    /\ todo' = Tail(todo)
    /\ UNCHANGED <<storage, phase, node>>

-----------------------------------------------------------------------------

PrepareShortcutsIn(list) == Keep(list, {id \in ToSet(list) : IsShortcut(id)})

\* insertOutShortcuts; ids holds the prepare edges a stored shortcut is for.
OutShortcuts ==
    LET leaving == PrepareShortcutsIn(out[node])
    IN  [i \in DOMAIN leaving |->
           LET id == leaving[i]
           IN  [ids |-> {id},
                record |-> [a |-> node, b |-> AdjacentNode(id, node), fwd |-> TRUE, bwd |-> FALSE,
                            weight |-> Shortcut(id).fwd,
                            skip1 |-> Shortcut(id).skip1, skip2 |-> Shortcut(id).skip2]]]

\* Mutation: shortcuts are merged whatever edges they consist of.
SameConnectionAnyEdges(record, id) ==
    /\ record.fwd /\ ~record.bwd
    /\ record.b = AdjacentNode(id, node) /\ record.weight = Shortcut(id).fwd

\* A shortcut out of the node is the same, backwards, as the one into it.
SameConnection(record, id) ==
    /\ record.fwd /\ ~record.bwd
    /\ record.b = AdjacentNode(id, node) /\ record.weight = Shortcut(id).fwd
    /\ GetShortcutForPrepareEdge(record.skip1) = GetShortcutForPrepareEdge(Shortcut(id).skip2)
    /\ GetShortcutForPrepareEdge(record.skip2) = GetShortcutForPrepareEdge(Shortcut(id).skip1)

\* Mutation: the shortcut that joins is not remembered as stored.
JoinForget(stored, id) == [stored EXCEPT !.record.bwd = TRUE]

Join(stored, id) == [ids |-> stored.ids \cup {id}, record |-> [stored.record EXCEPT !.bwd = TRUE]]

\* insertInShortcuts, for one of them: it joins the first one that fits.
InsertInShortcut(list, id) ==
    LET fitting == {i \in DOMAIN list : SameConnection(list[i].record, id)}
        first == CHOOSE i \in fitting : \A j \in fitting : i <= j
    IN  IF fitting # {}
        THEN [i \in DOMAIN list |-> IF i = first THEN Join(list[i], id) ELSE list[i]]
        ELSE Append(list,
               [ids |-> {id},
                record |-> [a |-> node, b |-> AdjacentNode(id, node), fwd |-> FALSE, bwd |-> TRUE,
                            weight |-> Shortcut(id).fwd,
                            skip1 |-> Shortcut(id).skip2, skip2 |-> Shortcut(id).skip1]])

NewShortcuts ==
    LET entering == PrepareShortcutsIn(in[node])
        merged[k \in 0 .. Len(entering)] ==
            IF k = 0 THEN OutShortcuts ELSE InsertInShortcut(merged[k - 1], entering[k])
    IN  merged[Len(entering)]

\* Mutation: only edges out of the node are removed from its neighbours.
DisconnectOut ==
    /\ in' = [n \in Nodes |-> IF n = node THEN << >>
                ELSE Keep(in[n], ToSet(in[n]) \ ToSet(out[node]))]
    /\ out' = [out EXCEPT ![node] = << >>]

Disconnect ==
    /\ in' = [n \in Nodes |-> IF n = node THEN << >>
                ELSE Keep(in[n], ToSet(in[n]) \ ToSet(out[node]))]
    /\ out' = [n \in Nodes |-> IF n = node THEN << >>
                ELSE Keep(out[n], ToSet(out[n]) \ ToSet(in[node]))]

\* The rest of ContractNode: insertShortcuts and Disconnect.
InsertShortcuts ==
    /\ phase = "contract" /\ todo = << >>
    /\ LET new == NewShortcuts
           ids == UNION {new[i].ids : i \in DOMAIN new}
       IN  /\ AddShortcuts(node, [i \in DOMAIN new |-> new[i].record])
           /\ shortcutFor' =
                [id \in ids \cup DOMAIN shortcutFor |->
                   IF id \in ids
                   THEN GetEdges + Len(shortcuts) + (CHOOSE i \in DOMAIN new : id \in new[i].ids)
                   ELSE shortcutFor[id]]
    /\ Disconnect
    /\ phase' = "poll"
    /\ UNCHANGED <<graph, level, prepareShortcuts, node, todo>>

FinishContraction ==
    /\ phase = "poll" /\ Remaining = {}
    /\ ReplaceSkippedEdges([id \in (1 .. GetEdges) \cup DOMAIN shortcutFor |->
                              GetShortcutForPrepareEdge(id)])
    /\ phase' = "done"
    /\ UNCHANGED <<graph, level, lastShortcut, prepareGraph, node, todo>>

Next == HandlePair \/ InsertShortcuts \/ FinishContraction \/ \E n \in Nodes : PollNode(n)
=============================================================================
