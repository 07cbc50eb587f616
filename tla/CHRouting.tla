----------------------------- MODULE CHRouting -----------------------------
(***************************************************************************)
(* A hierarchy is prepared, then a route request is answered on it.        *)
(***************************************************************************)
EXTENDS Contraction

CONSTANTS AnyEdge, NoEntry, Requests

\* Requests are between nodes: the points have been snapped.
ASSUME RequestsAssumption ==
    \A r \in Requests : r.from \in r.graph.nodes /\ r.to \in r.graph.nodes

VARIABLES query, pc, tree, heap, curr, pending, finished, best, result

Q == INSTANCE CHQuery
W == INSTANCE Walks

queryVars == <<query, pc, tree, heap, curr, pending, finished, best, result>>
vars == <<contractionVars, queryVars>>

RoutingInit == Init /\ Q!Init

RoutingNext ==
    \/ Next /\ UNCHANGED queryVars
    \/ phase = "done" /\ Q!Next /\ UNCHANGED contractionVars

Spec == RoutingInit /\ [][RoutingNext]_vars

-----------------------------------------------------------------------------

PrepareEdges == 1 .. (GetEdges + Len(prepareShortcuts))

\* Disconnect and the prepends keep the lists of both ends in step: a prepare
\* edge is listed once where it leaves and once where it arrives, and none is
\* listed at a contracted node.
ListsAgree ==
    \A n \in Nodes :
        /\ IsInjective(out[n]) /\ IsInjective(in[n])
        /\ \A id \in ToSet(out[n]) : id \in ToSet(in[AdjacentNode(id, n)])
        /\ \A id \in ToSet(in[n]) : id \in ToSet(out[AdjacentNode(id, n)])
        /\ n \notin Remaining \cup {node} => out[n] = << >> /\ in[n] = << >>

BaseDistances ==
    D!Distances(Nodes,
        UNION {{<<e.a, e.b, e.fwd>>, <<e.b, e.a, e.bwd>>} : e \in ToSet(graph.edges)})

\* Between two contractions the remaining nodes are exactly as far apart as on
\* the base graph, whatever the order and wherever the witness search gave up.
DistancesPreserved ==
    phase = "poll" =>
        \A p \in Remaining \X Remaining :
            D!Distances(Nodes, Arcs(-1))[p] = BaseDistances[p]

\* insertShortcuts and FinishContraction look up only prepare edges that have
\* been stored (a lookup of another one panics or yields edge 0), and
\* checkNewShortcut accepts every shortcut.
ShortcutsCanBeStored ==
    /\ phase = "contract" /\ todo = << >> =>
        \A id \in {x \in ToSet(out[node]) \cup ToSet(in[node]) : IsShortcut(x)} :
            /\ CheckNewShortcut(node, AdjacentNode(id, node))
            /\ \A skipped \in {Shortcut(id).skip1, Shortcut(id).skip2} :
                  IsShortcut(skipped) => skipped \in DOMAIN shortcutFor
    /\ phase = "poll" =>
        \A s \in ToSet(shortcuts) : \A skipped \in {s.skip1, s.skip2} :
            IsShortcut(skipped) => skipped \in DOMAIN shortcutFor

\* A request on the base graph, for Walks.
BaseQuery(from, to) ==
    [edges |-> graph.edges, restricted |-> {}, uTurn |-> 0,
     start |-> [s \in Q!Sides |-> IF s = "from" THEN from ELSE to],
     only |-> [s \in Q!Sides |-> AnyEdge]]

\* In each direction a stored shortcut may be used in, it unpacks to a walk of
\* base edges that weighs what the shortcut says.
ShortcutsUnpack ==
    phase = "done" /\ pc[1] = "idle" =>
        \A i \in DOMAIN shortcuts :
            LET s == shortcuts[i]
                towards(n) == Unpack(GetEdges + i, n)
            IN  s.weight # Inf =>
                  /\ s.fwd => W!IsWalk(BaseQuery(s.a, s.b), Reverse(towards(s.b)), s.weight)
                  /\ s.bwd => W!IsWalk(BaseQuery(s.b, s.a), Reverse(towards(s.a)), s.weight)

\* A finished search reports the distance on the base graph and a walk of that
\* weight over base edges, or that there is none.
ShortestPathFound ==
    pc[1] = "done" =>
        LET from == query.start["from"]  to == query.start["to"]
        IN  /\ result.weight = BaseDistances[<<from, to>>]
            /\ result.weight # Inf => W!IsWalk(BaseQuery(from, to), result.edges, result.weight)
=============================================================================
