----------------------------- MODULE Multigraph -----------------------------
(***************************************************************************)
(* What the graph store promises its users: an undirected multigraph that  *)
(* only grows.  Nodes and edges are named by the order of their creation;  *)
(* there is no storage order and so nothing to sort.                       *)
(***************************************************************************)
EXTENDS Integers, Sequences, FiniteSets

CONSTANTS MaxNodes, MaxEdgeCount, Positions

VARIABLES pos,     \* the coordinates of each node
          ends,    \* the two end nodes of each edge
          around,  \* for each node, its edges in the order an explorer yields
          closed   \* no more edges

vars == <<pos, ends, around, closed>>

\* Extend a function on 0 .. n-1 to the larger domain S with a default.
Extend(f, S, default) == [x \in S |-> IF x \in DOMAIN f THEN f[x] ELSE default]

Init ==
    /\ pos = [t \in {} |-> 0]
    /\ ends = [t \in {} |-> <<0, 0>>]
    /\ around = [t \in {} |-> << >>]
    /\ closed = FALSE

\* A first use of node v creates it and all the nodes before it.
WithNode(v) == DOMAIN pos \cup 0 .. v

AddNodes(v) ==
    /\ pos' = Extend(pos, WithNode(v), 0)
    /\ around' = Extend(around, WithNode(v), << >>)
    /\ UNCHANGED <<ends, closed>>

\* Coordinates may be given to a node at its creation or later.
Place(v, p) ==
    /\ pos' = [Extend(pos, WithNode(v), 0) EXCEPT ![v] = p]
    /\ around' = Extend(around, WithNode(v), << >>)
    /\ UNCHANGED <<ends, closed>>

\* The name of the next edge.
NextEdge == Cardinality(DOMAIN ends)

\* A new edge between two nodes comes first at both of them.
Connect(u, v) ==
    /\ ~closed
    /\ u # v
    /\ NextEdge < MaxEdgeCount
    /\ ends' = Extend(ends, 0 .. NextEdge, <<u, v>>)
    /\ pos' = Extend(pos, WithNode(u) \cup WithNode(v), 0)
    /\ LET grown == Extend(around, WithNode(u) \cup WithNode(v), << >>)
       IN  around' = [t \in DOMAIN grown |->
                 IF t \in {u, v} THEN <<NextEdge>> \o grown[t] ELSE grown[t]]
    /\ UNCHANGED closed

Close == closed' = TRUE /\ UNCHANGED <<pos, ends, around>>

NodeNames == 0 .. (MaxNodes - 1)

Next ==
    \/ \E v \in NodeNames : AddNodes(v)
    \/ \E v \in NodeNames, p \in Positions : Place(v, p)
    \/ \E u, v \in NodeNames : Connect(u, v)
    \/ Close

Spec == Init /\ [][Next]_vars
=============================================================================
