-------------------------- MODULE TurnCostStorage --------------------------
(***************************************************************************)
(* Turn costs (core/storage/turn_cost_storage.go): one array of entries,   *)
(* in which the entries of each via node form a singly linked list.  The   *)
(* head of a node's list is kept in the node's record.                     *)
(***************************************************************************)
EXTENDS Integers, Sequences, FiniteSets, SequencesExt

CONSTANTS Costs,           \* encoded flags of an entry; 0 is "no cost"
          MaxTurnCosts     \* bound on the entries the importer creates

VARIABLES tcRef,   \* head of each node's list (a field of the node record)
          tcCount, \* number of entries in use
          entries  \* the entry array

NoTurnEntry == -1

Indices == 0 .. (tcCount - 1)

Init ==
    /\ tcRef = [n \in {} |-> NoTurnEntry]
    /\ tcCount = 0
    /\ entries = [i \in {} |-> [from |-> 0, to |-> 0, flags |-> 0, next |-> NoTurnEntry]]

\* A node that springs into being has no turn costs.
EnsureNodeCapacity(newCount) ==
    /\ tcRef' = [n \in 0 .. (newCount - 1) |->
                    IF n \in DOMAIN tcRef THEN tcRef[n] ELSE NoTurnEntry]
    /\ UNCHANGED <<tcCount, entries>>

\* The k-th entry met from an index on by following next.
Follow(first) ==
    LET ref[k \in 0 .. tcCount] ==
            IF k = 0 THEN first
            ELSE IF ref[k - 1] = NoTurnEntry THEN NoTurnEntry ELSE entries[ref[k - 1]].next
    IN  ref

\* The indices of a list's entries, in list order.
ListFrom(first) ==
    LET ref == Follow(first)
        len == CHOOSE k \in 0 .. tcCount :
                   /\ ref[k] = NoTurnEntry
                   /\ \A j \in 0 .. (k - 1) : ref[j] # NoTurnEntry
    IN  [i \in 1 .. len |-> ref[i - 1]]

\* Mutation: the outgoing edge is not compared.
MatchesFrom(from, via, to) ==
    LET list == ListFrom(tcRef[via])
    IN  {k \in DOMAIN list : entries[list[k]].from = from}

\* The places in via's list of entries about the turn from -> to.
Matches(from, via, to) ==
    LET list == ListFrom(tcRef[via])
    IN  {k \in DOMAIN list : entries[list[k]].from = from /\ entries[list[k]].to = to}

\* The first entry for a turn.
FindEntry(from, via, to) ==
    LET found == Matches(from, via, to)
    IN  IF found = {} THEN NoTurnEntry ELSE ListFrom(tcRef[via])[Min(found)]

\* SetDecimal / SetBool: the first entry for the turn gets the value; when
\* there is none (FindOrCreateEntry) a new entry is appended to via's list.
SetDecimal(from, via, to, cost) ==
    LET list == ListFrom(tcRef[via])
        found == FindEntry(from, via, to)
        new == [from |-> from, to |-> to, flags |-> cost, next |-> NoTurnEntry]
    IN  IF found # NoTurnEntry
        THEN /\ entries' = [entries EXCEPT ![found].flags = cost]
             /\ UNCHANGED <<tcRef, tcCount>>
        ELSE /\ tcCount < MaxTurnCosts
             /\ tcCount' = tcCount + 1
             /\ IF list = << >>
                THEN /\ tcRef' = [tcRef EXCEPT ![via] = tcCount]
                     /\ entries' = [i \in 0 .. tcCount |->
                                      IF i = tcCount THEN new ELSE entries[i]]
                ELSE /\ tcRef' = tcRef
                     /\ entries' = [i \in 0 .. tcCount |->
                           IF i = tcCount THEN new
                           ELSE IF i = Last(list)
                                THEN [entries[i] EXCEPT !.next = tcCount]
                                ELSE entries[i]]

\* GetDecimal / GetBool: the value of the first entry for the turn, else 0.
GetDecimal(from, via, to) ==
    LET found == FindEntry(from, via, to)
    IN  IF found = NoTurnEntry THEN 0 ELSE entries[found].flags

\* Mutation: only the incoming edge follows the renumbering.
SortEdgesFrom(newEdge) ==
    /\ entries' = [i \in Indices |-> [entries[i] EXCEPT !.from = newEdge[entries[i].from]]]
    /\ UNCHANGED <<tcRef, tcCount>>

\* SortEdges: the edges of every entry follow the renumbering of the edges.
SortEdges(newEdge) ==
    /\ entries' = [i \in Indices |->
                     [entries[i] EXCEPT !.from = newEdge[entries[i].from],
                                        !.to = newEdge[entries[i].to]]]
    /\ UNCHANGED <<tcRef, tcCount>>

\* The pairs of S that come before p: by the first component, then the second.
Before(p, S) == {q \in S : q[1] < p[1] \/ (q[1] = p[1] /\ q[2] < p[2])}

\* Where p stands among the pairs of S.
Place(p, S) == Cardinality(Before(p, S))

\* The entries in the order of the nodes, as pairs of a node and a place in its list.
Listed(ref) == {p \in (DOMAIN ref) \X (1 .. tcCount) : p[2] \in DOMAIN ListFrom(ref[p[1]])}

\* SortNodes: rewrite the array list by list, in node order, so that each list
\* becomes contiguous.  ref holds the list heads after the nodes were
\* relabelled.  The code panics when the count is not the same afterwards.
SortNodes(ref) ==
    LET listed == Listed(ref)
        at(i) == CHOOSE p \in listed : Place(p, listed) = i
        moved(i) == entries[ListFrom(ref[at(i)[1]])[at(i)[2]]]
    IN  /\ Cardinality(listed) = tcCount
        /\ entries' = [i \in Indices |->
              [moved(i) EXCEPT !.next = IF @ = NoTurnEntry THEN NoTurnEntry ELSE i + 1]]
        /\ tcRef' = [n \in DOMAIN ref |->
              IF ListFrom(ref[n]) = << >> THEN ref[n] ELSE Place(<<n, 1>>, listed)]
        /\ UNCHANGED tcCount
=============================================================================
