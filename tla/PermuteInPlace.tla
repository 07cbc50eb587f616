--------------------------- MODULE PermuteInPlace ---------------------------
(***************************************************************************)
(* The loop by which SortEdges and RelabelNodes                            *)
(* (core/storage/base_graph_nodes_and_edges.go) move the records of an     *)
(* array to new places without a second array: follow each cycle of the    *)
(* permutation, carrying the record that was just displaced.  Both         *)
(* functions run the same loop; they differ in what is written at the new  *)
(* place (storeEdge also rewrites the record's links, storeNode does not), *)
(* which is the parameter Store.  One step is one iteration.               *)
(***************************************************************************)
EXTENDS Integers, Functions

CONSTANTS Size,         \* number of records
          Records,      \* what a slot may hold
          Store(_, _)   \* Store(p, r): what is written when r moves under p

ASSUME SizeAssumption == Size \in Nat
Slots == 0 .. (Size - 1)
ASSUME StoreAssumption ==
    \A p \in Bijection(Slots, Slots), r \in Records : Store(p, r) \in Records

VARIABLES perm, initial,  \* the arguments: the mapping and the array before
          slots,          \* the array
          visited,        \* slots whose record has been moved
          start,          \* the outer loop's index
          curr, carry,    \* the slot being emptied and the record taken from it
          pc              \* "scan" the outer loop, "move" the inner, "done"

args == <<perm, initial>>
vars == <<perm, initial, slots, visited, start, curr, carry, pc>>

\* Mutation: the outer loop starts at the second slot.
InitAtOne ==
    /\ perm \in Bijection(Slots, Slots)
    /\ initial \in [Slots -> Records]
    /\ slots = initial
    /\ visited = {}
    /\ start = 1 /\ curr = 0 /\ carry = 0
    /\ pc = "scan"

Init ==
    /\ perm \in Bijection(Slots, Slots)
    /\ initial \in [Slots -> Records]
    /\ slots = initial
    /\ visited = {}
    /\ start = 0
    /\ curr = 0
    /\ carry = 0
    /\ pc = "scan"

\* Mutation: the outer loop's increment is lost.
SkipNothing ==
    /\ pc = "scan" /\ start < Size
    /\ start \in visited
    /\ UNCHANGED vars

\* The outer loop passes over a slot whose record has been moved already.
Skip ==
    /\ pc = "scan" /\ start < Size
    /\ start \in visited
    /\ start' = start + 1
    /\ UNCHANGED <<args, slots, visited, curr, carry, pc>>

\* The outer loop enters a new cycle.
EnterCycle ==
    /\ pc = "scan" /\ start < Size
    /\ start \notin visited
    /\ curr' = start
    /\ carry' = slots[start]
    /\ pc' = "move"
    /\ UNCHANGED <<args, slots, visited, start>>

\* Mutation: the displaced record is overwritten before it is picked up.
MoveWithoutPickup ==
    /\ pc = "move"
    /\ visited' = visited \cup {curr}
    /\ LET dest == perm[curr]
       IN  /\ slots' = [slots EXCEPT ![dest] = Store(perm, carry)]
           /\ carry' = slots'[dest]
           /\ curr' = dest
           /\ IF dest = start THEN pc' = "scan" /\ start' = start + 1
                              ELSE pc' = "move" /\ start' = start
    /\ UNCHANGED args

\* The inner loop puts the carried record into its new slot and picks up the
\* record it displaces, until it is back where the cycle began.
Move ==
    /\ pc = "move"
    /\ visited' = visited \cup {curr}
    /\ LET dest == perm[curr]
       IN  /\ carry' = slots[dest]
           /\ slots' = [slots EXCEPT ![dest] = Store(perm, carry)]
           /\ curr' = dest
           /\ IF dest = start THEN pc' = "scan" /\ start' = start + 1
                              ELSE pc' = "move" /\ start' = start
    /\ UNCHANGED args

Finish ==
    /\ pc = "scan" /\ start = Size
    /\ pc' = "done"
    /\ UNCHANGED <<args, slots, visited, start, curr, carry>>

Next == Skip \/ EnterCycle \/ Move \/ Finish

\* The loop is a single thread that nothing suspends.
Spec == Init /\ [][Next]_vars /\ WF_vars(Next)

-----------------------------------------------------------------------------

TypeOK ==
    /\ perm \in Bijection(Slots, Slots)
    /\ initial \in [Slots -> Records]
    /\ slots \in [Slots -> Records]
    /\ visited \subseteq Slots
    /\ start \in 0 .. Size
    /\ pc = "move" => curr \in Slots /\ carry \in Records
    /\ pc \in {"scan", "move", "done"}

\* A moved record is in its new slot and every other slot is still untouched;
\* in particular no record is overwritten before it has been picked up.
NothingOverwritten ==
    \A i \in Slots :
        IF i \in visited THEN slots[perm[i]] = Store(perm, initial[i])
                         ELSE slots[perm[i]] = initial[perm[i]]

\* When the loop ends, every record is where the permutation sends it.
PermutedWhenDone ==
    pc = "done" => \A i \in Slots : slots[perm[i]] = Store(perm, initial[i])

\* Every permutation is carried out in finitely many iterations: the inner loop
\* always comes back to the slot it started from.
Terminates == <>(pc = "done")
=============================================================================
