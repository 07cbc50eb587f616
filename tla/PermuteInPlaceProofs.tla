------------------------ MODULE PermuteInPlaceProofs ------------------------
(***************************************************************************)
(* The in-place permutation loop is correct for arrays of every size,      *)
(* every permutation and every way of rewriting a moved record.            *)
(***************************************************************************)
EXTENDS PermuteInPlace, TLAPS

\* While a cycle is being followed, the carried record is the one that was in
\* the current slot at the beginning, and it has not been placed yet.
CarryIsCurrent == pc = "move" => carry = initial[curr] /\ curr \notin visited

\* Visited slots form complete cycles, but for the path now being followed.
CyclesComplete ==
    /\ \A v \in visited : \/ perm[v] \in visited
                          \/ pc = "move" /\ perm[v] = curr
    /\ \A v \in visited : \/ \E u \in visited : perm[u] = v
                          \/ pc = "move" /\ v = start
    /\ pc = "move" => \/ curr = start
                      \/ start \in visited /\ \E u \in visited : perm[u] = curr
    /\ \A i \in Slots : i < start => i \in visited
    /\ pc = "move" => start \in Slots
    /\ pc = "done" => start = Size

\* The inductive invariant.  NothingOverwritten alone does not survive Move: the
\* slot the carried record goes to must be untouched, which holds because the
\* visited slots are complete cycles and the permutation is one-to-one.
IndInv == TypeOK /\ NothingOverwritten /\ CarryIsCurrent /\ CyclesComplete

-----------------------------------------------------------------------------

\* A permutation of the slots is one-to-one and reaches every slot.
LEMMA PermFacts ==
    ASSUME NEW p \in Bijection(Slots, Slots)
    PROVE  /\ p \in [Slots -> Slots]
           /\ \A i, j \in Slots : p[i] = p[j] => i = j
           /\ \A j \in Slots : \E i \in Slots : p[i] = j
  BY DEF Bijection, Injection, Surjection, IsInjective

\* Before the loop starts nothing has been moved.
LEMMA InitEstablishesIndInv == Init => IndInv
<1> SUFFICES ASSUME Init PROVE IndInv
  OBVIOUS
<1>1. start \in 0 .. Size /\ \A i \in Slots : ~(i < start)
  BY SizeAssumption DEF Init, Slots
<1>2. TypeOK /\ NothingOverwritten /\ CarryIsCurrent
  BY <1>1 DEF Init, TypeOK, NothingOverwritten, CarryIsCurrent
<1>3. CyclesComplete
  BY <1>1 DEF Init, CyclesComplete
<1> QED
  BY <1>2, <1>3 DEF IndInv

\* Passing over a visited slot changes nothing but the outer index.
LEMMA SkipPreservesIndInv == IndInv /\ Skip => IndInv'
<1> SUFFICES ASSUME IndInv, Skip PROVE IndInv'
  OBVIOUS
<1>1. start \in Slots
  BY SizeAssumption DEF IndInv, TypeOK, Skip, Slots
<1>2. TypeOK'
  BY SizeAssumption DEF IndInv, TypeOK, Skip, args
<1>3. NothingOverwritten' /\ CarryIsCurrent'
  BY DEF IndInv, NothingOverwritten, CarryIsCurrent, Skip, args
<1>4. \A i \in Slots : i < start' => i \in visited'
  <2>1. \A i \in Slots : i < start + 1 => i < start \/ i = start
    BY <1>1 DEF Slots
  <2> QED
    BY <2>1 DEF IndInv, CyclesComplete, Skip
<1>5. CyclesComplete'
  BY <1>4 DEF IndInv, CyclesComplete, Skip, args
<1> QED
  BY <1>2, <1>3, <1>5 DEF IndInv

\* Entering a cycle: the slot at its start is untouched, or its predecessor
\* would have been visited and, cycles being complete, the slot itself too.
LEMMA EnterCyclePreservesIndInv == IndInv /\ EnterCycle => IndInv'
<1> SUFFICES ASSUME IndInv, EnterCycle PROVE IndInv'
  OBVIOUS
<1>1. start \in Slots
  BY SizeAssumption DEF IndInv, TypeOK, EnterCycle, Slots
<1>2. slots[start] = initial[start]
  <2>1. PICK j \in Slots : perm[j] = start
    BY <1>1, PermFacts DEF IndInv, TypeOK
  <2>2. j \notin visited
    BY <2>1 DEF IndInv, CyclesComplete, EnterCycle
  <2> QED
    BY <2>1, <2>2 DEF IndInv, NothingOverwritten
<1>3. TypeOK'
  BY <1>1 DEF IndInv, TypeOK, EnterCycle, args
<1>4. NothingOverwritten' /\ CarryIsCurrent'
  BY <1>2 DEF IndInv, NothingOverwritten, CarryIsCurrent, EnterCycle, args
<1>5. CyclesComplete'
  BY <1>1 DEF IndInv, CyclesComplete, EnterCycle, args
<1> QED
  BY <1>3, <1>4, <1>5 DEF IndInv

\* One iteration of the inner loop.
LEMMA MovePreservesIndInv == IndInv /\ Move => IndInv'
<1> SUFFICES ASSUME IndInv, Move PROVE IndInv'
  OBVIOUS
<1> DEFINE dest == perm[curr]
<1>0. /\ perm \in [Slots -> Slots]
      /\ \A i, j \in Slots : perm[i] = perm[j] => i = j
      /\ initial \in [Slots -> Records] /\ slots \in [Slots -> Records]
      /\ visited \subseteq Slots
      /\ curr \in Slots /\ carry \in Records /\ start \in Slots
      /\ dest \in Slots /\ curr \notin visited
      /\ Store(perm, carry) \in Records
  BY PermFacts, StoreAssumption
     DEF IndInv, TypeOK, CarryIsCurrent, CyclesComplete, Move
<1>1. /\ perm' = perm /\ initial' = initial
      /\ visited' = visited \cup {curr} /\ curr' = dest /\ carry' = slots[dest]
      /\ slots' = [slots EXCEPT ![dest] = Store(perm, carry)]
      /\ pc = "move"
  BY DEF Move, args
<1>2. \/ dest = start /\ pc' = "scan" /\ start' = start + 1
      \/ dest # start /\ pc' = "move" /\ start' = start
  BY DEF Move
<1>3. slots[dest] = initial[dest]
  BY <1>0 DEF IndInv, NothingOverwritten
<1>4. TypeOK'
  <2>1. start' \in 0 .. Size
    BY <1>0, <1>2, SizeAssumption DEF Slots
  <2>2. perm' \in Bijection(Slots, Slots) /\ initial' \in [Slots -> Records]
    BY <1>1 DEF IndInv, TypeOK
  <2>3. slots' \in [Slots -> Records]
    BY <1>0, <1>1
  <2>4. visited' \subseteq Slots
    BY <1>0, <1>1
  <2>5. curr' \in Slots /\ carry' \in Records
    BY <1>0, <1>1
  <2> QED
    BY <1>2, <2>1, <2>2, <2>3, <2>4, <2>5 DEF TypeOK
<1>5. NothingOverwritten'
  <2> SUFFICES ASSUME NEW i \in Slots
               PROVE  IF i \in visited' THEN slots'[perm[i]] = Store(perm, initial[i])
                                        ELSE slots'[perm[i]] = initial[perm[i]]
    BY <1>1 DEF NothingOverwritten
  <2>1. CASE i = curr
    BY <1>0, <1>1, <2>1 DEF IndInv, CarryIsCurrent
  <2>2. CASE i # curr
    <3>1. perm[i] # dest /\ perm[i] \in Slots
      BY <1>0, <2>2
    <3>2. slots'[perm[i]] = slots[perm[i]]
      BY <1>0, <1>1, <3>1
    <3> QED
      BY <1>1, <2>2, <3>2 DEF IndInv, NothingOverwritten
  <2> QED
    BY <2>1, <2>2
<1>6. CarryIsCurrent'
  <2> SUFFICES ASSUME pc' = "move" PROVE carry' = initial[dest] /\ dest \notin visited'
    BY <1>1 DEF CarryIsCurrent
  <2>1. dest # start
    BY <1>2
  <2>2. dest # curr
    BY <1>0, <2>1 DEF IndInv, CyclesComplete, Move
  <2>3. dest \notin visited
    BY <1>0, <2>1 DEF IndInv, CyclesComplete
  <2> QED
    BY <1>1, <1>3, <2>2, <2>3
<1>7. CyclesComplete'
  <2>1. start \in visited'
    BY <1>1 DEF IndInv, CyclesComplete, Move
  <2>2. \A v \in visited' : perm[v] \in visited' \/ perm[v] = dest
    BY <1>1 DEF IndInv, CyclesComplete
  <2>3. \A v \in visited' : (\E u \in visited' : perm[u] = v) \/ v = start
    BY <1>1 DEF IndInv, CyclesComplete
  <2>4. \A i \in Slots : i < start => i \in visited'
    BY <1>1 DEF IndInv, CyclesComplete
  <2>5. curr \in visited' /\ perm[curr] = dest
    BY <1>1
  <2> HIDE DEF dest
  <2>6. CASE dest = start /\ pc' = "scan" /\ start' = start + 1
    <3>1. \A i \in Slots : i < start + 1 => i < start \/ i = start
      BY <1>0 DEF Slots
    <3>2. /\ \A v \in visited' : perm[v] \in visited'
          /\ \A v \in visited' : \E u \in visited' : perm[u] = v
          /\ \A i \in Slots : i < start' => i \in visited'
      BY <2>1, <2>2, <2>3, <2>4, <2>5, <2>6, <3>1
    <3> QED
      BY <1>1, <2>6, <3>2 DEF CyclesComplete
  <2>7. CASE dest # start /\ pc' = "move" /\ start' = start
    BY <1>0, <1>1, <2>1, <2>2, <2>3, <2>4, <2>5, <2>7 DEF CyclesComplete
  <2> QED
    BY <1>2, <2>6, <2>7 DEF dest
<1> QED
  BY <1>4, <1>5, <1>6, <1>7 DEF IndInv

\* Every step of the loop keeps the inductive invariant.
LEMMA NextPreservesIndInv == IndInv /\ [Next]_vars => IndInv'
<1> SUFFICES ASSUME IndInv, [Next]_vars PROVE IndInv'
  OBVIOUS
<1>1. CASE Finish
  BY <1>1 DEF IndInv, TypeOK, NothingOverwritten, CarryIsCurrent, CyclesComplete,
              Finish, args
<1>2. CASE UNCHANGED vars
  BY <1>2 DEF IndInv, TypeOK, NothingOverwritten, CarryIsCurrent, CyclesComplete,
              vars
<1> QED
  BY <1>1, <1>2, SkipPreservesIndInv, EnterCyclePreservesIndInv,
     MovePreservesIndInv DEF Next

\* The inductive invariant holds throughout the loop of SortEdges/RelabelNodes.
THEOREM Invariance == Spec => []IndInv
  BY InitEstablishesIndInv, NextPreservesIndInv, PTL DEF Spec

\* At every iteration the moved records are in place and all others untouched
\* (the body of the loop in SortEdges and RelabelNodes).
THEOREM NeverOverwrites == Spec => []NothingOverwritten
  BY Invariance, PTL DEF IndInv

\* When the loop of SortEdges or RelabelNodes ends, the array is permuted.
THEOREM Permutes == Spec => []PermutedWhenDone
<1>1. IndInv => PermutedWhenDone
  <2> SUFFICES ASSUME IndInv, pc = "done", NEW i \in Slots
               PROVE  slots[perm[i]] = Store(perm, initial[i])
    BY DEF PermutedWhenDone
  <2>1. i < start
    BY SizeAssumption DEF IndInv, CyclesComplete, Slots
  <2> QED
    BY <2>1 DEF IndInv, CyclesComplete, NothingOverwritten
<1> QED
  BY <1>1, Invariance, PTL
=============================================================================
