-------------------------- MODULE CHRoutingProofs --------------------------
(***************************************************************************)
(* The preparation of a contraction hierarchy, for any network and any     *)
(* order of the nodes: what stays true of the prepare graph, of the        *)
(* distances on it and of the shortcuts that are stored.                   *)
(***************************************************************************)
EXTENDS CHRouting, Induction, FiniteSetTheorems

-----------------------------------------------------------------------------

\* Arcs of a graph: a tail, a head and a positive or infinite weight.
IsArcs(arcs, N) == arcs \subseteq N \X N \X ((Nat \ {0}) \cup {Inf})

\* C holds the start with weight 0 and is closed under walking on.
IsClosed(C, arcs, s) ==
    /\ <<s, 0>> \in C
    /\ \A x \in C, arc \in arcs :
          arc[1] = x[1] /\ arc[3] # Inf => <<arc[2], x[2] + arc[3]>> \in C

\* The ends and weights of all walks that start at s.
Walked(N, arcs, s) ==
    {x \in N \X Nat : \A C \in SUBSET (N \X Nat) : IsClosed(C, arcs, s) => x \in C}

\* The least of a set of weights is one of them and no other is less.
LEMMA LeastFacts ==
    ASSUME NEW S, S \subseteq Weights, Inf \notin Int
    PROVE  /\ D!Least(S) \in Weights
           /\ D!Least(S) # Inf => D!Least(S) \in S
           /\ \A v \in S : v # Inf => D!Least(S) # Inf /\ D!Least(S) <= v
<1>1. CASE S \subseteq {Inf}
  BY <1>1 DEF D!Least, Weights
<1>2. CASE ~ (S \subseteq {Inf})
  <2>1. S \ {Inf} \subseteq Nat /\ S \ {Inf} # {}
    BY <1>2 DEF Weights
  <2>2. \E w \in S \ {Inf} : \A v \in S \ {Inf} : w <= v
    BY <2>1, LeastNatural
  <2>3. D!Least(S) = CHOOSE w \in S \ {Inf} : \A v \in S \ {Inf} : w <= v
    BY <1>2 DEF D!Least
  <2>4. D!Least(S) \in S \ {Inf} /\ \A v \in S \ {Inf} : D!Least(S) <= v
    BY <2>2, <2>3
  <2> QED
    BY <2>1, <2>4 DEF Weights
<1> QED
  BY <1>1, <1>2

\* Walks can be continued.
LEMMA WalkedClosed ==
    ASSUME NEW N, NEW arcs, IsArcs(arcs, N), NEW s \in N
    PROVE  IsClosed(Walked(N, arcs, s), arcs, s)
<1>1. <<s, 0>> \in Walked(N, arcs, s)
  BY DEF Walked, IsClosed
<1>2. ASSUME NEW x \in Walked(N, arcs, s), NEW arc \in arcs, arc[1] = x[1], arc[3] # Inf
      PROVE  <<arc[2], x[2] + arc[3]>> \in Walked(N, arcs, s)
  <2>1. x \in N \X Nat /\ arc[2] \in N /\ arc[3] \in Nat
    BY <1>2 DEF Walked, IsArcs
  <2>2. <<arc[2], x[2] + arc[3]>> \in N \X Nat
    BY <2>1
  <2>3. ASSUME NEW C \in SUBSET (N \X Nat), IsClosed(C, arcs, s)
        PROVE  <<arc[2], x[2] + arc[3]>> \in C
    BY <1>2, <2>3 DEF Walked, IsClosed
  <2> QED
    BY <2>2, <2>3 DEF Walked
<1> QED
  BY <1>1, <1>2 DEF IsClosed

\* Induction along walks.
LEMMA WalkedInduction ==
    ASSUME NEW N, NEW arcs, IsArcs(arcs, N), NEW s \in N, NEW C,
           <<s, 0>> \in C,
           \A x \in Walked(N, arcs, s) \cap C, arc \in arcs :
              arc[1] = x[1] /\ arc[3] # Inf => <<arc[2], x[2] + arc[3]>> \in C
    PROVE  Walked(N, arcs, s) \subseteq C
<1> DEFINE B == Walked(N, arcs, s) \cap C
<1>1. IsClosed(Walked(N, arcs, s), arcs, s)
  BY WalkedClosed
<1>2. IsClosed(B, arcs, s)
  BY <1>1 DEF IsClosed
<1>3. B \in SUBSET (N \X Nat)
  BY DEF Walked
<1> HIDE DEF B
<1>4. Walked(N, arcs, s) \subseteq B
  BY <1>2, <1>3 DEF Walked
<1> QED
  BY <1>4 DEF B

\* A walk is empty or has a last arc.
LEMMA WalkedLast ==
    ASSUME NEW N, NEW arcs, IsArcs(arcs, N), NEW s \in N, NEW x \in Walked(N, arcs, s),
           x # <<s, 0>>
    PROVE  \E y \in Walked(N, arcs, s), arc \in arcs :
              arc[1] = y[1] /\ arc[3] # Inf /\ x = <<arc[2], y[2] + arc[3]>>
<1> DEFINE C == {z \in Walked(N, arcs, s) :
                    \/ z = <<s, 0>>
                    \/ \E y \in Walked(N, arcs, s), arc \in arcs :
                          arc[1] = y[1] /\ arc[3] # Inf /\ z = <<arc[2], y[2] + arc[3]>>}
<1>1. IsClosed(Walked(N, arcs, s), arcs, s)
  BY WalkedClosed
<1>2. <<s, 0>> \in C
  BY <1>1 DEF IsClosed
<1>3. ASSUME NEW z \in Walked(N, arcs, s) \cap C, NEW arc \in arcs,
             arc[1] = z[1], arc[3] # Inf
      PROVE  <<arc[2], z[2] + arc[3]>> \in C
  BY <1>1, <1>3 DEF IsClosed
<1> HIDE DEF C
<1>4. Walked(N, arcs, s) \subseteq C
  BY <1>2, <1>3, WalkedInduction
<1> QED
  BY <1>4 DEF C

\* A walk from s to u and one from u on make a walk from s.
LEMMA WalkedOn ==
    ASSUME NEW N, NEW arcs, IsArcs(arcs, N), NEW s \in N, NEW u \in N,
           NEW v \in Nat, <<u, v>> \in Walked(N, arcs, s),
           NEW m, NEW w, <<m, w>> \in Walked(N, arcs, u)
    PROVE  <<m, v + w>> \in Walked(N, arcs, s)
<1> DEFINE C == {z \in N \X Nat : <<z[1], v + z[2]>> \in Walked(N, arcs, s)}
<1>1. <<u, 0>> \in C
  BY DEF Walked
<1>2. ASSUME NEW z \in Walked(N, arcs, u) \cap C, NEW arc \in arcs,
             arc[1] = z[1], arc[3] # Inf
      PROVE  <<arc[2], z[2] + arc[3]>> \in C
  <2>1. z \in N \X Nat /\ arc[2] \in N /\ arc[3] \in Nat
    BY <1>2 DEF IsArcs, Walked
  <2>2. IsClosed(Walked(N, arcs, s), arcs, s) /\ <<z[1], v + z[2]>> \in Walked(N, arcs, s)
    BY WalkedClosed
  <2>3. <<arc[2], (v + z[2]) + arc[3]>> \in Walked(N, arcs, s)
    BY <1>2, <2>2 DEF IsClosed
  <2>4. (v + z[2]) + arc[3] = v + (z[2] + arc[3]) /\ z[2] + arc[3] \in Nat
    BY <2>1
  <2> QED
    BY <2>1, <2>3, <2>4
<1> HIDE DEF C
<1>3. Walked(N, arcs, u) \subseteq C
  BY <1>1, <1>2, WalkedInduction
<1> QED
  BY <1>3 DEF C

\* One arc is a walk.
LEMMA ArcWalked ==
    ASSUME NEW N, NEW arcs, IsArcs(arcs, N), NEW arc \in arcs, arc[3] # Inf
    PROVE  <<arc[2], arc[3]>> \in Walked(N, arcs, arc[1])
<1>1. arc[1] \in N /\ arc[2] \in N /\ arc[3] \in Nat
  BY DEF IsArcs
<1>2. IsClosed(Walked(N, arcs, arc[1]), arcs, arc[1])
  BY <1>1, WalkedClosed
<1>3. <<arc[2], 0 + arc[3]>> \in Walked(N, arcs, arc[1])
  BY <1>2 DEF IsClosed
<1> QED
  BY <1>1, <1>3

-----------------------------------------------------------------------------

\* Distances counts as FiniteSets does.
LEMMA SameCardinality == \A S : D!Cardinality(S) = Cardinality(S)
  BY DEF D!Cardinality, Cardinality

NoWalk(p) == IF p[1] = p[2] THEN 0 ELSE Inf

\* The weights at the end of p after another round, when g holds those before.
Offers(g, arcs, p) ==
    {g[p]} \cup {D!Add(g[<<p[1], arc[1]>>], arc[3]) : arc \in {x \in arcs : x[2] = p[2]}}

IsRounds(g, N, arcs, n) ==
    /\ g[0] = [p \in N \X N |-> NoWalk(p)]
    /\ \A k \in 1 .. n : g[k] = [p \in N \X N |-> D!Least(Offers(g[k - 1], arcs, p))]

\* What a round offers is a weight.
LEMMA OffersAreWeights ==
    ASSUME NEW N, NEW arcs, IsArcs(arcs, N), NEW g \in [N \X N -> Weights], NEW p \in N \X N,
           Inf \notin Int
    PROVE  Offers(g, arcs, p) \subseteq Weights
<1>1. ASSUME NEW arc \in arcs
      PROVE  D!Add(g[<<p[1], arc[1]>>], arc[3]) \in Weights
  <2>1. arc[1] \in N /\ arc[3] \in Nat \cup {Inf}
    BY DEF IsArcs
  <2>2. g[<<p[1], arc[1]>>] \in Nat \cup {Inf}
    BY <2>1 DEF Weights
  <2> QED
    BY <2>1, <2>2 DEF D!Add, Weights
<1> QED
  BY <1>1 DEF Offers

\* Distances is the last of its rounds.
LEMMA DistancesAreRounds ==
    ASSUME NEW N, IsFiniteSet(N), N # {}, NEW arcs, IsArcs(arcs, N), Inf \notin Int
    PROVE  \E g \in [0 .. Cardinality(N) - 1 -> [N \X N -> Weights]] :
              /\ IsRounds(g, N, arcs, Cardinality(N) - 1)
              /\ D!Distances(N, arcs) = g[Cardinality(N) - 1]
<1> DEFINE n == Cardinality(N) - 1
           V == [N \X N -> Weights]
           zero == [p \in N \X N |-> NoWalk(p)]
           step == [h \in V |-> [p \in N \X N |-> D!Least(Offers(h, arcs, p))]]
           Rule(g) == g = [i \in 0 .. n |->
                             [p \in N \X N |->
                                IF i = 0 THEN (IF p[1] = p[2] THEN 0 ELSE Inf)
                                ELSE D!Least({g[i - 1][p]}
                                       \cup {D!Add(g[i - 1][<<p[1], arc[1]>>], arc[3]) :
                                                arc \in {x \in arcs : x[2] = p[2]}})]]
<1>1. n \in Nat
  <2>1. Cardinality(N) \in Nat /\ Cardinality(N) # 0
    BY FS_CardinalityType, FS_EmptySet
  <2> QED
    BY <2>1
<1>2. zero \in V
  BY DEF NoWalk, Weights
<1>3. step \in [V -> V]
  <2> SUFFICES ASSUME NEW h \in V, NEW p \in N \X N
               PROVE  D!Least(Offers(h, arcs, p)) \in Weights
    OBVIOUS
  <2>1. Offers(h, arcs, p) \subseteq Weights
    BY OffersAreWeights
  <2> QED
    BY <2>1, LeastFacts
<1> HIDE DEF V, zero, step, n
<1>4. PICK f \in [0 .. n -> V] : IsRecursion(f, n, zero, step)
  BY <1>1, <1>2, <1>3, RecursiveFunctionExists
<1> DEFINE Step(h, i) == [p \in N \X N |->
                            IF i = 0 THEN (IF p[1] = p[2] THEN 0 ELSE Inf)
                            ELSE D!Least({h[i - 1][p]}
                                   \cup {D!Add(h[i - 1][<<p[1], arc[1]>>], arc[3]) :
                                            arc \in {x \in arcs : x[2] = p[2]}})]
<1>5. ASSUME NEW h
      PROVE  Step(h, 0) = zero
  BY DEF zero, NoWalk
<1>6. ASSUME NEW h \in [0 .. n -> V], NEW k \in 1 .. n
      PROVE  /\ Step(h, k) = [p \in N \X N |-> D!Least(Offers(h[k - 1], arcs, p))]
             /\ Step(h, k) = step[h[k - 1]]
  <2>1. k # 0
    OBVIOUS
  <2>2. k - 1 \in 0 .. n
    BY <1>1
  <2>3. Step(h, k) = [p \in N \X N |-> D!Least(Offers(h[k - 1], arcs, p))]
    BY <2>1 DEF Offers
  <2>4. h[k - 1] \in V
    BY <2>2
  <2>5. step[h[k - 1]] = [p \in N \X N |-> D!Least(Offers(h[k - 1], arcs, p))]
    BY <2>4 DEF step
  <2> QED
    BY <2>3, <2>5
<1>7. ASSUME NEW i \in 0 .. n
      PROVE  f[i] = Step(f, i)
  <2>1. CASE i = 0
    <3>1. f[0] = zero
      BY <1>4 DEF IsRecursion
    <3> QED
      BY <1>5, <2>1, <3>1
  <2>2. CASE i # 0
    <3>1. i \in 1 .. n
      BY <1>1, <2>2
    <3>2. f[i] = step[f[i - 1]]
      BY <1>4, <3>1 DEF IsRecursion
    <3>3. Step(f, i) = step[f[i - 1]]
      BY <1>6, <3>1
    <3> QED
      BY <3>2, <3>3
  <2> QED
    BY <2>1, <2>2
<1>8. f = [i \in 0 .. n |-> Step(f, i)]
  BY <1>7
<1>9. Rule(f)
  BY <1>8
<1> DEFINE g == CHOOSE h : Rule(h)
<1>10. Rule(g)
  <2> HIDE DEF Rule
  <2>1. \E h : Rule(h)
    BY <1>9
  <2> QED
    BY <2>1
<1>11. D!Distances(N, arcs) = g[n]
  <2>1. n = D!Cardinality(N) - 1
    BY SameCardinality DEF n
  <2> QED
    BY <2>1 DEF D!Distances
<1> HIDE DEF g
<1>12. g = [i \in 0 .. n |-> Step(g, i)]
  BY <1>10
<1> HIDE DEF Step, Rule
<1>13. \A i \in 0 .. n : g[i] = Step(g, i)
  BY <1>12
<1>14. g \in [0 .. n -> V]
  <2> DEFINE S == {i \in Nat : i <= n => g[i] \in V}
  <2>1. 0 \in S
    <3>1. g[0] = zero
      BY <1>1, <1>5, <1>13
    <3> QED
      BY <1>2, <3>1
  <2>2. ASSUME NEW i \in Nat, i \in S
        PROVE  i + 1 \in S
    <3> SUFFICES ASSUME i + 1 <= n PROVE g[i + 1] \in V
      OBVIOUS
    <3>1. g[i] \in V /\ i + 1 \in 0 .. n /\ i + 1 # 0 /\ (i + 1) - 1 = i
      BY <1>1, <2>2
    <3>2. g[i + 1] = Step(g, i + 1)
      BY <1>13, <3>1
    <3>3. Step(g, i + 1) = [p \in N \X N |-> D!Least(Offers(g[i], arcs, p))]
      BY <3>1 DEF Step, Offers
    <3>4. ASSUME NEW p \in N \X N
          PROVE  D!Least(Offers(g[i], arcs, p)) \in Weights
      <4>1. Offers(g[i], arcs, p) \subseteq Weights
        BY <3>1, OffersAreWeights DEF V
      <4> QED
        BY <4>1, LeastFacts
    <3>5. [p \in N \X N |-> D!Least(Offers(g[i], arcs, p))] \in V
      BY <3>4 DEF V
    <3> QED
      BY <3>2, <3>3, <3>5
  <2> HIDE DEF S
  <2>3. Nat \subseteq S
    BY <2>1, <2>2, SetInduction
  <2>4. \A i \in 0 .. n : g[i] \in V
    BY <1>1, <2>3 DEF S
  <2> QED
    BY <1>12, <2>4
<1>15. IsRounds(g, N, arcs, n)
  <2>1. g[0] = [p \in N \X N |-> NoWalk(p)]
    BY <1>1, <1>5, <1>13 DEF zero
  <2>2. ASSUME NEW k \in 1 .. n
        PROVE  g[k] = [p \in N \X N |-> D!Least(Offers(g[k - 1], arcs, p))]
    <3>1. k \in 0 .. n
      BY <1>1
    <3> QED
      BY <1>6, <1>13, <1>14, <3>1
  <2> QED
    BY <2>1, <2>2 DEF IsRounds
<1> QED
  BY <1>11, <1>14, <1>15 DEF n, V

-----------------------------------------------------------------------------

\* The weights of the walks from s to v.
WalkWeights(N, arcs, s, v) == {w \in Nat : <<v, w>> \in Walked(N, arcs, s)}

\* d is the least number of S, and infinite if there is none.
IsLeastOf(d, S) == IF S = {} THEN d = Inf ELSE d \in S /\ \A w \in S : d <= w

\* The reference distances, from one node.
LeastWalk(N, arcs, s) ==
    [v \in N |-> IF WalkWeights(N, arcs, s, v) = {} THEN Inf
                 ELSE CHOOSE w \in WalkWeights(N, arcs, s, v) :
                         \A x \in WalkWeights(N, arcs, s, v) : w <= x]

\* The weight of a lightest walk is one of a walk and none is lighter.
LEMMA LeastWalkIsLeast ==
    ASSUME NEW N, NEW arcs, NEW s, NEW v \in N, Inf \notin Int
    PROVE  /\ IsLeastOf(LeastWalk(N, arcs, s)[v], WalkWeights(N, arcs, s, v))
           /\ LeastWalk(N, arcs, s)[v] \in Nat \cup {Inf}
<1> DEFINE S == WalkWeights(N, arcs, s, v)
<1>1. S \subseteq Nat
  BY DEF WalkWeights
<1> HIDE DEF S
<1>2. S # {} => \E w \in S : \A x \in S : w <= x
  BY <1>1, LeastNatural
<1>3. LeastWalk(N, arcs, s)[v] = IF S = {} THEN Inf ELSE CHOOSE w \in S : \A x \in S : w <= x
  BY DEF LeastWalk, S
<1> QED
  BY <1>1, <1>2, <1>3 DEF IsLeastOf, S

\* A node that is not the start is reached last by an arc from a nearer node.
LEMMA LeastWalkLast ==
    ASSUME NEW N, NEW arcs, IsArcs(arcs, N), NEW s \in N, NEW v \in N, Inf \notin Int,
           LeastWalk(N, arcs, s)[v] # Inf,
           <<v, LeastWalk(N, arcs, s)[v]>> # <<s, 0>>
    PROVE  \E arc \in arcs :
              /\ arc[2] = v /\ arc[3] # Inf /\ LeastWalk(N, arcs, s)[arc[1]] # Inf
              /\ LeastWalk(N, arcs, s)[arc[1]] + arc[3] <= LeastWalk(N, arcs, s)[v]
              /\ LeastWalk(N, arcs, s)[arc[1]] < LeastWalk(N, arcs, s)[v]
<1> DEFINE L == LeastWalk(N, arcs, s)
<1>1. L[v] \in WalkWeights(N, arcs, s, v)
  BY LeastWalkIsLeast DEF IsLeastOf
<1>2. <<v, L[v]>> \in Walked(N, arcs, s) /\ L[v] \in Nat
  BY <1>1 DEF WalkWeights
<1> HIDE DEF L
<1>3. PICK y \in Walked(N, arcs, s), arc \in arcs :
         arc[1] = y[1] /\ arc[3] # Inf /\ <<v, L[v]>> = <<arc[2], y[2] + arc[3]>>
  BY <1>2, WalkedLast DEF L
<1>4. y \in N \X Nat
  BY DEF Walked
<1>5. y[1] = arc[1] /\ y[2] \in Nat /\ y = <<arc[1], y[2]>> /\ arc[1] \in N
      /\ arc[3] \in Nat /\ arc[3] > 0
  BY <1>3, <1>4 DEF IsArcs
<1>6. y[2] \in WalkWeights(N, arcs, s, arc[1])
  BY <1>5 DEF WalkWeights
<1>7. L[arc[1]] \in Nat /\ L[arc[1]] <= y[2]
  BY <1>5, <1>6, LeastWalkIsLeast DEF IsLeastOf, L, WalkWeights
<1>8. L[v] = y[2] + arc[3] /\ arc[2] = v
  BY <1>3
<1>9. L[arc[1]] # Inf /\ L[arc[1]] + arc[3] <= L[v] /\ L[arc[1]] < L[v]
  BY <1>5, <1>7, <1>8
<1> QED
  BY <1>3, <1>8, <1>9 DEF L

\* The nodes that are nearer to s than v.
Nearer(N, arcs, s, v) ==
    {u \in N : /\ LeastWalk(N, arcs, s)[u] # Inf
               /\ LeastWalk(N, arcs, s)[u] < LeastWalk(N, arcs, s)[v]}

\* A nearer node has fewer nodes nearer than it.
LEMMA NearerSmaller ==
    ASSUME NEW N, IsFiniteSet(N), NEW arcs, NEW s \in N, NEW v \in N, NEW u \in N, Inf \notin Int,
           LeastWalk(N, arcs, s)[u] # Inf, LeastWalk(N, arcs, s)[v] # Inf,
           LeastWalk(N, arcs, s)[u] < LeastWalk(N, arcs, s)[v]
    PROVE  /\ Cardinality(Nearer(N, arcs, s, u)) < Cardinality(Nearer(N, arcs, s, v))
           /\ Cardinality(Nearer(N, arcs, s, u)) \in Nat
           /\ Cardinality(Nearer(N, arcs, s, v)) \in Nat
<1> DEFINE L == LeastWalk(N, arcs, s)
           A == Nearer(N, arcs, s, u)
           B == Nearer(N, arcs, s, v)
<1>1. \A x \in N : L[x] \in Nat \cup {Inf}
  BY LeastWalkIsLeast
<1>2. A \subseteq B /\ u \in B /\ u \notin A
  BY <1>1 DEF Nearer
<1>3. IsFiniteSet(B) /\ IsFiniteSet(A)
  <2>1. B \subseteq N /\ A \subseteq N
    BY DEF Nearer
  <2> QED
    BY <2>1, FS_Subset
<1> HIDE DEF A, B
<1>4. Cardinality(A) <= Cardinality(B) /\ (Cardinality(A) = Cardinality(B) => A = B)
  BY <1>2, <1>3, FS_Subset
<1>5. Cardinality(A) \in Nat /\ Cardinality(B) \in Nat
  BY <1>3, FS_CardinalityType
<1> QED
  BY <1>2, <1>4, <1>5 DEF A, B

\* The node itself is not nearer than itself.
LEMMA NearerBound ==
    ASSUME NEW N, IsFiniteSet(N), NEW arcs, NEW s \in N, NEW v \in N, Inf \notin Int,
           LeastWalk(N, arcs, s)[v] # Inf
    PROVE  Cardinality(Nearer(N, arcs, s, v)) <= Cardinality(N) - 1
<1> DEFINE B == Nearer(N, arcs, s, v)
<1>1. LeastWalk(N, arcs, s)[v] \in Nat
  BY LeastWalkIsLeast
<1>2. B \subseteq N /\ v \notin B
  BY <1>1 DEF Nearer
<1> HIDE DEF B
<1>3. IsFiniteSet(B) /\ Cardinality(B) <= Cardinality(N) /\ Cardinality(B) # Cardinality(N)
  BY <1>2, FS_Subset
<1>4. Cardinality(B) \in Nat /\ Cardinality(N) \in Nat
  BY <1>3, FS_CardinalityType
<1> QED
  BY <1>3, <1>4 DEF B

\* What a round holds is the weight of a walk.
LEMMA RoundsSound ==
    ASSUME NEW N, NEW arcs, IsArcs(arcs, N), NEW s \in N, Inf \notin Int, NEW n \in Nat,
           NEW g \in [0 .. n -> [N \X N -> Weights]], IsRounds(g, N, arcs, n)
    PROVE  \A i \in 0 .. n : \A v \in N :
              g[i][<<s, v>>] # Inf => <<v, g[i][<<s, v>>]>> \in Walked(N, arcs, s)
<1> DEFINE Holds(i) == \A v \in N : g[i][<<s, v>>] # Inf => <<v, g[i][<<s, v>>]>> \in Walked(N, arcs, s)
           S == {i \in 0 .. n : Holds(i)}
<1>1. IsClosed(Walked(N, arcs, s), arcs, s)
  BY WalkedClosed
<1>2. 0 \in S
  <2>1. g[0] = [p \in N \X N |-> NoWalk(p)]
    BY DEF IsRounds
  <2>2. ASSUME NEW v \in N, g[0][<<s, v>>] # Inf
        PROVE  <<v, g[0][<<s, v>>]>> \in Walked(N, arcs, s)
    <3>1. g[0][<<s, v>>] = NoWalk(<<s, v>>)
      BY <2>1
    <3>2. v = s /\ g[0][<<s, v>>] = 0
      BY <2>2, <3>1 DEF NoWalk
    <3> QED
      BY <1>1, <3>2 DEF IsClosed
  <2>3. Holds(0)
    BY <2>2
  <2> QED
    BY <2>3
<1>3. ASSUME NEW i \in 0 .. (n - 1), i \in S
      PROVE  i + 1 \in S
  <2> SUFFICES ASSUME NEW v \in N, g[i + 1][<<s, v>>] # Inf
               PROVE  <<v, g[i + 1][<<s, v>>]>> \in Walked(N, arcs, s)
    OBVIOUS
  <2>1. i \in 0 .. n /\ i + 1 \in 1 .. n /\ (i + 1) - 1 = i
    OBVIOUS
  <2>2. g[i] \in [N \X N -> Weights] /\ <<s, v>> \in N \X N
    BY <2>1
  <2>3. g[i + 1] = [p \in N \X N |-> D!Least(Offers(g[i], arcs, p))]
    BY <2>1 DEF IsRounds
  <2>4. g[i + 1][<<s, v>>] = D!Least(Offers(g[i], arcs, <<s, v>>))
    BY <2>2, <2>3
  <2>5. Offers(g[i], arcs, <<s, v>>) \subseteq Weights
    BY <2>2, OffersAreWeights
  <2>6. g[i + 1][<<s, v>>] \in Offers(g[i], arcs, <<s, v>>)
    BY <2>4, <2>5, LeastFacts
  <2>7. CASE g[i + 1][<<s, v>>] = g[i][<<s, v>>]
    BY <1>3, <2>7
  <2>8. CASE \E arc \in arcs : /\ arc[2] = v
                               /\ g[i + 1][<<s, v>>] = D!Add(g[i][<<s, arc[1]>>], arc[3])
    <3>1. PICK arc \in arcs : /\ arc[2] = v
                              /\ g[i + 1][<<s, v>>] = D!Add(g[i][<<s, arc[1]>>], arc[3])
      BY <2>8
    <3>2. /\ arc[3] # Inf /\ g[i][<<s, arc[1]>>] # Inf
          /\ g[i + 1][<<s, v>>] = g[i][<<s, arc[1]>>] + arc[3]
      BY <3>1 DEF D!Add
    <3>3. arc[1] \in N
      BY DEF IsArcs
    <3>4. <<arc[1], g[i][<<s, arc[1]>>]>> \in Walked(N, arcs, s)
      BY <1>3, <3>2, <3>3
    <3>5. <<arc[2], g[i][<<s, arc[1]>>] + arc[3]>> \in Walked(N, arcs, s)
      BY <1>1, <3>2, <3>4 DEF IsClosed
    <3> QED
      BY <3>1, <3>2, <3>5
  <2>9. \/ g[i + 1][<<s, v>>] = g[i][<<s, v>>]
        \/ \E arc \in arcs : /\ arc[2] = v
                             /\ g[i + 1][<<s, v>>] = D!Add(g[i][<<s, arc[1]>>], arc[3])
    BY <2>6 DEF Offers
  <2> QED
    BY <2>7, <2>8, <2>9
<1> HIDE DEF S
<1>4. 0 .. n \subseteq S
  BY <1>2, <1>3, BoundedInduction
<1> QED
  BY <1>4 DEF S

\* Rounds only improve.
LEMMA RoundsComplete ==
    ASSUME NEW N, IsFiniteSet(N), NEW arcs, IsArcs(arcs, N), NEW s \in N, Inf \notin Int,
           NEW n \in Nat, NEW g \in [0 .. n -> [N \X N -> Weights]], IsRounds(g, N, arcs, n)
    PROVE  \A i \in 0 .. n : \A v \in N :
              LeastWalk(N, arcs, s)[v] # Inf /\ Cardinality(Nearer(N, arcs, s, v)) <= i =>
                 g[i][<<s, v>>] # Inf /\ g[i][<<s, v>>] <= LeastWalk(N, arcs, s)[v]
<1> DEFINE L == LeastWalk(N, arcs, s)
           Rank(v) == Cardinality(Nearer(N, arcs, s, v))
           Holds(i) == \A v \in N : L[v] # Inf /\ Rank(v) <= i =>
                          g[i][<<s, v>>] # Inf /\ g[i][<<s, v>>] <= L[v]
           S == {i \in 0 .. n : Holds(i)}
<1>1. \A v \in N : L[v] \in Nat \cup {Inf}
  BY LeastWalkIsLeast
<1>2. ASSUME NEW v \in N, L[v] # Inf, <<v, L[v]>> # <<s, 0>>
      PROVE  \E arc \in arcs : /\ arc[2] = v /\ arc[3] # Inf /\ L[arc[1]] # Inf
                               /\ L[arc[1]] + arc[3] <= L[v]
                               /\ Rank(arc[1]) < Rank(v) /\ Rank(arc[1]) \in Nat /\ Rank(v) \in Nat
  <2>1. PICK arc \in arcs : /\ arc[2] = v /\ arc[3] # Inf /\ L[arc[1]] # Inf
                            /\ L[arc[1]] + arc[3] <= L[v] /\ L[arc[1]] < L[v]
    BY <1>2, LeastWalkLast
  <2>2. arc[1] \in N
    BY DEF IsArcs
  <2> QED
    BY <1>2, <2>1, <2>2, NearerSmaller
<1> HIDE DEF L, Rank
<1>3. ASSUME NEW v \in N, <<v, L[v]>> = <<s, 0>>
      PROVE  g[0][<<s, v>>] = 0
  <2>1. g[0] = [p \in N \X N |-> NoWalk(p)]
    BY DEF IsRounds
  <2>2. g[0][<<s, v>>] = NoWalk(<<s, v>>)
    BY <2>1
  <2> QED
    BY <1>3, <2>2 DEF NoWalk
<1>4. 0 \in S
  <2> SUFFICES ASSUME NEW v \in N, L[v] # Inf, Rank(v) <= 0
               PROVE  g[0][<<s, v>>] # Inf /\ g[0][<<s, v>>] <= L[v]
    OBVIOUS
  <2>1. <<v, L[v]>> = <<s, 0>>
    BY <1>2
  <2>2. g[0][<<s, v>>] = 0 /\ L[v] = 0
    BY <1>3, <2>1
  <2> QED
    BY <2>2
<1>5. ASSUME NEW i \in 0 .. (n - 1), i \in S
      PROVE  i + 1 \in S
  <2> SUFFICES ASSUME NEW v \in N, L[v] # Inf, Rank(v) <= i + 1
               PROVE  g[i + 1][<<s, v>>] # Inf /\ g[i + 1][<<s, v>>] <= L[v]
    OBVIOUS
  <2>1. i \in 0 .. n /\ i + 1 \in 1 .. n /\ (i + 1) - 1 = i
    OBVIOUS
  <2>2. g[i] \in [N \X N -> Weights] /\ <<s, v>> \in N \X N
    BY <2>1
  <2>3. g[i + 1] = [p \in N \X N |-> D!Least(Offers(g[i], arcs, p))]
    BY <2>1 DEF IsRounds
  <2>4. g[i + 1][<<s, v>>] = D!Least(Offers(g[i], arcs, <<s, v>>))
    BY <2>2, <2>3
  <2> DEFINE O == Offers(g[i], arcs, <<s, v>>)
  <2>5. O \subseteq Weights
    BY <2>2, OffersAreWeights
  <2>6. D!Least(O) \in Weights /\ \A w \in O : w # Inf => D!Least(O) # Inf /\ D!Least(O) <= w
    <3> HIDE DEF O
    <3> QED
      BY <2>5, LeastFacts
  <2>7. SUFFICES \E w \in O : w # Inf /\ w <= L[v]
    <3>1. PICK w \in O : w # Inf /\ w <= L[v]
      BY <2>7
    <3>2. w \in Nat /\ L[v] \in Nat
      BY <1>1, <2>5, <3>1 DEF Weights
    <3>3. D!Least(O) # Inf /\ D!Least(O) <= w
      BY <2>6, <3>1
    <3>4. D!Least(O) \in Nat
      BY <2>6, <3>3 DEF Weights
    <3>5. D!Least(O) <= L[v]
      BY <3>1, <3>2, <3>3, <3>4
    <3> QED
      BY <2>4, <3>3, <3>5
  <2>8. CASE g[i][<<s, v>>] # Inf /\ g[i][<<s, v>>] <= L[v]
    <3>1. g[i][<<s, v>>] \in O
      BY DEF Offers
    <3> QED
      BY <2>8, <3>1
  <2>9. CASE ~ (g[i][<<s, v>>] # Inf /\ g[i][<<s, v>>] <= L[v])
    <3>1. ~ (Rank(v) <= i)
      BY <1>5, <2>9
    <3>2. <<v, L[v]>> # <<s, 0>>
      <4> SUFFICES ASSUME <<v, L[v]>> = <<s, 0>> PROVE FALSE
        OBVIOUS
      <4>1. v = s /\ L[v] = 0
        OBVIOUS
      <4>2. \A u \in N : ~ (L[u] # Inf /\ L[u] < L[v])
        BY <1>1, <4>1
      <4>3. Nearer(N, arcs, s, v) = {}
        BY <4>2 DEF Nearer, L
      <4>4. Rank(v) = 0
        BY <4>3, FS_EmptySet DEF Rank
      <4> QED
        BY <3>1, <4>4
    <3>3. PICK arc \in arcs : /\ arc[2] = v /\ arc[3] # Inf /\ L[arc[1]] # Inf
                             /\ L[arc[1]] + arc[3] <= L[v]
                             /\ Rank(arc[1]) < Rank(v) /\ Rank(arc[1]) \in Nat /\ Rank(v) \in Nat
      BY <1>2, <3>2
    <3>4. arc[1] \in N /\ arc[3] \in Nat
      BY <3>3 DEF IsArcs
    <3>5. Rank(arc[1]) <= i
      BY <3>3
    <3>6. g[i][<<s, arc[1]>>] # Inf /\ g[i][<<s, arc[1]>>] <= L[arc[1]]
      BY <1>5, <3>3, <3>4, <3>5
    <3>7. g[i][<<s, arc[1]>>] \in Nat /\ L[arc[1]] \in Nat /\ L[v] \in Nat
      BY <1>1, <2>2, <3>3, <3>4, <3>6 DEF Weights
    <3>8. D!Add(g[i][<<s, arc[1]>>], arc[3]) = g[i][<<s, arc[1]>>] + arc[3]
      BY <3>3, <3>6 DEF D!Add
    <3>9. D!Add(g[i][<<s, arc[1]>>], arc[3]) \in O
      BY <3>3 DEF Offers
    <3>10. g[i][<<s, arc[1]>>] + arc[3] <= L[v] /\ g[i][<<s, arc[1]>>] + arc[3] \in Nat
      <4>1. PICK x, y, z, w : x = g[i][<<s, arc[1]>>] /\ y = arc[3] /\ z = L[arc[1]] /\ w = L[v]
        OBVIOUS
      <4>2. x \in Nat /\ y \in Nat /\ z \in Nat /\ w \in Nat
        BY <3>4, <3>7, <4>1
      <4>3. x <= z /\ z + y <= w
        BY <3>3, <3>6, <4>1
      <4>4. x + y <= w /\ x + y \in Nat
        BY <4>2, <4>3
      <4> QED
        BY <4>1, <4>4
    <3>11. g[i][<<s, arc[1]>>] + arc[3] # Inf
      BY <3>10
    <3> QED
      BY <3>8, <3>9, <3>10, <3>11
  <2> QED
    BY <2>8, <2>9
<1> HIDE DEF S
<1>6. 0 .. n \subseteq S
  BY <1>4, <1>5, BoundedInduction
<1> QED
  BY <1>6 DEF S, L, Rank

\* Distances holds the weight of the lightest walk, if there is one.
LEMMA DistanceIsLeast ==
    ASSUME NEW N, IsFiniteSet(N), NEW arcs, IsArcs(arcs, N), Inf \notin Int,
           NEW s \in N, NEW v \in N
    PROVE  /\ D!Distances(N, arcs)[<<s, v>>] \in Weights
           /\ IsLeastOf(D!Distances(N, arcs)[<<s, v>>], WalkWeights(N, arcs, s, v))
<1> DEFINE n == Cardinality(N) - 1
           d == D!Distances(N, arcs)[<<s, v>>]
           l == LeastWalk(N, arcs, s)[v]
<1>1. N # {} /\ n \in Nat
  <2>1. Cardinality(N) \in Nat /\ Cardinality(N) # 0
    BY FS_CardinalityType, FS_EmptySet
  <2> QED
    BY <2>1
<1>2. PICK g \in [0 .. n -> [N \X N -> Weights]] :
         IsRounds(g, N, arcs, n) /\ D!Distances(N, arcs) = g[n]
  BY <1>1, DistancesAreRounds
<1>3. n \in 0 .. n
  BY <1>1
<1>4. d \in Weights
  <2>1. g[n] \in [N \X N -> Weights]
    BY <1>3
  <2> QED
    BY <1>2, <2>1
<1>5. d # Inf => <<v, d>> \in Walked(N, arcs, s)
  <2>1. g[n][<<s, v>>] # Inf => <<v, g[n][<<s, v>>]>> \in Walked(N, arcs, s)
    <3> HIDE DEF n
    <3> QED
      BY <1>1, <1>2, <1>3, RoundsSound
  <2> QED
    BY <1>2, <2>1
<1>6. l # Inf => d # Inf /\ d <= l
  <2>1. l # Inf => Cardinality(Nearer(N, arcs, s, v)) <= n
    BY NearerBound
  <2>2. l # Inf /\ Cardinality(Nearer(N, arcs, s, v)) <= n =>
           g[n][<<s, v>>] # Inf /\ g[n][<<s, v>>] <= l
    <3> HIDE DEF n
    <3> QED
      BY <1>1, <1>2, <1>3, RoundsComplete
  <2> QED
    BY <1>2, <2>1, <2>2
<1>7. IsLeastOf(l, WalkWeights(N, arcs, s, v)) /\ l \in Nat \cup {Inf}
  BY LeastWalkIsLeast
<1> HIDE DEF d, l
<1>8. d # Inf => d \in WalkWeights(N, arcs, s, v)
  BY <1>4, <1>5 DEF WalkWeights, Weights
<1>9. WalkWeights(N, arcs, s, v) \subseteq Nat
  BY DEF WalkWeights
<1>10. IsLeastOf(d, WalkWeights(N, arcs, s, v))
  <2> DEFINE S == WalkWeights(N, arcs, s, v)
  <2> HIDE DEF S
  <2>1. CASE S = {}
    BY <1>8, <2>1 DEF IsLeastOf, S
  <2>2. CASE S # {}
    <3>1. l \in S /\ \A w \in S : l <= w
      BY <1>7, <2>2 DEF IsLeastOf, S
    <3>2. S \subseteq Nat
      BY <1>9 DEF S
    <3>3. l # Inf
      BY <3>1, <3>2
    <3>4. d # Inf /\ d <= l /\ d \in S
      BY <1>6, <1>8, <3>3 DEF S
    <3>5. \A w \in S : d <= w
      BY <3>1, <3>2, <3>4
    <3> QED
      BY <2>2, <3>4, <3>5 DEF IsLeastOf, S
  <2> QED
    BY <2>1, <2>2
<1> QED
  BY <1>4, <1>10 DEF d

-----------------------------------------------------------------------------

\* f is defined on 0 .. N from c by a step that depends on the index.
IsIndexedRecursion(f, N, c, step) ==
    f[0] = c /\ \A k \in 1 .. N : f[k] = step[<<k, f[k - 1]>>]

\* A recursion whose step depends on the index has a solution.
LEMMA IndexedRecursionExists ==
    ASSUME NEW N \in Nat, NEW V, NEW c \in V, NEW step \in [(1 .. N) \X V -> V]
    PROVE  \E f \in [0 .. N -> V] : IsIndexedRecursion(f, N, c, step)
<1> DEFINE U == (0 .. N) \X V
           up == [x \in U |-> IF x[1] < N THEN <<x[1] + 1, step[<<x[1] + 1, x[2]>>]>> ELSE x]
           d == <<0, c>>
<1>1. d \in U
  OBVIOUS
<1>2. up \in [U -> U]
  <2> SUFFICES ASSUME NEW x \in U
               PROVE  (IF x[1] < N THEN <<x[1] + 1, step[<<x[1] + 1, x[2]>>]>> ELSE x) \in U
    OBVIOUS
  <2>1. CASE x[1] < N
    <3>1. x[1] + 1 \in 1 .. N /\ x[1] + 1 \in 0 .. N /\ x[2] \in V
      BY <2>1
    <3>2. step[<<x[1] + 1, x[2]>>] \in V
      BY <3>1
    <3> QED
      BY <2>1, <3>1, <3>2
  <2> QED
    BY <2>1
<1> HIDE DEF U, d
<1>3. PICK g \in [0 .. N -> U] : IsRecursion(g, N, d, up)
  BY <1>1, <1>2, RecursiveFunctionExists
<1>4. \A k \in 1 .. N : g[k] = up[g[k - 1]]
  BY <1>3 DEF IsRecursion
<1>5. \A k \in 0 .. N : g[k] \in U
  BY <1>3
<1> DEFINE S == {k \in 0 .. N : g[k][1] = k}
<1>6. 0 \in S
  BY <1>3 DEF IsRecursion, d
<1>7. ASSUME NEW k \in 0 .. (N - 1), k \in S
      PROVE  /\ k + 1 \in S
             /\ g[k + 1] = <<k + 1, step[<<k + 1, g[k][2]>>]>>
  <2>1. k + 1 \in 1 .. N /\ (k + 1) - 1 = k /\ k + 1 \in 0 .. N /\ k \in 0 .. N
    OBVIOUS
  <2>2. g[k + 1] = up[g[k]]
    BY <1>4, <2>1
  <2>3. g[k] \in U /\ g[k][1] = k
    BY <1>5, <1>7, <2>1
  <2>4. up[g[k]] = <<k + 1, step[<<k + 1, g[k][2]>>]>>
    BY <2>3
  <2>5. g[k + 1] = <<k + 1, step[<<k + 1, g[k][2]>>]>>
    BY <2>2, <2>4
  <2>6. g[k + 1][1] = k + 1
    BY <2>5
  <2> QED
    BY <2>1, <2>5, <2>6
<1> HIDE DEF S
<1>8. 0 .. N \subseteq S
  BY <1>6, <1>7, BoundedInduction
<1> DEFINE f == [k \in 0 .. N |-> g[k][2]]
<1>9. f \in [0 .. N -> V]
  BY <1>5 DEF U
<1>10. f[0] = c
  BY <1>3 DEF IsRecursion, d
<1>11. ASSUME NEW k \in 1 .. N
       PROVE  f[k] = step[<<k, f[k - 1]>>]
  <2>1. k - 1 \in 0 .. (N - 1) /\ k - 1 \in S /\ (k - 1) + 1 = k /\ k \in 0 .. N /\ k - 1 \in 0 .. N
    BY <1>8
  <2>2. g[k] = <<k, step[<<k, g[k - 1][2]>>]>>
    BY <1>7, <2>1
  <2>3. f[k] = g[k][2] /\ f[k - 1] = g[k - 1][2]
    BY <2>1
  <2>4. g[k][2] = step[<<k, g[k - 1][2]>>]
    BY <2>2
  <2> HIDE DEF f
  <2> QED
    BY <2>3, <2>4
<1> HIDE DEF f
<1> QED
  BY <1>9, <1>10, <1>11 DEF IsIndexedRecursion

\* The elements of a list.
LEMMA ElementsOf ==
    ASSUME NEW S, NEW list \in Seq(S)
    PROVE  /\ ToSet(list) = {list[i] : i \in 1 .. Len(list)}
           /\ ToSet(list) \subseteq S /\ list \in Seq(ToSet(list))
           /\ Len(list) \in Nat /\ DOMAIN list = 1 .. Len(list)
           /\ list = << >> <=> ToSet(list) = {}
<1>1. Len(list) \in Nat /\ list \in [1 .. Len(list) -> S] /\ DOMAIN list = 1 .. Len(list)
  BY LenProperties
<1>2. ToSet(list) = {list[i] : i \in 1 .. Len(list)}
  BY <1>1 DEF ToSet
<1>3. list \in [1 .. Len(list) -> ToSet(list)]
  BY <1>1, <1>2
<1>4. list \in Seq(ToSet(list))
  BY <1>1, <1>3
<1>5. ToSet(list) \subseteq S
  BY <1>1, <1>2
<1>6. ASSUME list # << >> PROVE ToSet(list) # {}
  <2>1. 1 \in 1 .. Len(list)
    BY <1>1, <1>6
  <2> QED
    BY <1>2, <2>1
<1>7. ASSUME list = << >> PROVE ToSet(list) = {}
  <2>1. Len(list) = 0
    BY <1>7
  <2>2. 1 .. Len(list) = {}
    BY <2>1
  <2> QED
    BY <1>2, <2>2
<1> QED
  BY <1>1, <1>2, <1>4, <1>5, <1>6, <1>7

\* The round of Keep.
KeepStep(list, ids, k, kept) == IF list[k] \in ids THEN Append(kept, list[k]) ELSE kept

IsKeeping(f, list, ids) ==
    f[0] = << >> /\ \A k \in 1 .. Len(list) : f[k] = KeepStep(list, ids, k, f[k - 1])

\* Keep goes through the list element by element.
LEMMA KeepIsRecursion ==
    ASSUME NEW S, NEW list \in Seq(S), NEW ids
    PROVE  \E f \in [0 .. Len(list) -> Seq(S)] :
              IsKeeping(f, list, ids) /\ Keep(list, ids) = f[Len(list)]
<1> DEFINE n == Len(list)
           V == Seq(S)
           step == [x \in (1 .. n) \X V |-> KeepStep(list, ids, x[1], x[2])]
           Rule(f) == f = [k \in 0 .. n |->
                             IF k = 0 THEN << >>
                             ELSE IF list[k] \in ids THEN Append(f[k - 1], list[k]) ELSE f[k - 1]]
           Solves(f) == f[0] = << >> /\ \A k \in 1 .. n : f[k] = KeepStep(list, ids, k, f[k - 1])
<1>1. n \in Nat /\ << >> \in V
  OBVIOUS
<1>2. step \in [(1 .. n) \X V -> V]
  <2> SUFFICES ASSUME NEW k \in 1 .. n, NEW kept \in V
               PROVE  KeepStep(list, ids, k, kept) \in V
    OBVIOUS
  <2>1. list[k] \in S
    OBVIOUS
  <2>2. Append(kept, list[k]) \in Seq(S)
    BY <2>1, AppendProperties
  <2> QED
    BY <2>2 DEF KeepStep
<1> HIDE DEF V
<1>3. PICK f \in [0 .. n -> V] : IsIndexedRecursion(f, n, << >>, step)
  <2> HIDE DEF step, n
  <2> QED
    BY <1>1, <1>2, IndexedRecursionExists
<1>4. Solves(f)
  <2>1. ASSUME NEW k \in 1 .. n
        PROVE  f[k] = KeepStep(list, ids, k, f[k - 1])
    <3>1. k - 1 \in 0 .. n
      BY <1>1
    <3>2. f[k - 1] \in V
      BY <3>1
    <3>3. f[k] = step[<<k, f[k - 1]>>]
      BY <1>3 DEF IsIndexedRecursion
    <3> QED
      BY <3>2, <3>3
  <2> QED
    BY <1>3, <2>1 DEF IsIndexedRecursion
<1>5. Rule(f)
  <2>1. ASSUME NEW k \in 0 .. n
        PROVE  f[k] = IF k = 0 THEN << >>
                      ELSE IF list[k] \in ids THEN Append(f[k - 1], list[k]) ELSE f[k - 1]
    <3>1. CASE k = 0
      BY <1>4, <3>1
    <3>2. CASE k # 0
      <4>1. k \in 1 .. n
        BY <1>1, <3>2
      <4> QED
        BY <1>4, <3>2, <4>1 DEF KeepStep
    <3> QED
      BY <3>1, <3>2
  <2> QED
    BY <2>1
<1> DEFINE g == CHOOSE h : Rule(h)
<1>6. Rule(g)
  BY <1>5
<1>7. Keep(list, ids) = g[n]
  BY DEF Keep
<1> HIDE DEF g
<1>8. Solves(g)
  <2>1. g[0] = << >>
    BY <1>1, <1>6
  <2>2. ASSUME NEW k \in 1 .. n
        PROVE  g[k] = KeepStep(list, ids, k, g[k - 1])
    <3>1. k \in 0 .. n /\ k # 0
      BY <1>1
    <3> QED
      BY <1>6, <3>1 DEF KeepStep
  <2> QED
    BY <2>1, <2>2
<1>9. g \in [0 .. n -> V]
  <2> DEFINE T == {k \in 0 .. n : g[k] \in V}
  <2>1. 0 \in T
    BY <1>1, <1>8
  <2>2. ASSUME NEW k \in 0 .. (n - 1), k \in T
        PROVE  k + 1 \in T
    <3>1. k + 1 \in 1 .. n /\ (k + 1) - 1 = k /\ k + 1 \in 0 .. n
      BY <1>1
    <3>2. g[k + 1] = KeepStep(list, ids, k + 1, g[k])
      BY <1>8, <3>1
    <3>3. step[<<k + 1, g[k]>>] \in V /\ step[<<k + 1, g[k]>>] = KeepStep(list, ids, k + 1, g[k])
      BY <1>2, <2>2, <3>1
    <3> QED
      BY <3>1, <3>2, <3>3
  <2> HIDE DEF T
  <2>3. 0 .. n \subseteq T
    BY <1>1, <2>1, <2>2, BoundedInduction
  <2>4. \A k \in 0 .. n : g[k] \in V
    BY <2>3 DEF T
  <2> QED
    BY <1>6, <2>4
<1>10. IsKeeping(g, list, ids)
  BY <1>8 DEF IsKeeping
<1> QED
  BY <1>7, <1>9, <1>10 DEF V

\* Keep returns a list of exactly the elements that are in the set, each as
\* often as before.
LEMMA KeepFacts ==
    ASSUME NEW S, NEW list \in Seq(S), NEW ids
    PROVE  /\ Keep(list, ids) \in Seq(S)
           /\ ToSet(Keep(list, ids)) = ToSet(list) \cap ids
           /\ IsInjective(list) => IsInjective(Keep(list, ids))
<1>1. PICK f \in [0 .. Len(list) -> Seq(S)] :
         IsKeeping(f, list, ids) /\ Keep(list, ids) = f[Len(list)]
  BY KeepIsRecursion
<1> DEFINE n == Len(list)
           Elements(k) == {list[i] : i \in 1 .. k} \cap ids
           Holds(k) == /\ ToSet(f[k]) = Elements(k)
                       /\ IsInjective(list) => IsInjective(f[k])
           T == {k \in 0 .. n : Holds(k)}
<1>2. n \in Nat /\ DOMAIN list = 1 .. n
  OBVIOUS
<1>3. 0 \in T
  <2>1. ToSet(f[0]) = {} /\ IsInjective(f[0])
    BY <1>1 DEF ToSet, IsInjective, IsKeeping
  <2> QED
    BY <1>2, <2>1
<1>4. ASSUME NEW k \in 0 .. (n - 1), k \in T
      PROVE  k + 1 \in T
  <2>1. k + 1 \in 1 .. n /\ (k + 1) - 1 = k /\ k + 1 \in 0 .. n /\ k \in 0 .. n
    BY <1>2
  <2>2. f[k + 1] = KeepStep(list, ids, k + 1, f[k])
    BY <1>1, <2>1 DEF IsKeeping
  <2>3. f[k] \in Seq(S) /\ list[k + 1] \in S
    BY <2>1
  <2>4. {list[i] : i \in 1 .. k + 1} = {list[i] : i \in 1 .. k} \cup {list[k + 1]}
    <3>1. 1 .. k + 1 = (1 .. k) \cup {k + 1}
      BY <2>1
    <3> QED
      BY <3>1
  <2>5. CASE list[k + 1] \notin ids
    BY <1>4, <2>1, <2>2, <2>4, <2>5 DEF KeepStep
  <2>6. CASE list[k + 1] \in ids
    <3> DEFINE x == list[k + 1]
               s == f[k]
               t == Append(s, x)
               l == Len(s)
    <3>1. f[k + 1] = t
      BY <2>2, <2>6 DEF KeepStep
    <3>2. l \in Nat /\ DOMAIN s = 1 .. l /\ ToSet(s) = {s[i] : i \in 1 .. l}
      BY <2>3, ElementsOf
    <3>3. t \in Seq(S) /\ Len(t) = l + 1 /\ t[l + 1] = x /\ \A i \in 1 .. l : t[i] = s[i]
      BY <2>3, AppendProperties
    <3> HIDE DEF t, s, l
    <3>4. DOMAIN t = (1 .. l) \cup {l + 1}
      BY <3>2, <3>3
    <3>5. ToSet(t) = ToSet(s) \cup {x}
      BY <3>2, <3>3, <3>4 DEF ToSet
    <3>6. ToSet(f[k + 1]) = Elements(k + 1)
      BY <1>4, <2>4, <2>6, <3>1, <3>5 DEF s
    <3>7. ASSUME IsInjective(list) PROVE IsInjective(t)
      <4>1. \A i \in 1 .. k : list[i] # x
        BY <1>2, <2>1, <3>7 DEF IsInjective
      <4>2. x \notin ToSet(s)
        BY <1>4, <4>1 DEF s
      <4>3. IsInjective(s)
        BY <1>4, <3>7 DEF s
      <4>4. ASSUME NEW i \in DOMAIN t, NEW j \in DOMAIN t, t[i] = t[j] PROVE i = j
        <5>1. CASE i \in 1 .. l /\ j \in 1 .. l
          BY <3>2, <3>3, <4>3, <4>4, <5>1 DEF IsInjective
        <5>2. CASE i = l + 1 /\ j \in 1 .. l
          BY <3>2, <3>3, <4>2, <4>4, <5>2
        <5>3. CASE j = l + 1 /\ i \in 1 .. l
          BY <3>2, <3>3, <4>2, <4>4, <5>3
        <5>4. CASE i = l + 1 /\ j = l + 1
          BY <5>4
        <5> QED
          BY <3>4, <5>1, <5>2, <5>3, <5>4
      <4> QED
        BY <4>4 DEF IsInjective
    <3> QED
      BY <2>1, <3>1, <3>6, <3>7
  <2> QED
    BY <2>5, <2>6
<1> HIDE DEF T
<1>5. 0 .. n \subseteq T
  BY <1>2, <1>3, <1>4, BoundedInduction
<1>6. n \in T /\ ToSet(list) = {list[i] : i \in 1 .. n} /\ n \in 0 .. n
  BY <1>2, <1>5 DEF ToSet
<1> QED
  BY <1>1, <1>6 DEF T

\* A list with an element put in front.
LEMMA PrependFacts ==
    ASSUME NEW S, NEW list \in Seq(S), NEW x \in S
    PROVE  /\ <<x>> \o list \in Seq(S)
           /\ ToSet(<<x>> \o list) = {x} \cup ToSet(list)
           /\ IsInjective(list) /\ x \notin ToSet(list) => IsInjective(<<x>> \o list)
<1> DEFINE t == <<x>> \o list
           l == Len(list)
<1>1. l \in Nat /\ DOMAIN list = 1 .. l /\ ToSet(list) = {list[i] : i \in 1 .. l}
  BY ElementsOf
<1>2. <<x>> \in Seq(S) /\ Len(<<x>>) = 1 /\ <<x>>[1] = x
  OBVIOUS
<1>3. /\ t \in Seq(S) /\ Len(t) = 1 + l
      /\ \A i \in 1 .. 1 + l : t[i] = IF i <= 1 THEN <<x>>[i] ELSE list[i - 1]
  BY <1>2, ConcatProperties
<1> HIDE DEF t
<1>4. DOMAIN t = 1 .. 1 + l
  BY <1>3
<1>5. t[1] = x /\ \A i \in 2 .. 1 + l : i - 1 \in 1 .. l /\ t[i] = list[i - 1]
  <2>1. t[1] = x
    BY <1>1, <1>2, <1>3
  <2>2. ASSUME NEW i \in 2 .. 1 + l PROVE i - 1 \in 1 .. l /\ t[i] = list[i - 1]
    <3>1. i \in 1 .. 1 + l /\ ~ (i <= 1) /\ i - 1 \in 1 .. l
      BY <1>1
    <3> QED
      BY <1>3, <3>1
  <2> QED
    BY <2>1, <2>2
<1>6. 1 .. 1 + l = {1} \cup 2 .. 1 + l /\ \A i \in 1 .. l : i + 1 \in 2 .. 1 + l /\ (i + 1) - 1 = i
  BY <1>1
<1>7. ToSet(t) = {x} \cup ToSet(list)
  <2>1. ASSUME NEW y \in ToSet(t) PROVE y \in {x} \cup ToSet(list)
    BY <1>1, <1>4, <1>5, <1>6 DEF ToSet
  <2>2. ASSUME NEW i \in 1 .. l PROVE list[i] \in ToSet(t)
    <3>1. i + 1 \in DOMAIN t /\ t[i + 1] = list[i]
      BY <1>4, <1>5, <1>6
    <3> QED
      BY <3>1 DEF ToSet
  <2>3. x \in ToSet(t)
    BY <1>4, <1>5, <1>6 DEF ToSet
  <2> QED
    BY <1>1, <2>1, <2>2, <2>3
<1>8. ASSUME IsInjective(list), x \notin ToSet(list), NEW i \in DOMAIN t, NEW j \in DOMAIN t, t[i] = t[j]
      PROVE  i = j
  <2>1. CASE i = 1 /\ j = 1
    BY <2>1
  <2>2. CASE i = 1 /\ j \in 2 .. 1 + l
    BY <1>1, <1>5, <1>8, <2>2
  <2>3. CASE j = 1 /\ i \in 2 .. 1 + l
    BY <1>1, <1>5, <1>8, <2>3
  <2>4. CASE i \in 2 .. 1 + l /\ j \in 2 .. 1 + l
    <3>1. i - 1 = j - 1
      BY <1>1, <1>5, <1>8, <2>4 DEF IsInjective
    <3> QED
      BY <2>4, <3>1
  <2> QED
    BY <1>4, <1>6, <2>1, <2>2, <2>3, <2>4
<1> QED
  BY <1>3, <1>7, <1>8 DEF t, IsInjective

\* The list of base edges, newest first.
LEMMA NewestFirstFacts ==
    ASSUME NEW n \in Nat
    PROVE  /\ [i \in 1 .. n |-> n + 1 - i] \in Seq(1 .. n)
           /\ ToSet([i \in 1 .. n |-> n + 1 - i]) = 1 .. n
           /\ IsInjective([i \in 1 .. n |-> n + 1 - i])
<1>1. \A i \in 1 .. n : n + 1 - i \in 1 .. n /\ n + 1 - (n + 1 - i) = i
  OBVIOUS
<1>2. [i \in 1 .. n |-> n + 1 - i] \in [1 .. n -> 1 .. n]
  BY <1>1
<1>3. [i \in 1 .. n |-> n + 1 - i] \in Seq(1 .. n)
  BY <1>2
<1>4. \A i, j \in 1 .. n : n + 1 - i = n + 1 - j => i = j
  OBVIOUS
<1> QED
  BY <1>1, <1>3, <1>4 DEF ToSet, IsInjective

-----------------------------------------------------------------------------

\* A function on 1 .. n is a list.
LEMMA FunctionIsList ==
    ASSUME NEW S, NEW n \in Nat, NEW f \in [1 .. n -> S]
    PROVE  f \in Seq(S) /\ Len(f) = n /\ DOMAIN f = 1 .. n
  OBVIOUS

\* The list of the elements of all lists of a list.
LEMMA FlattenFacts ==
    ASSUME NEW S, NEW seqs \in Seq(Seq(S))
    PROVE  /\ FlattenSeq(seqs) \in Seq(S)
           /\ ToSet(FlattenSeq(seqs)) = UNION {ToSet(seqs[i]) : i \in 1 .. Len(seqs)}
<1> DEFINE n == Len(seqs)
           V == Seq(S)
           step == [x \in (1 .. n) \X V |-> x[2] \o seqs[x[1]]]
           Rule(f) == f = [i \in 1 .. n |-> IF i = 1 THEN seqs[i] ELSE f[i - 1] \o seqs[i]]
           Elements(k) == UNION {ToSet(seqs[i]) : i \in 1 .. k}
<1>1. n \in Nat /\ << >> \in V /\ \A k \in 1 .. n : seqs[k] \in V
  OBVIOUS
<1>2. step \in [(1 .. n) \X V -> V]
  <2> SUFFICES ASSUME NEW k \in 1 .. n, NEW s \in V
               PROVE  s \o seqs[k] \in V
    OBVIOUS
  <2> QED
    BY <1>1, ConcatProperties
<1> HIDE DEF V
<1>3. PICK f \in [0 .. n -> V] : IsIndexedRecursion(f, n, << >>, step)
  <2> HIDE DEF step, n
  <2> QED
    BY <1>1, <1>2, IndexedRecursionExists
<1>4. ASSUME NEW k \in 1 .. n
      PROVE  f[k] = f[k - 1] \o seqs[k] /\ f[k - 1] \in V
  <2>1. k - 1 \in 0 .. n
    BY <1>1
  <2>2. f[k - 1] \in V
    BY <2>1
  <2>3. f[k] = step[<<k, f[k - 1]>>]
    BY <1>3 DEF IsIndexedRecursion
  <2> QED
    BY <2>2, <2>3
<1> DEFINE h == [i \in 1 .. n |-> f[i]]
<1>5. Rule(h)
  <2>1. ASSUME NEW i \in 1 .. n
        PROVE  h[i] = IF i = 1 THEN seqs[i] ELSE h[i - 1] \o seqs[i]
    <3>1. CASE i = 1
      <4> HIDE DEF h
      <4>0. f[i] = f[i - 1] \o seqs[i]
        BY <1>4
      <4>4. i - 1 = 0
        BY <3>1
      <4>1. f[1] = f[0] \o seqs[1] /\ f[0] = << >> /\ seqs[1] \in V
        <5>1. f[0] = << >>
          BY <1>3 DEF IsIndexedRecursion
        <5>2. seqs[1] \in V
          BY <1>1, <3>1
        <5> QED
          BY <3>1, <4>0, <4>4, <5>1, <5>2
      <4>2. << >> \o seqs[1] = seqs[1]
        BY <4>1, ConcatEmptySeq DEF V
      <4>3. f[1] = seqs[1]
        BY <4>1, <4>2
      <4> USE DEF h
      <4> QED
        BY <3>1, <4>3
    <3>2. CASE i # 1
      <4>1. i - 1 \in 1 .. n
        BY <1>1, <3>2
      <4> QED
        BY <1>4, <3>2, <4>1
    <3> QED
      BY <3>1, <3>2
  <2> QED
    BY <2>1
<1> DEFINE g == CHOOSE x : Rule(x)
<1>6. Rule(g)
  BY <1>5
<1>7. FlattenSeq(seqs) = IF n = 0 THEN seqs ELSE g[n]
  BY DEF FlattenSeq
<1> HIDE DEF g, h
<1>8. \A i \in 1 .. n : g[i] = IF i = 1 THEN seqs[i] ELSE g[i - 1] \o seqs[i]
  BY <1>6
<1> HIDE DEF Rule
<1> DEFINE Holds(k) == k = 0 \/ (g[k] \in V /\ ToSet(g[k]) = Elements(k))
           T == {k \in 0 .. n : Holds(k)}
<1>9. 0 \in T
  BY <1>1
<1>10. ASSUME NEW k \in 0 .. (n - 1), k \in T
       PROVE  k + 1 \in T
  <2>1. k + 1 \in 1 .. n /\ (k + 1) - 1 = k /\ k + 1 \in 0 .. n /\ seqs[k + 1] \in V
    BY <1>1
  <2>2. CASE k = 0
    <3>1. g[1] = seqs[1] /\ seqs[1] \in V
      BY <1>8, <2>1, <2>2
    <3>2. 1 .. 1 = {1}
      OBVIOUS
    <3>3. Elements(1) = ToSet(seqs[1])
      BY <3>2
    <3> QED
      BY <2>1, <2>2, <3>1, <3>3
  <2>3. CASE k # 0
    <3>1. g[k + 1] = g[k] \o seqs[k + 1] /\ g[k] \in V /\ ToSet(g[k]) = Elements(k)
      <4>1. k + 1 # 1
        BY <2>1, <2>3
      <4>2. g[k + 1] = g[(k + 1) - 1] \o seqs[k + 1]
        BY <1>8, <2>1, <4>1
      <4> HIDE DEF Elements
      <4> QED
        BY <1>10, <2>1, <2>3, <4>2
    <3> DEFINE r == g[k]
               s == seqs[k + 1]
    <3>2. r \o s \in Seq(S) /\ Range(r \o s) = Range(r) \cup Range(s)
      BY <2>1, <3>1, ConcatProperties, RangeConcatenation DEF V
    <3>3. \A x \in Seq(S) : ToSet(x) = Range(x)
      BY DEF ToSet, Range
    <3>4. ToSet(r \o s) = ToSet(r) \cup ToSet(s)
      BY <2>1, <3>1, <3>2, <3>3 DEF V
    <3>5. 1 .. k + 1 = (1 .. k) \cup {k + 1}
      BY <2>1
    <3>6. Elements(k + 1) = Elements(k) \cup ToSet(seqs[k + 1])
      BY <3>5
    <3>7. g[k + 1] \in V /\ ToSet(g[k + 1]) = Elements(k + 1)
      BY <3>1, <3>2, <3>4, <3>6 DEF V
    <3> HIDE DEF Elements
    <3> QED
      BY <2>1, <3>7
  <2> QED
    BY <2>2, <2>3
<1> HIDE DEF T
<1>11. 0 .. n \subseteq T
  BY <1>1, <1>9, <1>10, BoundedInduction
<1>12. n # 0 => g[n] \in V /\ ToSet(g[n]) = Elements(n)
  <2>1. n \in T
    BY <1>1, <1>11
  <2> HIDE DEF Elements
  <2> QED
    BY <2>1 DEF T
<1>13. CASE n = 0
  <2>1. seqs = << >>
    BY <1>13
  <2>2. FlattenSeq(seqs) = << >> /\ << >> \in Seq(S) /\ ToSet(<< >>) = {}
    BY <1>7, <1>13, <2>1 DEF ToSet
  <2>3. 1 .. n = {}
    BY <1>13
  <2> QED
    BY <2>2, <2>3
<1>14. CASE n # 0
  <2>1. FlattenSeq(seqs) = g[n]
    BY <1>7, <1>14
  <2>2. g[n] \in Seq(S) /\ ToSet(g[n]) = Elements(n)
    BY <1>12, <1>14 DEF V
  <2> QED
    BY <2>1, <2>2
<1> QED
  BY <1>13, <1>14

\* The list holds each pair of an element of x and one of y.
HoldsPairs(pairs, x, y) == ToSet(pairs) = ToSet(x) \X ToSet(y)

\* The list of all pairs of an element of one list and one of another.
LEMMA PairsFacts ==
    ASSUME NEW S, NEW x \in Seq(S), NEW y \in Seq(S),
           NEW pairs, pairs = FlattenSeq([i \in DOMAIN x |-> [j \in 1 .. Len(y) |-> <<x[i], y[j]>>]])
    PROVE  /\ pairs \in Seq(ToSet(x) \X ToSet(y))
           /\ HoldsPairs(pairs, x, y)
<1> DEFINE P == ToSet(x) \X ToSet(y)
           row == [i \in DOMAIN x |-> [j \in 1 .. Len(y) |-> <<x[i], y[j]>>]]
<1>1. /\ DOMAIN x = 1 .. Len(x) /\ Len(x) \in Nat /\ ToSet(x) = {x[i] : i \in 1 .. Len(x)}
      /\ DOMAIN y = 1 .. Len(y) /\ Len(y) \in Nat /\ ToSet(y) = {y[i] : i \in 1 .. Len(y)}
  BY ElementsOf
<1>2. ASSUME NEW i \in DOMAIN x
      PROVE  /\ row[i] \in Seq(P)
             /\ ToSet(row[i]) = {x[i]} \X ToSet(y)
  <2>1. row[i] = [j \in 1 .. Len(y) |-> <<x[i], y[j]>>]
    OBVIOUS
  <2>2. \A j \in 1 .. Len(y) : <<x[i], y[j]>> \in P
    BY <1>1
  <2>3. [j \in 1 .. Len(y) |-> <<x[i], y[j]>>] \in [1 .. Len(y) -> P]
    BY <2>2
  <2>4. [j \in 1 .. Len(y) |-> <<x[i], y[j]>>] \in Seq(P)
    BY <1>1, <2>3
  <2>5. ToSet([j \in 1 .. Len(y) |-> <<x[i], y[j]>>]) = {<<x[i], y[j]>> : j \in 1 .. Len(y)}
    BY DEF ToSet
  <2>6. {<<x[i], y[j]>> : j \in 1 .. Len(y)} = {x[i]} \X ToSet(y)
    BY <1>1
  <2> QED
    BY <2>1, <2>4, <2>5, <2>6
<1>3. row \in Seq(Seq(P)) /\ Len(row) = Len(x)
  <2>1. \A i \in 1 .. Len(x) : [j \in 1 .. Len(y) |-> <<x[i], y[j]>>] \in Seq(P)
    BY <1>1, <1>2
  <2>3. row \in [1 .. Len(x) -> Seq(P)]
    BY <1>1, <2>1
  <2> HIDE DEF row, P
  <2> QED
    BY <1>1, <2>3, FunctionIsList
<1>4. pairs = FlattenSeq(row)
  OBVIOUS
<1> HIDE DEF row, P
<1>5. pairs \in Seq(P) /\ ToSet(pairs) = UNION {ToSet(row[i]) : i \in 1 .. Len(row)}
  BY <1>3, <1>4, FlattenFacts
<1>6. UNION {ToSet(row[i]) : i \in 1 .. Len(row)} = ToSet(x) \X ToSet(y)
  <2>1. \A i \in 1 .. Len(x) : ToSet(row[i]) = {x[i]} \X ToSet(y)
    BY <1>1, <1>2
  <2>2. UNION {ToSet(row[i]) : i \in 1 .. Len(row)} = UNION {{x[i]} \X ToSet(y) : i \in 1 .. Len(x)}
    BY <1>3, <2>1
  <2> DEFINE Y == ToSet(y)
             all == UNION {{x[i]} \X Y : i \in 1 .. Len(x)}
             product == {x[i] : i \in 1 .. Len(x)} \X Y
  <2>3. all = product
    <3>1. \A p \in all : p \in product
      OBVIOUS
    <3>2. ASSUME NEW p \in product PROVE p \in all
      <4>1. PICK i \in 1 .. Len(x) : p[1] = x[i] /\ p[2] \in Y /\ p = <<x[i], p[2]>>
        OBVIOUS
      <4>2. p \in {x[i]} \X Y
        BY <4>1
      <4> QED
        BY <4>2
    <3> HIDE DEF all, product
    <3> QED
      BY <3>1, <3>2
  <2>4. {x[i] : i \in 1 .. Len(x)} = ToSet(x)
    BY <1>1
  <2> QED
    BY <2>2, <2>3, <2>4
<1> QED
  BY <1>5, <1>6 DEF P, HoldsPairs

-----------------------------------------------------------------------------

Ends(id) == {EdgeAt(id).a, EdgeAt(id).b}

PrepareShortcut ==
    [a : Nodes, b : Nodes, fwd : Nat \ {0}, bwd : {Inf}, skip1 : PrepareEdges, skip2 : PrepareEdges]

ShortcutsTyped ==
    /\ prepareShortcuts \in Seq(PrepareShortcut)
    /\ \A i \in 1 .. Len(prepareShortcuts) : prepareShortcuts[i].a # prepareShortcuts[i].b

\* The nodes that may still be listed.
Alive == {n \in Nodes : level[n] = MaxLevel \/ (phase = "contract" /\ n = node)}

\* Each prepare edge is listed at both of its ends or at none.
ListsInStep ==
    /\ \A n \in Nodes : IsInjective(out[n]) /\ IsInjective(in[n])
    /\ \A n \in Nodes, id \in PrepareEdges : id \in ToSet(out[n]) =>
          /\ n \in Alive /\ n \in Ends(id) /\ Weight(id, n) # Inf
          /\ id \in ToSet(in[AdjacentNode(id, n)])
    /\ \A n \in Nodes, id \in PrepareEdges : id \in ToSet(in[n]) =>
          /\ n \in Alive /\ n \in Ends(id)
          /\ id \in ToSet(out[AdjacentNode(id, n)])

ListsInv ==
    /\ graph \in Graphs
    /\ phase \in {"poll", "contract", "done"}
    /\ ShortcutsTyped
    /\ out \in [Nodes -> Seq(PrepareEdges)] /\ in \in [Nodes -> Seq(PrepareEdges)]
    /\ ListsInStep
    /\ phase = "contract" =>
          node \in Nodes /\ todo \in Seq(ToSet(in[node]) \X ToSet(out[node]))

-----------------------------------------------------------------------------

\* The base graph.
LEMMA BaseFacts ==
    ASSUME graph \in Graphs
    PROVE  /\ Nodes \subseteq Nat /\ IsFiniteSet(Nodes) /\ GetEdges \in Nat /\ Inf \notin Int
           /\ MaxLevel \in Nat
           /\ \A id \in 1 .. GetEdges :
                LET e == graph.edges[id]
                IN  /\ e.a \in Nodes /\ e.b \in Nodes /\ e.a # e.b
                    /\ e.fwd \in (Nat \ {0}) \cup {Inf} /\ e.bwd \in (Nat \ {0}) \cup {Inf}
<1>1. /\ graph.nodes \subseteq Nat /\ IsFiniteSet(graph.nodes)
      /\ graph.edges \in Seq(ToSet(graph.edges)) /\ Inf \notin Int
  BY GraphsAssumption
<1>2. Len(graph.edges) \in Nat /\ DOMAIN graph.edges = 1 .. Len(graph.edges)
  BY <1>1, LenProperties
<1>3. \A id \in 1 .. Len(graph.edges) :
         LET e == graph.edges[id]
         IN  /\ e.a \in graph.nodes /\ e.b \in graph.nodes /\ e.a # e.b
             /\ {e.fwd, e.bwd} \subseteq (Nat \ {0}) \cup {Inf}
  BY <1>2, GraphsAssumption
<1>4. \A id \in 1 .. Len(graph.edges) :
         LET e == graph.edges[id]
         IN  /\ e.a \in graph.nodes /\ e.b \in graph.nodes /\ e.a # e.b
             /\ e.fwd \in (Nat \ {0}) \cup {Inf} /\ e.bwd \in (Nat \ {0}) \cup {Inf}
  BY <1>3
<1>5. MaxLevel \in Nat
  BY <1>1, FS_CardinalityType DEF MaxLevel, Nodes
<1> QED
  BY <1>1, <1>2, <1>4, <1>5 DEF Nodes, GetEdges

\* The prepare edges.
LEMMA EdgeFacts ==
    ASSUME graph \in Graphs, ShortcutsTyped, NEW id \in PrepareEdges
    PROVE  /\ EdgeAt(id).a \in Nodes /\ EdgeAt(id).b \in Nodes /\ EdgeAt(id).a # EdgeAt(id).b
           /\ EdgeAt(id).fwd \in (Nat \ {0}) \cup {Inf} /\ EdgeAt(id).bwd \in (Nat \ {0}) \cup {Inf}
           /\ id \in Nat
           /\ IsShortcut(id) =>
                /\ id - GetEdges \in 1 .. Len(prepareShortcuts)
                /\ EdgeAt(id) = prepareShortcuts[id - GetEdges] /\ EdgeAt(id) \in PrepareShortcut
                /\ EdgeAt(id) = Shortcut(id)
<1>1. GetEdges \in Nat /\ Len(prepareShortcuts) \in Nat
  BY BaseFacts DEF ShortcutsTyped
<1>2. id \in 1 .. GetEdges + Len(prepareShortcuts)
  BY DEF PrepareEdges
<1>3. CASE IsShortcut(id)
  <2>1. id - GetEdges \in 1 .. Len(prepareShortcuts)
    BY <1>1, <1>2, <1>3 DEF IsShortcut
  <2>2. EdgeAt(id) = prepareShortcuts[id - GetEdges]
    BY <1>3 DEF EdgeAt, Shortcut
  <2>3. EdgeAt(id) \in PrepareShortcut /\ EdgeAt(id).a # EdgeAt(id).b
    <3>1. prepareShortcuts \in Seq(PrepareShortcut)
      BY DEF ShortcutsTyped
    <3>2. prepareShortcuts[id - GetEdges] \in PrepareShortcut
      BY <2>1, <3>1, ElementOfSeq
    <3> QED
      BY <2>1, <2>2, <3>2 DEF ShortcutsTyped
  <2>4. id \in Nat
    BY <1>1, <1>2
  <2> QED
    BY <2>1, <2>2, <2>3, <2>4 DEF PrepareShortcut, Shortcut
<1>4. CASE ~ IsShortcut(id)
  <2>1. id \in 1 .. GetEdges /\ id \in Nat
    BY <1>1, <1>2, <1>4 DEF IsShortcut
  <2>2. EdgeAt(id) = graph.edges[id]
    BY <1>4 DEF EdgeAt
  <2> QED
    BY <1>4, <2>1, <2>2, BaseFacts
<1> QED
  BY <1>3, <1>4

\* The two ends of a prepare edge.
LEMMA AdjacentFacts ==
    ASSUME graph \in Graphs, ShortcutsTyped, NEW id \in PrepareEdges, NEW n \in Ends(id)
    PROVE  /\ n \in Nodes /\ AdjacentNode(id, n) \in Nodes /\ AdjacentNode(id, n) # n
           /\ Ends(id) = {n, AdjacentNode(id, n)} /\ AdjacentNode(id, n) \in Ends(id)
           /\ AdjacentNode(id, AdjacentNode(id, n)) = n
           /\ Weight(id, n) \in (Nat \ {0}) \cup {Inf}
           /\ IsShortcut(id) /\ Weight(id, n) # Inf =>
                EdgeAt(id).a = n /\ EdgeAt(id).b = AdjacentNode(id, n) /\ Weight(id, n) = EdgeAt(id).fwd
<1>1. /\ EdgeAt(id).a \in Nodes /\ EdgeAt(id).b \in Nodes /\ EdgeAt(id).a # EdgeAt(id).b
      /\ EdgeAt(id).fwd \in (Nat \ {0}) \cup {Inf} /\ EdgeAt(id).bwd \in (Nat \ {0}) \cup {Inf}
      /\ IsShortcut(id) => EdgeAt(id) \in PrepareShortcut
  BY EdgeFacts
<1>2. IsShortcut(id) => EdgeAt(id).bwd = Inf
  BY <1>1 DEF PrepareShortcut
<1> QED
  BY <1>1, <1>2 DEF Ends, AdjacentNode, Weight

\* What is listed is a prepare edge.
LEMMA ListedFacts ==
    ASSUME ListsInv, NEW n \in Nodes
    PROVE  /\ ToSet(out[n]) \subseteq PrepareEdges /\ ToSet(in[n]) \subseteq PrepareEdges
           /\ out[n] \in Seq(PrepareEdges) /\ in[n] \in Seq(PrepareEdges)
           /\ \A id \in ToSet(out[n]) :
                /\ n \in Alive /\ n \in Ends(id) /\ Weight(id, n) # Inf
                /\ Weight(id, n) \in Nat \ {0}
                /\ id \in ToSet(in[AdjacentNode(id, n)]) /\ AdjacentNode(id, n) \in Alive
           /\ \A id \in ToSet(in[n]) :
                /\ n \in Alive /\ n \in Ends(id) /\ AdjacentNode(id, n) \in Alive
                /\ id \in ToSet(out[AdjacentNode(id, n)])
                /\ Weight(id, AdjacentNode(id, n)) \in Nat \ {0}
<1>1. out[n] \in Seq(PrepareEdges) /\ in[n] \in Seq(PrepareEdges)
  BY DEF ListsInv
<1>2. ToSet(out[n]) \subseteq PrepareEdges /\ ToSet(in[n]) \subseteq PrepareEdges
  BY <1>1, ElementsOf
<1>3. ListsInStep /\ graph \in Graphs /\ ShortcutsTyped
  BY DEF ListsInv
<1>4. ASSUME NEW id \in ToSet(out[n])
      PROVE  /\ n \in Alive /\ n \in Ends(id) /\ Weight(id, n) # Inf
             /\ Weight(id, n) \in Nat \ {0}
             /\ id \in ToSet(in[AdjacentNode(id, n)]) /\ AdjacentNode(id, n) \in Alive
  <2>1. id \in PrepareEdges
    BY <1>2
  <2>2. /\ n \in Alive /\ n \in Ends(id) /\ Weight(id, n) # Inf
        /\ id \in ToSet(in[AdjacentNode(id, n)])
    BY <1>3, <2>1 DEF ListsInStep
  <2>3. AdjacentNode(id, n) \in Nodes /\ Weight(id, n) \in (Nat \ {0}) \cup {Inf}
    BY <1>3, <2>1, <2>2, AdjacentFacts
  <2> QED
    BY <1>3, <2>1, <2>2, <2>3 DEF ListsInStep
<1>5. ASSUME NEW id \in ToSet(in[n])
      PROVE  /\ n \in Alive /\ n \in Ends(id) /\ AdjacentNode(id, n) \in Alive
             /\ id \in ToSet(out[AdjacentNode(id, n)])
             /\ Weight(id, AdjacentNode(id, n)) \in Nat \ {0}
  <2>1. id \in PrepareEdges
    BY <1>2
  <2>2. n \in Alive /\ n \in Ends(id) /\ id \in ToSet(out[AdjacentNode(id, n)])
    BY <1>3, <2>1 DEF ListsInStep
  <2> DEFINE m == AdjacentNode(id, n)
  <2>3. m \in Nodes /\ m \in Ends(id)
    BY <1>3, <2>1, <2>2, AdjacentFacts
  <2>4. m \in Alive /\ Weight(id, m) # Inf
    BY <1>3, <2>1, <2>2, <2>3 DEF ListsInStep
  <2>5. Weight(id, m) \in (Nat \ {0}) \cup {Inf}
    <3> HIDE DEF m
    <3> QED
      BY <1>3, <2>1, <2>3, AdjacentFacts
  <2> QED
    BY <2>2, <2>4, <2>5
<1> QED
  BY <1>1, <1>2, <1>4, <1>5

-----------------------------------------------------------------------------

\* BuildFromGraph lists each base edge where it leaves and where it arrives.
LEMMA InitLists == Init => ListsInv
<1> SUFFICES ASSUME Init PROVE ListsInv
  OBVIOUS
<1>1. /\ graph \in Graphs /\ phase = "poll" /\ prepareShortcuts = << >>
      /\ level = [n \in Nodes |-> MaxLevel]
  BY DEF Init, BuildFromGraph, EmptyStorage
<1>2. GetEdges \in Nat
  BY <1>1, BaseFacts
<1> DEFINE newest == [i \in 1 .. GetEdges |-> GetEdges + 1 - i]
           At(n) == {id \in 1 .. GetEdges : n \in {graph.edges[id].a, graph.edges[id].b}}
           Leaving(n) == {id \in At(n) :
              LET e == graph.edges[id] IN (IF e.a = n THEN e.fwd ELSE e.bwd) # Inf}
           Entering(n) == {id \in At(n) :
              LET e == graph.edges[id] IN (IF e.a = n THEN e.bwd ELSE e.fwd) # Inf}
<1>3. /\ out = [n \in Nodes |-> Keep(newest, Leaving(n))]
      /\ in = [n \in Nodes |-> Keep(newest, Entering(n))]
  BY DEF Init, BuildFromGraph
<1>4. PrepareEdges = 1 .. GetEdges
  BY <1>1, <1>2 DEF PrepareEdges
<1>5. newest \in Seq(PrepareEdges) /\ ToSet(newest) = PrepareEdges /\ IsInjective(newest)
  BY <1>2, <1>4, NewestFirstFacts
<1>6. \A id \in PrepareEdges : EdgeAt(id) = graph.edges[id]
  BY <1>2, <1>4 DEF EdgeAt, IsShortcut
<1>7. \A n : /\ Leaving(n) = {id \in PrepareEdges : n \in Ends(id) /\ Weight(id, n) # Inf}
             /\ Entering(n) = {id \in PrepareEdges : n \in Ends(id)
                                 /\ (IF EdgeAt(id).a = n THEN EdgeAt(id).bwd ELSE EdgeAt(id).fwd) # Inf}
  BY <1>4, <1>6 DEF Ends, Weight
<1> HIDE DEF newest, Leaving, Entering, At
<1>8. ASSUME NEW n \in Nodes
      PROVE  /\ out[n] \in Seq(PrepareEdges) /\ in[n] \in Seq(PrepareEdges)
             /\ IsInjective(out[n]) /\ IsInjective(in[n])
             /\ ToSet(out[n]) = Leaving(n) /\ ToSet(in[n]) = Entering(n)
  <2>1. out[n] = Keep(newest, Leaving(n)) /\ in[n] = Keep(newest, Entering(n))
    BY <1>3
  <2>2. Leaving(n) \subseteq PrepareEdges /\ Entering(n) \subseteq PrepareEdges
    BY <1>7
  <2>3. /\ Keep(newest, Leaving(n)) \in Seq(PrepareEdges)
        /\ ToSet(Keep(newest, Leaving(n))) = ToSet(newest) \cap Leaving(n)
        /\ IsInjective(Keep(newest, Leaving(n)))
    BY <1>5, KeepFacts
  <2>4. /\ Keep(newest, Entering(n)) \in Seq(PrepareEdges)
        /\ ToSet(Keep(newest, Entering(n))) = ToSet(newest) \cap Entering(n)
        /\ IsInjective(Keep(newest, Entering(n)))
    BY <1>5, KeepFacts
  <2> QED
    BY <1>5, <2>1, <2>2, <2>3, <2>4
<1>9. out \in [Nodes -> Seq(PrepareEdges)] /\ in \in [Nodes -> Seq(PrepareEdges)]
  BY <1>3, <1>8
<1>10. Alive = Nodes
  BY <1>1 DEF Alive
<1>11. ShortcutsTyped
  <2>1. << >> \in Seq(PrepareShortcut) /\ 1 .. Len(<< >>) = {}
    OBVIOUS
  <2> QED
    BY <1>1, <2>1 DEF ShortcutsTyped
<1>12. ASSUME NEW n \in Nodes, NEW id \in PrepareEdges, id \in ToSet(out[n])
       PROVE  /\ n \in Ends(id) /\ Weight(id, n) # Inf
              /\ id \in ToSet(in[AdjacentNode(id, n)])
  <2>1. n \in Ends(id) /\ Weight(id, n) # Inf
    BY <1>7, <1>8, <1>12
  <2> DEFINE m == AdjacentNode(id, n)
  <2>2. m \in Nodes /\ m # n /\ Ends(id) = {n, m}
    BY <1>1, <1>11, <2>1, AdjacentFacts
  <2>3. EdgeAt(id).a # EdgeAt(id).b
    BY <1>1, <1>11, EdgeFacts
  <2>4. (IF EdgeAt(id).a = m THEN EdgeAt(id).bwd ELSE EdgeAt(id).fwd) = Weight(id, n)
    BY <2>2, <2>3 DEF Ends, Weight
  <2>5. id \in Entering(m)
    BY <1>7, <2>1, <2>2, <2>4
  <2> QED
    BY <1>8, <2>1, <2>2, <2>5
<1>13. ASSUME NEW n \in Nodes, NEW id \in PrepareEdges, id \in ToSet(in[n])
       PROVE  n \in Ends(id) /\ id \in ToSet(out[AdjacentNode(id, n)])
  <2>1. /\ n \in Ends(id)
        /\ (IF EdgeAt(id).a = n THEN EdgeAt(id).bwd ELSE EdgeAt(id).fwd) # Inf
    BY <1>7, <1>8, <1>13
  <2> DEFINE m == AdjacentNode(id, n)
  <2>2. m \in Nodes /\ m # n /\ Ends(id) = {n, m}
    BY <1>1, <1>11, <2>1, AdjacentFacts
  <2>3. EdgeAt(id).a # EdgeAt(id).b
    BY <1>1, <1>11, EdgeFacts
  <2>4. (IF EdgeAt(id).a = n THEN EdgeAt(id).bwd ELSE EdgeAt(id).fwd) = Weight(id, m)
    BY <2>2, <2>3 DEF Ends, Weight
  <2>5. id \in Leaving(m)
    BY <1>7, <2>1, <2>2, <2>4
  <2> QED
    BY <1>8, <2>1, <2>2, <2>5
<1>14. ListsInStep
  BY <1>8, <1>10, <1>12, <1>13 DEF ListsInStep
<1> QED
  BY <1>1, <1>9, <1>11, <1>14 DEF ListsInv

\* The nodes that may be listed when the next node is polled.
LEMMA PollAlive ==
    ASSUME NEW n \in Nodes, PollNode(n), level \in [Nodes -> 0 .. MaxLevel],
           graph \in Graphs
    PROVE  /\ Alive' = Alive /\ Remaining' = Remaining \ {n} /\ n \in Remaining
           /\ level' = [level EXCEPT ![n] = Cardinality(Nodes \ Remaining)]
           /\ Cardinality(Nodes \ Remaining) \in 0 .. (MaxLevel - 1)
<1>1. /\ phase = "poll" /\ n \in Remaining /\ phase' = "contract" /\ node' = n
      /\ level' = [level EXCEPT ![n] = Cardinality(Nodes \ Remaining)]
      /\ Nodes' = Nodes /\ MaxLevel' = MaxLevel
  BY DEF PollNode, Nodes, MaxLevel
<1>2. Cardinality(Nodes \ Remaining) \in 0 .. (MaxLevel - 1)
  <2> DEFINE C == Nodes \ Remaining
  <2>1. IsFiniteSet(Nodes) /\ MaxLevel \in Nat
    BY BaseFacts
  <2>2. C \subseteq Nodes /\ n \notin C
    BY <1>1
  <2> HIDE DEF C
  <2>3. IsFiniteSet(C) /\ Cardinality(C) <= Cardinality(Nodes) /\ Cardinality(C) # Cardinality(Nodes)
    BY <2>1, <2>2, FS_Subset
  <2>4. Cardinality(C) \in Nat
    BY <2>3, FS_CardinalityType
  <2>5. Cardinality(C) \in 0 .. (MaxLevel - 1)
    BY <2>1, <2>3, <2>4 DEF MaxLevel
  <2> QED
    BY <2>5 DEF C
<1>3. MaxLevel \in Nat
  BY BaseFacts
<1>4. \A m \in Nodes : level'[m] = MaxLevel <=> level[m] = MaxLevel /\ m # n
  BY <1>1, <1>2, <1>3
<1>5. Remaining' = Remaining \ {n}
  BY <1>1, <1>4 DEF Remaining
<1>6. Alive = Remaining
  BY <1>1 DEF Alive, Remaining
<1>7. Alive' = Remaining' \cup {n}
  BY <1>1 DEF Alive, Remaining
<1> QED
  BY <1>1, <1>2, <1>5, <1>6, <1>7

\* Polling a node lists nothing anew.
LEMMA PollLists ==
    ASSUME ListsInv, level \in [Nodes -> 0 .. MaxLevel], NEW n \in Nodes, PollNode(n)
    PROVE  ListsInv'
<1>1. /\ graph' = graph /\ prepareShortcuts' = prepareShortcuts /\ out' = out /\ in' = in
      /\ phase' = "contract" /\ node' = n
      /\ todo' = FlattenSeq([i \in DOMAIN in[n] |->
                   [j \in 1 .. Len(out[n]) |-> <<in[n][i], out[n][j]>>]])
  BY DEF PollNode, prepareGraph
<1>2. graph \in Graphs
  BY DEF ListsInv
<1>3. Alive' = Alive
  BY <1>2, PollAlive
<1>4. Nodes' = Nodes /\ PrepareEdges' = PrepareEdges /\ PrepareShortcut' = PrepareShortcut
  BY <1>1 DEF Nodes, PrepareEdges, PrepareShortcut, GetEdges
<1>5. \A id : EdgeAt(id)' = EdgeAt(id)
  BY <1>1 DEF EdgeAt, Shortcut, IsShortcut, GetEdges
<1>6. \A id, m : /\ Ends(id)' = Ends(id) /\ AdjacentNode(id, m)' = AdjacentNode(id, m)
                 /\ Weight(id, m)' = Weight(id, m)
  BY <1>5 DEF Ends, AdjacentNode, Weight
<1>7. ListsInStep'
  <2>1. ListsInStep
    BY DEF ListsInv
  <2> QED
    BY <1>1, <1>3, <1>4, <1>6, <2>1 DEF ListsInStep
<1>8. todo' \in Seq(ToSet(in[n]) \X ToSet(out[n]))
  <2>1. out[n] \in Seq(PrepareEdges) /\ in[n] \in Seq(PrepareEdges)
    BY ListedFacts
  <2> QED
    BY <1>1, <2>1, PairsFacts
<1>9. ShortcutsTyped'
  BY <1>1, <1>4 DEF ListsInv, ShortcutsTyped
<1> QED
  BY <1>1, <1>2, <1>4, <1>7, <1>8, <1>9 DEF ListsInv

-----------------------------------------------------------------------------

\* The shortcut AddOrUpdateShortcut is asked for.
Asked(from, to, weight, inEdge, outEdge) ==
    [a |-> from, b |-> to, fwd |-> weight, bwd |-> Inf, skip1 |-> inEdge, skip2 |-> outEdge]

\* The shortcuts listed from one node to another.
Existing(from, to) == {id \in ToSet(out[from]) : IsShortcut(id) /\ AdjacentNode(id, from) = to}

\* An edge after a shortcut has been added or replaced.
EdgeAfter(id, from, to, weight, inEdge, outEdge) ==
    \/ EdgeAt(id)' = EdgeAt(id)
    \/ /\ IsShortcut(id) /\ EdgeAt(id).a = from /\ EdgeAt(id).b = to /\ EdgeAt(id).bwd = Inf
       /\ weight < EdgeAt(id).fwd
       /\ EdgeAt(id)' = Asked(from, to, weight, inEdge, outEdge)

\* There is a shortcut already; now it is light enough.
KeepsShortcuts(from, to, weight) ==
    /\ Existing(from, to) # {} /\ out' = out /\ in' = in /\ PrepareEdges' = PrepareEdges
    /\ \A id \in Existing(from, to) :
          /\ id \in PrepareEdges /\ EdgeAt(id)'.a = from /\ EdgeAt(id)'.b = to
          /\ EdgeAt(id)'.fwd \in Nat /\ EdgeAt(id)'.fwd <= weight

\* The shortcut id is new.
AddsShortcut(id, from, to, weight, inEdge, outEdge) ==
    /\ id \in PrepareEdges' \ PrepareEdges
    /\ PrepareEdges' = PrepareEdges \cup {id} /\ IsShortcut(id)
    /\ out' = [out EXCEPT ![from] = <<id>> \o @]
    /\ in' = [in EXCEPT ![to] = <<id>> \o @]
    /\ EdgeAt(id)' = Asked(from, to, weight, inEdge, outEdge)

\* A new shortcut is listed first; an old one keeps its place and its ends.
LEMMA AddMeaning ==
    ASSUME ListsInv, graph' = graph, NEW from \in Nodes, NEW to \in Nodes, from # to,
           NEW weight \in Nat \ {0}, NEW inEdge \in PrepareEdges, NEW outEdge \in PrepareEdges,
           AddOrUpdateShortcut(from, to, weight, inEdge, outEdge)
    PROVE  /\ PrepareEdges \subseteq PrepareEdges' /\ ShortcutsTyped'
           /\ \A id \in PrepareEdges : EdgeAfter(id, from, to, weight, inEdge, outEdge)
           /\ \/ KeepsShortcuts(from, to, weight)
              \/ \E id : AddsShortcut(id, from, to, weight, inEdge, outEdge)
<1> DEFINE new == Asked(from, to, weight, inEdge, outEdge)
           len == Len(prepareShortcuts)
<1>0. PICK next : next = GetEdges + len + 1
  OBVIOUS
<1>1. /\ graph \in Graphs /\ ShortcutsTyped /\ prepareShortcuts \in Seq(PrepareShortcut)
      /\ GetEdges \in Nat /\ len \in Nat /\ GetEdges' = GetEdges /\ Nodes' = Nodes
      /\ Inf \notin Int
  BY BaseFacts DEF ListsInv, ShortcutsTyped, GetEdges, Nodes
<1>2. new \in PrepareShortcut /\ new.a = from /\ new.b = to /\ new.fwd = weight
  BY DEF Asked, PrepareShortcut
<1>3. \A id : EdgeAt(id)' = IF id > GetEdges THEN prepareShortcuts'[id - GetEdges] ELSE graph.edges[id]
  BY <1>1 DEF EdgeAt, Shortcut, IsShortcut
<1>4. \A id : EdgeAt(id) = IF id > GetEdges THEN prepareShortcuts[id - GetEdges] ELSE graph.edges[id]
  BY DEF EdgeAt, Shortcut, IsShortcut
<1>5. CASE Existing(from, to) = {}
  <2>1. /\ prepareShortcuts' = Append(prepareShortcuts, new)
        /\ out' = [out EXCEPT ![from] = <<next>> \o @]
        /\ in' = [in EXCEPT ![to] = <<next>> \o @]
    BY <1>0, <1>5 DEF AddOrUpdateShortcut, Existing, Asked
  <2> HIDE DEF new
  <2>2. /\ prepareShortcuts' \in Seq(PrepareShortcut) /\ Len(prepareShortcuts') = len + 1
        /\ prepareShortcuts'[len + 1] = new
        /\ \A i \in 1 .. len : prepareShortcuts'[i] = prepareShortcuts[i]
    BY <1>1, <1>2, <2>1, AppendProperties
  <2>3. PrepareEdges' = 1 .. GetEdges + (len + 1)
    BY <1>1, <2>2 DEF PrepareEdges
  <2>4. PrepareEdges' = PrepareEdges \cup {next} /\ next \notin PrepareEdges /\ next \in PrepareEdges'
    BY <1>0, <1>1, <2>3 DEF PrepareEdges
  <2>5. PrepareShortcut \subseteq PrepareShortcut'
    BY <1>1, <2>4 DEF PrepareShortcut
  <2>6. ShortcutsTyped'
    <3>1. prepareShortcuts' \in Seq(PrepareShortcut')
      BY <2>2, <2>5, SeqMonotonic
    <3>2. ASSUME NEW i \in 1 .. len + 1
          PROVE  prepareShortcuts'[i].a # prepareShortcuts'[i].b
      <4>1. CASE i = len + 1
        BY <1>2, <2>2, <4>1
      <4>2. CASE i # len + 1
        <5>1. i \in 1 .. len
          BY <1>1, <4>2
        <5> QED
          BY <1>1, <2>2, <5>1 DEF ShortcutsTyped
      <4> QED
        BY <4>1, <4>2
    <3> QED
      BY <2>2, <3>1, <3>2 DEF ShortcutsTyped
  <2>7. ASSUME NEW id \in PrepareEdges PROVE EdgeAt(id)' = EdgeAt(id)
    <3>1. id \in 1 .. GetEdges + len
      BY DEF PrepareEdges
    <3>2. CASE id > GetEdges
      <4>1. id - GetEdges \in 1 .. len
        BY <1>1, <3>1, <3>2
      <4> QED
        BY <1>3, <1>4, <2>2, <3>2, <4>1
    <3>3. CASE ~ (id > GetEdges)
      BY <1>3, <1>4, <3>3
    <3> QED
      BY <3>2, <3>3
  <2>8. EdgeAt(next)' = new /\ IsShortcut(next)
    <3>1. next > GetEdges /\ next - GetEdges = len + 1
      BY <1>0, <1>1
    <3> QED
      BY <1>3, <2>2, <3>1 DEF IsShortcut
  <2>9. AddsShortcut(next, from, to, weight, inEdge, outEdge)
    BY <2>1, <2>4, <2>8 DEF AddsShortcut, new
  <2> QED
    BY <2>4, <2>6, <2>7, <2>9 DEF EdgeAfter, new
<1>6. CASE Existing(from, to) # {}
  <2> DEFINE Replaced(i) == GetEdges + i \in Existing(from, to) /\ weight < prepareShortcuts[i].fwd
  <2>1. /\ prepareShortcuts' = [i \in DOMAIN prepareShortcuts |->
                                  IF Replaced(i) THEN new ELSE prepareShortcuts[i]]
        /\ out' = out /\ in' = in
    BY <1>6 DEF AddOrUpdateShortcut, Existing, Asked
  <2>2. DOMAIN prepareShortcuts = 1 .. len
    BY <1>1
  <2> HIDE DEF new, Replaced
  <2>3. \A i \in 1 .. len : prepareShortcuts[i] \in PrepareShortcut
    BY <1>1
  <2>4. prepareShortcuts' \in [1 .. len -> PrepareShortcut]
    BY <1>2, <2>1, <2>2, <2>3
  <2>5. prepareShortcuts' \in Seq(PrepareShortcut) /\ Len(prepareShortcuts') = len
    BY <1>1, <2>4, FunctionIsList
  <2>6. PrepareEdges' = PrepareEdges
    BY <1>1, <2>5 DEF PrepareEdges
  <2>7. PrepareShortcut' = PrepareShortcut
    BY <1>1, <2>6 DEF PrepareShortcut
  <2>8. \A i \in 1 .. len : prepareShortcuts'[i] = IF Replaced(i) THEN new ELSE prepareShortcuts[i]
    BY <2>1, <2>2
  <2>9. ShortcutsTyped'
    <3>1. \A i \in 1 .. len : prepareShortcuts'[i].a # prepareShortcuts'[i].b
      BY <1>1, <1>2, <2>8 DEF ShortcutsTyped
    <3> QED
      BY <2>5, <2>7, <3>1 DEF ShortcutsTyped
  <2>10. ASSUME NEW id \in Existing(from, to)
         PROVE  /\ id \in PrepareEdges /\ IsShortcut(id) /\ id - GetEdges \in 1 .. len
                /\ EdgeAt(id) = prepareShortcuts[id - GetEdges]
                /\ EdgeAt(id).a = from /\ EdgeAt(id).b = to /\ EdgeAt(id).bwd = Inf
                /\ EdgeAt(id).fwd \in Nat
    <3>1. id \in ToSet(out[from]) /\ IsShortcut(id) /\ AdjacentNode(id, from) = to
      BY DEF Existing
    <3>2. id \in PrepareEdges /\ from \in Ends(id) /\ Weight(id, from) # Inf
      BY <3>1, ListedFacts
    <3>3. /\ id - GetEdges \in 1 .. len /\ EdgeAt(id) = prepareShortcuts[id - GetEdges]
          /\ EdgeAt(id) \in PrepareShortcut
      BY <1>1, <3>1, <3>2, EdgeFacts
    <3>4. EdgeAt(id).a = from /\ EdgeAt(id).b = to
      BY <1>1, <3>1, <3>2, AdjacentFacts
    <3> QED
      BY <3>1, <3>2, <3>3, <3>4 DEF PrepareShortcut
  <2>11. ASSUME NEW id \in PrepareEdges PROVE EdgeAfter(id, from, to, weight, inEdge, outEdge)
    <3>1. id \in 1 .. GetEdges + len
      BY DEF PrepareEdges
    <3>2. CASE id > GetEdges
      <4>1. id - GetEdges \in 1 .. len /\ GetEdges + (id - GetEdges) = id
        BY <1>1, <3>1, <3>2
      <4>2. EdgeAt(id)' = IF Replaced(id - GetEdges) THEN new ELSE EdgeAt(id)
        BY <1>3, <1>4, <2>8, <3>2, <4>1
      <4>3. CASE Replaced(id - GetEdges)
        <5>1. id \in Existing(from, to) /\ weight < prepareShortcuts[id - GetEdges].fwd
          BY <4>1, <4>3 DEF Replaced
        <5> QED
          BY <2>10, <4>2, <4>3, <5>1 DEF EdgeAfter, new
      <4>4. CASE ~ Replaced(id - GetEdges)
        BY <4>2, <4>4 DEF EdgeAfter
      <4> QED
        BY <4>3, <4>4
    <3>3. CASE ~ (id > GetEdges)
      BY <1>3, <1>4, <3>3 DEF EdgeAfter
    <3> QED
      BY <3>2, <3>3
  <2>12. ASSUME NEW id \in Existing(from, to)
         PROVE  /\ id \in PrepareEdges /\ EdgeAt(id)'.a = from /\ EdgeAt(id)'.b = to
                /\ EdgeAt(id)'.fwd \in Nat /\ EdgeAt(id)'.fwd <= weight
    <3>1. /\ id \in PrepareEdges /\ IsShortcut(id) /\ id - GetEdges \in 1 .. len
          /\ EdgeAt(id) = prepareShortcuts[id - GetEdges]
          /\ EdgeAt(id).a = from /\ EdgeAt(id).b = to
          /\ EdgeAt(id).fwd \in Nat
      BY <2>10
    <3>0. id \in Nat
      BY <1>1, <3>1 DEF PrepareEdges
    <3>2. id > GetEdges /\ GetEdges + (id - GetEdges) = id
      BY <1>1, <3>0, <3>1 DEF IsShortcut
    <3>3. EdgeAt(id)' = IF Replaced(id - GetEdges) THEN new ELSE EdgeAt(id)
      <4>1. EdgeAt(id)' = prepareShortcuts'[id - GetEdges]
        BY <1>3, <3>2
      <4>2. prepareShortcuts'[id - GetEdges]
              = IF Replaced(id - GetEdges) THEN new ELSE prepareShortcuts[id - GetEdges]
        BY <2>8, <3>1
      <4> QED
        BY <3>1, <4>1, <4>2
    <3>4. CASE Replaced(id - GetEdges)
      BY <1>2, <3>1, <3>3, <3>4
    <3>5. CASE ~ Replaced(id - GetEdges)
      <4>1. ~ (weight < EdgeAt(id).fwd)
        BY <3>1, <3>2, <3>5 DEF Replaced
      <4> QED
        BY <3>1, <3>3, <3>5, <4>1
    <3> QED
      BY <3>4, <3>5
  <2> QED
    <3>1. KeepsShortcuts(from, to, weight)
      BY <1>6, <2>1, <2>6, <2>12 DEF KeepsShortcuts
    <3>2. PrepareEdges \subseteq PrepareEdges'
      BY <2>6
    <3> QED
      BY <2>9, <2>11, <3>1, <3>2
<1> QED
  BY <1>5, <1>6

-----------------------------------------------------------------------------

\* The pair of edges that is handled next: from over the node to "to".
IsPair(inEdge, outEdge, from, to, w1, w2) ==
    /\ inEdge = Head(todo)[1] /\ outEdge = Head(todo)[2]
    /\ inEdge \in ToSet(in[node]) /\ outEdge \in ToSet(out[node])
    /\ inEdge \in PrepareEdges /\ outEdge \in PrepareEdges
    /\ node \in Nodes /\ node \in Ends(inEdge) /\ node \in Ends(outEdge)
    /\ from = AdjacentNode(inEdge, node) /\ to = AdjacentNode(outEdge, node)
    /\ from \in Alive /\ to \in Alive /\ from # node /\ to # node
    /\ from \in Nodes /\ to \in Nodes
    /\ w1 = Weight(inEdge, from) /\ w2 = Weight(outEdge, node)
    /\ w1 \in Nat \ {0} /\ w2 \in Nat \ {0}

\* What HandlePair does: the pair it handles, and whether a shortcut is added.
LEMMA HandleMeaning ==
    ASSUME ListsInv, HandlePair
    PROVE  \E inEdge, outEdge, from, to, w1, w2 :
              /\ IsPair(inEdge, outEdge, from, to, w1, w2)
              /\ \/ (from = to \/ Witness(from, to, w1 + w2)) /\ UNCHANGED prepareGraph
                 \/ /\ from # to /\ AddOrUpdateShortcut(from, to, w1 + w2, inEdge, outEdge)
                    /\ shortcutFor' = shortcutFor
<1>1. PICK inEdge, outEdge, from, to, w1, w2 :
         /\ inEdge = Head(todo)[1] /\ outEdge = Head(todo)[2]
         /\ from = AdjacentNode(inEdge, node) /\ to = AdjacentNode(outEdge, node)
         /\ w1 = Weight(inEdge, from) /\ w2 = Weight(outEdge, node)
  OBVIOUS
<1>2. phase = "contract" /\ todo # << >>
  BY DEF HandlePair
<1>3. node \in Nodes /\ todo \in Seq(ToSet(in[node]) \X ToSet(out[node]))
  BY <1>2 DEF ListsInv
<1>4. Head(todo) \in ToSet(in[node]) \X ToSet(out[node])
  BY <1>2, <1>3, HeadTailProperties
<1>5. inEdge \in ToSet(in[node]) /\ outEdge \in ToSet(out[node])
  BY <1>1, <1>4
<1>6. /\ inEdge \in PrepareEdges /\ outEdge \in PrepareEdges
      /\ node \in Ends(inEdge) /\ node \in Ends(outEdge) /\ from \in Alive /\ to \in Alive
      /\ w1 \in Nat \ {0} /\ w2 \in Nat \ {0}
  BY <1>1, <1>3, <1>5, ListedFacts
<1>7. graph \in Graphs /\ ShortcutsTyped
  BY DEF ListsInv
<1>8. from # node /\ to # node /\ from \in Nodes /\ to \in Nodes
  BY <1>1, <1>6, <1>7, AdjacentFacts
<1>9. IsPair(inEdge, outEdge, from, to, w1, w2)
  BY <1>1, <1>3, <1>5, <1>6, <1>8 DEF IsPair
<1>10. \/ (from = to \/ Witness(from, to, w1 + w2)) /\ UNCHANGED prepareGraph
       \/ /\ from # to /\ AddOrUpdateShortcut(from, to, w1 + w2, inEdge, outEdge)
          /\ shortcutFor' = shortcutFor
  BY <1>1 DEF HandlePair
<1> QED
  BY <1>9, <1>10

\* The ends of an edge, and where it is passable, are those it was added with.
LEMMA EdgeAfterFacts ==
    ASSUME ListsInv, NEW id \in PrepareEdges, NEW from, NEW to, NEW weight \in Nat,
           NEW inEdge, NEW outEdge, EdgeAfter(id, from, to, weight, inEdge, outEdge)
    PROVE  /\ Ends(id)' = Ends(id)
           /\ \A n : AdjacentNode(id, n)' = AdjacentNode(id, n)
           /\ \A n : Weight(id, n)' = Inf <=> Weight(id, n) = Inf
<1>1. graph \in Graphs /\ ShortcutsTyped
  BY DEF ListsInv
<1>2. Inf \notin Int
  BY <1>1, BaseFacts
<1>3. CASE EdgeAt(id)' = EdgeAt(id)
  BY <1>3 DEF Ends, AdjacentNode, Weight
<1>4. CASE /\ IsShortcut(id) /\ EdgeAt(id).a = from /\ EdgeAt(id).b = to /\ EdgeAt(id).bwd = Inf
           /\ weight < EdgeAt(id).fwd
           /\ EdgeAt(id)' = Asked(from, to, weight, inEdge, outEdge)
  <2>1. EdgeAt(id)'.a = from /\ EdgeAt(id)'.b = to /\ EdgeAt(id)'.fwd = weight /\ EdgeAt(id)'.bwd = Inf
    BY <1>4 DEF Asked
  <2>2. EdgeAt(id).fwd # Inf
    <3>1. EdgeAt(id) \in PrepareShortcut
      BY <1>1, <1>4, EdgeFacts
    <3> QED
      BY <1>2, <3>1 DEF PrepareShortcut
  <2> QED
    BY <1>2, <1>4, <2>1, <2>2 DEF Ends, AdjacentNode, Weight
<1> QED
  BY <1>3, <1>4 DEF EdgeAfter

\* Handling a pair keeps the lists in step.
LEMMA HandleLists ==
    ASSUME ListsInv, HandlePair
    PROVE  ListsInv'
<1>1. /\ graph' = graph /\ level' = level /\ phase' = phase /\ node' = node /\ phase = "contract"
      /\ todo # << >> /\ todo' = Tail(todo)
  BY DEF HandlePair, storage
<1>2. /\ graph \in Graphs /\ ShortcutsTyped /\ Nodes' = Nodes /\ MaxLevel' = MaxLevel
      /\ node \in Nodes /\ todo \in Seq(ToSet(in[node]) \X ToSet(out[node]))
      /\ out \in [Nodes -> Seq(PrepareEdges)] /\ in \in [Nodes -> Seq(PrepareEdges)]
      /\ ListsInStep
  BY <1>1 DEF ListsInv, Nodes, MaxLevel
<1>3. Alive' = Alive
  BY <1>1, <1>2 DEF Alive
<1>4. Tail(todo) \in Seq(ToSet(in[node]) \X ToSet(out[node]))
  BY <1>1, <1>2, HeadTailProperties
<1>5. PICK inEdge, outEdge, from, to, w1, w2 :
         /\ IsPair(inEdge, outEdge, from, to, w1, w2)
         /\ \/ (from = to \/ Witness(from, to, w1 + w2)) /\ UNCHANGED prepareGraph
            \/ /\ from # to /\ AddOrUpdateShortcut(from, to, w1 + w2, inEdge, outEdge)
               /\ shortcutFor' = shortcutFor
  BY HandleMeaning
<1>6. CASE UNCHANGED prepareGraph
  <2>1. prepareShortcuts' = prepareShortcuts /\ out' = out /\ in' = in
    BY <1>6 DEF prepareGraph
  <2>2. PrepareEdges' = PrepareEdges /\ PrepareShortcut' = PrepareShortcut
    BY <1>1, <1>2, <2>1 DEF PrepareEdges, PrepareShortcut, GetEdges
  <2>3. \A id : EdgeAt(id)' = EdgeAt(id)
    BY <1>1, <2>1 DEF EdgeAt, Shortcut, IsShortcut, GetEdges
  <2>4. \A id, m : /\ Ends(id)' = Ends(id) /\ AdjacentNode(id, m)' = AdjacentNode(id, m)
                   /\ Weight(id, m)' = Weight(id, m)
    BY <2>3 DEF Ends, AdjacentNode, Weight
  <2>5. ListsInStep'
    BY <1>2, <1>3, <2>1, <2>2, <2>4 DEF ListsInStep
  <2>6. ShortcutsTyped'
    BY <1>2, <2>1, <2>2 DEF ShortcutsTyped
  <2> QED
    BY <1>1, <1>2, <1>4, <2>1, <2>2, <2>5, <2>6 DEF ListsInv
<1>7. CASE from # to /\ AddOrUpdateShortcut(from, to, w1 + w2, inEdge, outEdge)
  <2>1. PICK weight \in Nat \ {0} : weight = w1 + w2
    <3>1. w1 \in Nat \ {0} /\ w2 \in Nat \ {0}
      BY <1>5 DEF IsPair
    <3> QED
      BY <3>1
  <2>2. /\ from \in Nodes /\ to \in Nodes /\ from \in Alive /\ to \in Alive
        /\ from # node /\ to # node /\ inEdge \in PrepareEdges /\ outEdge \in PrepareEdges
    BY <1>5 DEF IsPair
  <2>3. AddOrUpdateShortcut(from, to, weight, inEdge, outEdge)
    BY <1>7, <2>1
  <2>4. /\ PrepareEdges \subseteq PrepareEdges' /\ ShortcutsTyped'
        /\ \A id \in PrepareEdges : EdgeAfter(id, from, to, weight, inEdge, outEdge)
        /\ \/ KeepsShortcuts(from, to, weight)
           \/ \E id : AddsShortcut(id, from, to, weight, inEdge, outEdge)
    BY <1>1, <1>7, <2>2, <2>3, AddMeaning
  <2>5. \A id \in PrepareEdges :
           /\ Ends(id)' = Ends(id)
           /\ \A n : AdjacentNode(id, n)' = AdjacentNode(id, n)
           /\ \A n : Weight(id, n)' = Inf <=> Weight(id, n) = Inf
    BY <2>4, EdgeAfterFacts
  <2>6. CASE KeepsShortcuts(from, to, weight)
    <3>1. out' = out /\ in' = in /\ PrepareEdges' = PrepareEdges
      BY <2>6 DEF KeepsShortcuts
    <3>2. ListsInStep'
      BY <1>2, <1>3, <2>5, <3>1 DEF ListsInStep
    <3> QED
      BY <1>1, <1>2, <1>4, <2>4, <3>1, <3>2 DEF ListsInv
  <2>7. CASE \E id : AddsShortcut(id, from, to, weight, inEdge, outEdge)
    <3>0. PICK new : AddsShortcut(new, from, to, weight, inEdge, outEdge)
      BY <2>7
    <3>1. /\ new \in PrepareEdges' /\ new \notin PrepareEdges
          /\ PrepareEdges' = PrepareEdges \cup {new}
          /\ out' = [out EXCEPT ![from] = <<new>> \o @]
          /\ in' = [in EXCEPT ![to] = <<new>> \o @]
          /\ EdgeAt(new)' = Asked(from, to, weight, inEdge, outEdge)
      BY <3>0 DEF AddsShortcut
    <3> DEFINE P == PrepareEdges \cup {new}
    <3>2. \A n \in Nodes : out[n] \in Seq(PrepareEdges) /\ in[n] \in Seq(PrepareEdges)
      BY <1>2
    <3>3. \A n \in Nodes : /\ ToSet(out[n]) \subseteq PrepareEdges /\ ToSet(in[n]) \subseteq PrepareEdges
                           /\ out[n] \in Seq(P) /\ in[n] \in Seq(P)
      <4>1. PrepareEdges \subseteq P
        OBVIOUS
      <4> HIDE DEF P
      <4> QED
        BY <3>2, <4>1, ElementsOf, SeqMonotonic
    <3>4. \A n \in Nodes : /\ out'[n] = IF n = from THEN <<new>> \o out[n] ELSE out[n]
                           /\ in'[n] = IF n = to THEN <<new>> \o in[n] ELSE in[n]
      BY <1>2, <3>1
    <3>5. \A n \in Nodes : IsInjective(out[n]) /\ IsInjective(in[n])
      BY <1>2 DEF ListsInStep
    <3>6. new \in P /\ new \notin PrepareEdges
      BY <3>1
    <3>7. \A n \in Nodes :
             /\ <<new>> \o out[n] \in Seq(P) /\ IsInjective(<<new>> \o out[n])
             /\ ToSet(<<new>> \o out[n]) = {new} \cup ToSet(out[n])
             /\ <<new>> \o in[n] \in Seq(P) /\ IsInjective(<<new>> \o in[n])
             /\ ToSet(<<new>> \o in[n]) = {new} \cup ToSet(in[n])
      <4> HIDE DEF P
      <4> TAKE n \in Nodes
      <4>1. /\ out[n] \in Seq(P) /\ in[n] \in Seq(P) /\ IsInjective(out[n]) /\ IsInjective(in[n])
            /\ new \notin ToSet(out[n]) /\ new \notin ToSet(in[n]) /\ new \in P
        BY <3>3, <3>5, <3>6
      <4> QED
        BY <4>1, PrependFacts
    <3>8. \A n \in Nodes :
             /\ out'[n] \in Seq(P) /\ in'[n] \in Seq(P)
             /\ IsInjective(out'[n]) /\ IsInjective(in'[n])
             /\ \A id : id \in ToSet(out'[n]) <=> id \in ToSet(out[n]) \/ (n = from /\ id = new)
             /\ \A id : id \in ToSet(in'[n]) <=> id \in ToSet(in[n]) \/ (n = to /\ id = new)
      <4> HIDE DEF P
      <4> TAKE n \in Nodes
      <4>1. CASE n = from /\ n # to
        BY <3>3, <3>4, <3>5, <3>7, <4>1
      <4>2. CASE n = to /\ n # from
        BY <3>3, <3>4, <3>5, <3>7, <4>2
      <4>3. CASE n # from /\ n # to
        BY <3>3, <3>4, <3>5, <3>7, <4>3
      <4> QED
        BY <1>7, <4>1, <4>2, <4>3
    <3>9. out' \in [Nodes -> Seq(P)] /\ in' \in [Nodes -> Seq(P)]
      <4>1. out' = [n \in Nodes |-> out'[n]] /\ in' = [n \in Nodes |-> in'[n]]
        BY <1>2, <3>1
      <4> HIDE DEF P
      <4> QED
        BY <3>8, <4>1
    <3>10. /\ EdgeAt(new)'.a = from /\ EdgeAt(new)'.b = to /\ EdgeAt(new)'.fwd = weight
           /\ Ends(new)' = {from, to} /\ AdjacentNode(new, from)' = to /\ AdjacentNode(new, to)' = from
           /\ Weight(new, from)' # Inf
      <4>1. /\ EdgeAt(new)'.a = from /\ EdgeAt(new)'.b = to /\ EdgeAt(new)'.fwd = weight
        BY <3>1 DEF Asked
      <4>2. Inf \notin Int
        BY <1>2, BaseFacts
      <4> QED
        BY <1>7, <4>1, <4>2 DEF Ends, AdjacentNode, Weight
    <3>11. ASSUME NEW n \in Nodes, NEW id \in P, id \in ToSet(out'[n])
           PROVE  /\ n \in Alive /\ n \in Ends(id)' /\ Weight(id, n)' # Inf
                  /\ id \in ToSet(in'[AdjacentNode(id, n)'])
      <4>1. CASE id = new
        <5>1. n = from
          BY <3>3, <3>6, <3>8, <3>11, <4>1
        <5> QED
          BY <2>2, <3>8, <3>10, <4>1, <5>1
      <4>2. CASE id # new
        <5>1. id \in PrepareEdges /\ id \in ToSet(out[n])
          BY <3>8, <3>11, <4>2
        <5>2. /\ n \in Alive /\ n \in Ends(id) /\ Weight(id, n) # Inf
              /\ id \in ToSet(in[AdjacentNode(id, n)])
          BY <1>2, <5>1 DEF ListsInStep
        <5>3. AdjacentNode(id, n) \in Nodes
          BY <1>2, <5>1, <5>2, AdjacentFacts
        <5> QED
          BY <2>5, <3>8, <5>1, <5>2, <5>3
      <4> QED
        BY <4>1, <4>2
    <3>12. ASSUME NEW n \in Nodes, NEW id \in P, id \in ToSet(in'[n])
           PROVE  n \in Alive /\ n \in Ends(id)' /\ id \in ToSet(out'[AdjacentNode(id, n)'])
      <4>1. CASE id = new
        <5>1. n = to
          BY <3>3, <3>6, <3>8, <3>12, <4>1
        <5> QED
          BY <2>2, <3>8, <3>10, <4>1, <5>1
      <4>2. CASE id # new
        <5>1. id \in PrepareEdges /\ id \in ToSet(in[n])
          BY <3>8, <3>12, <4>2
        <5>2. n \in Alive /\ n \in Ends(id) /\ id \in ToSet(out[AdjacentNode(id, n)])
          BY <1>2, <5>1 DEF ListsInStep
        <5>3. AdjacentNode(id, n) \in Nodes
          BY <1>2, <5>1, <5>2, AdjacentFacts
        <5> QED
          BY <2>5, <3>8, <5>1, <5>2, <5>3
      <4> QED
        BY <4>1, <4>2
    <3>13. PrepareEdges' = P
      BY <3>1
    <3> HIDE DEF P
    <3>14. ListsInStep'
      BY <1>2, <1>3, <3>8, <3>11, <3>12, <3>13 DEF ListsInStep
    <3>15. out'[node] = out[node] /\ in'[node] = in[node]
      BY <1>2, <2>2, <3>4
    <3> QED
      BY <1>1, <1>2, <1>4, <2>4, <3>9, <3>13, <3>14, <3>15 DEF ListsInv
  <2> QED
    BY <2>4, <2>6, <2>7
<1> QED
  BY <1>5, <1>6, <1>7

-----------------------------------------------------------------------------

\* The prepare edges do not depend on the lists.
LEMMA EdgesStay ==
    ASSUME graph' = graph, prepareShortcuts' = prepareShortcuts
    PROVE  /\ Nodes' = Nodes /\ MaxLevel' = MaxLevel /\ GetEdges' = GetEdges
           /\ PrepareEdges' = PrepareEdges /\ PrepareShortcut' = PrepareShortcut
           /\ \A id : /\ EdgeAt(id)' = EdgeAt(id) /\ Ends(id)' = Ends(id)
                      /\ Shortcut(id)' = Shortcut(id) /\ IsShortcut(id)' = IsShortcut(id)
           /\ \A id, n : /\ AdjacentNode(id, n)' = AdjacentNode(id, n)
                         /\ Weight(id, n)' = Weight(id, n)
           /\ ShortcutsTyped' <=> ShortcutsTyped
<1>1. Nodes' = Nodes /\ MaxLevel' = MaxLevel /\ GetEdges' = GetEdges
  BY DEF Nodes, MaxLevel, GetEdges
<1>2. PrepareEdges' = PrepareEdges
  BY <1>1 DEF PrepareEdges
<1>3. PrepareShortcut' = PrepareShortcut
  BY <1>1, <1>2 DEF PrepareShortcut
<1>4. \A id : IsShortcut(id)' = IsShortcut(id)
  BY <1>1 DEF IsShortcut
<1>5. \A id : Shortcut(id)' = Shortcut(id)
  BY <1>1 DEF Shortcut
<1>6. \A id : EdgeAt(id)' = EdgeAt(id)
  BY <1>4, <1>5 DEF EdgeAt
<1>7. \A id : Ends(id)' = Ends(id)
  BY <1>6 DEF Ends
<1>8. \A id, n : AdjacentNode(id, n)' = AdjacentNode(id, n) /\ Weight(id, n)' = Weight(id, n)
  BY <1>6 DEF AdjacentNode, Weight
<1>9. ShortcutsTyped' <=> ShortcutsTyped
  BY <1>3 DEF ShortcutsTyped
<1> QED
  BY <1>1, <1>2, <1>3, <1>4, <1>5, <1>6, <1>7, <1>8, <1>9

\* A step that changes no list and none of the nodes that may be listed.
LEMMA SameLists ==
    ASSUME ListsInv, graph' = graph, prepareShortcuts' = prepareShortcuts, out' = out, in' = in,
           level' = level, node' = node, todo' = todo,
           phase' = phase \/ (phase = "poll" /\ phase' = "done")
    PROVE  ListsInv' /\ Alive' = Alive
<1>1. /\ Nodes' = Nodes /\ MaxLevel' = MaxLevel
      /\ PrepareEdges' = PrepareEdges
      /\ \A id : Ends(id)' = Ends(id)
      /\ \A id, n : /\ AdjacentNode(id, n)' = AdjacentNode(id, n)
                    /\ Weight(id, n)' = Weight(id, n)
      /\ ShortcutsTyped' <=> ShortcutsTyped
  BY EdgesStay
<1>2. phase' = "contract" <=> phase = "contract"
  OBVIOUS
<1>3. Alive' = Alive
  BY <1>1, <1>2 DEF Alive
<1>4. ListsInStep'
  BY <1>1, <1>3 DEF ListsInv, ListsInStep
<1> QED
  BY <1>1, <1>2, <1>3, <1>4 DEF ListsInv

\* What Disconnect leaves in the lists.
LEMMA DisconnectMeaning ==
    ASSUME ListsInv, graph' = graph, prepareShortcuts' = prepareShortcuts, Disconnect,
           node \in Nodes
    PROVE  /\ out' \in [Nodes -> Seq(PrepareEdges)] /\ in' \in [Nodes -> Seq(PrepareEdges)]
           /\ \A n \in Nodes : IsInjective(out'[n]) /\ IsInjective(in'[n])
           /\ \A n \in Nodes : \A id :
                /\ id \in ToSet(out'[n]) <=> id \in ToSet(out[n]) /\ n # node /\ AdjacentNode(id, n) # node
                /\ id \in ToSet(in'[n]) <=> id \in ToSet(in[n]) /\ n # node /\ AdjacentNode(id, n) # node
<1>1. /\ Nodes' = Nodes /\ graph \in Graphs /\ ShortcutsTyped /\ ListsInStep
      /\ out \in [Nodes -> Seq(PrepareEdges)] /\ in \in [Nodes -> Seq(PrepareEdges)]
  BY DEF ListsInv, Nodes
<1>2. /\ in' = [n \in Nodes |-> IF n = node THEN << >>
                ELSE Keep(in[n], ToSet(in[n]) \ ToSet(out[node]))]
      /\ out' = [n \in Nodes |-> IF n = node THEN << >>
                ELSE Keep(out[n], ToSet(out[n]) \ ToSet(in[node]))]
  BY DEF Disconnect
<1>3. ToSet(<< >>) = {} /\ IsInjective(<< >>) /\ << >> \in Seq(PrepareEdges)
  BY DEF ToSet, IsInjective
<1>4. ASSUME NEW n \in Nodes
      PROVE  /\ out'[n] \in Seq(PrepareEdges) /\ in'[n] \in Seq(PrepareEdges)
             /\ IsInjective(out'[n]) /\ IsInjective(in'[n])
             /\ ToSet(out'[n]) = IF n = node THEN {} ELSE ToSet(out[n]) \ ToSet(in[node])
             /\ ToSet(in'[n]) = IF n = node THEN {} ELSE ToSet(in[n]) \ ToSet(out[node])
  <2>1. out[n] \in Seq(PrepareEdges) /\ in[n] \in Seq(PrepareEdges)
        /\ IsInjective(out[n]) /\ IsInjective(in[n])
    BY <1>1 DEF ListsInStep
  <2> DEFINE I == ToSet(in[n]) \ ToSet(out[node])
             O == ToSet(out[n]) \ ToSet(in[node])
  <2>2. /\ out'[n] = IF n = node THEN << >> ELSE Keep(out[n], O)
        /\ in'[n] = IF n = node THEN << >> ELSE Keep(in[n], I)
    BY <1>2
  <2>3. ToSet(in[n]) \cap I = I /\ ToSet(out[n]) \cap O = O
    OBVIOUS
  <2> HIDE DEF I, O
  <2>4. /\ Keep(out[n], O) \in Seq(PrepareEdges) /\ ToSet(Keep(out[n], O)) = O
        /\ IsInjective(Keep(out[n], O))
    BY <2>1, <2>3, KeepFacts
  <2>5. /\ Keep(in[n], I) \in Seq(PrepareEdges) /\ ToSet(Keep(in[n], I)) = I
        /\ IsInjective(Keep(in[n], I))
    BY <2>1, <2>3, KeepFacts
  <2>6. CASE n = node
    BY <1>3, <2>2, <2>6
  <2>7. CASE n # node
    BY <2>2, <2>4, <2>5, <2>7 DEF I, O
  <2> QED
    BY <2>6, <2>7
<1>5. ASSUME NEW n \in Nodes, NEW id, n # node, id \in ToSet(out[n])
      PROVE  id \in ToSet(in[node]) <=> AdjacentNode(id, n) = node
  <2>1. id \in PrepareEdges /\ n \in Ends(id) /\ id \in ToSet(in[AdjacentNode(id, n)])
    BY <1>5, ListedFacts
  <2>2. ASSUME id \in ToSet(in[node]) PROVE AdjacentNode(id, n) = node
    <3>1. node \in Ends(id)
      BY <2>2, ListedFacts
    <3> QED
      BY <1>1, <1>5, <2>1, <3>1, AdjacentFacts
  <2> QED
    BY <2>1, <2>2
<1>6. ASSUME NEW n \in Nodes, NEW id, n # node, id \in ToSet(in[n])
      PROVE  id \in ToSet(out[node]) <=> AdjacentNode(id, n) = node
  <2>1. id \in PrepareEdges /\ n \in Ends(id) /\ id \in ToSet(out[AdjacentNode(id, n)])
    BY <1>6, ListedFacts
  <2>2. ASSUME id \in ToSet(out[node]) PROVE AdjacentNode(id, n) = node
    <3>1. node \in Ends(id)
      BY <2>2, ListedFacts
    <3> QED
      BY <1>1, <1>6, <2>1, <3>1, AdjacentFacts
  <2> QED
    BY <2>1, <2>2
<1>7. out' \in [Nodes -> Seq(PrepareEdges)] /\ in' \in [Nodes -> Seq(PrepareEdges)]
  BY <1>2, <1>4
<1> QED
  BY <1>4, <1>5, <1>6, <1>7

\* Storing the shortcuts of a node takes its edges off all lists.
LEMMA InsertLists ==
    ASSUME ListsInv, InsertShortcuts
    PROVE  ListsInv'
<1>1. /\ graph' = graph /\ level' = level /\ prepareShortcuts' = prepareShortcuts /\ node' = node
      /\ phase = "contract" /\ phase' = "poll" /\ Disconnect
  BY DEF InsertShortcuts
<1>2. /\ graph \in Graphs /\ ShortcutsTyped /\ ListsInStep /\ node \in Nodes
  BY <1>1 DEF ListsInv
<1>3. /\ Nodes' = Nodes /\ MaxLevel' = MaxLevel /\ PrepareEdges' = PrepareEdges
      /\ \A id : Ends(id)' = Ends(id)
      /\ \A id, n : /\ AdjacentNode(id, n)' = AdjacentNode(id, n)
                    /\ Weight(id, n)' = Weight(id, n)
      /\ ShortcutsTyped'
  BY <1>1, <1>2, EdgesStay
<1>4. /\ out' \in [Nodes -> Seq(PrepareEdges)] /\ in' \in [Nodes -> Seq(PrepareEdges)]
      /\ \A n \in Nodes : IsInjective(out'[n]) /\ IsInjective(in'[n])
      /\ \A n \in Nodes : \A id :
           /\ id \in ToSet(out'[n]) <=> id \in ToSet(out[n]) /\ n # node /\ AdjacentNode(id, n) # node
           /\ id \in ToSet(in'[n]) <=> id \in ToSet(in[n]) /\ n # node /\ AdjacentNode(id, n) # node
  BY <1>1, <1>2, DisconnectMeaning
<1>5. \A n \in Alive : n # node => n \in Alive'
  BY <1>1, <1>3 DEF Alive
<1>6. ASSUME NEW n \in Nodes, NEW id \in PrepareEdges, id \in ToSet(out'[n])
      PROVE  /\ n \in Alive' /\ n \in Ends(id) /\ Weight(id, n) # Inf
             /\ id \in ToSet(in'[AdjacentNode(id, n)])
  <2>1. id \in ToSet(out[n]) /\ n # node /\ AdjacentNode(id, n) # node
    BY <1>4, <1>6
  <2>2. n \in Alive /\ n \in Ends(id) /\ Weight(id, n) # Inf /\ id \in ToSet(in[AdjacentNode(id, n)])
    BY <1>2, <2>1 DEF ListsInStep
  <2>3. AdjacentNode(id, n) \in Nodes /\ AdjacentNode(id, AdjacentNode(id, n)) = n
    BY <1>2, <2>2, AdjacentFacts
  <2> QED
    BY <1>4, <1>5, <2>1, <2>2, <2>3
<1>7. ASSUME NEW n \in Nodes, NEW id \in PrepareEdges, id \in ToSet(in'[n])
      PROVE  n \in Alive' /\ n \in Ends(id) /\ id \in ToSet(out'[AdjacentNode(id, n)])
  <2>1. id \in ToSet(in[n]) /\ n # node /\ AdjacentNode(id, n) # node
    BY <1>4, <1>7
  <2>2. n \in Alive /\ n \in Ends(id) /\ id \in ToSet(out[AdjacentNode(id, n)])
    BY <1>2, <2>1 DEF ListsInStep
  <2>3. AdjacentNode(id, n) \in Nodes /\ AdjacentNode(id, AdjacentNode(id, n)) = n
    BY <1>2, <2>2, AdjacentFacts
  <2> QED
    BY <1>4, <1>5, <2>1, <2>2, <2>3
<1>8. ListsInStep'
  BY <1>3, <1>4, <1>6, <1>7 DEF ListsInStep
<1> QED
  BY <1>1, <1>2, <1>3, <1>4, <1>8 DEF ListsInv

-----------------------------------------------------------------------------

Contracted == Nodes \ Remaining

\* The levels are given in the order of contraction.
LevelsInv ==
    /\ level \in [Nodes -> 0 .. MaxLevel]
    /\ \A n \in Contracted : level[n] < Cardinality(Contracted)
    /\ \A m, n \in Contracted : level[m] = level[n] => m = n
    /\ phase = "contract" =>
          node \in Contracted /\ \A n \in Contracted : level[n] <= level[node]
    /\ phase = "done" => Remaining = {}

\* At first no node has a level.
LEMMA InitLevels == Init => LevelsInv
<1> SUFFICES ASSUME Init PROVE LevelsInv
  OBVIOUS
<1>1. /\ graph \in Graphs /\ phase = "poll" /\ level = [n \in Nodes |-> MaxLevel]
  BY DEF Init, EmptyStorage
<1>2. MaxLevel \in Nat
  BY <1>1, BaseFacts
<1>3. Contracted = {}
  BY <1>1 DEF Contracted, Remaining
<1> QED
  BY <1>1, <1>2, <1>3 DEF LevelsInv

\* The node that is polled gets the next level: it had none, the others keep
\* theirs.
LEMMA PollLevels ==
    ASSUME LevelsInv, graph \in Graphs, NEW n \in Nodes, PollNode(n)
    PROVE  LevelsInv'
<1>1. /\ level \in [Nodes -> 0 .. MaxLevel] /\ phase' = "contract" /\ node' = n /\ graph' = graph
      /\ Nodes' = Nodes /\ MaxLevel' = MaxLevel
  BY DEF LevelsInv, PollNode, Nodes, MaxLevel
<1> DEFINE c == Cardinality(Contracted)
<1>2. /\ Remaining' = Remaining \ {n} /\ n \in Remaining
      /\ level' = [level EXCEPT ![n] = c] /\ c \in 0 .. (MaxLevel - 1)
  BY <1>1, PollAlive DEF Contracted
<1>3. Contracted' = Contracted \cup {n} /\ n \notin Contracted /\ Contracted \subseteq Nodes
  BY <1>1, <1>2 DEF Contracted, Remaining
<1>4. IsFiniteSet(Contracted) /\ MaxLevel \in Nat
  <2>1. IsFiniteSet(Nodes) /\ MaxLevel \in Nat
    BY BaseFacts
  <2> QED
    BY <1>3, <2>1, FS_Subset
<1>5. Cardinality(Contracted') = c + 1
  <2>1. Cardinality(Contracted \cup {n}) = c + 1
    <3> HIDE DEF Contracted
    <3> QED
      BY <1>3, <1>4, FS_AddElement
  <2> QED
    BY <1>3, <2>1
<1>6. /\ \A m \in Contracted : level[m] < c /\ level'[m] = level[m] /\ level[m] \in Nat
      /\ level'[n] = c /\ c \in Nat
  BY <1>1, <1>2, <1>3, <1>4 DEF LevelsInv
<1> HIDE DEF c
<1>7. \A m \in Contracted' : level'[m] < c + 1 /\ level'[m] <= c
  BY <1>3, <1>6
<1>8. \A k, m \in Contracted' : level'[m] = level'[k] => m = k
  <2>1. \A k, m \in Contracted : level[m] = level[k] => m = k
    BY DEF LevelsInv
  <2> QED
    BY <1>3, <1>6, <2>1
<1>9. level' \in [Nodes -> 0 .. MaxLevel]
  BY <1>1, <1>2, <1>4
<1>10. Contracted' = Contracted \cup {n} /\ Cardinality(Contracted)' = c + 1
  BY <1>3, <1>5
<1> QED
  BY <1>1, <1>3, <1>6, <1>7, <1>8, <1>9, <1>10 DEF LevelsInv

\* The other steps give no level.
LEMMA SameLevels ==
    ASSUME LevelsInv, graph' = graph, level' = level, node' = node,
           phase' = phase \/ phase' = "poll" \/ (phase' = "done" /\ Remaining = {})
    PROVE  LevelsInv' /\ Remaining' = Remaining /\ Contracted' = Contracted
<1>1. Nodes' = Nodes /\ MaxLevel' = MaxLevel
  BY DEF Nodes, MaxLevel
<1>2. Remaining' = Remaining
  BY <1>1 DEF Remaining
<1>3. Contracted' = Contracted
  BY <1>1, <1>2 DEF Contracted
<1> QED
  BY <1>1, <1>2, <1>3 DEF LevelsInv

-----------------------------------------------------------------------------

\* A step of the whole, seen from the preparation.
LEMMA ContractionSteps ==
    ASSUME [RoutingNext]_vars
    PROVE  \/ /\ \/ HandlePair \/ InsertShortcuts \/ FinishContraction
                 \/ \E n \in Nodes : PollNode(n)
              /\ UNCHANGED queryVars
           \/ /\ UNCHANGED contractionVars
              /\ (phase = "done" /\ Q!Next) \/ UNCHANGED queryVars
  BY DEF RoutingNext, Next, vars

\* A step of the search changes none of the variables of the preparation.
LEMMA ContractionUnchanged ==
    ASSUME UNCHANGED contractionVars
    PROVE  /\ graph' = graph /\ level' = level /\ lastShortcut' = lastShortcut /\ shortcuts' = shortcuts
           /\ prepareShortcuts' = prepareShortcuts /\ out' = out /\ in' = in
           /\ shortcutFor' = shortcutFor /\ phase' = phase /\ node' = node /\ todo' = todo
  BY DEF contractionVars, storage, prepareGraph

\* The two invariants are inductive.
LEMMA ListsKept == ListsInv /\ LevelsInv /\ [RoutingNext]_vars => ListsInv' /\ LevelsInv'
<1> SUFFICES ASSUME ListsInv, LevelsInv, [RoutingNext]_vars
             PROVE  ListsInv' /\ LevelsInv'
  OBVIOUS
<1>1. CASE HandlePair
  <2>1. graph' = graph /\ level' = level /\ node' = node /\ phase' = phase
    BY <1>1 DEF HandlePair, storage
  <2> QED
    BY <1>1, <2>1, HandleLists, SameLevels
<1>2. CASE InsertShortcuts
  <2>1. graph' = graph /\ level' = level /\ node' = node /\ phase' = "poll"
    BY <1>2 DEF InsertShortcuts
  <2> QED
    BY <1>2, <2>1, InsertLists, SameLevels
<1>3. CASE FinishContraction
  <2>1. /\ graph' = graph /\ level' = level /\ node' = node /\ todo' = todo /\ out' = out /\ in' = in
        /\ prepareShortcuts' = prepareShortcuts
        /\ phase = "poll" /\ phase' = "done" /\ Remaining = {}
    BY <1>3 DEF FinishContraction, prepareGraph
  <2> QED
    BY <2>1, SameLists, SameLevels
<1>4. ASSUME NEW n \in Nodes, PollNode(n)
      PROVE  ListsInv' /\ LevelsInv'
  <2>1. level \in [Nodes -> 0 .. MaxLevel] /\ graph \in Graphs
    BY DEF LevelsInv, ListsInv
  <2> QED
    BY <1>4, <2>1, PollLists, PollLevels
<1>5. CASE UNCHANGED contractionVars
  <2>1. /\ graph' = graph /\ level' = level /\ node' = node /\ todo' = todo /\ out' = out /\ in' = in
        /\ prepareShortcuts' = prepareShortcuts /\ phase' = phase
    BY <1>5, ContractionUnchanged
  <2> QED
    BY <2>1, SameLists, SameLevels
<1> QED
  BY <1>1, <1>2, <1>3, <1>4, <1>5, ContractionSteps

\* So they always hold.
LEMMA ListsAlways == Spec => [](ListsInv /\ LevelsInv)
<1>1. RoutingInit => ListsInv /\ LevelsInv
  BY InitLists, InitLevels DEF RoutingInit
<1>2. ListsInv /\ LevelsInv /\ [RoutingNext]_vars => (ListsInv /\ LevelsInv)'
  BY ListsKept
<1> QED
  BY <1>1, <1>2, PTL DEF Spec

\* The lists of outgoing and incoming edges stay in step.
THEOREM ListsStayInStep == Spec => []ListsAgree
<1>1. ASSUME ListsInv, LevelsInv PROVE ListsAgree
  <2>1. ASSUME NEW n \in Nodes
        PROVE  /\ IsInjective(out[n]) /\ IsInjective(in[n])
               /\ \A id \in ToSet(out[n]) : id \in ToSet(in[AdjacentNode(id, n)])
               /\ \A id \in ToSet(in[n]) : id \in ToSet(out[AdjacentNode(id, n)])
    BY <1>1, ListedFacts DEF ListsInv, ListsInStep
  <2>2. ASSUME NEW n \in Nodes, n \notin Remaining \cup {node}
        PROVE  out[n] = << >> /\ in[n] = << >>
    <3>1. n \notin Alive
      BY <2>2 DEF Alive, Remaining
    <3>2. ToSet(out[n]) = {} /\ ToSet(in[n]) = {}
      BY <1>1, <3>1, ListedFacts
    <3>3. out[n] \in Seq(PrepareEdges) /\ in[n] \in Seq(PrepareEdges)
      BY <1>1, ListedFacts
    <3>4. \A list \in Seq(PrepareEdges) : ToSet(list) = {} => list = << >>
      BY ElementsOf
    <3> QED
      BY <3>2, <3>3, <3>4
  <2> QED
    BY <2>1, <2>2 DEF ListsAgree
<1>2. ListsInv /\ LevelsInv => ListsAgree
  BY <1>1
<1> QED
  BY <1>2, ListsAlways, PTL

-----------------------------------------------------------------------------

\* The arcs of the base graph.
BaseArcs == UNION {{<<e.a, e.b, e.fwd>>, <<e.b, e.a, e.bwd>>} : e \in ToSet(graph.edges)}

\* If each arc has a substitute that is no heavier, so has each walk.
LEMMA WalkedLighter ==
    ASSUME NEW N, NEW A, NEW B, IsArcs(A, N), IsArcs(B, N), NEW s \in N,
           \A x \in A : x[3] # Inf => \E y \in B : y[1] = x[1] /\ y[2] = x[2] /\ y[3] # Inf /\ y[3] <= x[3]
    PROVE  \A x \in Walked(N, A, s) : \E w \in Nat : w <= x[2] /\ <<x[1], w>> \in Walked(N, B, s)
<1> DEFINE C == {x \in Walked(N, A, s) : \E w \in Nat : w <= x[2] /\ <<x[1], w>> \in Walked(N, B, s)}
<1>1. IsClosed(Walked(N, A, s), A, s) /\ IsClosed(Walked(N, B, s), B, s)
  BY WalkedClosed
<1>2. <<s, 0>> \in C
  BY <1>1 DEF IsClosed
<1>3. ASSUME NEW x \in Walked(N, A, s) \cap C, NEW arc \in A, arc[1] = x[1], arc[3] # Inf
      PROVE  <<arc[2], x[2] + arc[3]>> \in C
  <2>1. x \in N \X Nat
    BY DEF Walked
  <2>2. PICK w \in Nat : w <= x[2] /\ <<x[1], w>> \in Walked(N, B, s)
    OBVIOUS
  <2>3. PICK y \in B : y[1] = arc[1] /\ y[2] = arc[2] /\ y[3] # Inf /\ y[3] <= arc[3]
    BY <1>3
  <2>4. y[3] \in Nat /\ arc[3] \in Nat
    BY <1>3, <2>3 DEF IsArcs
  <2>5. <<y[2], w + y[3]>> \in Walked(N, B, s)
    BY <1>1, <1>3, <2>2, <2>3 DEF IsClosed
  <2>6. <<arc[2], x[2] + arc[3]>> \in Walked(N, A, s)
    BY <1>1, <1>3 DEF IsClosed
  <2>7. w + y[3] \in Nat /\ w + y[3] <= x[2] + arc[3]
    BY <2>1, <2>2, <2>3, <2>4
  <2> QED
    BY <2>3, <2>5, <2>6, <2>7
<1> HIDE DEF C
<1>4. Walked(N, A, s) \subseteq C
  BY <1>2, <1>3, WalkedInduction
<1> QED
  BY <1>4 DEF C

\* The arcs of the prepare graph.
LEMMA ArcsFacts ==
    ASSUME ListsInv, NEW ignored
    PROVE  /\ IsArcs(Arcs(ignored), Nodes)
           /\ \A arc \in Arcs(ignored) :
                \E id \in ToSet(out[arc[1]]) :
                  /\ arc[1] \in Nodes /\ arc[2] = AdjacentNode(id, arc[1])
                  /\ arc[3] = Weight(id, arc[1]) /\ arc[2] # ignored
                  /\ arc = <<arc[1], arc[2], arc[3]>>
           /\ \A n \in Nodes : \A id \in ToSet(out[n]) :
                AdjacentNode(id, n) # ignored =>
                  <<n, AdjacentNode(id, n), Weight(id, n)>> \in Arcs(ignored)
<1> DEFINE leaving(n) == {<<n, AdjacentNode(id, n), Weight(id, n)>> : id \in ToSet(out[n])}
<1>1. Arcs(ignored) = {arc \in UNION {leaving(n) : n \in Nodes} : arc[2] # ignored}
  BY DEF Arcs
<1>2. ASSUME NEW arc \in Arcs(ignored)
      PROVE  \E id \in ToSet(out[arc[1]]) :
                  /\ arc[1] \in Nodes /\ arc[2] = AdjacentNode(id, arc[1])
                  /\ arc[3] = Weight(id, arc[1]) /\ arc[2] # ignored
                  /\ arc = <<arc[1], arc[2], arc[3]>>
  <2>1. PICK n \in Nodes : arc \in leaving(n)
    BY <1>1
  <2>2. PICK id \in ToSet(out[n]) : arc = <<n, AdjacentNode(id, n), Weight(id, n)>>
    BY <2>1
  <2> QED
    BY <1>1, <2>2
<1>3. ASSUME NEW n \in Nodes, NEW id \in ToSet(out[n]), AdjacentNode(id, n) # ignored
      PROVE  <<n, AdjacentNode(id, n), Weight(id, n)>> \in Arcs(ignored)
  <2>1. <<n, AdjacentNode(id, n), Weight(id, n)>> \in leaving(n)
    OBVIOUS
  <2> HIDE DEF leaving
  <2> QED
    BY <1>1, <1>3, <2>1
<1>4. IsArcs(Arcs(ignored), Nodes)
  <2>1. ASSUME NEW arc \in Arcs(ignored)
        PROVE  arc \in Nodes \X Nodes \X ((Nat \ {0}) \cup {Inf})
    <3>1. PICK id \in ToSet(out[arc[1]]) :
                  /\ arc[1] \in Nodes /\ arc[2] = AdjacentNode(id, arc[1])
                  /\ arc[3] = Weight(id, arc[1])
                  /\ arc = <<arc[1], arc[2], arc[3]>>
      BY <1>2
    <3>2. arc[2] \in Alive /\ arc[3] \in Nat \ {0}
      BY <3>1, ListedFacts
    <3> QED
      BY <3>1, <3>2 DEF Alive
  <2> QED
    BY <2>1 DEF IsArcs
<1> QED
  BY <1>2, <1>3, <1>4

\* The arcs of the base graph are those of its edges, in both directions.
LEMMA BaseArcsFacts ==
    ASSUME graph \in Graphs
    PROVE  /\ IsArcs(BaseArcs, Nodes)
           /\ \A id \in 1 .. GetEdges :
                /\ <<graph.edges[id].a, graph.edges[id].b, graph.edges[id].fwd>> \in BaseArcs
                /\ <<graph.edges[id].b, graph.edges[id].a, graph.edges[id].bwd>> \in BaseArcs
           /\ \A arc \in BaseArcs : \E id \in 1 .. GetEdges :
                \/ arc = <<graph.edges[id].a, graph.edges[id].b, graph.edges[id].fwd>>
                \/ arc = <<graph.edges[id].b, graph.edges[id].a, graph.edges[id].bwd>>
<1>1. graph.edges \in Seq(ToSet(graph.edges))
  BY GraphsAssumption
<1>2. ToSet(graph.edges) = {graph.edges[id] : id \in 1 .. GetEdges}
  BY <1>1, ElementsOf DEF GetEdges
<1>3. \A id \in 1 .. GetEdges :
        /\ <<graph.edges[id].a, graph.edges[id].b, graph.edges[id].fwd>> \in BaseArcs
        /\ <<graph.edges[id].b, graph.edges[id].a, graph.edges[id].bwd>> \in BaseArcs
  BY <1>2 DEF BaseArcs
<1>4. ASSUME NEW arc \in BaseArcs
      PROVE  \E id \in 1 .. GetEdges :
                \/ arc = <<graph.edges[id].a, graph.edges[id].b, graph.edges[id].fwd>>
                \/ arc = <<graph.edges[id].b, graph.edges[id].a, graph.edges[id].bwd>>
  <2>1. PICK e \in ToSet(graph.edges) : arc \in {<<e.a, e.b, e.fwd>>, <<e.b, e.a, e.bwd>>}
    BY DEF BaseArcs
  <2>2. PICK id \in 1 .. GetEdges : e = graph.edges[id]
    BY <1>2
  <2> QED
    BY <2>1, <2>2
<1>5. ASSUME NEW arc \in BaseArcs
      PROVE  arc \in Nodes \X Nodes \X ((Nat \ {0}) \cup {Inf})
  <2>1. PICK id \in 1 .. GetEdges :
                \/ arc = <<graph.edges[id].a, graph.edges[id].b, graph.edges[id].fwd>>
                \/ arc = <<graph.edges[id].b, graph.edges[id].a, graph.edges[id].bwd>>
    BY <1>4
  <2>2. /\ graph.edges[id].a \in Nodes /\ graph.edges[id].b \in Nodes
        /\ graph.edges[id].fwd \in (Nat \ {0}) \cup {Inf} /\ graph.edges[id].bwd \in (Nat \ {0}) \cup {Inf}
    BY BaseFacts
  <2> QED
    BY <2>1, <2>2
<1> QED
  BY <1>3, <1>4, <1>5 DEF IsArcs

-----------------------------------------------------------------------------

\* What handling a pair does to the prepare graph.
PairHandled(inEdge, outEdge, from, to, weight) ==
    /\ \A id \in PrepareEdges :
          id \in PrepareEdges' /\ EdgeAfter(id, from, to, weight, inEdge, outEdge)
    /\ \A id \in PrepareEdges' :
          id \in PrepareEdges \/ EdgeAt(id)' = Asked(from, to, weight, inEdge, outEdge)
    /\ \A n \in Nodes : /\ ToSet(out[n]) \subseteq ToSet(out'[n])
                        /\ ToSet(out'[n]) \subseteq ToSet(out[n]) \cup (PrepareEdges' \ PrepareEdges)
                        /\ ToSet(in'[n]) \subseteq ToSet(in[n]) \cup (PrepareEdges' \ PrepareEdges)
    /\ out'[node] = out[node] /\ in'[node] = in[node] /\ shortcutFor' = shortcutFor
    /\ \/ (from = to \/ Witness(from, to, weight)) /\ prepareGraph' = prepareGraph
       \/ \E id \in PrepareEdges' :
            /\ from # to /\ id \in ToSet(out'[from])
            /\ EdgeAt(id)'.a = from /\ EdgeAt(id)'.b = to
            /\ EdgeAt(id)'.fwd \in Nat /\ EdgeAt(id)'.fwd <= weight

\* HandlePair on the arcs: which edge gets which weight.
LEMMA HandleEffect ==
    ASSUME ListsInv, HandlePair
    PROVE  \E inEdge, outEdge, from, to, w1, w2 :
              /\ IsPair(inEdge, outEdge, from, to, w1, w2)
              /\ PairHandled(inEdge, outEdge, from, to, w1 + w2)
<1>1. PICK inEdge, outEdge, from, to, w1, w2 :
         /\ IsPair(inEdge, outEdge, from, to, w1, w2)
         /\ \/ (from = to \/ Witness(from, to, w1 + w2)) /\ UNCHANGED prepareGraph
            \/ /\ from # to /\ AddOrUpdateShortcut(from, to, w1 + w2, inEdge, outEdge)
               /\ shortcutFor' = shortcutFor
  BY HandleMeaning
<1>2. PICK weight \in Nat \ {0} : weight = w1 + w2
  <2>1. w1 \in Nat \ {0} /\ w2 \in Nat \ {0}
    BY <1>1 DEF IsPair
  <2> QED
    BY <2>1
<1>3. graph' = graph /\ Nodes' = Nodes
  BY DEF HandlePair, storage, Nodes
<1>4. CASE (from = to \/ Witness(from, to, weight)) /\ UNCHANGED prepareGraph
  <2>1. prepareShortcuts' = prepareShortcuts /\ out' = out /\ in' = in /\ shortcutFor' = shortcutFor
    BY <1>4 DEF prepareGraph
  <2>2. PrepareEdges' = PrepareEdges /\ \A id : EdgeAt(id)' = EdgeAt(id)
    BY <1>3, <2>1, EdgesStay
  <2>3. PairHandled(inEdge, outEdge, from, to, weight)
    BY <1>4, <2>1, <2>2 DEF PairHandled, EdgeAfter
  <2> QED
    BY <1>1, <1>2, <2>3
<1>5. CASE /\ from # to /\ AddOrUpdateShortcut(from, to, weight, inEdge, outEdge)
           /\ shortcutFor' = shortcutFor
  <2>1. /\ from \in Nodes /\ to \in Nodes /\ from # node /\ to # node /\ node \in Nodes
        /\ inEdge \in PrepareEdges /\ outEdge \in PrepareEdges
    BY <1>1 DEF IsPair
  <2>2. /\ PrepareEdges \subseteq PrepareEdges' /\ ShortcutsTyped'
        /\ \A id \in PrepareEdges : EdgeAfter(id, from, to, weight, inEdge, outEdge)
        /\ \/ KeepsShortcuts(from, to, weight)
           \/ \E id : AddsShortcut(id, from, to, weight, inEdge, outEdge)
    BY <1>3, <1>5, <2>1, AddMeaning
  <2>3. CASE KeepsShortcuts(from, to, weight)
    <3>1. Existing(from, to) # {} /\ out' = out /\ in' = in /\ PrepareEdges' = PrepareEdges
      BY <2>3 DEF KeepsShortcuts
    <3>2. PICK id : id \in Existing(from, to)
      BY <3>1
    <3>3. id \in PrepareEdges /\ EdgeAt(id)'.a = from /\ EdgeAt(id)'.b = to
          /\ EdgeAt(id)'.fwd \in Nat /\ EdgeAt(id)'.fwd <= weight
      BY <2>3, <3>2 DEF KeepsShortcuts
    <3>4. id \in ToSet(out[from])
      BY <3>2 DEF Existing
    <3>5. \E k \in PrepareEdges' :
            /\ from # to /\ k \in ToSet(out'[from])
            /\ EdgeAt(k)'.a = from /\ EdgeAt(k)'.b = to
            /\ EdgeAt(k)'.fwd \in Nat /\ EdgeAt(k)'.fwd <= weight
      BY <1>5, <3>1, <3>3, <3>4
    <3>6. PairHandled(inEdge, outEdge, from, to, weight)
      BY <1>5, <2>2, <3>1, <3>5 DEF PairHandled
    <3> QED
      BY <1>1, <1>2, <3>6
  <2>4. CASE \E id : AddsShortcut(id, from, to, weight, inEdge, outEdge)
    <3>0. PICK id : AddsShortcut(id, from, to, weight, inEdge, outEdge)
      BY <2>4
    <3>1. /\ id \in PrepareEdges' \ PrepareEdges
          /\ PrepareEdges' = PrepareEdges \cup {id}
          /\ out' = [out EXCEPT ![from] = <<id>> \o @]
          /\ in' = [in EXCEPT ![to] = <<id>> \o @]
          /\ EdgeAt(id)' = Asked(from, to, weight, inEdge, outEdge)
      BY <3>0 DEF AddsShortcut
    <3> DEFINE P == PrepareEdges \cup {id}
    <3>2. \A n \in Nodes : out[n] \in Seq(P) /\ in[n] \in Seq(P)
      <4>1. \A n \in Nodes : out[n] \in Seq(PrepareEdges) /\ in[n] \in Seq(PrepareEdges)
        BY ListedFacts
      <4>2. PrepareEdges \subseteq P
        OBVIOUS
      <4> HIDE DEF P
      <4> QED
        BY <4>1, <4>2, SeqMonotonic
    <3>3. id \in P
      OBVIOUS
    <3> HIDE DEF P
    <3>4. \A n \in Nodes : /\ ToSet(<<id>> \o out[n]) = {id} \cup ToSet(out[n])
                           /\ ToSet(<<id>> \o in[n]) = {id} \cup ToSet(in[n])
      BY <3>2, <3>3, PrependFacts
    <3>5. out \in [Nodes -> Seq(PrepareEdges)] /\ in \in [Nodes -> Seq(PrepareEdges)]
      BY DEF ListsInv
    <3>6. \A n \in Nodes : /\ out'[n] = IF n = from THEN <<id>> \o out[n] ELSE out[n]
                           /\ in'[n] = IF n = to THEN <<id>> \o in[n] ELSE in[n]
      BY <3>1, <3>5
    <3>7. \A n \in Nodes : /\ ToSet(out[n]) \subseteq ToSet(out'[n])
                           /\ ToSet(out'[n]) \subseteq ToSet(out[n]) \cup (PrepareEdges' \ PrepareEdges)
                           /\ ToSet(in'[n]) \subseteq ToSet(in[n]) \cup (PrepareEdges' \ PrepareEdges)
      <4> TAKE n \in Nodes
      <4>1. id \in PrepareEdges' \ PrepareEdges
        BY <3>1
      <4>2. ToSet(out'[n]) = ToSet(out[n]) \/ ToSet(out'[n]) = {id} \cup ToSet(out[n])
        BY <3>4, <3>6
      <4>3. ToSet(in'[n]) = ToSet(in[n]) \/ ToSet(in'[n]) = {id} \cup ToSet(in[n])
        BY <3>4, <3>6
      <4> QED
        BY <4>1, <4>2, <4>3
    <3>8. id \in ToSet(out'[from])
      BY <2>1, <3>4, <3>6
    <3>9. EdgeAt(id)'.a = from /\ EdgeAt(id)'.b = to /\ EdgeAt(id)'.fwd = weight
      BY <3>1 DEF Asked
    <3>10. out'[node] = out[node] /\ in'[node] = in[node]
      BY <2>1, <3>6
    <3>11. \E k \in PrepareEdges' :
            /\ from # to /\ k \in ToSet(out'[from])
            /\ EdgeAt(k)'.a = from /\ EdgeAt(k)'.b = to
            /\ EdgeAt(k)'.fwd \in Nat /\ EdgeAt(k)'.fwd <= weight
      BY <1>5, <3>1, <3>8, <3>9
    <3>12. \A k \in PrepareEdges' :
              k \in PrepareEdges \/ EdgeAt(k)' = Asked(from, to, weight, inEdge, outEdge)
      BY <3>1
    <3>13. PairHandled(inEdge, outEdge, from, to, weight)
      BY <1>5, <2>2, <3>7, <3>10, <3>11, <3>12 DEF PairHandled
    <3> QED
      BY <1>1, <1>2, <3>13
  <2> QED
    BY <2>2, <2>3, <2>4
<1> QED
  BY <1>1, <1>2, <1>4, <1>5

\* The arcs of what is listed.
ListedArcs ==
    \A ignored : \A n \in Nodes : \A id \in ToSet(out[n]) :
       AdjacentNode(id, n) # ignored => <<n, AdjacentNode(id, n), Weight(id, n)>> \in Arcs(ignored)

\* The arcs of the prepare graph are those of the listed edges,
LEMMA ArcsListed == ListsInv => ListedArcs
  BY ArcsFacts DEF ListedArcs

\* ... also after a step.
LEMMA ArcsListedNext == ListsInv' => ListedArcs'
  BY ArcsListed, PTL

\* Arcs only become lighter when a pair is handled.
LEMMA ArcsLighter ==
    ASSUME ListsInv, ListsInv', graph' = graph, NEW ignored, NEW inEdge, NEW outEdge, NEW from, NEW to,
           NEW weight \in Nat, PairHandled(inEdge, outEdge, from, to, weight)
    PROVE  \A x \in Arcs(ignored) : x[3] # Inf =>
              \E y \in Arcs(ignored)' : y[1] = x[1] /\ y[2] = x[2] /\ y[3] # Inf /\ y[3] <= x[3]
<1> SUFFICES ASSUME NEW x \in Arcs(ignored), x[3] # Inf
             PROVE  \E y \in Arcs(ignored)' : y[1] = x[1] /\ y[2] = x[2] /\ y[3] # Inf /\ y[3] <= x[3]
  OBVIOUS
<1>1. PICK id \in ToSet(out[x[1]]) :
         /\ x[1] \in Nodes /\ x[2] = AdjacentNode(id, x[1]) /\ x[3] = Weight(id, x[1])
         /\ x[2] # ignored
  BY ArcsFacts
<1> DEFINE n == x[1]
<1>2. id \in PrepareEdges /\ n \in Ends(id) /\ Weight(id, n) \in Nat \ {0}
  BY <1>1, ListedFacts
<1>3. EdgeAfter(id, from, to, weight, inEdge, outEdge) /\ id \in ToSet(out'[n])
  BY <1>1, <1>2 DEF PairHandled
<1>4. AdjacentNode(id, n)' = AdjacentNode(id, n)
  BY <1>2, <1>3, EdgeAfterFacts
<1>5. Nodes' = Nodes /\ Inf \notin Int
  BY BaseFacts DEF Nodes, ListsInv
<1>6. Weight(id, n)' \in Nat /\ Weight(id, n)' <= Weight(id, n)
  <2>1. CASE EdgeAt(id)' = EdgeAt(id)
    <3>1. Weight(id, n)' = Weight(id, n)
      BY <2>1 DEF Weight
    <3> QED
      BY <1>2, <3>1
  <2>2. CASE /\ IsShortcut(id) /\ EdgeAt(id).a = from /\ EdgeAt(id).bwd = Inf
             /\ weight < EdgeAt(id).fwd
             /\ EdgeAt(id)' = Asked(from, to, weight, inEdge, outEdge)
    <3>1. n = EdgeAt(id).a /\ Weight(id, n) = EdgeAt(id).fwd
      BY <1>2, <1>5, <2>2 DEF Weight
    <3>2. EdgeAt(id)'.a = from /\ EdgeAt(id)'.fwd = weight
      BY <2>2 DEF Asked
    <3>3. Weight(id, n)' = weight
      BY <2>2, <3>1, <3>2 DEF Weight
    <3> QED
      BY <1>2, <2>2, <3>1, <3>3
  <2> QED
    BY <1>3, <2>1, <2>2 DEF EdgeAfter
<1>7. \A m \in Nodes : \A k \in ToSet(out'[m]) :
          AdjacentNode(k, m)' # ignored => <<m, AdjacentNode(k, m)', Weight(k, m)'>> \in Arcs(ignored)'
  <2>1. ListedArcs'
    BY ArcsListedNext
  <2> QED
    BY <1>5, <2>1 DEF ListedArcs
<1>8. <<n, AdjacentNode(id, n)', Weight(id, n)'>> \in Arcs(ignored)'
  BY <1>1, <1>3, <1>4, <1>7
<1> QED
  BY <1>1, <1>4, <1>5, <1>6, <1>8

-----------------------------------------------------------------------------

\* A prepare edge weighs as much as some walk on the base graph.
EdgesSound ==
    \A id \in PrepareEdges : \A n \in Ends(id) :
       Weight(id, n) # Inf => <<AdjacentNode(id, n), Weight(id, n)>> \in Walked(Nodes, BaseArcs, n)

\* A pair that has been handled can be walked without the node.
Handled(inEdge, outEdge) ==
    LET from == AdjacentNode(inEdge, node)
        to == AdjacentNode(outEdge, node)
    IN  \/ from = to
        \/ \E w \in Nat : /\ w <= Weight(inEdge, from) + Weight(outEdge, node)
                          /\ <<to, w>> \in Walked(Nodes, Arcs(node), from)

HandledInv ==
    phase = "contract" =>
       \A inEdge \in ToSet(in[node]), outEdge \in ToSet(out[node]) :
          <<inEdge, outEdge>> \in ToSet(todo) \/ Handled(inEdge, outEdge)

\* What can be walked on the base graph can be walked on the prepare graph.
WalksKept ==
    \A p \in Alive : \A x \in Walked(Nodes, BaseArcs, p) :
       x[1] \in Alive =>
          \E w \in Nat : w <= x[2] /\ <<x[1], w>> \in Walked(Nodes, Arcs(-1), p)

PreservedInv == EdgesSound /\ HandledInv /\ WalksKept

\* At first the two graphs are the same.
LEMMA InitPreserved == Init /\ ListsInv => PreservedInv
<1> SUFFICES ASSUME Init, ListsInv PROVE PreservedInv
  OBVIOUS
<1>1. /\ graph \in Graphs /\ phase = "poll" /\ prepareShortcuts = << >>
  BY DEF Init, BuildFromGraph
<1>2. GetEdges \in Nat /\ ShortcutsTyped /\ Nodes \subseteq Nat /\ Inf \notin Int
  BY <1>1, BaseFacts DEF ListsInv
<1>3. PrepareEdges = 1 .. GetEdges
  BY <1>1, <1>2 DEF PrepareEdges
<1>4. \A id \in PrepareEdges : EdgeAt(id) = graph.edges[id]
  BY <1>2, <1>3 DEF EdgeAt, IsShortcut
<1>5. /\ IsArcs(BaseArcs, Nodes)
      /\ \A id \in 1 .. GetEdges :
                /\ <<graph.edges[id].a, graph.edges[id].b, graph.edges[id].fwd>> \in BaseArcs
                /\ <<graph.edges[id].b, graph.edges[id].a, graph.edges[id].bwd>> \in BaseArcs
      /\ \A arc \in BaseArcs : \E id \in 1 .. GetEdges :
                \/ arc = <<graph.edges[id].a, graph.edges[id].b, graph.edges[id].fwd>>
                \/ arc = <<graph.edges[id].b, graph.edges[id].a, graph.edges[id].bwd>>
  BY <1>1, BaseArcsFacts
<1>6. ASSUME NEW id \in PrepareEdges, NEW n \in Ends(id)
      PROVE  <<n, AdjacentNode(id, n), Weight(id, n)>> \in BaseArcs
  <2>1. EdgeAt(id).a # EdgeAt(id).b
    BY <1>1, <1>2, EdgeFacts
  <2>2. EdgeAt(id) = graph.edges[id] /\ id \in 1 .. GetEdges
    BY <1>3, <1>4
  <2>3. CASE n = EdgeAt(id).a
    <3>1. AdjacentNode(id, n) = EdgeAt(id).b /\ Weight(id, n) = EdgeAt(id).fwd
      BY <2>3 DEF AdjacentNode, Weight
    <3> QED
      BY <1>5, <2>2, <2>3, <3>1
  <2>4. CASE n = EdgeAt(id).b
    <3>1. AdjacentNode(id, n) = EdgeAt(id).a /\ Weight(id, n) = EdgeAt(id).bwd
      BY <2>1, <2>4 DEF AdjacentNode, Weight
    <3> QED
      BY <1>5, <2>2, <2>4, <3>1
  <2> QED
    BY <2>3, <2>4 DEF Ends
<1>7. EdgesSound
  <2> SUFFICES ASSUME NEW id \in PrepareEdges, NEW n \in Ends(id), Weight(id, n) # Inf
               PROVE  <<AdjacentNode(id, n), Weight(id, n)>> \in Walked(Nodes, BaseArcs, n)
    BY DEF EdgesSound
  <2>1. PICK arc \in BaseArcs : arc = <<n, AdjacentNode(id, n), Weight(id, n)>>
    BY <1>6
  <2>2. <<arc[2], arc[3]>> \in Walked(Nodes, BaseArcs, arc[1])
    BY <1>5, <2>1, ArcWalked
  <2> QED
    BY <2>1, <2>2
<1>8. HandledInv
  BY <1>1 DEF HandledInv
<1>9. /\ IsArcs(Arcs(-1), Nodes)
      /\ \A n \in Nodes : \A id \in ToSet(out[n]) :
           AdjacentNode(id, n) # -1 => <<n, AdjacentNode(id, n), Weight(id, n)>> \in Arcs(-1)
  BY ArcsFacts
<1>10. ASSUME NEW n \in Nodes, NEW id \in PrepareEdges, n \in Ends(id), Weight(id, n) # Inf
       PROVE  id \in ToSet(out[n])
  <2> DEFINE newest == [i \in 1 .. GetEdges |-> GetEdges + 1 - i]
             At(m) == {k \in 1 .. GetEdges : m \in {graph.edges[k].a, graph.edges[k].b}}
             Leaving(m) == {k \in At(m) :
                LET e == graph.edges[k] IN (IF e.a = m THEN e.fwd ELSE e.bwd) # Inf}
  <2>1. out = [m \in Nodes |-> Keep(newest, Leaving(m))]
    BY DEF Init, BuildFromGraph
  <2>2. newest \in Seq(1 .. GetEdges) /\ ToSet(newest) = 1 .. GetEdges
    BY <1>2, NewestFirstFacts
  <2>3. id \in Leaving(n)
    BY <1>3, <1>4, <1>10 DEF Ends, Weight
  <2>4. out[n] = Keep(newest, Leaving(n))
    BY <2>1
  <2> HIDE DEF newest, Leaving
  <2>5. ToSet(Keep(newest, Leaving(n))) = ToSet(newest) \cap Leaving(n)
    BY <2>2, KeepFacts
  <2> QED
    BY <1>3, <2>2, <2>3, <2>4, <2>5
<1>11. ASSUME NEW x \in BaseArcs, x[3] # Inf
       PROVE  \E y \in Arcs(-1) : y[1] = x[1] /\ y[2] = x[2] /\ y[3] # Inf /\ y[3] <= x[3]
  <2>1. PICK id \in 1 .. GetEdges :
                \/ x = <<graph.edges[id].a, graph.edges[id].b, graph.edges[id].fwd>>
                \/ x = <<graph.edges[id].b, graph.edges[id].a, graph.edges[id].bwd>>
    BY <1>5
  <2>2. id \in PrepareEdges /\ EdgeAt(id) = graph.edges[id]
    BY <1>3, <1>4
  <2>3. /\ EdgeAt(id).a # EdgeAt(id).b /\ EdgeAt(id).a \in Nodes /\ EdgeAt(id).b \in Nodes
    BY <1>1, <1>2, <2>2, EdgeFacts
  <2>4. x[1] \in Ends(id) /\ x[1] \in Nodes /\ x[2] = AdjacentNode(id, x[1]) /\ x[3] = Weight(id, x[1])
        /\ x[2] \in Nodes
    BY <2>1, <2>2, <2>3 DEF Ends, AdjacentNode, Weight
  <2>5. id \in ToSet(out[x[1]])
    BY <1>10, <1>11, <2>2, <2>4
  <2>6. x[2] # -1
    BY <1>2, <2>4
  <2>7. <<x[1], x[2], x[3]>> \in Arcs(-1)
    BY <1>9, <2>4, <2>5, <2>6
  <2>8. x[3] \in Nat
    BY <1>5, <1>11 DEF IsArcs
  <2> QED
    BY <1>11, <2>7, <2>8
<1>12. WalksKept
  <2> SUFFICES ASSUME NEW p \in Alive, NEW x \in Walked(Nodes, BaseArcs, p)
               PROVE  \E w \in Nat : w <= x[2] /\ <<x[1], w>> \in Walked(Nodes, Arcs(-1), p)
    BY DEF WalksKept
  <2>1. p \in Nodes
    BY DEF Alive
  <2> QED
    BY <1>5, <1>9, <1>11, <2>1, WalkedLighter
<1> QED
  BY <1>7, <1>8, <1>12 DEF PreservedInv

\* A walk on the base graph along both edges of a pair.
LEMMA PairWalked ==
    ASSUME ListsInv, EdgesSound, NEW inEdge, NEW outEdge, NEW from, NEW to, NEW w1, NEW w2,
           IsPair(inEdge, outEdge, from, to, w1, w2)
    PROVE  <<to, w1 + w2>> \in Walked(Nodes, BaseArcs, from)
<1>1. /\ inEdge \in PrepareEdges /\ outEdge \in PrepareEdges
      /\ node \in Nodes /\ node \in Ends(inEdge) /\ node \in Ends(outEdge)
      /\ from = AdjacentNode(inEdge, node) /\ to = AdjacentNode(outEdge, node)
      /\ w1 = Weight(inEdge, from) /\ w2 = Weight(outEdge, node)
      /\ w1 \in Nat \ {0} /\ w2 \in Nat \ {0} /\ from \in Nodes
  BY DEF IsPair
<1>2. graph \in Graphs /\ ShortcutsTyped /\ Inf \notin Int
  BY BaseFacts DEF ListsInv
<1>3. from \in Ends(inEdge) /\ AdjacentNode(inEdge, from) = node
  BY <1>1, <1>2, AdjacentFacts
<1>4. w1 # Inf /\ w2 # Inf
  BY <1>1, <1>2
<1>5. <<node, w1>> \in Walked(Nodes, BaseArcs, from) /\ <<to, w2>> \in Walked(Nodes, BaseArcs, node)
  BY <1>1, <1>3, <1>4 DEF EdgesSound
<1>6. IsArcs(BaseArcs, Nodes)
  BY <1>2, BaseArcsFacts
<1> QED
  BY <1>1, <1>5, <1>6, WalkedOn

\* A new shortcut is as heavy as a walk.
LEMMA HandleSound ==
    ASSUME ListsInv, ListsInv', EdgesSound, graph' = graph, NEW inEdge, NEW outEdge, NEW from, NEW to,
           NEW w1, NEW w2, NEW weight \in Nat, weight = w1 + w2,
           IsPair(inEdge, outEdge, from, to, w1, w2),
           PairHandled(inEdge, outEdge, from, to, weight)
    PROVE  EdgesSound'
<1>1. Nodes' = Nodes /\ BaseArcs' = BaseArcs
  BY DEF Nodes, BaseArcs
<1>2. <<to, weight>> \in Walked(Nodes, BaseArcs, from)
  BY PairWalked
<1>3. ASSUME NEW id \in PrepareEdges', EdgeAt(id)' = Asked(from, to, weight, inEdge, outEdge),
             NEW n \in Ends(id)', Weight(id, n)' # Inf
      PROVE  <<AdjacentNode(id, n)', Weight(id, n)'>> \in Walked(Nodes, BaseArcs, n)
  <2>1. /\ EdgeAt(id)'.a = from /\ EdgeAt(id)'.b = to /\ EdgeAt(id)'.fwd = weight
        /\ EdgeAt(id)'.bwd = Inf
    BY <1>3 DEF Asked
  <2>2. n = from
    BY <1>3, <2>1 DEF Ends, Weight
  <2>3. AdjacentNode(id, n)' = to /\ Weight(id, n)' = weight
    BY <2>1, <2>2 DEF AdjacentNode, Weight
  <2> QED
    BY <1>2, <2>2, <2>3
<1>4. ASSUME NEW id \in PrepareEdges, EdgeAt(id)' = EdgeAt(id),
             NEW n \in Ends(id)', Weight(id, n)' # Inf
      PROVE  <<AdjacentNode(id, n)', Weight(id, n)'>> \in Walked(Nodes, BaseArcs, n)
  <2>1. Ends(id)' = Ends(id) /\ AdjacentNode(id, n)' = AdjacentNode(id, n)
        /\ Weight(id, n)' = Weight(id, n)
    BY <1>4 DEF Ends, AdjacentNode, Weight
  <2> QED
    BY <1>4, <2>1 DEF EdgesSound
<1>5. ASSUME NEW id \in PrepareEdges'
      PROVE  \/ EdgeAt(id)' = Asked(from, to, weight, inEdge, outEdge)
             \/ id \in PrepareEdges /\ EdgeAt(id)' = EdgeAt(id)
  BY DEF PairHandled, EdgeAfter
<1> QED
  BY <1>1, <1>3, <1>4, <1>5 DEF EdgesSound

-----------------------------------------------------------------------------

\* What is in a list is at its head or in the rest of it.
LEMMA HeadOrTail ==
    ASSUME NEW S, NEW list \in Seq(S), list # << >>, NEW x \in ToSet(list)
    PROVE  x = Head(list) \/ x \in ToSet(Tail(list))
<1>1. /\ Len(list) \in Nat /\ ToSet(list) = {list[i] : i \in 1 .. Len(list)}
      /\ Tail(list) \in Seq(S) /\ Len(Tail(list)) = Len(list) - 1
      /\ \A i \in 1 .. Len(Tail(list)) : Tail(list)[i] = list[i + 1]
  BY ElementsOf, HeadTailProperties
<1>2. ToSet(Tail(list)) = {Tail(list)[i] : i \in 1 .. Len(Tail(list))}
  BY <1>1, ElementsOf
<1>3. PICK i \in 1 .. Len(list) : x = list[i]
  BY <1>1
<1>4. CASE i = 1
  BY <1>3, <1>4
<1>5. CASE i # 1
  <2>1. i - 1 \in 1 .. Len(Tail(list)) /\ (i - 1) + 1 = i
    BY <1>1, <1>3, <1>5
  <2>2. Tail(list)[i - 1] = x
    BY <1>1, <1>3, <2>1
  <2> QED
    BY <1>2, <2>1, <2>2
<1> QED
  BY <1>4, <1>5

\* The arcs of the prepare graph lead from node to node.
LEMMA ArcsTyped == ListsInv => \A ignored : IsArcs(Arcs(ignored), Nodes)
  BY ArcsFacts

\* The same after a step.
LEMMA ArcsTypedNext == ListsInv' => (\A ignored : IsArcs(Arcs(ignored), Nodes))'
  BY ArcsTyped, PTL

\* No shortcut that is added or replaced ends at the node that is contracted.
LEMMA AtNodeStays ==
    ASSUME ListsInv, NEW inEdge, NEW outEdge, NEW from, NEW to, NEW weight, from # node, to # node,
           PairHandled(inEdge, outEdge, from, to, weight),
           NEW id \in PrepareEdges, node \in Ends(id)
    PROVE  /\ EdgeAt(id)' = EdgeAt(id) /\ Ends(id)' = Ends(id)
           /\ \A n : AdjacentNode(id, n)' = AdjacentNode(id, n) /\ Weight(id, n)' = Weight(id, n)
<1>1. EdgeAfter(id, from, to, weight, inEdge, outEdge)
  BY DEF PairHandled
<1>2. EdgeAt(id)' = EdgeAt(id)
  BY <1>1 DEF EdgeAfter, Ends
<1> QED
  BY <1>2 DEF Ends, AdjacentNode, Weight

\* What could be walked still can be, with at most the same weight.
LEMMA WalksStay ==
    ASSUME ListsInv, ListsInv', graph' = graph, NEW ignored, NEW inEdge, NEW outEdge, NEW from, NEW to,
           NEW weight \in Nat, PairHandled(inEdge, outEdge, from, to, weight), NEW s \in Nodes
    PROVE  \A x \in Walked(Nodes, Arcs(ignored), s) :
              \E w \in Nat : w <= x[2] /\ <<x[1], w>> \in Walked(Nodes, Arcs(ignored)', s)
<1>1. \A x \in Arcs(ignored) : x[3] # Inf =>
         \E y \in Arcs(ignored)' : y[1] = x[1] /\ y[2] = x[2] /\ y[3] # Inf /\ y[3] <= x[3]
  BY ArcsLighter
<1>2. Nodes' = Nodes
  BY DEF Nodes
<1>3. IsArcs(Arcs(ignored), Nodes)
  BY ArcsTyped
<1>4. IsArcs(Arcs(ignored)', Nodes)
  BY <1>2, ArcsTypedNext DEF IsArcs
<1> QED
  BY <1>1, <1>3, <1>4, WalkedLighter

\* A pair that has been handled stays so.
LEMMA HandledStays ==
    ASSUME ListsInv, ListsInv', graph' = graph, node' = node, node \in Nodes,
           NEW inEdge, NEW outEdge, NEW from, NEW to, from # node, to # node,
           NEW weight \in Nat, PairHandled(inEdge, outEdge, from, to, weight),
           NEW i \in ToSet(in[node]), NEW o \in ToSet(out[node]), Handled(i, o)
    PROVE  Handled(i, o)'
<1>1. PICK v : v = node
  OBVIOUS
<1>2. PICK f, t, w1, w2 : /\ f = AdjacentNode(i, node) /\ t = AdjacentNode(o, node)
                          /\ w1 = Weight(i, f) /\ w2 = Weight(o, node)
  OBVIOUS
<1>3. i \in PrepareEdges /\ o \in PrepareEdges /\ node \in Ends(i) /\ node \in Ends(o)
      /\ f \in Nodes /\ w1 \in Nat /\ w2 \in Nat
  BY <1>2, ListedFacts DEF Alive
<1>4. /\ AdjacentNode(i, node)' = f /\ AdjacentNode(o, node)' = t
      /\ Weight(i, f)' = w1 /\ Weight(o, node)' = w2
  <2>1. \A n : /\ AdjacentNode(i, n)' = AdjacentNode(i, n) /\ Weight(i, n)' = Weight(i, n)
               /\ AdjacentNode(o, n)' = AdjacentNode(o, n) /\ Weight(o, n)' = Weight(o, n)
    BY <1>3, AtNodeStays
  <2>2. /\ AdjacentNode(i, v)' = f /\ AdjacentNode(o, v)' = t
        /\ Weight(i, f)' = w1 /\ Weight(o, v)' = w2
    BY <1>1, <1>2, <2>1
  <2>3. v = node'
    BY <1>1
  <2> QED
    BY <2>2, <2>3 DEF AdjacentNode, Weight
<1>5. Nodes' = Nodes /\ Arcs(node)' = Arcs(v)'
  BY <1>1 DEF Nodes, Arcs
<1>6. CASE f = t
  BY <1>4, <1>6 DEF Handled
<1>7. CASE f # t
  <2>1. PICK w \in Nat : w <= w1 + w2 /\ <<t, w>> \in Walked(Nodes, Arcs(v), f)
    BY <1>1, <1>2, <1>7 DEF Handled
  <2>2. PICK w0 \in Nat : w0 <= w /\ <<t, w0>> \in Walked(Nodes, Arcs(v)', f)
    BY <1>3, <2>1, WalksStay
  <2>3. w0 <= w1 + w2
    BY <1>3, <2>1, <2>2
  <2>4. <<t, w0>> \in Walked(Nodes, Arcs(node), f)'
    BY <1>5, <2>2 DEF Walked
  <2>5. AdjacentNode(i, node)' = f /\ Weight(i, AdjacentNode(i, node))' = w1
    BY <1>4 DEF Weight
  <2> QED
    BY <1>4, <2>3, <2>4, <2>5 DEF Handled, Walked
<1> QED
  BY <1>6, <1>7

-----------------------------------------------------------------------------

\* The pair at the head of todo has been handled after HandlePair.
LEMMA NewPairHandled ==
    ASSUME ListsInv, ListsInv', graph' = graph, node' = node,
           NEW inEdge, NEW outEdge, NEW from, NEW to, NEW w1, NEW w2, NEW weight \in Nat, weight = w1 + w2,
           IsPair(inEdge, outEdge, from, to, w1, w2),
           PairHandled(inEdge, outEdge, from, to, weight)
    PROVE  Handled(inEdge, outEdge)'
<1>1. PICK v : v = node
  OBVIOUS
<1>2. /\ inEdge \in ToSet(in[node]) /\ outEdge \in ToSet(out[node])
      /\ inEdge \in PrepareEdges /\ outEdge \in PrepareEdges /\ node \in Nodes
      /\ node \in Ends(inEdge) /\ node \in Ends(outEdge)
      /\ from = AdjacentNode(inEdge, node) /\ to = AdjacentNode(outEdge, node)
      /\ w1 = Weight(inEdge, from) /\ w2 = Weight(outEdge, node)
      /\ from # node /\ to # node /\ from \in Nodes /\ to \in Nodes
  BY DEF IsPair
<1>3. Nodes' = Nodes /\ Arcs(node)' = Arcs(v)' /\ IsFiniteSet(Nodes) /\ Inf \notin Int
  BY <1>1, BaseFacts DEF Nodes, Arcs, ListsInv
<1>4. CASE from = to \/ \E w \in Nat : w <= weight /\ <<to, w>> \in Walked(Nodes, Arcs(v), from)
  <2>1. Handled(inEdge, outEdge)
    BY <1>1, <1>2, <1>4 DEF Handled
  <2> QED
    BY <1>2, <2>1, HandledStays
<1>5. CASE Witness(from, to, weight)
  <2>1. IsArcs(Arcs(v), Nodes)
    BY ArcsTyped
  <2> DEFINE d == D!Distances(Nodes, Arcs(v))[<<from, to>>]
  <2>2. IsLeastOf(d, WalkWeights(Nodes, Arcs(v), from, to))
    BY <1>2, <1>3, <2>1, DistanceIsLeast
  <2>3. d \in 0 .. weight
    BY <1>1, <1>5 DEF Witness
  <2> HIDE DEF d
  <2>4. d # Inf /\ d \in Nat /\ d <= weight
    BY <1>3, <2>3
  <2>5. d \in WalkWeights(Nodes, Arcs(v), from, to)
    BY <2>2, <2>4 DEF IsLeastOf
  <2> QED
    BY <1>4, <2>4, <2>5 DEF WalkWeights
<1>6. CASE \E id \in PrepareEdges' :
              /\ from # to /\ id \in ToSet(out'[from])
              /\ EdgeAt(id)'.a = from /\ EdgeAt(id)'.b = to
              /\ EdgeAt(id)'.fwd \in Nat /\ EdgeAt(id)'.fwd <= weight
  <2>1. PICK id \in PrepareEdges' :
              /\ from # to /\ id \in ToSet(out'[from])
              /\ EdgeAt(id)'.a = from /\ EdgeAt(id)'.b = to
              /\ EdgeAt(id)'.fwd \in Nat /\ EdgeAt(id)'.fwd <= weight
    BY <1>6
  <2>2. PICK w \in Nat : w = EdgeAt(id)'.fwd /\ w <= weight
    BY <2>1
  <2>3. AdjacentNode(id, from)' = to /\ Weight(id, from)' = w
    BY <2>1, <2>2 DEF AdjacentNode, Weight
  <2>4. <<from, to, w>> \in Arcs(v)'
    <3>1. ListedArcs'
      BY ArcsListedNext
    <3>2. \A m \in Nodes : \A k \in ToSet(out'[m]) :
             AdjacentNode(k, m)' # v => <<m, AdjacentNode(k, m)', Weight(k, m)'>> \in Arcs(v)'
      BY <1>3, <3>1 DEF ListedArcs
    <3> QED
      BY <1>1, <1>2, <2>1, <2>3, <3>2
  <2>5. IsArcs(Arcs(v)', Nodes)
    BY <1>3, ArcsTypedNext DEF IsArcs
  <2> DEFINE B == Arcs(v)'
  <2>6. <<to, w>> \in Walked(Nodes, B, from)
    <3>1. PICK arc \in B : arc = <<from, to, w>>
      BY <2>4
    <3>2. arc[1] = from /\ arc[2] = to /\ arc[3] = w /\ arc[3] # Inf
      BY <1>3, <3>1
    <3>3. IsArcs(B, Nodes)
      BY <2>5
    <3> HIDE DEF B
    <3>4. <<arc[2], arc[3]>> \in Walked(Nodes, B, arc[1])
      BY <3>2, <3>3, ArcWalked
    <3> QED
      BY <3>2, <3>4
  <2>7. <<to, w>> \in Walked(Nodes, Arcs(node), from)'
    BY <1>3, <2>6 DEF Walked
  <2>8. /\ AdjacentNode(inEdge, node)' = from /\ AdjacentNode(outEdge, node)' = to
        /\ Weight(inEdge, from)' = w1 /\ Weight(outEdge, node)' = w2
    <3>1. \A n : /\ AdjacentNode(inEdge, n)' = AdjacentNode(inEdge, n)
                 /\ Weight(inEdge, n)' = Weight(inEdge, n)
                 /\ AdjacentNode(outEdge, n)' = AdjacentNode(outEdge, n)
                 /\ Weight(outEdge, n)' = Weight(outEdge, n)
      BY <1>2, AtNodeStays
    <3>2. /\ AdjacentNode(inEdge, v)' = from /\ AdjacentNode(outEdge, v)' = to
          /\ Weight(inEdge, from)' = w1 /\ Weight(outEdge, v)' = w2
      BY <1>1, <1>2, <3>1
    <3>3. v = node'
      BY <1>1
    <3> QED
      BY <3>2, <3>3 DEF AdjacentNode, Weight
  <2>9. Weight(inEdge, AdjacentNode(inEdge, node))' = w1
    BY <2>8 DEF Weight
  <2> QED
    BY <2>2, <2>7, <2>8, <2>9 DEF Handled, Walked
<1> QED
  BY <1>4, <1>5, <1>6 DEF PairHandled

\* Handling a pair keeps the distances.
LEMMA HandlePreserved ==
    ASSUME ListsInv, PreservedInv, HandlePair
    PROVE  PreservedInv'
<1>1. ListsInv'
  BY HandleLists
<1>2. /\ graph' = graph /\ node' = node /\ phase = "contract" /\ phase' = "contract" /\ level' = level
      /\ todo # << >> /\ todo' = Tail(todo) /\ Nodes' = Nodes /\ BaseArcs' = BaseArcs
  BY DEF HandlePair, storage, Nodes, BaseArcs
<1>3. node \in Nodes /\ todo \in Seq(ToSet(in[node]) \X ToSet(out[node]))
  BY <1>2 DEF ListsInv
<1>4. PICK inEdge, outEdge, from, to, w1, w2 :
         /\ IsPair(inEdge, outEdge, from, to, w1, w2)
         /\ PairHandled(inEdge, outEdge, from, to, w1 + w2)
  BY HandleEffect
<1>5. PICK weight \in Nat : weight = w1 + w2
  <2>1. w1 \in Nat \ {0} /\ w2 \in Nat \ {0}
    BY <1>4 DEF IsPair
  <2> QED
    BY <2>1
<1>6. PairHandled(inEdge, outEdge, from, to, weight)
  BY <1>4, <1>5
<1>7. EdgesSound'
  BY <1>1, <1>2, <1>4, <1>5, <1>6, HandleSound DEF PreservedInv
<1>8. WalksKept'
  <2>1. Alive' = Alive
    BY <1>2 DEF Alive, MaxLevel
  <2> SUFFICES ASSUME NEW p \in Alive, NEW x \in Walked(Nodes, BaseArcs, p), x[1] \in Alive
               PROVE  \E w \in Nat : w <= x[2] /\ <<x[1], w>> \in Walked(Nodes, Arcs(-1)', p)
    BY <1>2, <2>1 DEF WalksKept, Walked
  <2>2. PICK w \in Nat : w <= x[2] /\ <<x[1], w>> \in Walked(Nodes, Arcs(-1), p)
    BY DEF PreservedInv, WalksKept
  <2>3. p \in Nodes /\ x[2] \in Nat
    BY DEF Alive, Walked
  <2>4. PICK w0 \in Nat : w0 <= w /\ <<x[1], w0>> \in Walked(Nodes, Arcs(-1)', p)
    BY <1>1, <1>2, <1>6, <2>2, <2>3, WalksStay
  <2>5. w0 <= x[2]
    BY <2>2, <2>3, <2>4
  <2> QED
    BY <2>4, <2>5
<1>9. ASSUME NEW i \in ToSet(in[node]), NEW o \in ToSet(out[node])
      PROVE  <<i, o>> \in ToSet(Tail(todo)) \/ Handled(i, o)'
  <2>1. from # node /\ to # node
    BY <1>4 DEF IsPair
  <2>2. CASE Handled(i, o)
    BY <1>1, <1>2, <1>3, <1>6, <2>1, <2>2, HandledStays
  <2>3. CASE <<i, o>> \in ToSet(todo)
    <3>1. CASE <<i, o>> = Head(todo)
      <4>1. inEdge = i /\ outEdge = o
        BY <1>4, <3>1 DEF IsPair
      <4>2. Handled(inEdge, outEdge)'
        BY <1>1, <1>2, <1>4, <1>5, <1>6, NewPairHandled
      <4>3. (inEdge = i /\ outEdge = o) => (Handled(inEdge, outEdge)' => Handled(i, o)')
        OBVIOUS
      <4> QED
        BY <4>1, <4>2, <4>3
    <3>2. CASE <<i, o>> \in ToSet(Tail(todo))
      BY <3>2
    <3> QED
      BY <1>2, <1>3, <2>3, <3>1, <3>2, HeadOrTail
  <2> QED
    BY <1>2, <2>2, <2>3 DEF PreservedInv, HandledInv
<1>10. in'[node'] = in[node] /\ out'[node'] = out[node]
  BY <1>2, <1>6 DEF PairHandled
<1>11. HandledInv'
  BY <1>2, <1>9, <1>10 DEF HandledInv
<1> QED
  BY <1>7, <1>8, <1>11 DEF PreservedInv

-----------------------------------------------------------------------------

\* Without an arc back to v, a walk that starts elsewhere never comes to v.
LEMMA WalkedWithout ==
    ASSUME NEW N, NEW A, IsArcs(A, N), NEW v, NEW s \in N, s # v
    PROVE  Walked(N, {arc \in A : arc[2] # v}, s)
              \subseteq Walked(N, {arc \in A : arc[1] # v /\ arc[2] # v}, s)
<1> DEFINE V == {arc \in A : arc[2] # v}
           B == {arc \in A : arc[1] # v /\ arc[2] # v}
           C == {x \in Walked(N, B, s) : x[1] # v}
<1>1. IsArcs(V, N) /\ IsArcs(B, N)
  BY DEF IsArcs
<1>2. IsClosed(Walked(N, B, s), B, s)
  <2> HIDE DEF B
  <2> QED
    BY <1>1, WalkedClosed
<1>3. <<s, 0>> \in C
  BY <1>2 DEF IsClosed
<1>4. ASSUME NEW x \in Walked(N, V, s) \cap C, NEW arc \in V, arc[1] = x[1], arc[3] # Inf
      PROVE  <<arc[2], x[2] + arc[3]>> \in C
  <2>1. arc \in B /\ arc[2] # v
    BY <1>4
  <2>2. <<arc[2], x[2] + arc[3]>> \in Walked(N, B, s)
    BY <1>2, <1>4, <2>1 DEF IsClosed
  <2> QED
    BY <2>1, <2>2
<1> HIDE DEF C, V, B
<1>5. Walked(N, V, s) \subseteq C
  BY <1>1, <1>3, <1>4, WalkedInduction
<1> QED
  BY <1>5 DEF C, V, B

\* A node can be left out if there is a way around it for each pair of an arc
\* to it and one from it.
LEMMA WalkedAround ==
    ASSUME NEW N, NEW A, IsArcs(A, N), NEW v \in N, NEW s \in N, s # v, Inf \notin Int,
           NEW V, V = {arc \in A : arc[2] # v}, NEW B, B = {arc \in A : arc[1] # v /\ arc[2] # v},
           \A arc \in A : arc[1] # arc[2],
           \A x, y \in A : x[2] = v /\ y[1] = v /\ x[3] # Inf /\ y[3] # Inf =>
              \/ x[1] = y[2]
              \/ \E w \in Nat : /\ w <= x[3] + y[3]
                                /\ <<y[2], w>> \in Walked(N, V, x[1])
    PROVE  \A z \in Walked(N, A, s) : z[1] # v =>
              \E w \in Nat : w <= z[2] /\ <<z[1], w>> \in Walked(N, B, s)
<1> DEFINE Around(z) == \E w \in Nat : w <= z[2] /\ <<z[1], w>> \in Walked(N, B, s)
           To(z) == \E x \in A, w \in Nat : /\ x[2] = v /\ x[3] # Inf /\ w + x[3] <= z[2]
                                            /\ <<x[1], w>> \in Walked(N, B, s)
           C == {z \in Walked(N, A, s) : (z[1] # v => Around(z)) /\ (z[1] = v => To(z))}
<1>1. IsArcs(B, N) /\ IsArcs(V, N)
  BY DEF IsArcs
<1>2. IsClosed(Walked(N, B, s), B, s) /\ IsClosed(Walked(N, A, s), A, s)
  BY <1>1, WalkedClosed
<1>3. <<s, 0>> \in C
  <2>1. <<s, 0>> \in Walked(N, A, s) /\ <<s, 0>> \in Walked(N, B, s)
    BY <1>2 DEF IsClosed
  <2>2. Around(<<s, 0>>)
    <3>1. 0 \in Nat /\ 0 <= <<s, 0>>[2] /\ <<<<s, 0>>[1], 0>> \in Walked(N, B, s)
      BY <2>1
    <3> QED
      BY <3>1
  <2> HIDE DEF Around, To
  <2> QED
    BY <2>1, <2>2
<1>4. \A arc \in A : /\ arc[1] \in N /\ arc[2] \in N
                     /\ arc[3] # Inf => arc[3] \in Nat \ {0}
  BY DEF IsArcs
<1>5. ASSUME NEW z \in Walked(N, A, s) \cap C, NEW arc \in A, arc[1] = z[1], arc[3] # Inf
      PROVE  <<arc[2], z[2] + arc[3]>> \in C
  <2>1. z[2] \in Nat /\ arc[3] \in Nat /\ arc[1] \in N /\ arc[2] \in N
    <3>1. z \in N \X Nat
      <4> HIDE DEF C
      <4> QED
        BY DEF Walked
    <3>2. arc[1] \in N /\ arc[2] \in N /\ arc[3] \in Nat
      BY <1>4, <1>5
    <3> QED
      BY <3>1, <3>2
  <2>2. <<arc[2], z[2] + arc[3]>> \in Walked(N, A, s)
    BY <1>2, <1>5 DEF IsClosed
  <2> DEFINE new == <<arc[2], z[2] + arc[3]>>
  <2>3. ASSUME arc[1] # v, arc[2] # v PROVE Around(new)
    <3>1. PICK w \in Nat : w <= z[2] /\ <<z[1], w>> \in Walked(N, B, s)
      BY <1>5, <2>3
    <3>2. arc \in B
      BY <2>3
    <3>3. <<arc[2], w + arc[3]>> \in Walked(N, B, s)
      BY <1>2, <1>5, <3>1, <3>2 DEF IsClosed
    <3>4. w + arc[3] \in Nat /\ w + arc[3] <= z[2] + arc[3]
      BY <2>1, <3>1
    <3> QED
      BY <3>3, <3>4
  <2>4. ASSUME arc[1] # v, arc[2] = v PROVE To(new)
    <3>1. PICK w \in Nat : w <= z[2] /\ <<z[1], w>> \in Walked(N, B, s)
      BY <1>5, <2>4
    <3>2. w + arc[3] <= z[2] + arc[3]
      BY <2>1, <3>1
    <3> QED
      BY <1>5, <2>4, <3>1, <3>2
  <2>5. ASSUME arc[1] = v PROVE Around(new)
    <3>1. PICK x \in A, w \in Nat : /\ x[2] = v /\ x[3] # Inf /\ w + x[3] <= z[2]
                                    /\ <<x[1], w>> \in Walked(N, B, s)
      BY <1>5, <2>5
    <3>2. x[3] \in Nat /\ x[1] \in N /\ x[1] # v
      BY <1>4, <3>1
    <3>3. CASE x[1] = arc[2]
      <4>1. w <= z[2] + arc[3]
        BY <2>1, <3>1, <3>2
      <4> QED
        BY <3>1, <3>3, <4>1
    <3>4. CASE x[1] # arc[2]
      <4>1. PICK d \in Nat : d <= x[3] + arc[3] /\ <<arc[2], d>> \in Walked(N, V, x[1])
        BY <1>5, <2>5, <3>1, <3>4
      <4>2. <<arc[2], d>> \in Walked(N, B, x[1])
        BY <3>2, <4>1, WalkedWithout
      <4>3. <<arc[2], w + d>> \in Walked(N, B, s)
        BY <1>1, <3>1, <3>2, <4>2, WalkedOn
      <4>4. w + d \in Nat /\ w + d <= z[2] + arc[3]
        BY <2>1, <3>1, <3>2, <4>1
      <4> QED
        BY <4>3, <4>4
    <3> QED
      BY <3>3, <3>4
  <2>6. arc[2] # v => Around(new)
    BY <2>3, <2>5
  <2>7. arc[2] = v => To(new)
    BY <1>5, <2>4
  <2>8. new[1] = arc[2]
    OBVIOUS
  <2> HIDE DEF new, Around, To
  <2>9. new \in Walked(N, A, s)
    BY <2>2 DEF new
  <2>10. new \in C
    BY <2>6, <2>7, <2>8, <2>9
  <2> QED
    BY <2>10 DEF new
<1> HIDE DEF C
<1>6. Walked(N, A, s) \subseteq C
  BY <1>3, <1>5, WalkedInduction
<1> QED
  BY <1>6 DEF C

-----------------------------------------------------------------------------

\* A step that changes no edge and no list changes no arc.
LEMMA ArcsUnchanged ==
    ASSUME graph' = graph, prepareShortcuts' = prepareShortcuts, out' = out, NEW ignored
    PROVE  Arcs(ignored)' = Arcs(ignored) /\ BaseArcs' = BaseArcs
<1>1. /\ Nodes' = Nodes
      /\ \A id, n : AdjacentNode(id, n)' = AdjacentNode(id, n) /\ Weight(id, n)' = Weight(id, n)
  BY EdgesStay
<1>2. Arcs(ignored)' = Arcs(ignored)
  BY <1>1 DEF Arcs
<1> QED
  BY <1>2 DEF BaseArcs

\* The weights of edges that do not change stay justified.
LEMMA EdgesSoundStay ==
    ASSUME EdgesSound, graph' = graph, prepareShortcuts' = prepareShortcuts
    PROVE  EdgesSound'
<1>1. /\ Nodes' = Nodes /\ BaseArcs' = BaseArcs /\ PrepareEdges' = PrepareEdges
      /\ \A id : Ends(id)' = Ends(id)
      /\ \A id, n : AdjacentNode(id, n)' = AdjacentNode(id, n) /\ Weight(id, n)' = Weight(id, n)
  BY EdgesStay DEF BaseArcs
<1> QED
  BY <1>1 DEF EdgesSound, Walked

\* When a node is polled, no pair has been handled.
LEMMA PollPreserved ==
    ASSUME ListsInv, level \in [Nodes -> 0 .. MaxLevel], PreservedInv, NEW n \in Nodes, PollNode(n)
    PROVE  PreservedInv'
<1>1. /\ graph' = graph /\ prepareShortcuts' = prepareShortcuts /\ out' = out /\ in' = in
      /\ node' = n
      /\ todo' = FlattenSeq([i \in DOMAIN in[n] |->
                   [j \in 1 .. Len(out[n]) |-> <<in[n][i], out[n][j]>>]])
  BY DEF PollNode, prepareGraph
<1>2. EdgesSound'
  BY <1>1, EdgesSoundStay DEF PreservedInv
<1>3. WalksKept'
  <2>1. Alive' = Alive
    BY PollAlive DEF ListsInv
  <2>2. BaseArcs' = BaseArcs /\ Nodes' = Nodes
    BY <1>1 DEF Nodes, BaseArcs
  <2> SUFFICES ASSUME NEW p \in Alive', NEW x \in Walked(Nodes, BaseArcs, p), x[1] \in Alive'
               PROVE  \E w \in Nat : w <= x[2] /\ <<x[1], w>> \in Walked(Nodes, Arcs(-1)', p)
    BY <2>2 DEF WalksKept, Walked
  <2>3. \E w \in Nat : w <= x[2] /\ <<x[1], w>> \in Walked(Nodes, Arcs(-1), p)
    BY <2>1 DEF PreservedInv, WalksKept
  <2>4. Arcs(-1)' = Arcs(-1)
    BY <1>1, ArcsUnchanged
  <2> QED
    BY <2>3, <2>4
<1>4. HandledInv'
  <2>1. in[n] \in Seq(PrepareEdges) /\ out[n] \in Seq(PrepareEdges)
    BY ListedFacts
  <2> DEFINE pairs == FlattenSeq([i \in DOMAIN in[n] |->
                         [j \in 1 .. Len(out[n]) |-> <<in[n][i], out[n][j]>>]])
  <2>2. ToSet(todo') = ToSet(in[n]) \X ToSet(out[n])
    <3>1. ToSet(pairs) = ToSet(in[n]) \X ToSet(out[n])
      <4>1. PICK x, y : x = in[n] /\ y = out[n]
        OBVIOUS
      <4>2. x \in Seq(PrepareEdges) /\ y \in Seq(PrepareEdges)
        BY <2>1, <4>1
      <4>3. pairs = FlattenSeq([i \in DOMAIN x |-> [j \in 1 .. Len(y) |-> <<x[i], y[j]>>]])
        BY <4>1
      <4> HIDE DEF pairs
      <4>4. HoldsPairs(pairs, x, y)
        BY <4>2, <4>3, PairsFacts
      <4> QED
        BY <4>1, <4>4 DEF HoldsPairs
    <3>2. todo' = pairs
      BY <1>1
    <3> HIDE DEF pairs
    <3> QED
      BY <3>1, <3>2
  <2> HIDE DEF pairs
  <2>3. ToSet(todo') = ToSet(in'[node']) \X ToSet(out'[node'])
    BY <1>1, <2>2
  <2> QED
    BY <2>3 DEF HandledInv
<1> QED
  BY <1>2, <1>3, <1>4 DEF PreservedInv

\* Taking a node out of the graph once all its pairs have been handled.
LEMMA InsertPreserved ==
    ASSUME ListsInv, LevelsInv, PreservedInv, InsertShortcuts
    PROVE  PreservedInv'
<1>1. /\ graph' = graph /\ level' = level /\ prepareShortcuts' = prepareShortcuts /\ node' = node
      /\ phase = "contract" /\ phase' = "poll" /\ Disconnect /\ todo = << >>
  BY DEF InsertShortcuts
<1>2. /\ graph \in Graphs /\ ShortcutsTyped /\ node \in Nodes /\ Inf \notin Int
  BY <1>1, BaseFacts DEF ListsInv
<1>3. EdgesSound'
  BY <1>1, EdgesSoundStay DEF PreservedInv
<1>4. HandledInv'
  BY <1>1 DEF HandledInv
<1>5. /\ Nodes' = Nodes /\ MaxLevel' = MaxLevel /\ BaseArcs' = BaseArcs
      /\ \A id, n : AdjacentNode(id, n)' = AdjacentNode(id, n) /\ Weight(id, n)' = Weight(id, n)
  BY <1>1, EdgesStay DEF BaseArcs
<1>6. Alive' \subseteq Alive \ {node}
  BY <1>1, <1>5 DEF Alive, LevelsInv, Contracted, Remaining
<1> DEFINE A == Arcs(-1)
           B == {arc \in A : arc[1] # node /\ arc[2] # node}
           V == {arc \in A : arc[2] # node}
<1>7. IsArcs(A, Nodes)
  BY ArcsTyped
<1>8. ASSUME NEW arc \in A
      PROVE  \E id \in ToSet(out[arc[1]]) :
                  /\ arc[1] \in Nodes /\ arc[2] = AdjacentNode(id, arc[1])
                  /\ arc[3] = Weight(id, arc[1]) /\ arc[2] # -1
                  /\ arc = <<arc[1], arc[2], arc[3]>>
  BY ArcsFacts
<1>9. V = Arcs(node)
  <2>1. ASSUME NEW arc \in V PROVE arc \in Arcs(node)
    <3>1. PICK id \in ToSet(out[arc[1]]) :
                  /\ arc[1] \in Nodes /\ arc[2] = AdjacentNode(id, arc[1])
                  /\ arc[3] = Weight(id, arc[1])
                  /\ arc = <<arc[1], arc[2], arc[3]>>
      BY <1>8
    <3> QED
      BY <3>1, ArcsFacts
  <2>2. ASSUME NEW arc \in Arcs(node) PROVE arc \in V
    <3>1. PICK id \in ToSet(out[arc[1]]) :
                  /\ arc[1] \in Nodes /\ arc[2] = AdjacentNode(id, arc[1])
                  /\ arc[3] = Weight(id, arc[1]) /\ arc[2] # node
                  /\ arc = <<arc[1], arc[2], arc[3]>>
      BY ArcsFacts
    <3>2. arc[2] # -1
      <4>1. AdjacentNode(id, arc[1]) \in Nodes
        BY <3>1, ListedFacts DEF Alive
      <4> QED
        BY <1>2, <3>1, <4>1, BaseFacts
    <3> QED
      BY <3>1, <3>2, ArcsFacts
  <2> QED
    BY <2>1, <2>2
<1>10. \A arc \in A : arc[1] # arc[2]
  <2> SUFFICES ASSUME NEW arc \in A PROVE arc[1] # arc[2]
    OBVIOUS
  <2>1. PICK id \in ToSet(out[arc[1]]) : arc[1] \in Nodes /\ arc[2] = AdjacentNode(id, arc[1])
    BY <1>8
  <2>2. id \in PrepareEdges /\ arc[1] \in Ends(id)
    BY <2>1, ListedFacts
  <2> QED
    BY <1>2, <2>1, <2>2, AdjacentFacts
<1>11. ASSUME NEW x \in A, NEW y \in A, x[2] = node, y[1] = node, x[3] # Inf, y[3] # Inf
       PROVE  \/ x[1] = y[2]
              \/ \E w \in Nat : w <= x[3] + y[3] /\ <<y[2], w>> \in Walked(Nodes, V, x[1])
  <2>1. PICK i \in ToSet(out[x[1]]) : /\ x[1] \in Nodes /\ x[2] = AdjacentNode(i, x[1])
                                      /\ x[3] = Weight(i, x[1])
    BY <1>8
  <2>2. PICK o \in ToSet(out[y[1]]) : y[2] = AdjacentNode(o, y[1]) /\ y[3] = Weight(o, y[1])
    BY <1>8
  <2>3. i \in PrepareEdges /\ x[1] \in Ends(i) /\ i \in ToSet(in[node])
    BY <1>11, <2>1, ListedFacts
  <2>4. AdjacentNode(i, node) = x[1]
    BY <1>2, <1>11, <2>1, <2>3, AdjacentFacts
  <2>5. o \in ToSet(out[node]) /\ AdjacentNode(o, node) = y[2] /\ Weight(o, node) = y[3]
    BY <1>11, <2>2
  <2>6. ToSet(todo) = {}
    BY <1>1 DEF ToSet
  <2>7. Handled(i, o)
    BY <1>1, <2>3, <2>5, <2>6 DEF PreservedInv, HandledInv
  <2> HIDE DEF V
  <2> QED
    BY <1>9, <2>1, <2>4, <2>5, <2>7 DEF Handled
<1>12. B \subseteq Arcs(-1)'
  <2> SUFFICES ASSUME NEW arc \in B PROVE arc \in Arcs(-1)'
    OBVIOUS
  <2>1. PICK id \in ToSet(out[arc[1]]) :
                  /\ arc[1] \in Nodes /\ arc[2] = AdjacentNode(id, arc[1])
                  /\ arc[3] = Weight(id, arc[1]) /\ arc[2] # -1
                  /\ arc = <<arc[1], arc[2], arc[3]>>
    BY <1>8
  <2>2. id \in ToSet(out'[arc[1]])
    <3>1. arc[1] # node /\ arc[2] # node
      OBVIOUS
    <3> HIDE DEF B
    <3> QED
      BY <1>1, <1>2, <2>1, <3>1, DisconnectMeaning
  <2>3. ListsInv'
    BY InsertLists
  <2>4. ListedArcs'
    BY <2>3, ArcsListedNext
  <2>5. \A n \in Nodes : \A k \in ToSet(out'[n]) :
           AdjacentNode(k, n)' # -1 => <<n, AdjacentNode(k, n)', Weight(k, n)'>> \in Arcs(-1)'
    BY <1>5, <2>4 DEF ListedArcs
  <2>6. <<arc[1], AdjacentNode(id, arc[1]), Weight(id, arc[1])>> \in Arcs(-1)'
    BY <1>5, <2>1, <2>2, <2>5
  <2> HIDE DEF B
  <2> QED
    BY <2>1, <2>6
<1> HIDE DEF A
<1>13. WalksKept'
  <2> SUFFICES ASSUME NEW p \in Alive', NEW x \in Walked(Nodes, BaseArcs, p), x[1] \in Alive'
               PROVE  \E w \in Nat : w <= x[2] /\ <<x[1], w>> \in Walked(Nodes, Arcs(-1)', p)
    BY <1>5 DEF WalksKept, Walked
  <2>1. p \in Alive /\ x[1] \in Alive /\ p # node /\ x[1] # node /\ p \in Nodes /\ x[2] \in Nat
    BY <1>6 DEF Alive, Walked
  <2>2. PICK w \in Nat : w <= x[2] /\ <<x[1], w>> \in Walked(Nodes, A, p)
    BY <2>1 DEF PreservedInv, WalksKept, A
  <2>3. PICK d \in Nat : d <= w /\ <<x[1], d>> \in Walked(Nodes, B, p)
    <3>1. \A z \in Walked(Nodes, A, p) : z[1] # node =>
              \E y \in Nat : y <= z[2] /\ <<z[1], y>> \in Walked(Nodes, B, p)
      <4>1. /\ IsArcs(A, Nodes) /\ node \in Nodes /\ p \in Nodes /\ p # node /\ Inf \notin Int
            /\ \A arc \in A : arc[1] # arc[2]
        BY <1>2, <1>7, <1>10, <2>1
      <4>2. \A u, y \in A : u[2] = node /\ y[1] = node /\ u[3] # Inf /\ y[3] # Inf =>
              \/ u[1] = y[2]
              \/ \E d \in Nat : d <= u[3] + y[3] /\ <<y[2], d>> \in Walked(Nodes, V, u[1])
        BY <1>11
      <4>3. V = {arc \in A : arc[2] # node} /\ B = {arc \in A : arc[1] # node /\ arc[2] # node}
        OBVIOUS
      <4> HIDE DEF V, B
      <4> QED
        BY <4>1, <4>2, <4>3, WalkedAround
    <3>2. PICK z \in Walked(Nodes, A, p) : z = <<x[1], w>>
      BY <2>2
    <3> HIDE DEF B
    <3> QED
      BY <2>1, <3>1, <3>2
  <2>4. IsArcs(B, Nodes) /\ IsArcs(Arcs(-1)', Nodes)
    <3>1. ListsInv'
      BY InsertLists
    <3>2. (\A ignored : IsArcs(Arcs(ignored), Nodes))'
      BY <3>1, ArcsTypedNext
    <3> QED
      BY <1>5, <1>7, <3>2 DEF IsArcs
  <2>5. \A a \in B : a[3] # Inf =>
           \E b \in Arcs(-1)' : b[1] = a[1] /\ b[2] = a[2] /\ b[3] # Inf /\ b[3] <= a[3]
    <3> SUFFICES ASSUME NEW a \in B, a[3] # Inf
                 PROVE  \E b \in Arcs(-1)' : b[1] = a[1] /\ b[2] = a[2] /\ b[3] # Inf /\ b[3] <= a[3]
      OBVIOUS
    <3>1. a[3] \in Nat /\ a \in Arcs(-1)'
      BY <1>12, <2>4 DEF IsArcs
    <3> QED
      BY <3>1
  <2> HIDE DEF B
  <2>6. \A z \in Walked(Nodes, B, p) :
           \E y \in Nat : y <= z[2] /\ <<z[1], y>> \in Walked(Nodes, Arcs(-1)', p)
    BY <2>1, <2>4, <2>5, WalkedLighter
  <2>7. PICK y \in Nat : y <= d /\ <<x[1], y>> \in Walked(Nodes, Arcs(-1)', p)
    BY <2>3, <2>6
  <2>8. y <= x[2]
    BY <2>1, <2>2, <2>3, <2>7
  <2> QED
    BY <2>7, <2>8
<1> QED
  BY <1>3, <1>4, <1>13 DEF PreservedInv

-----------------------------------------------------------------------------

\* The other steps change nothing the distances depend on.
LEMMA SamePreserved ==
    ASSUME ListsInv, PreservedInv, graph' = graph, prepareShortcuts' = prepareShortcuts,
           out' = out, in' = in, level' = level, node' = node, todo' = todo,
           phase' = phase \/ (phase = "poll" /\ phase' = "done")
    PROVE  PreservedInv'
<1>1. EdgesSound'
  BY EdgesSoundStay DEF PreservedInv
<1>2. /\ Nodes' = Nodes /\ BaseArcs' = BaseArcs
      /\ \A id, n : AdjacentNode(id, n)' = AdjacentNode(id, n) /\ Weight(id, n)' = Weight(id, n)
  BY EdgesStay DEF BaseArcs
<1>3. WalksKept'
  <2>1. Alive' = Alive
    BY SameLists
  <2> SUFFICES ASSUME NEW p \in Alive', NEW x \in Walked(Nodes, BaseArcs, p), x[1] \in Alive'
               PROVE  \E w \in Nat : w <= x[2] /\ <<x[1], w>> \in Walked(Nodes, Arcs(-1)', p)
    BY <1>2 DEF WalksKept, Walked
  <2>2. \E w \in Nat : w <= x[2] /\ <<x[1], w>> \in Walked(Nodes, Arcs(-1), p)
    BY <2>1 DEF PreservedInv, WalksKept
  <2>3. Arcs(-1)' = Arcs(-1)
    BY ArcsUnchanged
  <2> QED
    BY <2>2, <2>3
<1>4. HandledInv'
  <2> SUFFICES ASSUME phase = "contract", NEW i \in ToSet(in[node]), NEW o \in ToSet(out[node])
               PROVE  <<i, o>> \in ToSet(todo) \/ Handled(i, o)'
    BY DEF HandledInv
  <2>1. CASE <<i, o>> \in ToSet(todo)
    BY <2>1
  <2>2. CASE Handled(i, o)
    <3>1. PICK v : v = node
      OBVIOUS
    <3>2. Arcs(v)' = Arcs(v)
      BY ArcsUnchanged
    <3>3. Arcs(node)' = Arcs(node)
      <4>1. Arcs(node)' = Arcs(v)'
        BY <3>1 DEF Arcs
      <4> QED
        BY <3>1, <3>2, <4>1
    <3>4. PICK f, t, w1, w2 : /\ f = AdjacentNode(i, node) /\ t = AdjacentNode(o, node)
                              /\ w1 = Weight(i, f) /\ w2 = Weight(o, node)
      OBVIOUS
    <3>5. /\ AdjacentNode(i, node)' = f /\ AdjacentNode(o, node)' = t
          /\ Weight(i, f)' = w1 /\ Weight(o, node)' = w2
      <4>1. /\ AdjacentNode(i, v)' = f /\ AdjacentNode(o, v)' = t
            /\ Weight(i, f)' = w1 /\ Weight(o, v)' = w2
        BY <1>2, <3>1, <3>4
      <4>2. v = node'
        BY <3>1
      <4> QED
        BY <4>1, <4>2 DEF AdjacentNode, Weight
    <3>6. Weight(i, AdjacentNode(i, node))' = w1
      BY <3>5 DEF Weight
    <3> QED
      BY <1>2, <2>2, <3>3, <3>4, <3>5, <3>6 DEF Handled, Walked
  <2> QED
    BY <2>1, <2>2 DEF PreservedInv, HandledInv
<1> QED
  BY <1>1, <1>3, <1>4 DEF PreservedInv

\* The invariant about the distances is inductive.
LEMMA PreservedKept ==
    ListsInv /\ LevelsInv /\ PreservedInv /\ [RoutingNext]_vars => PreservedInv'
<1> SUFFICES ASSUME ListsInv, LevelsInv, PreservedInv, [RoutingNext]_vars
             PROVE  PreservedInv'
  OBVIOUS
<1>1. CASE HandlePair
  BY <1>1, HandlePreserved
<1>2. CASE InsertShortcuts
  BY <1>2, InsertPreserved
<1>3. CASE FinishContraction
  <2>1. /\ graph' = graph /\ level' = level /\ node' = node /\ todo' = todo /\ out' = out /\ in' = in
        /\ prepareShortcuts' = prepareShortcuts
        /\ phase = "poll" /\ phase' = "done"
    BY <1>3 DEF FinishContraction, prepareGraph
  <2> QED
    BY <2>1, SamePreserved
<1>4. ASSUME NEW n \in Nodes, PollNode(n)
      PROVE  PreservedInv'
  BY <1>4, PollPreserved DEF LevelsInv
<1>5. CASE UNCHANGED contractionVars
  <2>1. /\ graph' = graph /\ level' = level /\ node' = node /\ todo' = todo /\ out' = out /\ in' = in
        /\ prepareShortcuts' = prepareShortcuts /\ phase' = phase
    BY <1>5, ContractionUnchanged
  <2> QED
    BY <2>1, SamePreserved
<1> QED
  BY <1>1, <1>2, <1>3, <1>4, <1>5, ContractionSteps

\* So it always holds.
LEMMA PreservedAlways == Spec => []PreservedInv
<1>1. RoutingInit => PreservedInv
  BY InitLists, InitPreserved DEF RoutingInit
<1>2. ListsInv /\ LevelsInv /\ PreservedInv /\ [RoutingNext]_vars => PreservedInv'
  BY PreservedKept
<1> QED
  BY <1>1, <1>2, ListsAlways, PTL DEF Spec

\* A walk on the prepare graph weighs as much as one on the base graph.
LEMMA ArcsSound ==
    ASSUME ListsInv, EdgesSound, NEW ignored, NEW s \in Nodes
    PROVE  Walked(Nodes, Arcs(ignored), s) \subseteq Walked(Nodes, BaseArcs, s)
<1>1. IsArcs(Arcs(ignored), Nodes) /\ IsArcs(BaseArcs, Nodes)
  BY ArcsTyped, BaseArcsFacts DEF ListsInv
<1>2. <<s, 0>> \in Walked(Nodes, BaseArcs, s)
  BY <1>1, WalkedClosed DEF IsClosed
<1>3. ASSUME NEW x \in Walked(Nodes, Arcs(ignored), s) \cap Walked(Nodes, BaseArcs, s),
             NEW arc \in Arcs(ignored), arc[1] = x[1], arc[3] # Inf
      PROVE  <<arc[2], x[2] + arc[3]>> \in Walked(Nodes, BaseArcs, s)
  <2>1. PICK id \in ToSet(out[arc[1]]) : /\ arc[1] \in Nodes /\ arc[2] = AdjacentNode(id, arc[1])
                                         /\ arc[3] = Weight(id, arc[1])
    BY ArcsFacts
  <2>2. id \in PrepareEdges /\ arc[1] \in Ends(id)
    BY <2>1, ListedFacts
  <2>3. <<arc[2], arc[3]>> \in Walked(Nodes, BaseArcs, arc[1])
    BY <1>3, <2>1, <2>2 DEF EdgesSound
  <2>4. x \in Nodes \X Nat /\ <<x[1], x[2]>> \in Walked(Nodes, BaseArcs, s)
    BY DEF Walked
  <2> QED
    BY <1>1, <1>3, <2>1, <2>3, <2>4, WalkedOn
<1> QED
  BY <1>1, <1>2, <1>3, WalkedInduction

\* BaseDistances are the distances along the arcs of the base graph.
LEMMA BaseDistancesMeaning == BaseDistances = D!Distances(Nodes, BaseArcs)
  BY DEF BaseDistances, BaseArcs

\* Between two contractions the remaining nodes are as far apart as on the
\* base graph: PrepareContractionHierarchies.contractNodes with any witness
\* search that may give up and any order of the nodes.
THEOREM ContractionPreservesDistances == Spec => []DistancesPreserved
<1>1. ASSUME ListsInv, PreservedInv PROVE DistancesPreserved
  <2> SUFFICES ASSUME phase = "poll", NEW s \in Remaining, NEW v \in Remaining
               PROVE  D!Distances(Nodes, Arcs(-1))[<<s, v>>] = D!Distances(Nodes, BaseArcs)[<<s, v>>]
    BY BaseDistancesMeaning DEF DistancesPreserved
  <2>1. s \in Alive /\ v \in Alive /\ s \in Nodes /\ v \in Nodes
    BY DEF Alive, Remaining
  <2>2. IsArcs(Arcs(-1), Nodes) /\ IsArcs(BaseArcs, Nodes) /\ IsFiniteSet(Nodes) /\ Inf \notin Int
    BY <1>1, ArcsTyped, BaseArcsFacts, BaseFacts DEF ListsInv
  <2> DEFINE d == D!Distances(Nodes, Arcs(-1))[<<s, v>>]
             b == D!Distances(Nodes, BaseArcs)[<<s, v>>]
             S == WalkWeights(Nodes, Arcs(-1), s, v)
             T == WalkWeights(Nodes, BaseArcs, s, v)
  <2>3. IsLeastOf(d, S) /\ IsLeastOf(b, T)
    BY <2>1, <2>2, DistanceIsLeast
  <2>4. S \subseteq T /\ S \subseteq Nat /\ T \subseteq Nat
    BY <1>1, <2>1, ArcsSound DEF WalkWeights, PreservedInv
  <2>5. \A w \in T : \E x \in S : x <= w
    <3> SUFFICES ASSUME NEW w \in T PROVE \E x \in S : x <= w
      OBVIOUS
    <3>1. PICK z \in Walked(Nodes, BaseArcs, s) : z = <<v, w>>
      BY DEF WalkWeights
    <3>2. \E x \in Nat : x <= z[2] /\ <<z[1], x>> \in Walked(Nodes, Arcs(-1), s)
      BY <1>1, <2>1, <3>1 DEF PreservedInv, WalksKept
    <3> QED
      BY <3>1, <3>2 DEF WalkWeights
  <2> HIDE DEF d, b, S, T
  <2>6. d = b
    <3>1. CASE T = {}
      BY <2>3, <2>4, <3>1 DEF IsLeastOf
    <3>2. CASE T # {}
      <4>1. S # {}
        BY <2>5, <3>2
      <4>2. d \in S /\ b \in T /\ (\A w \in S : d <= w) /\ (\A w \in T : b <= w)
        BY <2>3, <3>2, <4>1 DEF IsLeastOf
      <4>3. b <= d
        BY <2>4, <4>2
      <4>4. PICK x \in S : x <= b
        BY <2>5, <4>2
      <4>5. d <= x
        BY <4>2
      <4> QED
        BY <2>4, <4>2, <4>3, <4>4, <4>5
    <3> QED
      BY <3>1, <3>2
  <2> QED
    BY <2>6 DEF d, b
<1>2. ListsInv /\ PreservedInv => DistancesPreserved
  BY <1>1
<1> QED
  BY <1>2, ListsAlways, PreservedAlways, PTL

-----------------------------------------------------------------------------

\* The shortcuts that are listed at the node when it is contracted.
Leaving == {id \in ToSet(out[node]) : IsShortcut(id)}
Entering == {id \in ToSet(in[node]) : IsShortcut(id)}

NewRecord ==
    [a : Nodes, b : Nodes, fwd : BOOLEAN, bwd : BOOLEAN, weight : Nat \ {0},
     skip1 : PrepareEdges, skip2 : PrepareEdges]
NewEntry == [ids : SUBSET PrepareEdges, record : NewRecord]

\* A record serves a shortcut that leaves the node, and one that enters it.
Outward(r, id) ==
    /\ id \in Leaving /\ r.fwd /\ r.b = AdjacentNode(id, node) /\ r.weight = Shortcut(id).fwd
    /\ GetShortcutForPrepareEdge(r.skip1) = GetShortcutForPrepareEdge(Shortcut(id).skip1)
    /\ GetShortcutForPrepareEdge(r.skip2) = GetShortcutForPrepareEdge(Shortcut(id).skip2)

Inward(r, id) ==
    /\ id \in Entering /\ r.bwd /\ r.b = AdjacentNode(id, node) /\ r.weight = Shortcut(id).fwd
    /\ GetShortcutForPrepareEdge(r.skip1) = GetShortcutForPrepareEdge(Shortcut(id).skip2)
    /\ GetShortcutForPrepareEdge(r.skip2) = GetShortcutForPrepareEdge(Shortcut(id).skip1)

\* The record of an entry serves all its shortcuts, and in each direction one.
Serves(x) ==
    /\ x.record.a = node
    /\ \A id \in x.ids : Outward(x.record, id) \/ Inward(x.record, id)
    /\ x.record.fwd => \E id \in x.ids : Outward(x.record, id)
    /\ x.record.bwd => \E id \in x.ids : Inward(x.record, id)
    /\ \E id \in x.ids : {x.record.skip1, x.record.skip2} = {Shortcut(id).skip1, Shortcut(id).skip2}

ServesAll(list, covered) ==
    /\ list \in Seq(NewEntry)
    /\ \A i \in 1 .. Len(list) : Serves(list[i])
    /\ \A id \in covered : \E i \in 1 .. Len(list) : id \in list[i].ids

\* A shortcut that is listed at the node.
LEMMA ListedShortcut ==
    ASSUME ListsInv, node \in Nodes, NEW id \in Leaving \cup Entering
    PROVE  /\ id \in PrepareEdges /\ IsShortcut(id) /\ EdgeAt(id) = Shortcut(id)
           /\ AdjacentNode(id, node) \in Nodes /\ AdjacentNode(id, node) \in Alive
           /\ AdjacentNode(id, node) # node
           /\ Ends(id) = {node, AdjacentNode(id, node)}
           /\ Shortcut(id).fwd \in Nat \ {0}
           /\ Shortcut(id).skip1 \in PrepareEdges /\ Shortcut(id).skip2 \in PrepareEdges
           /\ id \in Leaving => Shortcut(id).a = node /\ Shortcut(id).b = AdjacentNode(id, node)
           /\ id \in Entering => Shortcut(id).b = node /\ Shortcut(id).a = AdjacentNode(id, node)
<1>1. /\ id \in PrepareEdges /\ IsShortcut(id) /\ node \in Ends(id) /\ AdjacentNode(id, node) \in Alive
      /\ id \in Leaving => Weight(id, node) # Inf
      /\ id \in Entering => Weight(id, AdjacentNode(id, node)) \in Nat
  BY ListedFacts DEF Leaving, Entering
<1>2. graph \in Graphs /\ ShortcutsTyped /\ Inf \notin Int
  BY BaseFacts DEF ListsInv
<1>3. EdgeAt(id) = Shortcut(id) /\ EdgeAt(id) \in PrepareShortcut
  BY <1>1, <1>2, EdgeFacts
<1>4. /\ AdjacentNode(id, node) \in Nodes /\ AdjacentNode(id, node) # node
      /\ Ends(id) = {node, AdjacentNode(id, node)}
      /\ AdjacentNode(id, node) \in Ends(id)
      /\ AdjacentNode(id, AdjacentNode(id, node)) = node
      /\ IsShortcut(id) /\ Weight(id, node) # Inf =>
           EdgeAt(id).a = node /\ EdgeAt(id).b = AdjacentNode(id, node)
  BY <1>1, <1>2, AdjacentFacts
<1> DEFINE adj == AdjacentNode(id, node)
<1>5. id \in Entering => EdgeAt(id).a = adj /\ EdgeAt(id).b = node
  <2> SUFFICES ASSUME id \in Entering PROVE EdgeAt(id).a = adj /\ EdgeAt(id).b = node
    OBVIOUS
  <2>1. adj \in Ends(id) /\ Weight(id, adj) # Inf /\ AdjacentNode(id, adj) = node
    BY <1>1, <1>2, <1>4
  <2> HIDE DEF adj
  <2> QED
    BY <1>1, <1>2, <2>1, AdjacentFacts
<1> QED
  BY <1>1, <1>3, <1>4, <1>5 DEF PrepareShortcut

\* insertOutShortcuts: one record for each.
LEMMA OutShortcutsServe ==
    ASSUME ListsInv, node \in Nodes
    PROVE  ServesAll(OutShortcuts, Leaving)
<1> DEFINE leaving == PrepareShortcutsIn(out[node])
           entry(id) == [ids |-> {id},
                record |-> [a |-> node, b |-> AdjacentNode(id, node), fwd |-> TRUE, bwd |-> FALSE,
                            weight |-> Shortcut(id).fwd,
                            skip1 |-> Shortcut(id).skip1, skip2 |-> Shortcut(id).skip2]]
<1>1. leaving \in Seq(PrepareEdges) /\ ToSet(leaving) = Leaving
  <2>1. out[node] \in Seq(PrepareEdges)
    BY ListedFacts
  <2> DEFINE ids == {id \in ToSet(out[node]) : IsShortcut(id)}
  <2>2. leaving = Keep(out[node], ids) /\ ToSet(out[node]) \cap ids = Leaving
    BY DEF PrepareShortcutsIn, Leaving
  <2> HIDE DEF leaving, ids
  <2> QED
    BY <2>1, <2>2, KeepFacts
<1>2. OutShortcuts = [i \in DOMAIN leaving |-> entry(leaving[i])]
  BY DEF OutShortcuts
<1> HIDE DEF leaving
<1>3. /\ Len(leaving) \in Nat /\ DOMAIN leaving = 1 .. Len(leaving)
      /\ Leaving = {leaving[i] : i \in 1 .. Len(leaving)}
  BY <1>1, ElementsOf
<1>4. ASSUME NEW id \in Leaving
      PROVE  entry(id) \in NewEntry /\ Serves(entry(id)) /\ id \in entry(id).ids
  <2>1. /\ id \in PrepareEdges /\ AdjacentNode(id, node) \in Nodes
        /\ Shortcut(id).fwd \in Nat \ {0}
        /\ Shortcut(id).skip1 \in PrepareEdges /\ Shortcut(id).skip2 \in PrepareEdges
    BY ListedShortcut
  <2>2. entry(id).record \in NewRecord
    BY <2>1 DEF NewRecord
  <2>3. entry(id) \in NewEntry
    BY <2>1, <2>2 DEF NewEntry
  <2>4. Outward(entry(id).record, id)
    BY DEF Outward
  <2> QED
    BY <2>3, <2>4 DEF Serves
<1> HIDE DEF entry
<1>5. \A i \in 1 .. Len(leaving) : leaving[i] \in Leaving
  BY <1>3
<1>6. OutShortcuts \in [1 .. Len(leaving) -> NewEntry]
  BY <1>2, <1>3, <1>4, <1>5
<1>7. OutShortcuts \in Seq(NewEntry) /\ Len(OutShortcuts) = Len(leaving)
  BY <1>3, <1>6, FunctionIsList
<1>8. \A i \in 1 .. Len(leaving) : OutShortcuts[i] = entry(leaving[i])
  BY <1>2, <1>3
<1>9. \A i \in 1 .. Len(OutShortcuts) : Serves(OutShortcuts[i])
  BY <1>4, <1>5, <1>7, <1>8
<1>10. \A id \in Leaving : \E i \in 1 .. Len(OutShortcuts) : id \in OutShortcuts[i].ids
  <2> SUFFICES ASSUME NEW id \in Leaving
               PROVE  \E i \in 1 .. Len(OutShortcuts) : id \in OutShortcuts[i].ids
    OBVIOUS
  <2>1. PICK i \in 1 .. Len(leaving) : leaving[i] = id
    BY <1>3
  <2>2. id \in OutShortcuts[i].ids
    BY <1>4, <1>8, <2>1
  <2> QED
    BY <1>7, <2>2
<1> QED
  BY <1>7, <1>9, <1>10 DEF ServesAll

-----------------------------------------------------------------------------

\* A record that serves a shortcut in both directions.
LEMMA JoinServes ==
    ASSUME ListsInv, node \in Nodes, NEW x \in NewEntry, Serves(x), NEW id \in Entering,
           SameConnection(x.record, id)
    PROVE  Join(x, id) \in NewEntry /\ Serves(Join(x, id)) /\ Join(x, id).ids = x.ids \cup {id}
<1> DEFINE r == [x.record EXCEPT !.bwd = TRUE]
<1>1. x.record \in NewRecord /\ x.ids \subseteq PrepareEdges
  BY DEF NewEntry
<1>2. id \in PrepareEdges
  BY ListedShortcut
<1>3. /\ r \in NewRecord /\ r.a = x.record.a /\ r.b = x.record.b /\ r.fwd = x.record.fwd /\ r.bwd
      /\ r.weight = x.record.weight /\ r.skip1 = x.record.skip1 /\ r.skip2 = x.record.skip2
  BY <1>1 DEF NewRecord
<1>4. Join(x, id) = [ids |-> x.ids \cup {id}, record |-> r]
  BY DEF Join
<1>5. /\ x.record.fwd /\ ~ x.record.bwd
      /\ x.record.b = AdjacentNode(id, node) /\ x.record.weight = Shortcut(id).fwd
      /\ GetShortcutForPrepareEdge(x.record.skip1) = GetShortcutForPrepareEdge(Shortcut(id).skip2)
      /\ GetShortcutForPrepareEdge(x.record.skip2) = GetShortcutForPrepareEdge(Shortcut(id).skip1)
  BY DEF SameConnection
<1> HIDE DEF r
<1>6. Inward(r, id)
  BY <1>3, <1>5 DEF Inward
<1>7. ASSUME NEW k \in x.ids PROVE Outward(r, k)
  <2>1. Outward(x.record, k)
    BY <1>5 DEF Serves, Inward
  <2> QED
    BY <1>3, <2>1 DEF Outward
<1>8. x.ids # {} /\ r.a = node
  BY <1>3 DEF Serves
<1>9. \E k \in x.ids : {r.skip1, r.skip2} = {Shortcut(k).skip1, Shortcut(k).skip2}
  BY <1>3 DEF Serves
<1>10. Join(x, id) \in NewEntry
  <2>1. x.ids \cup {id} \in SUBSET PrepareEdges
    BY <1>1, <1>2
  <2> QED
    BY <1>3, <1>4, <2>1 DEF NewEntry
<1>11. Serves(Join(x, id))
  <2> DEFINE y == Join(x, id)
  <2>1. y.ids = x.ids \cup {id} /\ y.record = r
    BY <1>4
  <2> HIDE DEF y
  <2>2. \E k \in y.ids : {y.record.skip1, y.record.skip2} = {Shortcut(k).skip1, Shortcut(k).skip2}
    BY <1>9, <2>1
  <2>3. Serves(y)
    BY <1>6, <1>7, <1>8, <2>1, <2>2 DEF Serves
  <2> QED
    BY <2>3 DEF y
<1> QED
  BY <1>4, <1>10, <1>11

\* insertInShortcuts for one shortcut.
LEMMA InsertInServes ==
    ASSUME ListsInv, node \in Nodes, NEW list, NEW covered, ServesAll(list, covered), NEW id \in Entering
    PROVE  ServesAll(InsertInShortcut(list, id), covered \cup {id})
<1> DEFINE fitting == {i \in DOMAIN list : SameConnection(list[i].record, id)}
           first == CHOOSE i \in fitting : \A j \in fitting : i <= j
           entry == [ids |-> {id},
                     record |-> [a |-> node, b |-> AdjacentNode(id, node), fwd |-> FALSE, bwd |-> TRUE,
                                 weight |-> Shortcut(id).fwd,
                                 skip1 |-> Shortcut(id).skip2, skip2 |-> Shortcut(id).skip1]]
           new == InsertInShortcut(list, id)
           n == Len(list)
<1>1. /\ list \in Seq(NewEntry) /\ n \in Nat /\ DOMAIN list = 1 .. n
      /\ \A i \in 1 .. n : list[i] \in NewEntry /\ Serves(list[i])
      /\ \A k \in covered : \E i \in 1 .. n : k \in list[i].ids
  BY DEF ServesAll
<1>2. new = IF fitting # {}
            THEN [i \in DOMAIN list |-> IF i = first THEN Join(list[i], id) ELSE list[i]]
            ELSE Append(list, entry)
  BY DEF InsertInShortcut
<1> HIDE DEF new
<1>3. CASE fitting # {}
  <2>1. first \in fitting
    <3>1. fitting \subseteq Nat
      BY <1>1
    <3> HIDE DEF fitting
    <3>2. \E i \in fitting : \A j \in fitting : i <= j
      BY <1>3, <3>1, LeastNatural
    <3> QED
      BY <3>2
  <2>2. first \in 1 .. n /\ SameConnection(list[first].record, id)
    BY <1>1, <2>1
  <2>3. new = [i \in 1 .. n |-> IF i = first THEN Join(list[i], id) ELSE list[i]]
    BY <1>1, <1>2, <1>3
  <2> HIDE DEF first, fitting, entry
  <2>4. /\ Join(list[first], id) \in NewEntry /\ Serves(Join(list[first], id))
        /\ Join(list[first], id).ids = list[first].ids \cup {id}
    BY <1>1, <2>2, JoinServes
  <2>5. \A i \in 1 .. n : /\ new[i] \in NewEntry /\ Serves(new[i])
                          /\ list[i].ids \subseteq new[i].ids /\ (i = first => id \in new[i].ids)
    BY <1>1, <2>3, <2>4
  <2>6. new \in [1 .. n -> NewEntry]
    BY <2>3, <2>5
  <2>7. new \in Seq(NewEntry) /\ Len(new) = n
    BY <1>1, <2>6, FunctionIsList
  <2>8. \A k \in covered \cup {id} : \E i \in 1 .. n : k \in new[i].ids
    BY <1>1, <2>2, <2>5
  <2>9. ServesAll(new, covered \cup {id})
    BY <2>5, <2>7, <2>8 DEF ServesAll
  <2> QED
    BY <2>9 DEF new
<1>4. CASE fitting = {}
  <2>1. /\ id \in PrepareEdges /\ AdjacentNode(id, node) \in Nodes
        /\ Shortcut(id).fwd \in Nat \ {0}
        /\ Shortcut(id).skip1 \in PrepareEdges /\ Shortcut(id).skip2 \in PrepareEdges
    BY ListedShortcut
  <2>2. entry.record \in NewRecord
    BY <2>1 DEF NewRecord
  <2>3. entry \in NewEntry
    BY <2>1, <2>2 DEF NewEntry
  <2>4. Inward(entry.record, id)
    BY DEF Inward
  <2>5. Serves(entry) /\ id \in entry.ids
    BY <2>4 DEF Serves
  <2>6. new = Append(list, entry)
    BY <1>2, <1>4
  <2> HIDE DEF entry, fitting
  <2>7. /\ new \in Seq(NewEntry) /\ Len(new) = n + 1 /\ new[n + 1] = entry
        /\ \A i \in 1 .. n : new[i] = list[i]
    BY <1>1, <2>3, <2>6, AppendProperties
  <2>8. \A i \in 1 .. Len(new) : i \in 1 .. n \/ i = n + 1
    BY <1>1, <2>7
  <2>9. \A i \in 1 .. Len(new) : Serves(new[i])
    BY <1>1, <2>5, <2>7, <2>8
  <2>10. \A i \in 1 .. n : i \in 1 .. Len(new)
    BY <1>1, <2>7
  <2>11. n + 1 \in 1 .. Len(new)
    BY <1>1, <2>7
  <2>12. \A k \in covered \cup {id} : \E i \in 1 .. Len(new) : k \in new[i].ids
    BY <1>1, <2>5, <2>7, <2>10, <2>11
  <2>13. ServesAll(new, covered \cup {id})
    BY <2>7, <2>9, <2>12 DEF ServesAll
  <2> QED
    BY <2>13 DEF new
<1> QED
  BY <1>3, <1>4

-----------------------------------------------------------------------------

\* insertOutShortcuts and insertInShortcuts together: the new records serve
\* exactly the shortcuts that are listed at the node.
LEMMA NewShortcutsServe ==
    ASSUME ListsInv, node \in Nodes
    PROVE  ServesAll(NewShortcuts, Leaving \cup Entering)
<1> DEFINE entering == PrepareShortcutsIn(in[node])
           n == Len(entering)
           V == {list \in Seq(NewEntry) : ServesAll(list, Leaving)}
           Rule(f) == f = [k \in 0 .. n |->
                             IF k = 0 THEN OutShortcuts ELSE InsertInShortcut(f[k - 1], entering[k])]
           Solves(f) == /\ f[0] = OutShortcuts
                        /\ \A k \in 1 .. n : f[k] = InsertInShortcut(f[k - 1], entering[k])
           step == [x \in (1 .. n) \X V |-> InsertInShortcut(x[2], entering[x[1]])]
<1>1. entering \in Seq(PrepareEdges) /\ ToSet(entering) = Entering
  <2>1. in[node] \in Seq(PrepareEdges)
    BY ListedFacts
  <2> DEFINE ids == {id \in ToSet(in[node]) : IsShortcut(id)}
  <2>2. entering = Keep(in[node], ids) /\ ToSet(in[node]) \cap ids = Entering
    BY DEF PrepareShortcutsIn, Entering
  <2> HIDE DEF entering, ids
  <2> QED
    BY <2>1, <2>2, KeepFacts
<1>2. NewShortcuts = (CHOOSE f : Rule(f))[n]
  BY DEF NewShortcuts
<1> HIDE DEF entering
<1>3. n \in Nat /\ Entering = {entering[k] : k \in 1 .. n} /\ \A k \in 1 .. n : entering[k] \in Entering
  BY <1>1, ElementsOf
<1> HIDE DEF n
<1>4. OutShortcuts \in V
  <2>1. ServesAll(OutShortcuts, Leaving)
    BY OutShortcutsServe
  <2> QED
    BY <2>1 DEF ServesAll
<1>5. ASSUME NEW k \in 1 .. n, NEW list \in V
      PROVE  InsertInShortcut(list, entering[k]) \in V
  <2> DEFINE next == InsertInShortcut(list, entering[k])
  <2>1. ServesAll(next, Leaving \cup {entering[k]})
    BY <1>3, InsertInServes
  <2> HIDE DEF next
  <2>2. ServesAll(next, Leaving)
    BY <2>1 DEF ServesAll
  <2>3. next \in V
    BY <2>2 DEF ServesAll
  <2> QED
    BY <2>3 DEF next
<1> HIDE DEF V
<1>6. step \in [(1 .. n) \X V -> V]
  BY <1>5
<1>7. PICK f \in [0 .. n -> V] : IsIndexedRecursion(f, n, OutShortcuts, step)
  <2> HIDE DEF step
  <2> QED
    BY <1>3, <1>4, <1>6, IndexedRecursionExists
<1>8. Solves(f)
  <2>1. ASSUME NEW k \in 1 .. n
        PROVE  f[k] = InsertInShortcut(f[k - 1], entering[k])
    <3>1. k - 1 \in 0 .. n
      BY <1>3
    <3>2. f[k - 1] \in V
      BY <3>1
    <3>3. f[k] = step[<<k, f[k - 1]>>]
      BY <1>7 DEF IsIndexedRecursion
    <3> QED
      BY <3>2, <3>3
  <2> QED
    BY <1>7, <2>1 DEF IsIndexedRecursion
<1>9. Rule(f)
  <2>1. ASSUME NEW k \in 0 .. n
        PROVE  f[k] = IF k = 0 THEN OutShortcuts ELSE InsertInShortcut(f[k - 1], entering[k])
    <3>1. CASE k = 0
      BY <1>8, <3>1
    <3>2. CASE k # 0
      <4>1. k \in 1 .. n
        BY <1>3, <3>2
      <4> QED
        BY <1>8, <3>2, <4>1
    <3> QED
      BY <3>1, <3>2
  <2> QED
    BY <2>1
<1> DEFINE g == CHOOSE h : Rule(h)
<1>10. Rule(g)
  <2> HIDE DEF Rule
  <2>1. \E h : Rule(h)
    BY <1>9
  <2> QED
    BY <2>1
<1>11. NewShortcuts = g[n]
  BY <1>2
<1> HIDE DEF g
<1>12. Solves(g)
  <2>1. g[0] = OutShortcuts
    BY <1>3, <1>10
  <2>2. ASSUME NEW k \in 1 .. n
        PROVE  g[k] = InsertInShortcut(g[k - 1], entering[k])
    <3>1. k \in 0 .. n /\ k # 0
      BY <1>3
    <3> QED
      BY <1>10, <3>1
  <2> QED
    BY <2>1, <2>2
<1> DEFINE Covered(k) == Leaving \cup {entering[j] : j \in 1 .. k}
           T == {k \in 0 .. n : ServesAll(g[k], Covered(k))}
<1>13. 0 \in T
  <2>1. Covered(0) = Leaving
    OBVIOUS
  <2>2. ServesAll(g[0], Covered(0))
    BY <1>12, <2>1, OutShortcutsServe
  <2> QED
    BY <1>3, <2>2
<1>14. ASSUME NEW k \in 0 .. (n - 1), k \in T
       PROVE  k + 1 \in T
  <2>1. k + 1 \in 1 .. n /\ (k + 1) - 1 = k /\ k + 1 \in 0 .. n
    BY <1>3
  <2>2. g[k + 1] = InsertInShortcut(g[k], entering[k + 1])
    BY <1>12, <2>1
  <2>3. ServesAll(g[k], Covered(k)) /\ entering[k + 1] \in Entering
    BY <1>3, <1>14, <2>1
  <2>4. Covered(k + 1) = Covered(k) \cup {entering[k + 1]}
    <3>1. 1 .. k + 1 = (1 .. k) \cup {k + 1}
      BY <2>1
    <3> QED
      BY <3>1
  <2> HIDE DEF Covered
  <2>5. ServesAll(g[k + 1], Covered(k + 1))
    BY <2>2, <2>3, <2>4, InsertInServes
  <2> QED
    BY <2>1, <2>5
<1>15. 0 .. n \subseteq T
  <2> HIDE DEF T
  <2> QED
    BY <1>3, <1>13, <1>14, BoundedInduction
<1>16. n \in T /\ Covered(n) = Leaving \cup Entering
  <2>1. n \in 0 .. n
    BY <1>3
  <2>2. n \in T
    <3> HIDE DEF T
    <3> QED
      BY <1>15, <2>1
  <2>3. Covered(n) = Leaving \cup Entering
    BY <1>3
  <2> HIDE DEF T, Covered
  <2> QED
    BY <2>2, <2>3
<1>17. ServesAll(g[n], Covered(n))
  <2> HIDE DEF Covered
  <2> QED
    BY <1>16
<1> HIDE DEF Covered, T
<1> QED
  BY <1>11, <1>16, <1>17

-----------------------------------------------------------------------------

StoredShortcut ==
    [a : Nodes, b : Nodes, fwd : BOOLEAN, bwd : BOOLEAN, weight : Nat \cup {Inf},
     skip1 : Nat, skip2 : Nat]

\* A record is stored with its weight rounded.
StoredAs(s, r) ==
    /\ s.a = r.a /\ s.b = r.b /\ s.fwd = r.fwd /\ s.bwd = r.bwd
    /\ s.weight = StoredWeight(r.weight) /\ s.skip1 = r.skip1 /\ s.skip2 = r.skip2

\* What storing the shortcuts of the node does.
Stores(new) ==
    /\ ServesAll(new, Leaving \cup Entering)
    /\ shortcuts' \in Seq(StoredShortcut) /\ Len(shortcuts') = Len(shortcuts) + Len(new)
    /\ \A i \in 1 .. Len(shortcuts) : shortcuts'[i] = shortcuts[i]
    /\ \A j \in 1 .. Len(new) : StoredAs(shortcuts'[Len(shortcuts) + j], new[j].record)
    /\ DOMAIN shortcutFor' = (Leaving \cup Entering) \cup DOMAIN shortcutFor
    /\ \A id \in Leaving \cup Entering : \E j \in 1 .. Len(new) :
          id \in new[j].ids /\ shortcutFor'[id] = GetEdges + Len(shortcuts) + j
    /\ \A id \in DOMAIN shortcutFor \ (Leaving \cup Entering) : shortcutFor'[id] = shortcutFor[id]

\* A new record as the storage keeps it: with a rounded weight.
LEMMA StoredFits ==
    ASSUME graph \in Graphs, NEW r \in NewRecord
    PROVE  /\ [r EXCEPT !.weight = StoredWeight(@)] \in StoredShortcut
           /\ StoredAs([r EXCEPT !.weight = StoredWeight(@)], r)
<1>1. GetEdges \in Nat /\ PrepareEdges \subseteq Nat
  BY BaseFacts DEF PrepareEdges
<1>2. /\ r.a \in Nodes /\ r.b \in Nodes /\ r.fwd \in BOOLEAN /\ r.bwd \in BOOLEAN
      /\ r.weight \in Nat /\ r.skip1 \in Nat /\ r.skip2 \in Nat
  BY <1>1 DEF NewRecord
<1>3. StoredWeight(r.weight) \in Nat \cup {Inf}
  BY <1>2 DEF StoredWeight
<1>4. r = [a |-> r.a, b |-> r.b, fwd |-> r.fwd, bwd |-> r.bwd, weight |-> r.weight,
           skip1 |-> r.skip1, skip2 |-> r.skip2]
  BY DEF NewRecord
<1>5. PICK w : w = StoredWeight(r.weight)
  OBVIOUS
<1>6. [r EXCEPT !.weight = w] =
         [a |-> r.a, b |-> r.b, fwd |-> r.fwd, bwd |-> r.bwd, weight |-> w,
          skip1 |-> r.skip1, skip2 |-> r.skip2]
  BY <1>4
<1>7. [r EXCEPT !.weight = StoredWeight(@)] = [r EXCEPT !.weight = w]
  BY <1>5
<1> QED
  BY <1>2, <1>3, <1>5, <1>6, <1>7 DEF StoredShortcut, StoredAs

\* insertShortcuts stores records that serve what is listed at the node.
LEMMA StoreEffect ==
    ASSUME ListsInv, shortcuts \in Seq(StoredShortcut), InsertShortcuts
    PROVE  \E new : Stores(new)
<1> DEFINE new == NewShortcuts
           ids == UNION {new[i].ids : i \in DOMAIN new}
           records == [i \in DOMAIN new |-> new[i].record]
           stored == [i \in DOMAIN records |-> [records[i] EXCEPT !.weight = StoredWeight(@)]]
           m == Len(shortcuts)
           n == Len(new)
           base == GetEdges + Len(shortcuts)
<1>1. /\ phase = "contract" /\ node \in Nodes /\ graph \in Graphs /\ graph' = graph
  BY DEF InsertShortcuts, ListsInv
<1>2. ServesAll(new, Leaving \cup Entering)
  BY <1>1, NewShortcutsServe
<1>3. /\ shortcuts' = shortcuts \o stored
      /\ shortcutFor' = [id \in ids \cup DOMAIN shortcutFor |->
            IF id \in ids THEN base + (CHOOSE i \in DOMAIN new : id \in new[i].ids) ELSE shortcutFor[id]]
  BY DEF InsertShortcuts, AddShortcuts
<1> HIDE DEF new
<1>4. /\ new \in Seq(NewEntry) /\ n \in Nat /\ DOMAIN new = 1 .. n /\ m \in Nat
      /\ \A i \in 1 .. n : new[i] \in NewEntry /\ new[i].record \in NewRecord /\ Serves(new[i])
      /\ \A id \in Leaving \cup Entering : \E i \in 1 .. n : id \in new[i].ids
  <2>1. /\ new \in Seq(NewEntry) /\ n \in Nat /\ DOMAIN new = 1 .. n /\ m \in Nat
    <3>1. new \in Seq(NewEntry)
      BY <1>2 DEF ServesAll
    <3> QED
      BY <3>1
  <2>2. /\ \A i \in 1 .. n : Serves(new[i])
        /\ \A id \in Leaving \cup Entering : \E i \in 1 .. n : id \in new[i].ids
    BY <1>2 DEF ServesAll
  <2>3. \A i \in 1 .. n : new[i] \in NewEntry
    BY <2>1
  <2>4. \A x \in NewEntry : x.record \in NewRecord
    BY DEF NewEntry
  <2> QED
    BY <2>1, <2>2, <2>3, <2>4
<1>5. \A i \in 1 .. n : records[i] = new[i].record
  BY <1>4
<1>6. \A i \in 1 .. n : stored[i] \in StoredShortcut /\ StoredAs(stored[i], new[i].record)
  BY <1>1, <1>4, <1>5, StoredFits
<1>7. stored \in [1 .. n -> StoredShortcut]
  <2>1. stored = [i \in 1 .. n |-> stored[i]]
    BY <1>4
  <2> HIDE DEF stored
  <2> QED
    BY <1>6, <2>1
<1> HIDE DEF stored, records
<1>8. stored \in Seq(StoredShortcut) /\ Len(stored) = n
  BY <1>4, <1>7, FunctionIsList
<1>9. /\ shortcuts' \in Seq(StoredShortcut) /\ Len(shortcuts') = m + n
      /\ \A i \in 1 .. m : shortcuts'[i] = shortcuts[i]
      /\ \A j \in 1 .. n : shortcuts'[m + j] = stored[j]
  <2> DEFINE all == shortcuts \o stored
  <2>1. /\ all \in Seq(StoredShortcut) /\ Len(all) = m + n
        /\ \A i \in 1 .. m + n : all[i] = IF i <= m THEN shortcuts[i] ELSE stored[i - m]
    <3>1. PICK x, y : x = shortcuts /\ y = stored
      OBVIOUS
    <3>2. x \in Seq(StoredShortcut) /\ y \in Seq(StoredShortcut) /\ Len(x) = m /\ Len(y) = n
      BY <1>8, <3>1
    <3>3. /\ x \o y \in Seq(StoredShortcut) /\ Len(x \o y) = Len(x) + Len(y)
          /\ \A i \in 1 .. Len(x) + Len(y) : (x \o y)[i] = IF i <= Len(x) THEN x[i] ELSE y[i - Len(x)]
      BY <3>2, ConcatProperties
    <3>4. all = x \o y
      BY <3>1
    <3> HIDE DEF all, m, n
    <3> QED
      BY <3>1, <3>2, <3>3, <3>4
  <2> HIDE DEF all, m, n
  <2>2. m \in Nat /\ n \in Nat
    BY <1>4
  <2>3. /\ \A i \in 1 .. m : i \in 1 .. m + n /\ i <= m
        /\ \A j \in 1 .. n : m + j \in 1 .. m + n /\ ~ (m + j <= m) /\ (m + j) - m = j
    BY <2>2
  <2>4. shortcuts' = all
    BY <1>3 DEF all
  <2> QED
    BY <2>1, <2>3, <2>4
<1>10. ids = Leaving \cup Entering
  <2>1. ASSUME NEW id \in ids PROVE id \in Leaving \cup Entering
    <3>1. PICK i \in 1 .. n : id \in new[i].ids
      BY <1>4
    <3> QED
      BY <1>4, <3>1 DEF Serves, Outward, Inward
  <2> QED
    BY <1>4, <2>1
<1>11. \A id \in Leaving \cup Entering : \E j \in 1 .. n :
          id \in new[j].ids /\ shortcutFor'[id] = base + j
  <2> SUFFICES ASSUME NEW id \in ids
               PROVE  \E j \in 1 .. n : id \in new[j].ids /\ shortcutFor'[id] = base + j
    BY <1>10
  <2> DEFINE j == CHOOSE i \in DOMAIN new : id \in new[i].ids
  <2>1. j \in DOMAIN new /\ id \in new[j].ids
    OBVIOUS
  <2>2. shortcutFor'[id] = base + j
    BY <1>3
  <2> HIDE DEF j, ids
  <2> QED
    BY <1>4, <2>1, <2>2
<1>12. /\ DOMAIN shortcutFor' = ids \cup DOMAIN shortcutFor
       /\ \A id \in DOMAIN shortcutFor \ ids : shortcutFor'[id] = shortcutFor[id]
  <2> HIDE DEF ids
  <2> QED
    BY <1>3
<1> HIDE DEF ids
<1>13. Stores(new)
  BY <1>2, <1>6, <1>9, <1>10, <1>11, <1>12 DEF Stores
<1> QED
  BY <1>13

-----------------------------------------------------------------------------

Skips(id) == {EdgeAt(id).skip1, EdgeAt(id).skip2}

\* What a shortcut skips has been stored, unless it bypasses the node that is
\* being contracted.
SkipsStored ==
    \A id \in PrepareEdges : IsShortcut(id) =>
       \A skip \in Skips(id) : IsShortcut(skip) =>
          \/ skip \in DOMAIN shortcutFor
          \/ phase = "contract" /\ node \notin Ends(id) /\ skip \in Leaving \cup Entering

StoreInv ==
    /\ SkipsStored
    /\ shortcuts \in Seq(StoredShortcut)
    /\ \A i \in 1 .. Len(shortcuts) : shortcuts[i].a \in Contracted
    /\ phase # "done" =>
          \A i \in 1 .. Len(shortcuts) : \A skip \in {shortcuts[i].skip1, shortcuts[i].skip2} :
             skip \in PrepareEdges /\ (IsShortcut(skip) => skip \in DOMAIN shortcutFor)
    /\ \A id \in DOMAIN shortcutFor :
          /\ id \in PrepareEdges /\ IsShortcut(id)
          /\ shortcutFor[id] \in (GetEdges + 1) .. (GetEdges + Len(shortcuts))

\* At first nothing is stored.
LEMMA InitStore == Init => StoreInv
<1> SUFFICES ASSUME Init PROVE StoreInv
  OBVIOUS
<1>1. /\ graph \in Graphs /\ phase = "poll" /\ prepareShortcuts = << >> /\ shortcuts = << >>
      /\ shortcutFor = << >>
  BY DEF Init, BuildFromGraph, EmptyStorage
<1>2. GetEdges \in Nat
  BY <1>1, BaseFacts
<1>3. \A id \in PrepareEdges : ~ IsShortcut(id)
  BY <1>1, <1>2 DEF PrepareEdges, IsShortcut
<1>4. DOMAIN shortcutFor = {} /\ Len(shortcuts) = 0 /\ shortcuts \in Seq(StoredShortcut)
  BY <1>1
<1> QED
  BY <1>3, <1>4 DEF StoreInv, SkipsStored

\* A new shortcut skips edges of the node that is being contracted.
LEMMA HandleStore ==
    ASSUME ListsInv, LevelsInv, StoreInv, HandlePair
    PROVE  StoreInv'
<1>1. /\ graph' = graph /\ node' = node /\ phase = "contract" /\ phase' = "contract" /\ level' = level
      /\ shortcuts' = shortcuts /\ GetEdges' = GetEdges /\ Nodes' = Nodes
  BY DEF HandlePair, storage, Nodes, GetEdges
<1>2. Contracted' = Contracted
  BY <1>1, SameLevels
<1>3. PICK inEdge, outEdge, from, to, w1, w2 :
         /\ IsPair(inEdge, outEdge, from, to, w1, w2)
         /\ PairHandled(inEdge, outEdge, from, to, w1 + w2)
  BY HandleEffect
<1>4. PICK weight : weight = w1 + w2
  OBVIOUS
<1>5. /\ \A id \in PrepareEdges :
          id \in PrepareEdges' /\ EdgeAfter(id, from, to, weight, inEdge, outEdge)
      /\ \A id \in PrepareEdges' :
          id \in PrepareEdges \/ EdgeAt(id)' = Asked(from, to, weight, inEdge, outEdge)
      /\ out'[node] = out[node] /\ in'[node] = in[node] /\ shortcutFor' = shortcutFor
  BY <1>3, <1>4 DEF PairHandled
<1>6. /\ inEdge \in ToSet(in[node]) /\ outEdge \in ToSet(out[node])
      /\ from # node /\ to # node
  BY <1>3 DEF IsPair
<1>7. \A id : IsShortcut(id)' <=> IsShortcut(id)
  BY <1>1 DEF IsShortcut
<1>8. Leaving' = Leaving /\ Entering' = Entering
  BY <1>1, <1>5, <1>7 DEF Leaving, Entering
<1>9. ASSUME NEW id \in PrepareEdges', IsShortcut(id), NEW skip \in Skips(id)', IsShortcut(skip)
      PROVE  \/ skip \in DOMAIN shortcutFor
             \/ node \notin Ends(id)' /\ skip \in Leaving \cup Entering
  <2>1. CASE EdgeAt(id)' = Asked(from, to, weight, inEdge, outEdge)
    <3>1. Ends(id)' = {from, to} /\ Skips(id)' = {inEdge, outEdge}
      BY <2>1 DEF Ends, Skips, Asked
    <3> QED
      BY <1>6, <1>9, <3>1 DEF Leaving, Entering
  <2>2. CASE id \in PrepareEdges /\ EdgeAt(id)' = EdgeAt(id)
    <3>1. Ends(id)' = Ends(id) /\ Skips(id)' = Skips(id)
      BY <2>2 DEF Ends, Skips
    <3> QED
      BY <1>1, <1>9, <2>2, <3>1 DEF StoreInv, SkipsStored
  <2> QED
    BY <1>5, <2>1, <2>2 DEF EdgeAfter
<1>10. SkipsStored'
  BY <1>1, <1>5, <1>7, <1>8, <1>9 DEF SkipsStored
<1>11. StoredShortcut' = StoredShortcut
  BY <1>1 DEF StoredShortcut
<1> QED
  BY <1>1, <1>2, <1>5, <1>7, <1>10, <1>11 DEF StoreInv

\* Only what has been stored is skipped when a node is polled.
LEMMA PollStore ==
    ASSUME ListsInv, LevelsInv, StoreInv, NEW n \in Nodes, PollNode(n)
    PROVE  StoreInv'
<1>1. /\ graph' = graph /\ prepareShortcuts' = prepareShortcuts /\ phase = "poll" /\ phase' = "contract"
      /\ shortcuts' = shortcuts /\ shortcutFor' = shortcutFor
  BY DEF PollNode, prepareGraph
<1>2. /\ Nodes' = Nodes /\ GetEdges' = GetEdges /\ PrepareEdges' = PrepareEdges
      /\ \A id : /\ EdgeAt(id)' = EdgeAt(id) /\ Ends(id)' = Ends(id)
                 /\ IsShortcut(id)' = IsShortcut(id)
  BY <1>1, EdgesStay
<1>3. Contracted \subseteq Contracted'
  <2>1. Remaining' = Remaining \ {n}
    BY PollAlive DEF ListsInv, LevelsInv
  <2> QED
    BY <1>2, <2>1 DEF Contracted
<1>4. \A id : Skips(id)' = Skips(id)
  BY <1>2 DEF Skips
<1>5. SkipsStored'
  BY <1>1, <1>2, <1>4 DEF StoreInv, SkipsStored
<1>6. StoredShortcut' = StoredShortcut
  BY <1>2 DEF StoredShortcut
<1> QED
  BY <1>1, <1>2, <1>3, <1>5, <1>6 DEF StoreInv

\* Storing the shortcuts of the node makes up for the exception.
LEMMA InsertStore ==
    ASSUME ListsInv, LevelsInv, StoreInv, InsertShortcuts
    PROVE  StoreInv'
<1>1. /\ graph' = graph /\ level' = level /\ prepareShortcuts' = prepareShortcuts /\ node' = node
      /\ phase = "contract" /\ phase' = "poll" /\ node \in Nodes /\ graph \in Graphs
  BY DEF InsertShortcuts, ListsInv
<1>2. /\ Nodes' = Nodes /\ GetEdges' = GetEdges /\ PrepareEdges' = PrepareEdges
      /\ \A id : /\ EdgeAt(id)' = EdgeAt(id) /\ Ends(id)' = Ends(id)
                 /\ IsShortcut(id)' = IsShortcut(id)
  BY <1>1, EdgesStay
<1>3. Contracted' = Contracted /\ node \in Contracted
  BY <1>1, SameLevels DEF LevelsInv
<1>4. PICK new : Stores(new)
  BY StoreEffect DEF StoreInv
<1> DEFINE m == Len(shortcuts)
           n == Len(new)
<1>5. /\ ServesAll(new, Leaving \cup Entering)
      /\ shortcuts' \in Seq(StoredShortcut) /\ Len(shortcuts') = m + n
      /\ \A i \in 1 .. m : shortcuts'[i] = shortcuts[i]
      /\ \A j \in 1 .. n : StoredAs(shortcuts'[m + j], new[j].record)
      /\ DOMAIN shortcutFor' = (Leaving \cup Entering) \cup DOMAIN shortcutFor
      /\ \A id \in Leaving \cup Entering : \E j \in 1 .. n :
            id \in new[j].ids /\ shortcutFor'[id] = GetEdges + m + j
      /\ \A id \in DOMAIN shortcutFor \ (Leaving \cup Entering) : shortcutFor'[id] = shortcutFor[id]
  BY <1>4 DEF Stores
<1>6. m \in Nat /\ n \in Nat /\ GetEdges \in Nat
  <2>1. shortcuts \in Seq(StoredShortcut) /\ new \in Seq(NewEntry)
    BY <1>5 DEF StoreInv, ServesAll
  <2> QED
    BY <1>1, <2>1, BaseFacts
<1> HIDE DEF m, n
<1>7. \A id : Skips(id)' = Skips(id)
  BY <1>2 DEF Skips
<1>8. SkipsStored'
  BY <1>1, <1>2, <1>5, <1>7 DEF StoreInv, SkipsStored
<1>9. StoredShortcut' = StoredShortcut
  BY <1>2 DEF StoredShortcut
<1>10. ASSUME NEW j \in 1 .. n
       PROVE  /\ shortcuts'[m + j].a = node
              /\ \A skip \in {shortcuts'[m + j].skip1, shortcuts'[m + j].skip2} :
                    skip \in PrepareEdges /\ (IsShortcut(skip) => skip \in DOMAIN shortcutFor)
  <2>1. Serves(new[j]) /\ StoredAs(shortcuts'[m + j], new[j].record)
    BY <1>5 DEF ServesAll, n
  <2>2. PICK id \in new[j].ids :
           {new[j].record.skip1, new[j].record.skip2} = {Shortcut(id).skip1, Shortcut(id).skip2}
    BY <2>1 DEF Serves
  <2>3. id \in Leaving \cup Entering
    BY <2>1 DEF Serves, Outward, Inward
  <2>4. /\ id \in PrepareEdges /\ IsShortcut(id) /\ EdgeAt(id) = Shortcut(id)
        /\ node \in Ends(id)
        /\ Shortcut(id).skip1 \in PrepareEdges /\ Shortcut(id).skip2 \in PrepareEdges
    BY <1>1, <2>3, ListedShortcut
  <2>5. \A skip \in Skips(id) : skip \in PrepareEdges /\ (IsShortcut(skip) => skip \in DOMAIN shortcutFor)
    BY <2>4 DEF StoreInv, SkipsStored, Skips
  <2> QED
    BY <2>1, <2>2, <2>4, <2>5 DEF StoredAs, Serves, Skips
<1>11. \A i \in 1 .. m + n : i \in 1 .. m \/ \E j \in 1 .. n : i = m + j
  <2> SUFFICES ASSUME NEW i \in 1 .. m + n, i \notin 1 .. m PROVE \E j \in 1 .. n : i = m + j
    OBVIOUS
  <2>1. i - m \in 1 .. n /\ i = m + (i - m)
    BY <1>6
  <2> QED
    BY <2>1
<1>12. ASSUME NEW i \in 1 .. m + n
       PROVE  /\ shortcuts'[i].a \in Contracted
              /\ \A skip \in {shortcuts'[i].skip1, shortcuts'[i].skip2} :
                    /\ skip \in PrepareEdges
                    /\ IsShortcut(skip) => skip \in DOMAIN shortcutFor'
  <2>1. CASE i \in 1 .. m
    BY <1>1, <1>5, <2>1 DEF StoreInv, m
  <2>2. CASE \E j \in 1 .. n : i = m + j
    BY <1>3, <1>5, <1>10, <2>2
  <2> QED
    BY <1>11, <2>1, <2>2
<1>13. ASSUME NEW id \in DOMAIN shortcutFor'
       PROVE  /\ id \in PrepareEdges /\ IsShortcut(id)
              /\ shortcutFor'[id] \in (GetEdges + 1) .. (GetEdges + (m + n))
  <2>1. CASE id \in Leaving \cup Entering
    <3>1. id \in PrepareEdges /\ IsShortcut(id)
      BY <1>1, <2>1, ListedShortcut
    <3>2. PICK j \in 1 .. n : shortcutFor'[id] = GetEdges + m + j
      BY <1>5, <2>1
    <3> QED
      BY <1>6, <3>1, <3>2
  <2>2. CASE id \in DOMAIN shortcutFor \ (Leaving \cup Entering)
    <3>1. /\ id \in PrepareEdges /\ IsShortcut(id)
          /\ shortcutFor[id] \in (GetEdges + 1) .. (GetEdges + m) /\ shortcutFor'[id] = shortcutFor[id]
      BY <1>5, <2>2 DEF StoreInv, m
    <3> QED
      BY <1>6, <3>1
  <2> QED
    BY <1>5, <2>1, <2>2
<1> QED
  BY <1>1, <1>2, <1>3, <1>5, <1>8, <1>9, <1>12, <1>13 DEF StoreInv

-----------------------------------------------------------------------------

\* A record whose skipped edges have become ids of the stored graph.
ReplacedAs(s, r) ==
    /\ s.a = r.a /\ s.b = r.b /\ s.fwd = r.fwd /\ s.bwd = r.bwd /\ s.weight = r.weight
    /\ s.skip1 = GetShortcutForPrepareEdge(r.skip1)
    /\ s.skip2 = GetShortcutForPrepareEdge(r.skip2)

WithSkips(r, x, y) == [r EXCEPT !.skip1 = x, !.skip2 = y]

FitsWith(s, r, x, y) ==
    /\ s \in StoredShortcut
    /\ s.a = r.a /\ s.b = r.b /\ s.fwd = r.fwd /\ s.bwd = r.bwd /\ s.weight = r.weight
    /\ s.skip1 = x /\ s.skip2 = y

\* A stored record with other skipped edges.
LEMMA ReplacedFits ==
    ASSUME NEW r \in StoredShortcut, NEW x \in Nat, NEW y \in Nat
    PROVE  FitsWith(WithSkips(r, x, y), r, x, y)
<1>0. PICK s : s = WithSkips(r, x, y)
  OBVIOUS
<1>1. r = [a |-> r.a, b |-> r.b, fwd |-> r.fwd, bwd |-> r.bwd, weight |-> r.weight,
           skip1 |-> r.skip1, skip2 |-> r.skip2]
  BY DEF StoredShortcut
<1>2. PICK q : q = [r EXCEPT !.skip1 = x]
  OBVIOUS
<1>3. q = [a |-> r.a, b |-> r.b, fwd |-> r.fwd, bwd |-> r.bwd, weight |-> r.weight,
           skip1 |-> x, skip2 |-> r.skip2]
  BY <1>1, <1>2
<1>4. s = [q EXCEPT !.skip2 = y]
  BY <1>0, <1>2 DEF WithSkips
<1>5. s = [a |-> r.a, b |-> r.b, fwd |-> r.fwd, bwd |-> r.bwd, weight |-> r.weight,
           skip1 |-> x, skip2 |-> y]
  BY <1>3, <1>4
<1>7. s \in StoredShortcut
  BY <1>5 DEF StoredShortcut
<1> QED
  BY <1>0, <1>5, <1>7 DEF FitsWith

\* The end of the preparation replaces the skipped edges and nothing else.
LEMMA FinishEffect ==
    ASSUME ListsInv, StoreInv, FinishContraction
    PROVE  /\ shortcuts' \in Seq(StoredShortcut) /\ Len(shortcuts') = Len(shortcuts)
           /\ \A i \in 1 .. Len(shortcuts) : ReplacedAs(shortcuts'[i], shortcuts[i])
<1> DEFINE known == (1 .. GetEdges) \cup DOMAIN shortcutFor
           mapping == [id \in known |-> GetShortcutForPrepareEdge(id)]
           n == Len(shortcuts)
           new(i) == [shortcuts[i] EXCEPT !.skip1 = mapping[@], !.skip2 = mapping[@]]
<1>1. phase = "poll" /\ graph \in Graphs /\ shortcuts \in Seq(StoredShortcut)
  BY DEF FinishContraction, ListsInv, StoreInv
<1>2. n \in Nat /\ DOMAIN shortcuts = 1 .. n /\ GetEdges \in Nat
      /\ \A i \in 1 .. n : shortcuts[i] \in StoredShortcut
  BY <1>1, BaseFacts
<1>3. shortcuts' = [i \in 1 .. n |-> new(i)]
  BY <1>2 DEF FinishContraction, ReplaceSkippedEdges
<1>4. ASSUME NEW skip \in PrepareEdges, IsShortcut(skip) => skip \in DOMAIN shortcutFor
      PROVE  mapping[skip] = GetShortcutForPrepareEdge(skip) /\ mapping[skip] \in Nat
  <2>1. CASE IsShortcut(skip)
    <3>1. skip \in known
      BY <1>4, <2>1
    <3>2. shortcutFor[skip] \in (GetEdges + 1) .. (GetEdges + n)
      BY <1>4, <2>1 DEF StoreInv
    <3>3. shortcutFor[skip] \in Nat
      BY <1>2, <3>2
    <3> QED
      BY <2>1, <3>1, <3>3 DEF GetShortcutForPrepareEdge
  <2>2. CASE ~ IsShortcut(skip)
    <3>1. skip \in 1 .. GetEdges
      BY <1>1, <1>2, <1>4, <2>2, EdgeFacts DEF IsShortcut, PrepareEdges, ListsInv, ShortcutsTyped
    <3> QED
      BY <2>2, <3>1 DEF GetShortcutForPrepareEdge
  <2> QED
    BY <2>1, <2>2
<1> HIDE DEF mapping, n
<1>5. ASSUME NEW i \in 1 .. n
      PROVE  new(i) \in StoredShortcut /\ ReplacedAs(new(i), shortcuts[i])
  <2>1. \A skip \in {shortcuts[i].skip1, shortcuts[i].skip2} :
             skip \in PrepareEdges /\ (IsShortcut(skip) => skip \in DOMAIN shortcutFor)
    BY <1>1 DEF StoreInv, n
  <2>2. PICK x, y : x = mapping[shortcuts[i].skip1] /\ y = mapping[shortcuts[i].skip2]
    OBVIOUS
  <2>3. /\ x = GetShortcutForPrepareEdge(shortcuts[i].skip1) /\ x \in Nat
        /\ y = GetShortcutForPrepareEdge(shortcuts[i].skip2) /\ y \in Nat
    BY <1>4, <2>1, <2>2
  <2>4. new(i) = WithSkips(shortcuts[i], x, y)
    BY <2>2 DEF WithSkips
  <2>5. PICK r \in StoredShortcut : r = shortcuts[i]
    BY <1>2
  <2>6. FitsWith(WithSkips(r, x, y), r, x, y)
    BY <2>3, ReplacedFits
  <2>7. PICK s : s = WithSkips(r, x, y)
    OBVIOUS
  <2>8. s \in StoredShortcut /\ ReplacedAs(s, r)
    BY <2>3, <2>5, <2>6, <2>7 DEF ReplacedAs, FitsWith
  <2> QED
    BY <2>4, <2>5, <2>7, <2>8
<1> HIDE DEF new
<1>6. shortcuts' \in [1 .. n -> StoredShortcut]
  BY <1>3, <1>5
<1>7. shortcuts' \in Seq(StoredShortcut) /\ Len(shortcuts') = n
  BY <1>2, <1>6, FunctionIsList
<1> QED
  BY <1>3, <1>5, <1>7 DEF n

\* The ids ReplaceSkippedEdges writes are ids of stored edges.
LEMMA FinishStore ==
    ASSUME ListsInv, LevelsInv, StoreInv, FinishContraction
    PROVE  StoreInv'
<1>1. /\ graph' = graph /\ level' = level /\ node' = node /\ shortcutFor' = shortcutFor
      /\ prepareShortcuts' = prepareShortcuts
      /\ phase = "poll" /\ phase' = "done" /\ Remaining = {}
  BY DEF FinishContraction, prepareGraph
<1>2. /\ Nodes' = Nodes /\ GetEdges' = GetEdges /\ PrepareEdges' = PrepareEdges
      /\ \A id : EdgeAt(id)' = EdgeAt(id) /\ IsShortcut(id)' = IsShortcut(id)
  BY <1>1, EdgesStay
<1>3. Contracted' = Contracted
  BY <1>1, SameLevels
<1>4. /\ shortcuts' \in Seq(StoredShortcut) /\ Len(shortcuts') = Len(shortcuts)
      /\ \A i \in 1 .. Len(shortcuts) : shortcuts'[i].a = shortcuts[i].a
  BY FinishEffect DEF ReplacedAs
<1>5. \A id : Skips(id)' = Skips(id)
  BY <1>2 DEF Skips
<1>6. SkipsStored'
  BY <1>1, <1>2, <1>5 DEF StoreInv, SkipsStored
<1>7. StoredShortcut' = StoredShortcut
  BY <1>2 DEF StoredShortcut
<1> QED
  BY <1>1, <1>2, <1>3, <1>4, <1>6, <1>7 DEF StoreInv

\* A step of the search stores nothing.
LEMMA SameStore ==
    ASSUME ListsInv, LevelsInv, StoreInv, UNCHANGED contractionVars
    PROVE  StoreInv'
<1>1. /\ graph' = graph /\ level' = level /\ node' = node /\ out' = out /\ in' = in
      /\ prepareShortcuts' = prepareShortcuts /\ shortcutFor' = shortcutFor /\ shortcuts' = shortcuts
      /\ phase' = phase
  BY ContractionUnchanged
<1>2. /\ Nodes' = Nodes /\ GetEdges' = GetEdges /\ PrepareEdges' = PrepareEdges
      /\ \A id : /\ EdgeAt(id)' = EdgeAt(id) /\ IsShortcut(id)' = IsShortcut(id)
                 /\ Ends(id)' = Ends(id)
  BY <1>1, EdgesStay
<1>3. Contracted' = Contracted
  BY <1>1, SameLevels
<1>4. \A id : Skips(id)' = Skips(id)
  BY <1>2 DEF Skips
<1>5. Leaving' = Leaving /\ Entering' = Entering
  BY <1>1, <1>2 DEF Leaving, Entering
<1>6. SkipsStored'
  BY <1>1, <1>2, <1>4, <1>5 DEF StoreInv, SkipsStored
<1>7. StoredShortcut' = StoredShortcut
  BY <1>2 DEF StoredShortcut
<1> QED
  BY <1>1, <1>2, <1>3, <1>6, <1>7 DEF StoreInv

\* The invariant about what is stored is inductive.
LEMMA StoreKept == ListsInv /\ LevelsInv /\ StoreInv /\ [RoutingNext]_vars => StoreInv'
<1> SUFFICES ASSUME ListsInv, LevelsInv, StoreInv, [RoutingNext]_vars
             PROVE  StoreInv'
  OBVIOUS
<1>1. ASSUME NEW n \in Nodes, PollNode(n) PROVE StoreInv'
  BY <1>1, PollStore
<1> QED
  BY <1>1, HandleStore, InsertStore, FinishStore, SameStore, ContractionSteps

\* So it always holds.
LEMMA StoreAlways == Spec => []StoreInv
<1>1. RoutingInit => StoreInv
  BY InitStore DEF RoutingInit
<1>2. ListsInv /\ LevelsInv /\ StoreInv /\ [RoutingNext]_vars => StoreInv'
  BY StoreKept
<1> QED
  BY <1>1, <1>2, ListsAlways, PTL DEF Spec

\* Every shortcut passes CHStorageBuilder.checkNewShortcut, and what it skips
\* has been stored when insertShortcuts looks it up.
THEOREM ShortcutsStored == Spec => []ShortcutsCanBeStored
<1>1. ASSUME ListsInv, LevelsInv, StoreInv PROVE ShortcutsCanBeStored
  <2>1. ASSUME phase = "contract", NEW id \in Leaving \cup Entering
        PROVE  /\ CheckNewShortcut(node, AdjacentNode(id, node))
               /\ \A skipped \in {Shortcut(id).skip1, Shortcut(id).skip2} :
                     IsShortcut(skipped) => skipped \in DOMAIN shortcutFor
    <3>1. node \in Nodes
      BY <1>1, <2>1 DEF ListsInv
    <3>2. /\ id \in PrepareEdges /\ IsShortcut(id) /\ EdgeAt(id) = Shortcut(id) /\ node \in Ends(id)
          /\ AdjacentNode(id, node) \in Alive /\ AdjacentNode(id, node) # node
      BY <1>1, <2>1, <3>1, ListedShortcut
    <3>3. \A skipped \in Skips(id) : IsShortcut(skipped) => skipped \in DOMAIN shortcutFor
      BY <1>1, <3>2 DEF StoreInv, SkipsStored
    <3>4. level[AdjacentNode(id, node)] = MaxLevel
      BY <3>2 DEF Alive
    <3>5. level[node] < MaxLevel
      <4>1. node \in Contracted /\ level[node] \in 0 .. MaxLevel /\ MaxLevel \in Nat
        BY <1>1, <2>1, <3>1, BaseFacts DEF LevelsInv, ListsInv
      <4> QED
        BY <4>1 DEF Contracted, Remaining
    <3>6. shortcuts # << >> => level[Last(shortcuts).a] <= level[node]
      <4> SUFFICES ASSUME shortcuts # << >> PROVE level[Last(shortcuts).a] <= level[node]
        OBVIOUS
      <4>1. Len(shortcuts) \in 1 .. Len(shortcuts) /\ Last(shortcuts) = shortcuts[Len(shortcuts)]
        <5>1. shortcuts \in Seq(StoredShortcut)
          BY <1>1 DEF StoreInv
        <5>2. Len(shortcuts) \in Nat /\ Len(shortcuts) # 0
          BY <5>1
        <5> QED
          BY <5>2 DEF Last
      <4>2. Last(shortcuts).a \in Contracted
        BY <1>1, <4>1 DEF StoreInv
      <4> QED
        BY <1>1, <2>1, <4>2 DEF LevelsInv
    <3> QED
      BY <3>2, <3>3, <3>4, <3>5, <3>6 DEF CheckNewShortcut, Skips
  <2>2. ASSUME phase = "poll", NEW s \in ToSet(shortcuts), NEW skipped \in {s.skip1, s.skip2},
               IsShortcut(skipped)
        PROVE  skipped \in DOMAIN shortcutFor
    <3>1. shortcuts \in Seq(StoredShortcut)
      BY <1>1 DEF StoreInv
    <3>2. PICK i \in 1 .. Len(shortcuts) : s = shortcuts[i]
      BY <3>1, ElementsOf
    <3> QED
      BY <1>1, <2>2, <3>2 DEF StoreInv
  <2>3. \A id : id \in {x \in ToSet(out[node]) \cup ToSet(in[node]) : IsShortcut(x)} =>
                  id \in Leaving \cup Entering
    BY DEF Leaving, Entering
  <2> QED
    BY <2>1, <2>2, <2>3 DEF ShortcutsCanBeStored
<1>2. ListsInv /\ LevelsInv /\ StoreInv => ShortcutsCanBeStored
  BY <1>1
<1> QED
  BY <1>2, ListsAlways, StoreAlways, PTL

-----------------------------------------------------------------------------

\* A shortcut bypasses a contracted node by the two edges it skips.
Bypasses(s, via) ==
    /\ via \in Contracted /\ via \notin {s.a, s.b}
    /\ Ends(s.skip1) = {s.a, via} /\ Ends(s.skip2) = {via, s.b}
    /\ Weight(s.skip1, s.a) \in Nat \ {0} /\ Weight(s.skip2, via) \in Nat \ {0}
    /\ s.fwd = Weight(s.skip1, s.a) + Weight(s.skip2, via)

\* The id of a skipped edge in the stored graph.
StoredId(skip) == IF phase = "done" THEN skip ELSE GetShortcutForPrepareEdge(skip)

\* A record stores a prepare edge in the direction of the edge, or against it.
Along(r, id) ==
    /\ r.a = EdgeAt(id).a /\ r.b = EdgeAt(id).b /\ r.fwd
    /\ r.weight = StoredWeight(EdgeAt(id).fwd)
    /\ StoredId(r.skip1) = GetShortcutForPrepareEdge(EdgeAt(id).skip1)
    /\ StoredId(r.skip2) = GetShortcutForPrepareEdge(EdgeAt(id).skip2)

Against(r, id) ==
    /\ r.a = EdgeAt(id).b /\ r.b = EdgeAt(id).a /\ r.bwd
    /\ r.weight = StoredWeight(EdgeAt(id).fwd)
    /\ StoredId(r.skip1) = GetShortcutForPrepareEdge(EdgeAt(id).skip2)
    /\ StoredId(r.skip2) = GetShortcutForPrepareEdge(EdgeAt(id).skip1)

AllBypass ==
    \A id \in PrepareEdges : IsShortcut(id) => \E via \in Contracted : Bypasses(EdgeAt(id), via)

\* What has been stored for a prepare edge stays true of it: one of its ends is
\* not listed any more.
RecordsKept ==
    \A id \in DOMAIN shortcutFor :
        /\ ~ (Ends(id) \subseteq Alive)
        /\ LET r == shortcuts[shortcutFor[id] - GetEdges] IN Along(r, id) \/ Against(r, id)
        /\ \A skip \in Skips(id) : IsShortcut(skip) => skip \in DOMAIN shortcutFor

\* Each direction of a record is that of a prepare edge, and what it skips has
\* been stored before it.
RecordsJustified ==
    \A i \in 1 .. Len(shortcuts) :
        LET r == shortcuts[i]
        IN  /\ r.fwd \/ r.bwd
            /\ r.fwd => \E id \in DOMAIN shortcutFor : Along(r, id)
            /\ r.bwd => \E id \in DOMAIN shortcutFor : Against(r, id)
            /\ \A skip \in {r.skip1, r.skip2} : StoredId(skip) < GetEdges + i

RecordsInv == AllBypass /\ RecordsKept /\ RecordsJustified

-----------------------------------------------------------------------------

\* Handling a pair changes no edge of a contracted node.
LEMMA HandleChanges ==
    ASSUME ListsInv, HandlePair
    PROVE  /\ PrepareEdges \subseteq PrepareEdges'
           /\ \A id \in PrepareEdges : ~ (Ends(id) \subseteq Remaining) =>
                 EdgeAt(id)' = EdgeAt(id) /\ Ends(id)' = Ends(id) /\ Skips(id)' = Skips(id)
<1>1. PICK inEdge, outEdge, from, to, w1, w2 :
         /\ IsPair(inEdge, outEdge, from, to, w1, w2)
         /\ PairHandled(inEdge, outEdge, from, to, w1 + w2)
  BY HandleEffect
<1>2. PICK weight : weight = w1 + w2
  OBVIOUS
<1>3. \A id \in PrepareEdges : id \in PrepareEdges' /\ EdgeAfter(id, from, to, weight, inEdge, outEdge)
  BY <1>1, <1>2 DEF PairHandled
<1>4. from \in Remaining /\ to \in Remaining
  BY <1>1 DEF IsPair, Alive, Remaining
<1>5. \A id \in PrepareEdges : ~ (Ends(id) \subseteq Remaining) => EdgeAt(id)' = EdgeAt(id)
  BY <1>3, <1>4 DEF EdgeAfter, Ends
<1> QED
  BY <1>3, <1>5 DEF Ends, Skips

\* What is true of a shortcut stays true as long as the skipped edges stay.
LEMMA BypassesStay ==
    ASSUME NEW s, NEW via, Bypasses(s, via), Contracted \subseteq Contracted',
           \A skip \in {s.skip1, s.skip2} : EdgeAt(skip)' = EdgeAt(skip)
    PROVE  Bypasses(s, via)'
<1>1. /\ Ends(s.skip1)' = Ends(s.skip1) /\ Ends(s.skip2)' = Ends(s.skip2)
      /\ Weight(s.skip1, s.a)' = Weight(s.skip1, s.a) /\ Weight(s.skip2, via)' = Weight(s.skip2, via)
  BY DEF Ends, Weight
<1> QED
  BY <1>1 DEF Bypasses

\* At first there is no shortcut.
LEMMA InitBypass == Init => AllBypass
<1> SUFFICES ASSUME Init PROVE AllBypass
  OBVIOUS
<1>1. /\ graph \in Graphs /\ prepareShortcuts = << >>
  BY DEF Init, BuildFromGraph
<1>2. GetEdges \in Nat
  BY <1>1, BaseFacts
<1> QED
  BY <1>1, <1>2 DEF AllBypass, PrepareEdges, IsShortcut

\* A shortcut is added for a pair of edges of the node.
LEMMA HandleBypass ==
    ASSUME ListsInv, LevelsInv, AllBypass, HandlePair
    PROVE  AllBypass'
<1>1. /\ graph' = graph /\ node' = node /\ phase = "contract" /\ phase' = "contract" /\ level' = level
      /\ GetEdges' = GetEdges
  BY DEF HandlePair, storage, GetEdges
<1>2. Contracted' = Contracted /\ node \in Contracted /\ Contracted \cap Remaining = {}
  <2>1. Contracted' = Contracted
    BY <1>1, SameLevels
  <2> QED
    BY <1>1, <2>1 DEF Contracted, LevelsInv
<1>3. \A id : IsShortcut(id)' <=> IsShortcut(id)
  BY <1>1 DEF IsShortcut
<1>4. PICK inEdge, outEdge, from, to, w1, w2 :
         /\ IsPair(inEdge, outEdge, from, to, w1, w2)
         /\ PairHandled(inEdge, outEdge, from, to, w1 + w2)
  BY HandleEffect
<1>5. PICK weight : weight = w1 + w2
  OBVIOUS
<1>6. /\ \A id \in PrepareEdges :
          id \in PrepareEdges' /\ EdgeAfter(id, from, to, weight, inEdge, outEdge)
      /\ \A id \in PrepareEdges' :
          id \in PrepareEdges \/ EdgeAt(id)' = Asked(from, to, weight, inEdge, outEdge)
  BY <1>4, <1>5 DEF PairHandled
<1>7. graph \in Graphs /\ ShortcutsTyped
  BY DEF ListsInv
<1>8. ASSUME NEW skip \in PrepareEdges, NEW via \in Contracted, via \in Ends(skip)
      PROVE  EdgeAt(skip)' = EdgeAt(skip)
  BY <1>2, <1>8, HandleChanges
<1>9. Bypasses(Asked(from, to, weight, inEdge, outEdge), node)'
  <2>1. /\ inEdge \in PrepareEdges /\ outEdge \in PrepareEdges
        /\ node \in Ends(inEdge) /\ node \in Ends(outEdge)
        /\ from = AdjacentNode(inEdge, node) /\ to = AdjacentNode(outEdge, node)
        /\ from # node /\ to # node
        /\ w1 = Weight(inEdge, from) /\ w2 = Weight(outEdge, node)
        /\ w1 \in Nat \ {0} /\ w2 \in Nat \ {0}
    BY <1>4 DEF IsPair
  <2>2. Ends(inEdge) = {node, from} /\ Ends(outEdge) = {node, to}
    BY <1>7, <2>1, AdjacentFacts
  <2>3. PICK s : s = Asked(from, to, weight, inEdge, outEdge)
    OBVIOUS
  <2>4. s.a = from /\ s.b = to /\ s.fwd = weight /\ s.skip1 = inEdge /\ s.skip2 = outEdge
    BY <2>3 DEF Asked
  <2>5. PICK via : via = node
    OBVIOUS
  <2>6. Bypasses(s, via)
    BY <1>2, <1>5, <2>1, <2>2, <2>4, <2>5 DEF Bypasses
  <2>7. \A skip \in {s.skip1, s.skip2} : EdgeAt(skip)' = EdgeAt(skip)
    BY <1>2, <1>8, <2>1, <2>4
  <2>8. Bypasses(s, via)'
    BY <1>2, <2>6, <2>7, BypassesStay
  <2>9. via = node'
    BY <1>1, <2>5
  <2> QED
    BY <2>3, <2>8, <2>9
<1>10. ASSUME NEW id \in PrepareEdges', IsShortcut(id)
       PROVE  \E via \in Contracted : Bypasses(EdgeAt(id), via)'
  <2>1. CASE EdgeAt(id)' = Asked(from, to, weight, inEdge, outEdge)
    <3>1. PICK s : s = Asked(from, to, weight, inEdge, outEdge)
      OBVIOUS
    <3>2. PICK via : via = node
      OBVIOUS
    <3>3. Bypasses(s, via)'
      BY <1>1, <1>9, <3>1, <3>2
    <3> QED
      BY <1>2, <2>1, <3>1, <3>2, <3>3
  <2>2. CASE id \in PrepareEdges /\ EdgeAt(id)' = EdgeAt(id)
    <3>1. PICK s : s = EdgeAt(id)
      OBVIOUS
    <3>2. PICK via \in Contracted : Bypasses(s, via)
      BY <1>10, <2>2, <3>1 DEF AllBypass
    <3>3. s \in PrepareShortcut
      BY <1>7, <1>10, <2>2, <3>1, EdgeFacts
    <3>4. \A skip \in {s.skip1, s.skip2} : EdgeAt(skip)' = EdgeAt(skip)
      BY <1>8, <3>2, <3>3 DEF Bypasses, PrepareShortcut
    <3>5. Bypasses(s, via)'
      BY <1>2, <3>2, <3>4, BypassesStay
    <3> QED
      BY <2>2, <3>1, <3>5
  <2> QED
    BY <1>6, <2>1, <2>2 DEF EdgeAfter
<1> QED
  BY <1>2, <1>3, <1>10 DEF AllBypass

\* The other steps contract at most another node.
LEMMA OthersBypass ==
    ASSUME AllBypass, graph' = graph, prepareShortcuts' = prepareShortcuts,
           Contracted \subseteq Contracted'
    PROVE  AllBypass'
<1>1. /\ PrepareEdges' = PrepareEdges
      /\ \A id : EdgeAt(id)' = EdgeAt(id) /\ IsShortcut(id)' = IsShortcut(id)
  BY EdgesStay
<1>2. ASSUME NEW id \in PrepareEdges, IsShortcut(id)
      PROVE  \E via \in Contracted' : Bypasses(EdgeAt(id), via)'
  <2>1. PICK s : s = EdgeAt(id)
    OBVIOUS
  <2>2. PICK via \in Contracted : Bypasses(s, via)
    BY <1>2, <2>1 DEF AllBypass
  <2>3. Bypasses(s, via)'
    BY <1>1, <2>2, BypassesStay
  <2> QED
    BY <1>1, <2>1, <2>2, <2>3
<1> QED
  BY <1>1, <1>2 DEF AllBypass

-----------------------------------------------------------------------------

\* At first there is no record.
LEMMA InitRecords == Init => RecordsKept /\ RecordsJustified
<1> SUFFICES ASSUME Init PROVE RecordsKept /\ RecordsJustified
  OBVIOUS
<1>1. shortcuts = << >> /\ shortcutFor = << >>
  BY DEF Init, BuildFromGraph, EmptyStorage
<1>2. DOMAIN shortcutFor = {} /\ Len(shortcuts) = 0
  BY <1>1
<1> QED
  BY <1>2 DEF RecordsKept, RecordsJustified

\* Records stay what they are as long as the edges they store do.
LEMMA RecordsStay ==
    ASSUME RecordsKept, RecordsJustified, graph' = graph, shortcuts' = shortcuts,
           shortcutFor' = shortcutFor, phase # "done", phase' # "done", Alive' = Alive,
           \A id \in DOMAIN shortcutFor : EdgeAt(id)' = EdgeAt(id)
    PROVE  RecordsKept' /\ RecordsJustified'
<1>1. /\ GetEdges' = GetEdges
      /\ \A id : /\ IsShortcut(id)' = IsShortcut(id)
                 /\ GetShortcutForPrepareEdge(id)' = GetShortcutForPrepareEdge(id)
                 /\ StoredId(id)' = StoredId(id)
  BY DEF GetEdges, IsShortcut, GetShortcutForPrepareEdge, StoredId
<1>2. \A id \in DOMAIN shortcutFor : \A r :
         /\ Ends(id)' = Ends(id) /\ Skips(id)' = Skips(id)
         /\ Along(r, id)' <=> Along(r, id)
         /\ Against(r, id)' <=> Against(r, id)
  BY <1>1 DEF Ends, Skips, Along, Against
<1>3. RecordsKept'
  <2>1. ASSUME NEW id \in DOMAIN shortcutFor, NEW s, s = shortcuts'[shortcutFor'[id] - GetEdges']
        PROVE  /\ ~ (Ends(id)' \subseteq Alive')
               /\ Along(s, id)' \/ Against(s, id)'
               /\ \A skip \in Skips(id)' : IsShortcut(skip)' => skip \in DOMAIN shortcutFor'
    <3>1. s = shortcuts[shortcutFor[id] - GetEdges]
      BY <1>1, <2>1
    <3>2. Along(s, id) \/ Against(s, id)
      BY <3>1 DEF RecordsKept
    <3>4. Along(s, id)' \/ Against(s, id)'
      BY <1>2, <3>2
    <3>5. /\ ~ (Ends(id)' \subseteq Alive')
          /\ \A skip \in Skips(id)' : IsShortcut(skip)' => skip \in DOMAIN shortcutFor'
      BY <1>1, <1>2 DEF RecordsKept
    <3> QED
      BY <3>4, <3>5
  <2> QED
    BY <1>1, <2>1 DEF RecordsKept
<1>4. RecordsJustified'
  <2>1. ASSUME NEW i \in 1 .. Len(shortcuts), NEW r, r = shortcuts[i]
        PROVE  /\ r.fwd \/ r.bwd
               /\ r.fwd => \E id \in DOMAIN shortcutFor : Along(r, id)'
               /\ r.bwd => \E id \in DOMAIN shortcutFor : Against(r, id)'
               /\ \A skip \in {r.skip1, r.skip2} : StoredId(skip)' < GetEdges + i
    BY <1>1, <1>2, <2>1 DEF RecordsJustified
  <2> QED
    BY <1>1, <2>1 DEF RecordsJustified
<1> QED
  BY <1>3, <1>4

\* A new shortcut is not stored yet, and one that is replaced has not been.
LEMMA HandleRecords ==
    ASSUME ListsInv, RecordsKept, RecordsJustified, HandlePair,
           \A id \in DOMAIN shortcutFor : id \in PrepareEdges
    PROVE  RecordsKept' /\ RecordsJustified'
<1>1. /\ graph' = graph /\ phase = "contract" /\ phase' = "contract" /\ shortcuts' = shortcuts
      /\ Alive' = Alive
  BY DEF HandlePair, storage, Alive, Nodes, MaxLevel
<1>2. shortcutFor' = shortcutFor
  BY HandleEffect DEF PairHandled
<1>3. Remaining \subseteq Alive
  BY DEF Remaining, Alive
<1>4. \A id \in DOMAIN shortcutFor : EdgeAt(id)' = EdgeAt(id)
  BY <1>3, HandleChanges DEF RecordsKept
<1> QED
  BY <1>1, <1>2, <1>4, RecordsStay

\* Polling a node changes no record.
LEMMA PollRecords ==
    ASSUME ListsInv, LevelsInv, RecordsKept, RecordsJustified, NEW n \in Nodes, PollNode(n)
    PROVE  RecordsKept' /\ RecordsJustified'
<1>1. /\ graph' = graph /\ prepareShortcuts' = prepareShortcuts /\ phase = "poll" /\ phase' = "contract"
      /\ shortcuts' = shortcuts /\ shortcutFor' = shortcutFor
  BY DEF PollNode, prepareGraph
<1>2. Alive' = Alive
  BY PollAlive DEF ListsInv, LevelsInv
<1>3. \A id : EdgeAt(id)' = EdgeAt(id)
  BY <1>1, EdgesStay
<1> QED
  BY <1>1, <1>2, <1>3, RecordsStay

\* The ids of the preparation are replaced by those they stand for.
LEMMA FinishRecords ==
    ASSUME ListsInv, LevelsInv, StoreInv, RecordsKept, RecordsJustified, FinishContraction
    PROVE  RecordsKept' /\ RecordsJustified'
<1>1. /\ graph' = graph /\ level' = level /\ node' = node /\ shortcutFor' = shortcutFor
      /\ prepareShortcuts' = prepareShortcuts /\ out' = out /\ in' = in /\ todo' = todo
      /\ phase = "poll" /\ phase' = "done" /\ Remaining = {}
  BY DEF FinishContraction, prepareGraph
<1>2. /\ GetEdges' = GetEdges
      /\ \A id : EdgeAt(id)' = EdgeAt(id) /\ IsShortcut(id)' = IsShortcut(id) /\ Ends(id)' = Ends(id)
  BY <1>1, EdgesStay
<1>3. Alive' = Alive
  BY <1>1, SameLists
<1>4. /\ Len(shortcuts') = Len(shortcuts) /\ shortcuts \in Seq(StoredShortcut)
      /\ \A i \in 1 .. Len(shortcuts) : ReplacedAs(shortcuts'[i], shortcuts[i])
  BY FinishEffect DEF StoreInv
<1>5. \A id : /\ GetShortcutForPrepareEdge(id)' = GetShortcutForPrepareEdge(id)
              /\ Skips(id)' = Skips(id)
              /\ StoredId(id)' = id /\ StoredId(id) = GetShortcutForPrepareEdge(id)
  BY <1>1, <1>2 DEF GetShortcutForPrepareEdge, Skips, StoredId
<1>6. ASSUME NEW i \in 1 .. Len(shortcuts), NEW r, r = shortcuts[i], NEW s, s = shortcuts'[i], NEW id
      PROVE  (Along(r, id) => Along(s, id)') /\ (Against(r, id) => Against(s, id)')
  <2>1. ReplacedAs(s, r)
    BY <1>4, <1>6
  <2>2. /\ s.a = r.a /\ s.b = r.b /\ s.fwd = r.fwd /\ s.bwd = r.bwd /\ s.weight = r.weight
        /\ s.skip1 = StoredId(r.skip1) /\ s.skip2 = StoredId(r.skip2)
    BY <1>5, <2>1 DEF ReplacedAs
  <2>3. EdgeAt(id)' = EdgeAt(id)
    BY <1>2
  <2>4. \A x : StoredId(x)' = x /\ GetShortcutForPrepareEdge(x)' = GetShortcutForPrepareEdge(x)
    BY <1>5
  <2>5. \A w : StoredWeight(w)' = StoredWeight(w)
    BY DEF StoredWeight
  <2>6. Along(r, id) => Along(s, id)'
    BY <2>2, <2>3, <2>4, <2>5 DEF Along
  <2>7. Against(r, id) => Against(s, id)'
    BY <2>2, <2>3, <2>4, <2>5 DEF Against
  <2> QED
    BY <2>6, <2>7
<1>7. RecordsKept'
  <2>1. ASSUME NEW id \in DOMAIN shortcutFor, NEW s, s = shortcuts'[shortcutFor'[id] - GetEdges']
        PROVE  /\ ~ (Ends(id)' \subseteq Alive')
               /\ Along(s, id)' \/ Against(s, id)'
               /\ \A skip \in Skips(id)' : IsShortcut(skip)' => skip \in DOMAIN shortcutFor'
    <3>1. PICK i, r : /\ i = shortcutFor[id] - GetEdges /\ r = shortcuts[i]
      OBVIOUS
    <3>2. i \in 1 .. Len(shortcuts)
      <4>1. shortcutFor[id] \in (GetEdges + 1) .. (GetEdges + Len(shortcuts))
        BY DEF StoreInv
      <4>2. GetEdges \in Nat /\ Len(shortcuts) \in Nat
        BY <1>4, BaseFacts DEF ListsInv
      <4> QED
        BY <3>1, <4>1, <4>2
    <3>3. Along(r, id) \/ Against(r, id)
      BY <3>1 DEF RecordsKept
    <3>4. s = shortcuts'[i]
      BY <1>1, <1>2, <2>1, <3>1
    <3>5. Along(s, id)' \/ Against(s, id)'
      BY <1>6, <3>1, <3>2, <3>3, <3>4
    <3>6. /\ ~ (Ends(id)' \subseteq Alive')
          /\ \A skip \in Skips(id)' : IsShortcut(skip)' => skip \in DOMAIN shortcutFor'
      BY <1>1, <1>2, <1>3, <1>5 DEF RecordsKept
    <3> QED
      BY <3>5, <3>6
  <2> QED
    BY <1>1, <2>1 DEF RecordsKept
<1>8. RecordsJustified'
  <2>1. ASSUME NEW i \in 1 .. Len(shortcuts), NEW s, s = shortcuts'[i]
        PROVE  /\ s.fwd \/ s.bwd
               /\ s.fwd => \E id \in DOMAIN shortcutFor : Along(s, id)'
               /\ s.bwd => \E id \in DOMAIN shortcutFor : Against(s, id)'
               /\ \A skip \in {s.skip1, s.skip2} : StoredId(skip)' < GetEdges + i
    <3>1. PICK r : r = shortcuts[i]
      OBVIOUS
    <3>2. /\ s.fwd = r.fwd /\ s.bwd = r.bwd
          /\ StoredId(s.skip1)' = StoredId(r.skip1) /\ StoredId(s.skip2)' = StoredId(r.skip2)
      BY <1>4, <1>5, <2>1, <3>1 DEF ReplacedAs
    <3>3. /\ r.fwd \/ r.bwd
          /\ r.fwd => \E id \in DOMAIN shortcutFor : Along(r, id)
          /\ r.bwd => \E id \in DOMAIN shortcutFor : Against(r, id)
          /\ StoredId(r.skip1) < GetEdges + i /\ StoredId(r.skip2) < GetEdges + i
      BY <3>1 DEF RecordsJustified
    <3> QED
      BY <1>6, <2>1, <3>1, <3>2, <3>3
  <2> QED
    BY <1>1, <1>2, <1>4, <2>1 DEF RecordsJustified
<1> QED
  BY <1>7, <1>8

-----------------------------------------------------------------------------

\* Storing the shortcuts of the node keeps what has been stored, and the new
\* records are what they are stored for.
LEMMA InsertRecords ==
    ASSUME ListsInv, LevelsInv, StoreInv, RecordsKept, RecordsJustified, InsertShortcuts
    PROVE  RecordsKept' /\ RecordsJustified'
<1>1. /\ graph' = graph /\ level' = level /\ prepareShortcuts' = prepareShortcuts /\ node' = node
      /\ phase = "contract" /\ phase' = "poll" /\ node \in Nodes /\ graph \in Graphs
  BY DEF InsertShortcuts, ListsInv
<1>2. /\ Nodes' = Nodes /\ GetEdges' = GetEdges /\ PrepareEdges' = PrepareEdges /\ MaxLevel' = MaxLevel
      /\ \A id : /\ EdgeAt(id)' = EdgeAt(id) /\ Ends(id)' = Ends(id)
                 /\ IsShortcut(id)' = IsShortcut(id)
  BY <1>1, EdgesStay
<1>3. \A id : Skips(id)' = Skips(id)
  BY <1>2 DEF Skips
<1>4. Alive' \subseteq Alive /\ node \in Alive /\ node \notin Alive'
  <2>1. node \in Contracted
    BY <1>1 DEF LevelsInv
  <2> QED
    BY <1>1, <1>2, <2>1 DEF Alive, Contracted, Remaining
<1>5. PICK new : Stores(new)
  BY StoreEffect DEF StoreInv
<1> DEFINE m == Len(shortcuts)
           n == Len(new)
           listed == Leaving \cup Entering
<1>6. /\ ServesAll(new, listed)
      /\ shortcuts' \in Seq(StoredShortcut) /\ Len(shortcuts') = m + n
      /\ \A i \in 1 .. m : shortcuts'[i] = shortcuts[i]
      /\ \A j \in 1 .. n : StoredAs(shortcuts'[m + j], new[j].record)
      /\ DOMAIN shortcutFor' = listed \cup DOMAIN shortcutFor
      /\ \A id \in listed : \E j \in 1 .. n :
            id \in new[j].ids /\ shortcutFor'[id] = GetEdges + m + j
      /\ \A id \in DOMAIN shortcutFor \ listed : shortcutFor'[id] = shortcutFor[id]
  BY <1>5 DEF Stores
<1>7. m \in Nat /\ n \in Nat /\ GetEdges \in Nat
  <2>1. shortcuts \in Seq(StoredShortcut) /\ new \in Seq(NewEntry)
    BY <1>6 DEF StoreInv, ServesAll
  <2> QED
    BY <1>1, <2>1, BaseFacts
<1> HIDE DEF m, n, listed
<1>8. ASSUME NEW id \in listed
      PROVE  /\ id \in PrepareEdges /\ IsShortcut(id) /\ EdgeAt(id) = Shortcut(id)
             /\ node \in Ends(id) /\ Ends(id) \subseteq Alive
             /\ Shortcut(id).skip1 \in PrepareEdges /\ Shortcut(id).skip2 \in PrepareEdges
             /\ id \in Leaving => EdgeAt(id).a = node /\ EdgeAt(id).b = AdjacentNode(id, node)
             /\ id \in Entering => EdgeAt(id).b = node /\ EdgeAt(id).a = AdjacentNode(id, node)
  BY <1>1, <1>4, <1>8, ListedShortcut DEF listed
<1>9. DOMAIN shortcutFor \cap listed = {}
  BY <1>8 DEF RecordsKept
<1>10. \A id \in DOMAIN shortcutFor : id \in DOMAIN shortcutFor' /\ shortcutFor'[id] = shortcutFor[id]
  BY <1>6, <1>9
<1> DEFINE Known(k) == IsShortcut(k) => k \in DOMAIN shortcutFor
<1>11. \A k : Known(k) => /\ GetShortcutForPrepareEdge(k)' = GetShortcutForPrepareEdge(k)
                          /\ StoredId(k)' = GetShortcutForPrepareEdge(k)
                          /\ StoredId(k) = GetShortcutForPrepareEdge(k)
  BY <1>1, <1>2, <1>10 DEF GetShortcutForPrepareEdge, StoredId
<1>12. \A id \in listed : \A skip \in Skips(id) : Known(skip)
  BY <1>8 DEF StoreInv, SkipsStored
<1>13. \A id \in DOMAIN shortcutFor : \A skip \in Skips(id) : Known(skip)
  BY DEF RecordsKept
<1>14. ASSUME NEW k \in PrepareEdges, Known(k), NEW j \in 1 .. n
       PROVE  GetShortcutForPrepareEdge(k) < GetEdges + (m + j)
  <2>1. CASE IsShortcut(k)
    <3>1. shortcutFor[k] \in (GetEdges + 1) .. (GetEdges + m)
      BY <1>14, <2>1 DEF StoreInv, m
    <3> QED
      BY <1>7, <2>1, <3>1 DEF GetShortcutForPrepareEdge
  <2>2. CASE ~ IsShortcut(k)
    <3>1. k \in Nat /\ ~ (k > GetEdges)
      BY <1>7, <2>2 DEF PrepareEdges, IsShortcut
    <3> QED
      BY <1>7, <2>2, <3>1 DEF GetShortcutForPrepareEdge
  <2> QED
    BY <2>1, <2>2
<1>15. ASSUME NEW i \in 1 .. m, NEW r, r = shortcuts[i]
       PROVE  \A skip \in {r.skip1, r.skip2} : Known(skip)
  BY <1>1, <1>15 DEF StoreInv, m
<1>16. ASSUME NEW j \in 1 .. n
       PROVE  \A skip \in {new[j].record.skip1, new[j].record.skip2} :
                 Known(skip) /\ skip \in PrepareEdges
  <2>1. Serves(new[j])
    BY <1>6 DEF ServesAll, n
  <2>2. PICK id \in new[j].ids :
           {new[j].record.skip1, new[j].record.skip2} = {Shortcut(id).skip1, Shortcut(id).skip2}
    BY <2>1 DEF Serves
  <2>3. id \in listed
    BY <2>1 DEF Serves, Outward, Inward, listed
  <2>4. \A skip \in {Shortcut(id).skip1, Shortcut(id).skip2} : Known(skip) /\ skip \in PrepareEdges
    BY <1>8, <1>12, <2>3 DEF Skips
  <2> HIDE DEF Known
  <2> QED
    BY <2>2, <2>4
<1> HIDE DEF Known
<1>17. ASSUME NEW j \in 1 .. n, NEW s, s = shortcuts'[m + j], NEW id \in new[j].ids
       PROVE  /\ id \in listed
              /\ Outward(new[j].record, id) => Along(s, id)'
              /\ Inward(new[j].record, id) => Against(s, id)'
              /\ Along(s, id)' \/ Against(s, id)'
  <2>1. Serves(new[j]) /\ StoredAs(s, new[j].record)
    BY <1>6, <1>17 DEF ServesAll, n
  <2>2. PICK r : r = new[j].record
    OBVIOUS
  <2>3. /\ r.a = node /\ (Outward(r, id) \/ Inward(r, id))
        /\ s.a = r.a /\ s.b = r.b /\ s.fwd = r.fwd /\ s.bwd = r.bwd
        /\ s.weight = StoredWeight(r.weight) /\ s.skip1 = r.skip1 /\ s.skip2 = r.skip2
    BY <1>17, <2>1, <2>2 DEF Serves, StoredAs
  <2>4. id \in listed
    BY <2>3 DEF Outward, Inward, listed
  <2>5. PICK e : e = EdgeAt(id)
    OBVIOUS
  <2>6. EdgeAt(id)' = e /\ Shortcut(id) = e
    BY <1>2, <1>8, <2>4, <2>5
  <2>7. Known(e.skip1) /\ Known(e.skip2) /\ Known(r.skip1) /\ Known(r.skip2)
    BY <1>12, <1>16, <2>2, <2>4, <2>5 DEF Skips
  <2>8. /\ GetShortcutForPrepareEdge(e.skip1)' = GetShortcutForPrepareEdge(e.skip1)
        /\ GetShortcutForPrepareEdge(e.skip2)' = GetShortcutForPrepareEdge(e.skip2)
        /\ StoredId(s.skip1)' = GetShortcutForPrepareEdge(r.skip1)
        /\ StoredId(s.skip2)' = GetShortcutForPrepareEdge(r.skip2)
    BY <1>11, <2>3, <2>7
  <2>9. \A w : StoredWeight(w)' = StoredWeight(w)
    BY DEF StoredWeight
  <2>10. Outward(r, id) => Along(s, id)'
    <3> SUFFICES ASSUME Outward(r, id) PROVE Along(s, id)'
      OBVIOUS
    <3>1. /\ id \in Leaving /\ r.fwd /\ r.b = AdjacentNode(id, node) /\ r.weight = e.fwd
          /\ GetShortcutForPrepareEdge(r.skip1) = GetShortcutForPrepareEdge(e.skip1)
          /\ GetShortcutForPrepareEdge(r.skip2) = GetShortcutForPrepareEdge(e.skip2)
      BY <2>6 DEF Outward
    <3>2. e.a = node /\ e.b = AdjacentNode(id, node)
      BY <1>8, <2>4, <2>5, <3>1
    <3> QED
      BY <2>3, <2>6, <2>8, <2>9, <3>1, <3>2 DEF Along
  <2>11. Inward(r, id) => Against(s, id)'
    <3> SUFFICES ASSUME Inward(r, id) PROVE Against(s, id)'
      OBVIOUS
    <3>1. /\ id \in Entering /\ r.bwd /\ r.b = AdjacentNode(id, node) /\ r.weight = e.fwd
          /\ GetShortcutForPrepareEdge(r.skip1) = GetShortcutForPrepareEdge(e.skip2)
          /\ GetShortcutForPrepareEdge(r.skip2) = GetShortcutForPrepareEdge(e.skip1)
      BY <2>6 DEF Inward
    <3>2. e.b = node /\ e.a = AdjacentNode(id, node)
      BY <1>8, <2>4, <2>5, <3>1
    <3> QED
      BY <2>3, <2>6, <2>8, <2>9, <3>1, <3>2 DEF Against
  <2> QED
    BY <2>2, <2>3, <2>4, <2>10, <2>11
<1>18. ASSUME NEW id \in DOMAIN shortcutFor, NEW i \in 1 .. m, NEW r, r = shortcuts[i]
       PROVE  (Along(r, id) => Along(r, id)') /\ (Against(r, id) => Against(r, id)')
  <2>1. PICK e : e = EdgeAt(id)
    OBVIOUS
  <2>2. EdgeAt(id)' = e
    BY <1>2, <2>1
  <2>3. Known(e.skip1) /\ Known(e.skip2) /\ Known(r.skip1) /\ Known(r.skip2)
    BY <1>13, <1>15, <1>18, <2>1 DEF Skips
  <2>4. /\ GetShortcutForPrepareEdge(e.skip1)' = GetShortcutForPrepareEdge(e.skip1)
        /\ GetShortcutForPrepareEdge(e.skip2)' = GetShortcutForPrepareEdge(e.skip2)
        /\ StoredId(r.skip1)' = StoredId(r.skip1)
        /\ StoredId(r.skip2)' = StoredId(r.skip2)
    BY <1>11, <2>3
  <2>5. \A w : StoredWeight(w)' = StoredWeight(w)
    BY DEF StoredWeight
  <2>6. Along(r, id) => Along(r, id)'
    BY <2>1, <2>2, <2>4, <2>5 DEF Along
  <2>7. Against(r, id) => Against(r, id)'
    BY <2>1, <2>2, <2>4, <2>5 DEF Against
  <2> QED
    BY <2>6, <2>7
<1>19. ASSUME NEW id \in DOMAIN shortcutFor', NEW s, s = shortcuts'[shortcutFor'[id] - GetEdges']
       PROVE  /\ ~ (Ends(id)' \subseteq Alive')
              /\ Along(s, id)' \/ Against(s, id)'
              /\ \A skip \in Skips(id)' : IsShortcut(skip)' => skip \in DOMAIN shortcutFor'
  <2>1. CASE id \in listed
    <3>1. PICK j \in 1 .. n : id \in new[j].ids /\ shortcutFor'[id] = GetEdges + m + j
      BY <1>6, <2>1
    <3>2. (GetEdges + m + j) - GetEdges = m + j
      BY <1>7
    <3>3. s = shortcuts'[m + j]
      BY <1>2, <1>19, <3>1, <3>2
    <3>4. Along(s, id)' \/ Against(s, id)'
      BY <1>17, <3>1, <3>3
    <3>5. ~ (Ends(id)' \subseteq Alive')
      BY <1>2, <1>4, <1>8, <2>1
    <3>6. \A skip \in Skips(id)' : IsShortcut(skip)' => skip \in DOMAIN shortcutFor'
      BY <1>2, <1>3, <1>6, <1>12, <2>1 DEF Known
    <3> QED
      BY <3>4, <3>5, <3>6
  <2>2. CASE id \in DOMAIN shortcutFor
    <3>1. PICK i : i = shortcutFor[id] - GetEdges
      OBVIOUS
    <3>2. i \in 1 .. m
      <4>1. shortcutFor[id] \in (GetEdges + 1) .. (GetEdges + m)
        BY <2>2 DEF StoreInv, m
      <4> QED
        BY <1>7, <3>1, <4>1
    <3>3. s = shortcuts[i]
      BY <1>2, <1>6, <1>10, <1>19, <2>2, <3>1, <3>2
    <3>4. Along(s, id) \/ Against(s, id)
      BY <2>2, <3>1, <3>3 DEF RecordsKept
    <3>5. Along(s, id)' \/ Against(s, id)'
      BY <1>18, <2>2, <3>2, <3>3, <3>4
    <3>6. ~ (Ends(id)' \subseteq Alive')
      BY <1>2, <1>4, <2>2 DEF RecordsKept
    <3>7. \A skip \in Skips(id)' : IsShortcut(skip)' => skip \in DOMAIN shortcutFor'
      BY <1>2, <1>3, <1>6, <1>13, <2>2 DEF Known
    <3> QED
      BY <3>5, <3>6, <3>7
  <2> QED
    BY <1>6, <2>1, <2>2
<1>20. RecordsKept'
  BY <1>19 DEF RecordsKept
<1>21. ASSUME NEW i \in 1 .. m + n, NEW s, s = shortcuts'[i]
       PROVE  /\ s.fwd \/ s.bwd
              /\ s.fwd => \E id \in DOMAIN shortcutFor' : Along(s, id)'
              /\ s.bwd => \E id \in DOMAIN shortcutFor' : Against(s, id)'
              /\ \A skip \in {s.skip1, s.skip2} : StoredId(skip)' < GetEdges + i
  <2>1. CASE i \in 1 .. m
    <3>1. s = shortcuts[i]
      BY <1>6, <1>21, <2>1
    <3>2. /\ s.fwd \/ s.bwd
          /\ s.fwd => \E id \in DOMAIN shortcutFor : Along(s, id)
          /\ s.bwd => \E id \in DOMAIN shortcutFor : Against(s, id)
          /\ \A skip \in {s.skip1, s.skip2} : StoredId(skip) < GetEdges + i
      BY <2>1, <3>1 DEF RecordsJustified, m
    <3>3. \A skip \in {s.skip1, s.skip2} : StoredId(skip)' = StoredId(skip)
      BY <1>11, <1>15, <2>1, <3>1
    <3> QED
      BY <1>10, <1>18, <2>1, <3>1, <3>2, <3>3
  <2>2. CASE i \notin 1 .. m
    <3>1. PICK j : j = i - m
      OBVIOUS
    <3>2. j \in 1 .. n /\ i = m + j
      BY <1>7, <1>21, <2>2, <3>1
    <3>3. Serves(new[j]) /\ StoredAs(s, new[j].record) /\ new[j] \in NewEntry
      <4>1. Serves(new[j]) /\ StoredAs(s, new[j].record)
        BY <1>6, <1>21, <3>2 DEF ServesAll, n
      <4>2. new \in Seq(NewEntry)
        BY <1>6 DEF ServesAll
      <4>3. new[j] \in NewEntry
        BY <3>2, <4>2 DEF n
      <4> QED
        BY <4>1, <4>3
    <3>4. PICK r : r = new[j].record
      OBVIOUS
    <3>5. /\ s.fwd = r.fwd /\ s.bwd = r.bwd /\ s.skip1 = r.skip1 /\ s.skip2 = r.skip2
          /\ r.fwd => \E id \in new[j].ids : Outward(r, id)
          /\ r.bwd => \E id \in new[j].ids : Inward(r, id)
          /\ \E id \in new[j].ids : Outward(r, id) \/ Inward(r, id)
      BY <3>3, <3>4 DEF Serves, StoredAs
    <3>6. r.fwd \/ r.bwd
      BY <3>5 DEF Outward, Inward
    <3>7. s = shortcuts'[m + j]
      BY <1>21, <3>2
    <3>8. \A id \in new[j].ids : id \in DOMAIN shortcutFor'
      BY <1>6, <1>17, <3>2, <3>7
    <3>9. \A skip \in {s.skip1, s.skip2} : StoredId(skip)' < GetEdges + i
      <4>1. \A skip \in {s.skip1, s.skip2} : Known(skip) /\ skip \in PrepareEdges
        BY <1>16, <3>2, <3>4, <3>5
      <4>2. \A skip \in {s.skip1, s.skip2} : StoredId(skip)' = GetShortcutForPrepareEdge(skip)
        BY <1>11, <4>1
      <4> QED
        BY <1>14, <3>2, <4>1, <4>2
    <3>10. s.fwd => \E id \in DOMAIN shortcutFor' : Along(s, id)'
      BY <1>17, <3>2, <3>4, <3>5, <3>7, <3>8
    <3>11. s.bwd => \E id \in DOMAIN shortcutFor' : Against(s, id)'
      BY <1>17, <3>2, <3>4, <3>5, <3>7, <3>8
    <3> QED
      BY <3>5, <3>6, <3>9, <3>10, <3>11
  <2> QED
    BY <2>1, <2>2
<1>22. RecordsJustified'
  BY <1>2, <1>6, <1>21 DEF RecordsJustified
<1> QED
  BY <1>20, <1>22

-----------------------------------------------------------------------------

\* The invariant about the records is inductive.
LEMMA RecordsInvKept ==
    ListsInv /\ LevelsInv /\ StoreInv /\ RecordsInv /\ [RoutingNext]_vars => RecordsInv'
<1> SUFFICES ASSUME ListsInv, LevelsInv, StoreInv, RecordsInv, [RoutingNext]_vars
             PROVE  RecordsInv'
  OBVIOUS
<1>1. AllBypass /\ RecordsKept /\ RecordsJustified
  BY DEF RecordsInv
<1>2. CASE HandlePair
  <2>1. \A id \in DOMAIN shortcutFor : id \in PrepareEdges
    BY DEF StoreInv
  <2>2. AllBypass'
    BY <1>1, <1>2, HandleBypass
  <2>3. RecordsKept' /\ RecordsJustified'
    BY <1>1, <1>2, <2>1, HandleRecords
  <2> QED
    BY <2>2, <2>3 DEF RecordsInv
<1>3. CASE InsertShortcuts
  <2>1. /\ graph' = graph /\ level' = level /\ prepareShortcuts' = prepareShortcuts /\ node' = node
        /\ phase' = "poll"
    BY <1>3 DEF InsertShortcuts
  <2>2. Contracted' = Contracted
    BY <2>1, SameLevels
  <2>3. AllBypass'
    BY <1>1, <2>1, <2>2, OthersBypass
  <2>4. RecordsKept' /\ RecordsJustified'
    BY <1>1, <1>3, InsertRecords
  <2> QED
    BY <2>3, <2>4 DEF RecordsInv
<1>4. CASE FinishContraction
  <2>1. /\ graph' = graph /\ level' = level /\ prepareShortcuts' = prepareShortcuts /\ node' = node
        /\ phase' = "done" /\ Remaining = {}
    BY <1>4 DEF FinishContraction, prepareGraph
  <2>2. Contracted' = Contracted
    BY <2>1, SameLevels
  <2>3. AllBypass'
    BY <1>1, <2>1, <2>2, OthersBypass
  <2>4. RecordsKept' /\ RecordsJustified'
    BY <1>1, <1>4, FinishRecords
  <2> QED
    BY <2>3, <2>4 DEF RecordsInv
<1>5. ASSUME NEW n \in Nodes, PollNode(n) PROVE RecordsInv'
  <2>1. /\ graph' = graph /\ prepareShortcuts' = prepareShortcuts /\ Nodes' = Nodes
    BY <1>5 DEF PollNode, prepareGraph, Nodes
  <2>2. Remaining' = Remaining \ {n}
    BY <1>5, PollAlive DEF ListsInv, LevelsInv
  <2>3. Contracted \subseteq Contracted'
    BY <2>1, <2>2 DEF Contracted
  <2>4. AllBypass'
    BY <1>1, <2>1, <2>3, OthersBypass
  <2>5. RecordsKept' /\ RecordsJustified'
    BY <1>1, <1>5, PollRecords
  <2> QED
    BY <2>4, <2>5 DEF RecordsInv
<1>6. CASE UNCHANGED contractionVars
  <2>1. /\ graph' = graph /\ level' = level /\ node' = node /\ out' = out /\ in' = in
        /\ prepareShortcuts' = prepareShortcuts /\ shortcutFor' = shortcutFor /\ shortcuts' = shortcuts
        /\ phase' = phase /\ todo' = todo
    BY <1>6, ContractionUnchanged
  <2>2. Contracted' = Contracted /\ Alive' = Alive
    BY <2>1, SameLevels, SameLists
  <2>3. /\ GetEdges' = GetEdges
        /\ \A id : /\ EdgeAt(id)' = EdgeAt(id) /\ IsShortcut(id)' = IsShortcut(id)
                   /\ Ends(id)' = Ends(id)
    BY <2>1, EdgesStay
  <2>4. AllBypass'
    BY <1>1, <2>1, <2>2, OthersBypass
  <2>5. /\ \A id : /\ GetShortcutForPrepareEdge(id)' = GetShortcutForPrepareEdge(id)
                   /\ StoredId(id)' = StoredId(id) /\ Skips(id)' = Skips(id)
        /\ \A w : StoredWeight(w)' = StoredWeight(w)
    BY <2>1, <2>3 DEF GetShortcutForPrepareEdge, StoredId, Skips, StoredWeight
  <2>6. \A r, id : (Along(r, id)' <=> Along(r, id)) /\ (Against(r, id)' <=> Against(r, id))
    BY <2>3, <2>5 DEF Along, Against
  <2>7. RecordsKept'
    BY <1>1, <2>1, <2>2, <2>3, <2>5, <2>6 DEF RecordsKept
  <2>8. RecordsJustified'
    BY <1>1, <2>1, <2>3, <2>5, <2>6 DEF RecordsJustified
  <2> QED
    BY <2>4, <2>7, <2>8 DEF RecordsInv
<1> QED
  BY <1>2, <1>3, <1>4, <1>5, <1>6, ContractionSteps

\* So it always holds.
LEMMA RecordsAlways == Spec => []RecordsInv
<1>1. RoutingInit => RecordsInv
  BY InitBypass, InitRecords DEF RoutingInit, RecordsInv
<1>2. ListsInv /\ LevelsInv /\ StoreInv /\ RecordsInv /\ [RoutingNext]_vars => RecordsInv'
  BY RecordsInvKept
<1> QED
  BY <1>1, <1>2, ListsAlways, StoreAlways, PTL DEF Spec

-----------------------------------------------------------------------------

\* The edges of the stored graph.
StoredEdges == 1 .. (GetEdges + Len(shortcuts))
CHEnds(k) == {CHEdges[k].a, CHEdges[k].b}
CHWeight(k, n) == IF CHEdges[k].a = n THEN CHEdges[k].fwd ELSE CHEdges[k].bwd

RecordEdge(r) ==
    [a |-> r.a, b |-> r.b, fwd |-> IF r.fwd THEN r.weight ELSE Inf, bwd |-> IF r.bwd THEN r.weight ELSE Inf]

\* The stored graph has the base edges and, after them, the shortcuts.
LEMMA CHEdgesFacts ==
    ASSUME graph \in Graphs, shortcuts \in Seq(StoredShortcut)
    PROVE  /\ GetEdges \in Nat /\ Len(shortcuts) \in Nat /\ DOMAIN CHEdges = StoredEdges
           /\ \A k \in 1 .. GetEdges : k \in StoredEdges /\ CHEdges[k] = graph.edges[k]
           /\ \A i \in 1 .. Len(shortcuts) : /\ GetEdges + i \in StoredEdges
                                            /\ CHEdges[GetEdges + i] = RecordEdge(shortcuts[i])
<1> DEFINE base == graph.edges
           added == [i \in DOMAIN shortcuts |-> RecordEdge(shortcuts[i])]
           n == Len(base)
           m == Len(shortcuts)
<1>1. /\ base \in Seq(ToSet(base)) /\ n \in Nat /\ m \in Nat /\ DOMAIN shortcuts = 1 .. m
      /\ n = GetEdges
  BY BaseFacts, GraphsAssumption DEF GetEdges
<1>2. CHEdges = base \o added
  BY DEF CHEdges, RecordEdge
<1> HIDE DEF base
<1> DEFINE T == {added[i] : i \in 1 .. m}
           U == ToSet(base) \cup T
<1>3. added \in [1 .. m -> T]
  BY <1>1
<1>4. \A i \in 1 .. m : added[i] = RecordEdge(shortcuts[i])
  BY <1>1
<1> HIDE DEF added, T
<1>5. added \in Seq(T) /\ Len(added) = m
  BY <1>1, <1>3, FunctionIsList
<1>6. base \in Seq(U) /\ added \in Seq(U)
  <2>1. ToSet(base) \subseteq U /\ T \subseteq U
    OBVIOUS
  <2> HIDE DEF U
  <2> QED
    BY <1>1, <1>5, <2>1
<1> HIDE DEF U, n, m
<1>7. PICK x, y : x = base /\ y = added
  OBVIOUS
<1>8. /\ x \o y \in Seq(U) /\ Len(x \o y) = Len(x) + Len(y)
      /\ \A i \in 1 .. Len(x) + Len(y) : (x \o y)[i] = IF i <= Len(x) THEN x[i] ELSE y[i - Len(x)]
  BY <1>6, <1>7, ConcatProperties
<1>9. /\ CHEdges \in Seq(U) /\ Len(CHEdges) = n + m
      /\ \A i \in 1 .. n + m : CHEdges[i] = IF i <= n THEN base[i] ELSE added[i - n]
  <2>1. Len(x) = n /\ Len(y) = m
    BY <1>5, <1>7 DEF n
  <2> QED
    BY <1>2, <1>7, <1>8, <2>1
<1>10. DOMAIN CHEdges = 1 .. n + m
  BY <1>9
<1>11. \A i \in 1 .. n : i \in 1 .. n + m /\ i <= n
  BY <1>1
<1>12. \A i \in 1 .. m : n + i \in 1 .. n + m /\ ~ (n + i <= n) /\ (n + i) - n = i
  BY <1>1
<1>13. StoredEdges = 1 .. n + m
  BY <1>1 DEF StoredEdges, m
<1>14. \A i \in 1 .. n : CHEdges[i] = graph.edges[i]
  BY <1>9, <1>11 DEF base
<1>15. \A i \in 1 .. m : CHEdges[n + i] = RecordEdge(shortcuts[i])
  BY <1>4, <1>9, <1>12
<1> QED
  BY <1>1, <1>10, <1>11, <1>12, <1>13, <1>14, <1>15 DEF m

-----------------------------------------------------------------------------

\* The edge of the stored graph with the ends of a prepare edge, and its weight
\* unless that is stored as infinite.
StandsFor(c, skip, n) ==
    /\ c \in StoredEdges /\ CHEnds(c) = Ends(skip)
    /\ Weight(skip, n) < MaxStoredWeight => CHWeight(c, n) = Weight(skip, n)

\* GetShortcutForPrepareEdge yields an edge that stands for the prepare edge.
LEMMA StoredEdgeOf ==
    ASSUME ListsInv, StoreInv, RecordsInv, NEW skip \in PrepareEdges,
           IsShortcut(skip) => skip \in DOMAIN shortcutFor,
           NEW n \in Ends(skip), Weight(skip, n) \in Nat \ {0}
    PROVE  StandsFor(GetShortcutForPrepareEdge(skip), skip, n)
<1>1. /\ graph \in Graphs /\ ShortcutsTyped /\ shortcuts \in Seq(StoredShortcut)
  BY DEF ListsInv, StoreInv
<1>2. /\ GetEdges \in Nat /\ Len(shortcuts) \in Nat
      /\ \A k \in 1 .. GetEdges : k \in StoredEdges /\ CHEdges[k] = graph.edges[k]
      /\ \A i \in 1 .. Len(shortcuts) : /\ GetEdges + i \in StoredEdges
                                        /\ CHEdges[GetEdges + i] = RecordEdge(shortcuts[i])
  BY <1>1, CHEdgesFacts
<1>3. CASE ~ IsShortcut(skip)
  <2>1. skip \in 1 .. GetEdges
    BY <1>2, <1>3 DEF PrepareEdges, IsShortcut
  <2>2. EdgeAt(skip) = graph.edges[skip] /\ GetShortcutForPrepareEdge(skip) = skip
    BY <1>3 DEF EdgeAt, GetShortcutForPrepareEdge
  <2> QED
    BY <1>2, <2>1, <2>2 DEF StandsFor, CHEnds, Ends, CHWeight, Weight
<1>4. CASE IsShortcut(skip)
  <2>1. PICK i : i = shortcutFor[skip] - GetEdges
    OBVIOUS
  <2>2. i \in 1 .. Len(shortcuts) /\ GetShortcutForPrepareEdge(skip) = GetEdges + i
    <3>1. shortcutFor[skip] \in (GetEdges + 1) .. (GetEdges + Len(shortcuts))
      BY <1>4 DEF StoreInv
    <3>2. PICK stored : stored = shortcutFor[skip]
      OBVIOUS
    <3>3. i \in 1 .. Len(shortcuts) /\ stored = GetEdges + i
      <4>1. GetEdges \in Nat /\ Len(shortcuts) \in Nat
        BY <1>2
      <4>2. stored \in (GetEdges + 1) .. (GetEdges + Len(shortcuts)) /\ i = stored - GetEdges
        BY <2>1, <3>1, <3>2
      <4> QED
        BY <4>1, <4>2
    <3> QED
      BY <1>4, <3>2, <3>3 DEF GetShortcutForPrepareEdge
  <2>3. PICK c : c = GetEdges + i
    OBVIOUS
  <2>4. PICK r : r = shortcuts[i]
    OBVIOUS
  <2>5. c \in StoredEdges /\ CHEdges[c] = RecordEdge(r)
    BY <1>2, <2>2, <2>3, <2>4
  <2>6. /\ CHEdges[c].a = r.a /\ CHEdges[c].b = r.b
        /\ CHEdges[c].fwd = (IF r.fwd THEN r.weight ELSE Inf)
        /\ CHEdges[c].bwd = (IF r.bwd THEN r.weight ELSE Inf)
    BY <2>5 DEF RecordEdge
  <2>7. Along(r, skip) \/ Against(r, skip)
    BY <1>4, <2>1, <2>4 DEF RecordsInv, RecordsKept
  <2>8. /\ EdgeAt(skip).a = n /\ EdgeAt(skip).b # n /\ Weight(skip, n) = EdgeAt(skip).fwd
    <3>1. Weight(skip, n) # Inf
      BY <1>1, BaseFacts
    <3> QED
      BY <1>1, <1>4, <3>1, AdjacentFacts
  <2>9. CASE Along(r, skip)
    <3>1. r.a = EdgeAt(skip).a /\ r.b = EdgeAt(skip).b /\ r.fwd /\ r.weight = StoredWeight(EdgeAt(skip).fwd)
      BY <2>9 DEF Along
    <3>2. CHEnds(c) = Ends(skip) /\ CHWeight(c, n) = r.weight
      BY <2>6, <2>8, <3>1 DEF CHEnds, Ends, CHWeight
    <3>3. Weight(skip, n) < MaxStoredWeight => r.weight = Weight(skip, n)
      BY <2>8, <3>1, GraphsAssumption DEF StoredWeight
    <3> QED
      BY <2>2, <2>3, <2>5, <3>2, <3>3 DEF StandsFor
  <2>10. CASE Against(r, skip)
    <3>1. r.a = EdgeAt(skip).b /\ r.b = EdgeAt(skip).a /\ r.bwd /\ r.weight = StoredWeight(EdgeAt(skip).fwd)
      BY <2>10 DEF Against
    <3>2. CHEnds(c) = Ends(skip) /\ CHWeight(c, n) = r.weight
      BY <2>6, <2>8, <3>1 DEF CHEnds, Ends, CHWeight
    <3>3. Weight(skip, n) < MaxStoredWeight => r.weight = Weight(skip, n)
      BY <2>8, <3>1, GraphsAssumption DEF StoredWeight
    <3> QED
      BY <2>2, <2>3, <2>5, <3>2, <3>3 DEF StandsFor
  <2> QED
    BY <2>7, <2>9, <2>10
<1> QED
  BY <1>3, <1>4

\* Two edges of the stored graph lead from a over via to b, for this weight
\* unless it is infinite.
Over(k1, k2, a, b, via, w) ==
    /\ via \in Nodes /\ via # a /\ via # b /\ a # b
    /\ CHEnds(k1) = {a, via} /\ CHEnds(k2) = {via, b}
    /\ w # Inf => /\ CHWeight(k1, a) \in Nat /\ CHWeight(k2, via) \in Nat
                  /\ w = CHWeight(k1, a) + CHWeight(k2, via)

\* The stored shortcut i is made of the two edges it skips.
Composed(i) ==
    LET r == shortcuts[i]
    IN  /\ r.fwd \/ r.bwd
        /\ r.skip1 \in 1 .. (GetEdges + i - 1) /\ r.skip2 \in 1 .. (GetEdges + i - 1)
        /\ r.fwd => \E via : Over(r.skip1, r.skip2, r.a, r.b, via, r.weight)
        /\ r.bwd => \E via : Over(r.skip2, r.skip1, r.b, r.a, via, r.weight)

\* A prepare shortcut, seen on the stored graph.
LEMMA BypassStored ==
    ASSUME ListsInv, StoreInv, RecordsInv, NEW id \in DOMAIN shortcutFor
    PROVE  \E via : Over(GetShortcutForPrepareEdge(EdgeAt(id).skip1),
                         GetShortcutForPrepareEdge(EdgeAt(id).skip2),
                         EdgeAt(id).a, EdgeAt(id).b, via, StoredWeight(EdgeAt(id).fwd))
<1>1. /\ graph \in Graphs /\ ShortcutsTyped /\ id \in PrepareEdges /\ IsShortcut(id)
      /\ Inf \notin Int
  BY BaseFacts DEF ListsInv, StoreInv
<1>2. PICK e : e = EdgeAt(id)
  OBVIOUS
<1>3. /\ e \in PrepareShortcut /\ e.a # e.b
  BY <1>1, <1>2, EdgeFacts
<1>4. PICK via \in Contracted : Bypasses(e, via)
  BY <1>1, <1>2 DEF RecordsInv, AllBypass
<1>5. /\ via \in Nodes /\ via # e.a /\ via # e.b
      /\ Ends(e.skip1) = {e.a, via} /\ Ends(e.skip2) = {via, e.b}
      /\ Weight(e.skip1, e.a) \in Nat \ {0} /\ Weight(e.skip2, via) \in Nat \ {0}
      /\ e.fwd = Weight(e.skip1, e.a) + Weight(e.skip2, via)
  BY <1>4 DEF Bypasses, Contracted
<1>6. e.skip1 \in PrepareEdges /\ e.skip2 \in PrepareEdges /\ e.fwd \in Nat
  BY <1>3 DEF PrepareShortcut
<1>7. \A skip \in {e.skip1, e.skip2} : IsShortcut(skip) => skip \in DOMAIN shortcutFor
  BY <1>2 DEF RecordsInv, RecordsKept, Skips
<1>8. PICK k1, k2 : k1 = GetShortcutForPrepareEdge(e.skip1) /\ k2 = GetShortcutForPrepareEdge(e.skip2)
  OBVIOUS
<1>9. StandsFor(k1, e.skip1, e.a)
  BY <1>5, <1>6, <1>7, <1>8, StoredEdgeOf
<1>10. StandsFor(k2, e.skip2, via)
  BY <1>5, <1>6, <1>7, <1>8, StoredEdgeOf
<1>11. StoredWeight(e.fwd) # Inf =>
          /\ CHWeight(k1, e.a) = Weight(e.skip1, e.a) /\ CHWeight(k2, via) = Weight(e.skip2, via)
          /\ StoredWeight(e.fwd) = e.fwd
  <2> SUFFICES ASSUME StoredWeight(e.fwd) # Inf
               PROVE  /\ Weight(e.skip1, e.a) < MaxStoredWeight /\ Weight(e.skip2, via) < MaxStoredWeight
                      /\ StoredWeight(e.fwd) = e.fwd
    BY <1>9, <1>10 DEF StandsFor
  <2>1. ~ (e.fwd >= MaxStoredWeight) /\ StoredWeight(e.fwd) = e.fwd
    BY DEF StoredWeight
  <2>2. MaxStoredWeight \in Nat
    BY GraphsAssumption
  <2> QED
    BY <1>5, <1>6, <2>1, <2>2
<1>12. Over(k1, k2, e.a, e.b, via, StoredWeight(e.fwd))
  BY <1>3, <1>5, <1>9, <1>10, <1>11 DEF Over, StandsFor
<1> QED
  BY <1>2, <1>8, <1>12

\* When the preparation is over, every record skips two edges stored before it
\* that lead over the same node and weigh as much together.
LEMMA AllComposed ==
    ASSUME ListsInv, StoreInv, RecordsInv, phase = "done", NEW i \in 1 .. Len(shortcuts)
    PROVE  Composed(i)
<1>1. \A k : StoredId(k) = k
  BY DEF StoredId
<1>2. PICK r : r = shortcuts[i]
  OBVIOUS
<1>3. /\ r.fwd \/ r.bwd
      /\ r.fwd => \E id \in DOMAIN shortcutFor : Along(r, id)
      /\ r.bwd => \E id \in DOMAIN shortcutFor : Against(r, id)
      /\ r.skip1 < GetEdges + i /\ r.skip2 < GetEdges + i
  BY <1>1, <1>2 DEF RecordsInv, RecordsJustified
<1>4. ASSUME r.fwd PROVE \E via : Over(r.skip1, r.skip2, r.a, r.b, via, r.weight)
  <2>1. PICK id \in DOMAIN shortcutFor : Along(r, id)
    BY <1>3, <1>4
  <2>2. /\ r.a = EdgeAt(id).a /\ r.b = EdgeAt(id).b /\ r.weight = StoredWeight(EdgeAt(id).fwd)
        /\ r.skip1 = GetShortcutForPrepareEdge(EdgeAt(id).skip1)
        /\ r.skip2 = GetShortcutForPrepareEdge(EdgeAt(id).skip2)
    BY <1>1, <2>1 DEF Along
  <2> QED
    BY <2>2, BypassStored
<1>5. ASSUME r.bwd PROVE \E via : Over(r.skip2, r.skip1, r.b, r.a, via, r.weight)
  <2>1. PICK id \in DOMAIN shortcutFor : Against(r, id)
    BY <1>3, <1>5
  <2>2. /\ r.b = EdgeAt(id).a /\ r.a = EdgeAt(id).b /\ r.weight = StoredWeight(EdgeAt(id).fwd)
        /\ r.skip2 = GetShortcutForPrepareEdge(EdgeAt(id).skip1)
        /\ r.skip1 = GetShortcutForPrepareEdge(EdgeAt(id).skip2)
    BY <1>1, <2>1 DEF Against
  <2> QED
    BY <2>2, BypassStored
<1>6. r.skip1 \in 1 .. (GetEdges + i - 1) /\ r.skip2 \in 1 .. (GetEdges + i - 1)
  <2>1. graph \in Graphs /\ shortcuts \in Seq(StoredShortcut)
    BY DEF ListsInv, StoreInv
  <2>2. GetEdges \in Nat /\ i \in Nat
    BY <2>1, CHEdgesFacts
  <2>3. r.skip1 \in StoredEdges /\ r.skip2 \in StoredEdges
    <3>1. \A id \in DOMAIN shortcutFor :
             /\ GetShortcutForPrepareEdge(EdgeAt(id).skip1) \in StoredEdges
             /\ GetShortcutForPrepareEdge(EdgeAt(id).skip2) \in StoredEdges
      <4>1. SUFFICES ASSUME NEW id \in DOMAIN shortcutFor, NEW skip \in Skips(id)
                     PROVE  GetShortcutForPrepareEdge(skip) \in StoredEdges
        BY DEF Skips
      <4>2. id \in PrepareEdges /\ IsShortcut(id)
        BY DEF StoreInv
      <4>3. EdgeAt(id) \in PrepareShortcut
        BY <2>1, <4>2, EdgeFacts DEF ListsInv
      <4>4. skip \in PrepareEdges /\ (IsShortcut(skip) => skip \in DOMAIN shortcutFor)
        BY <4>1, <4>3 DEF RecordsInv, RecordsKept, Skips, PrepareShortcut
      <4>5. CASE IsShortcut(skip)
        <5>1. shortcutFor[skip] \in (GetEdges + 1) .. (GetEdges + Len(shortcuts))
          BY <4>4, <4>5 DEF StoreInv
        <5>2. Len(shortcuts) \in Nat
          BY <2>1
        <5> QED
          BY <2>2, <4>5, <5>1, <5>2 DEF GetShortcutForPrepareEdge, StoredEdges
      <4>6. CASE ~ IsShortcut(skip)
        <5>1. skip \in 1 .. GetEdges
          BY <2>2, <4>4, <4>6 DEF PrepareEdges, IsShortcut
        <5>2. skip \in StoredEdges
          BY <2>1, <5>1, CHEdgesFacts
        <5> QED
          BY <4>6, <5>2 DEF GetShortcutForPrepareEdge
      <4> QED
        BY <4>5, <4>6
    <3> QED
      BY <1>1, <1>3, <3>1 DEF Along, Against
  <2>4. r.skip1 \in Nat \ {0} /\ r.skip2 \in Nat \ {0}
    BY <2>3 DEF StoredEdges
  <2> QED
    BY <1>3, <2>2, <2>4
<1> QED
  BY <1>2, <1>3, <1>4, <1>5, <1>6 DEF Composed

-----------------------------------------------------------------------------

\* Base edge e leads from n to m with this weight.
BaseStep(e, n, m, w) ==
    /\ {graph.edges[e].a, graph.edges[e].b} = {n, m} /\ n # m
    /\ (IF graph.edges[e].a = n THEN graph.edges[e].fwd ELSE graph.edges[e].bwd) = w

\* The nodes on a list of base edges, and the weight so far, when the edges are
\* travelled in the order of the list or, all of them, against it.
IsTrace(list, p, t, along) ==
    \A j \in 1 .. Len(list) :
        IF along THEN BaseStep(list[j], p[j - 1], p[j], t[j] - t[j - 1])
                 ELSE BaseStep(list[j], p[j], p[j - 1], t[j] - t[j - 1])

Traced(list, x, y, along, w) ==
    /\ list \in Seq(1 .. GetEdges)
    /\ \E p \in [0 .. Len(list) -> Nodes], t \in [0 .. Len(list) -> Int] :
          /\ IsTrace(list, p, t, along)
          /\ p[0] = x /\ p[Len(list)] = y /\ t[0] = 0 /\ t[Len(list)] = w

\* A list of one edge.
LEMMA TracedEdge ==
    ASSUME NEW e \in 1 .. GetEdges, NEW x \in Nodes, NEW y \in Nodes, NEW w \in Int,
           NEW along \in BOOLEAN, IF along THEN BaseStep(e, x, y, w) ELSE BaseStep(e, y, x, w)
    PROVE  Traced(<<e>>, x, y, along, w)
<1> DEFINE p == [j \in 0 .. 1 |-> IF j = 0 THEN x ELSE y]
           t == [j \in 0 .. 1 |-> IF j = 0 THEN 0 ELSE w]
<1>1. p \in [0 .. 1 -> Nodes] /\ t \in [0 .. 1 -> Int]
  OBVIOUS
<1>2. p[0] = x /\ p[1] = y /\ t[0] = 0 /\ t[1] = w /\ t[1] - t[0] = w
  OBVIOUS
<1>3. <<e>> \in Seq(1 .. GetEdges) /\ Len(<<e>>) = 1 /\ <<e>>[1] = e
  OBVIOUS
<1> HIDE DEF p, t
<1>4. IsTrace(<<e>>, p, t, along)
  <2>1. \A j \in 1 .. Len(<<e>>) : j = 1 /\ j - 1 = 0
    BY <1>3
  <2> QED
    BY <1>2, <1>3, <2>1 DEF IsTrace
<1> QED
  BY <1>1, <1>2, <1>3, <1>4 DEF Traced

\* A list followed by another that begins where it ends.
LEMMA TracedJoin ==
    ASSUME NEW list, NEW more, NEW x, NEW y, NEW z, NEW along \in BOOLEAN, NEW v, NEW w,
           Traced(list, x, y, along, v), Traced(more, y, z, along, w)
    PROVE  Traced(list \o more, x, z, along, v + w)
<1> DEFINE n == Len(list)
           m == Len(more)
           all == list \o more
<1>1. /\ list \in Seq(1 .. GetEdges) /\ more \in Seq(1 .. GetEdges)
  BY DEF Traced
<1>2. n \in Nat /\ m \in Nat
  BY <1>1
<1>3. PICK p \in [0 .. n -> Nodes], t \in [0 .. n -> Int] :
         IsTrace(list, p, t, along) /\ p[0] = x /\ p[n] = y /\ t[0] = 0 /\ t[n] = v
  BY DEF Traced
<1>4. PICK q \in [0 .. m -> Nodes], u \in [0 .. m -> Int] :
         IsTrace(more, q, u, along) /\ q[0] = y /\ q[m] = z /\ u[0] = 0 /\ u[m] = w
  BY DEF Traced
<1>5. /\ all \in Seq(1 .. GetEdges) /\ Len(all) = n + m
      /\ \A i \in 1 .. n + m : all[i] = IF i <= n THEN list[i] ELSE more[i - n]
  BY <1>1, ConcatProperties
<1> HIDE DEF n, m, all
<1>6. v \in Int /\ w \in Int
  BY <1>2, <1>3, <1>4
<1> DEFINE r == [j \in 0 .. n + m |-> IF j <= n THEN p[j] ELSE q[j - n]]
           s == [j \in 0 .. n + m |-> IF j <= n THEN t[j] ELSE v + u[j - n]]
<1>7. r \in [0 .. n + m -> Nodes] /\ s \in [0 .. n + m -> Int]
  <2>1. ASSUME NEW j \in 0 .. n + m
        PROVE  /\ (IF j <= n THEN p[j] ELSE q[j - n]) \in Nodes
               /\ (IF j <= n THEN t[j] ELSE v + u[j - n]) \in Int
    <3>1. CASE j <= n
      BY <1>2, <1>3, <3>1
    <3>2. CASE ~ (j <= n)
      <4>1. j - n \in 0 .. m
        BY <1>2, <3>2
      <4> QED
        BY <1>4, <1>6, <3>2, <4>1
    <3> QED
      BY <3>1, <3>2
  <2> QED
    BY <2>1
<1>8. \A j \in 0 .. n : r[j] = p[j] /\ s[j] = t[j]
  BY <1>2
<1>9. \A j \in 0 .. m : r[n + j] = q[j] /\ s[n + j] = v + u[j]
  <2> SUFFICES ASSUME NEW j \in 0 .. m PROVE r[n + j] = q[j] /\ s[n + j] = v + u[j]
    OBVIOUS
  <2>1. CASE j = 0
    <3>1. n + j = n /\ n \in 0 .. n
      BY <1>2, <2>1
    <3>2. r[n] = y /\ s[n] = v
      BY <1>3, <1>8, <3>1
    <3>3. v + u[j] = v
      BY <1>4, <1>6, <2>1
    <3> QED
      BY <1>4, <2>1, <3>1, <3>2, <3>3
  <2>2. CASE j # 0
    <3>1. n + j \in 0 .. n + m /\ ~ (n + j <= n) /\ (n + j) - n = j
      BY <1>2, <2>2
    <3> QED
      BY <3>1
  <2> QED
    BY <2>1, <2>2
<1> HIDE DEF r, s
<1>10. IsTrace(all, r, s, along)
  <2> SUFFICES ASSUME NEW j \in 1 .. n + m
               PROVE  IF along THEN BaseStep(all[j], r[j - 1], r[j], s[j] - s[j - 1])
                               ELSE BaseStep(all[j], r[j], r[j - 1], s[j] - s[j - 1])
    BY <1>5 DEF IsTrace
  <2>1. CASE j <= n
    <3>1. j \in 1 .. n /\ j \in 0 .. n /\ j - 1 \in 0 .. n
      BY <1>2, <2>1
    <3>2. all[j] = list[j]
      BY <1>5, <2>1
    <3>3. /\ r[j] = p[j] /\ r[j - 1] = p[j - 1] /\ s[j] = t[j] /\ s[j - 1] = t[j - 1]
      BY <1>8, <3>1
    <3>4. IF along THEN BaseStep(list[j], p[j - 1], p[j], t[j] - t[j - 1])
                   ELSE BaseStep(list[j], p[j], p[j - 1], t[j] - t[j - 1])
      BY <1>3, <3>1 DEF IsTrace, n
    <3> QED
      BY <3>2, <3>3, <3>4
  <2>2. CASE ~ (j <= n)
    <3>1. PICK i : i = j - n
      OBVIOUS
    <3>2. i \in 1 .. m /\ i \in 0 .. m /\ i - 1 \in 0 .. m /\ n + i = j /\ n + (i - 1) = j - 1
      BY <1>2, <2>2, <3>1
    <3>3. all[j] = more[i]
      BY <1>5, <2>2, <3>1
    <3>4. /\ r[j] = q[i] /\ r[j - 1] = q[i - 1] /\ s[j] = v + u[i] /\ s[j - 1] = v + u[i - 1]
      BY <1>9, <3>2
    <3>5. u[i] \in Int /\ u[i - 1] \in Int
      BY <1>4, <3>2
    <3>6. s[j] - s[j - 1] = u[i] - u[i - 1]
      BY <1>6, <3>4, <3>5
    <3>7. IF along THEN BaseStep(more[i], q[i - 1], q[i], u[i] - u[i - 1])
                   ELSE BaseStep(more[i], q[i], q[i - 1], u[i] - u[i - 1])
      BY <1>4, <3>2 DEF IsTrace, m
    <3> QED
      BY <3>3, <3>4, <3>6, <3>7
  <2> QED
    BY <2>1, <2>2
<1>11. r[0] = x /\ r[n + m] = z /\ s[0] = 0 /\ s[n + m] = v + w
  <2>1. 0 \in 0 .. n /\ m \in 0 .. m
    BY <1>2
  <2> QED
    BY <1>3, <1>4, <1>8, <1>9, <2>1
<1>12. Traced(all, x, z, along, v + w)
  BY <1>5, <1>7, <1>10, <1>11 DEF Traced
<1> QED
  BY <1>12 DEF all

\* The same edges in the opposite order.
LEMMA TracedReverse ==
    ASSUME NEW list, NEW x, NEW y, NEW along \in BOOLEAN, NEW w, Traced(list, x, y, along, w)
    PROVE  Traced(Reverse(list), y, x, ~ along, w)
<1> DEFINE n == Len(list)
           back == [i \in 1 .. n |-> list[(n - i) + 1]]
<1>1. list \in Seq(1 .. GetEdges) /\ n \in Nat
  BY DEF Traced
<1>2. PICK p \in [0 .. n -> Nodes], t \in [0 .. n -> Int] :
         IsTrace(list, p, t, along) /\ p[0] = x /\ p[n] = y /\ t[0] = 0 /\ t[n] = w
  BY DEF Traced
<1>3. w \in Int
  BY <1>1, <1>2
<1>4. \A i \in 1 .. n : list[i] \in 1 .. GetEdges
  BY <1>1
<1>5. Reverse(list) = back
  BY DEF Reverse
<1> HIDE DEF n
<1>6. back \in [1 .. n -> 1 .. GetEdges]
  <2>1. \A i \in 1 .. n : (n - i) + 1 \in 1 .. n
    BY <1>1
  <2> QED
    BY <1>4, <2>1
<1>7. \A i \in 1 .. n : back[i] = list[(n - i) + 1]
  OBVIOUS
<1> HIDE DEF back
<1>8. back \in Seq(1 .. GetEdges) /\ Len(back) = n
  BY <1>1, <1>6, FunctionIsList
<1> DEFINE r == [j \in 0 .. n |-> p[n - j]]
           s == [j \in 0 .. n |-> w - t[n - j]]
<1>9. \A j \in 0 .. n : n - j \in 0 .. n /\ p[n - j] \in Nodes /\ t[n - j] \in Int
  BY <1>1, <1>2
<1>10. r \in [0 .. n -> Nodes] /\ s \in [0 .. n -> Int]
  BY <1>3, <1>9
<1>11. \A j \in 0 .. n : r[j] = p[n - j] /\ s[j] = w - t[n - j]
  OBVIOUS
<1> HIDE DEF r, s
<1>12. IsTrace(back, r, s, ~ along)
  <2> SUFFICES ASSUME NEW j \in 1 .. n
               PROVE  IF along THEN BaseStep(back[j], r[j], r[j - 1], s[j] - s[j - 1])
                               ELSE BaseStep(back[j], r[j - 1], r[j], s[j] - s[j - 1])
    BY <1>8 DEF IsTrace
  <2>1. PICK i : i = (n - j) + 1
    OBVIOUS
  <2>2. /\ i \in 1 .. n /\ i \in 0 .. n /\ i - 1 \in 0 .. n /\ n - j = i - 1 /\ n - (j - 1) = i
        /\ j \in 0 .. n /\ j - 1 \in 0 .. n
    BY <1>1, <2>1
  <2>3. r[j] = p[i - 1] /\ r[j - 1] = p[i] /\ s[j] = w - t[i - 1] /\ s[j - 1] = w - t[i]
    BY <1>11, <2>2
  <2>4. t[i] \in Int /\ t[i - 1] \in Int
    BY <1>2, <2>2
  <2>5. s[j] - s[j - 1] = t[i] - t[i - 1]
    BY <1>3, <2>3, <2>4
  <2>6. back[j] = list[i]
    BY <1>7, <2>1
  <2>7. IF along THEN BaseStep(list[i], p[i - 1], p[i], t[i] - t[i - 1])
                 ELSE BaseStep(list[i], p[i], p[i - 1], t[i] - t[i - 1])
    BY <1>2, <2>2 DEF IsTrace, n
  <2> QED
    BY <2>3, <2>5, <2>6, <2>7
<1>13. r[0] = y /\ r[n] = x /\ s[0] = 0 /\ s[n] = w
  <2>1. 0 \in 0 .. n /\ n \in 0 .. n /\ n - 0 = n /\ n - n = 0 /\ w - w = 0 /\ w - 0 = w
    BY <1>1, <1>3
  <2> QED
    BY <1>2, <1>11, <2>1
<1> QED
  BY <1>5, <1>8, <1>10, <1>12, <1>13 DEF Traced

-----------------------------------------------------------------------------

\* The round of Follow.
FollowStep(i, list, before) ==
    LET e == graph.edges[list[i]]
    IN  [at |-> IF e.a = before.at THEN e.b ELSE e.a,
         arcs |-> Append(before.arcs, <<list[i], before.at>>)]

\* A trace that begins at x, travelled in the order of its list.
FollowsTrace(q, x, list, p, t) ==
    /\ q.edges = graph.edges /\ list \in Seq(1 .. GetEdges)
    /\ p \in [0 .. Len(list) -> Nodes] /\ p[0] = x /\ IsTrace(list, p, t, TRUE)

\* The arcs of a trace.
LEMMA FollowFacts ==
    ASSUME graph \in Graphs, NEW q, NEW x, NEW list, NEW p, NEW t, FollowsTrace(q, x, list, p, t)
    PROVE  /\ W!Follow(q, x, list).at = p[Len(list)]
           /\ \A i \in 1 .. Len(list) : W!Follow(q, x, list).arcs[i] = <<list[i], p[i - 1]>>
<1> DEFINE n == Len(list)
           Arc == (1 .. GetEdges) \X Nodes
           V == [at : Nodes, arcs : Seq(Arc)]
           c == [at |-> x, arcs |-> << >>]
           step == [z \in (1 .. n) \X V |-> FollowStep(z[1], list, z[2])]
           Rule(f) == f = [i \in 0 .. n |->
                             IF i = 0 THEN [at |-> x, arcs |-> << >>]
                             ELSE LET before == f[i - 1]
                                      e == q.edges[list[i]]
                                  IN  [at |-> IF e.a = before.at THEN e.b ELSE e.a,
                                       arcs |-> Append(before.arcs, <<list[i], before.at>>)]]
<1>0. \A i \in 1 .. n : list[i] \in 1 .. GetEdges
  <2>1. list \in Seq(1 .. GetEdges)
    BY DEF FollowsTrace
  <2> QED
    BY <2>1, ElementOfSeq
<1>1. n \in Nat /\ c \in V
  <2>1. n \in Nat
    BY DEF FollowsTrace
  <2>2. x \in Nodes /\ << >> \in Seq(Arc)
    BY <2>1 DEF FollowsTrace
  <2> QED
    BY <2>1, <2>2
<1>2. step \in [(1 .. n) \X V -> V]
  <2> SUFFICES ASSUME NEW i \in 1 .. n, NEW before \in V
               PROVE  FollowStep(i, list, before) \in V
    OBVIOUS
  <2>1. list[i] \in 1 .. GetEdges
    BY <1>0
  <2>2. graph.edges[list[i]].a \in Nodes /\ graph.edges[list[i]].b \in Nodes
    BY <2>1, BaseFacts
  <2>3. <<list[i], before.at>> \in Arc /\ before.arcs \in Seq(Arc)
    BY <2>1
  <2> HIDE DEF Arc
  <2>4. Append(before.arcs, <<list[i], before.at>>) \in Seq(Arc)
    BY <2>3, AppendProperties
  <2> QED
    BY <2>2, <2>4 DEF FollowStep
<1> HIDE DEF V
<1>3. PICK f \in [0 .. n -> V] : IsIndexedRecursion(f, n, c, step)
  <2> HIDE DEF step, n, c
  <2> QED
    BY <1>1, <1>2, IndexedRecursionExists
<1>4. ASSUME NEW k \in 1 .. n
      PROVE  f[k] = FollowStep(k, list, f[k - 1])
  <2>1. k - 1 \in 0 .. n
    BY <1>1
  <2>2. f[k - 1] \in V
    BY <2>1
  <2>3. f[k] = step[<<k, f[k - 1]>>]
    BY <1>3 DEF IsIndexedRecursion
  <2> QED
    BY <2>2, <2>3
<1>5. f[0] = c
  BY <1>3 DEF IsIndexedRecursion
<1>14. q.edges = graph.edges /\ p[0] = x
  BY DEF FollowsTrace
<1>6. Rule(f)
  <2>1. ASSUME NEW k \in 0 .. n
        PROVE  f[k] = IF k = 0 THEN [at |-> x, arcs |-> << >>]
                      ELSE LET before == f[k - 1]
                               e == q.edges[list[k]]
                           IN  [at |-> IF e.a = before.at THEN e.b ELSE e.a,
                                arcs |-> Append(before.arcs, <<list[k], before.at>>)]
    <3>1. CASE k = 0
      BY <1>5, <3>1
    <3>2. CASE k # 0
      <4>1. k \in 1 .. n
        BY <1>1, <3>2
      <4> QED
        BY <1>4, <1>14, <3>2, <4>1 DEF FollowStep
    <3> QED
      BY <3>1, <3>2
  <2> QED
    BY <2>1
<1> DEFINE g == CHOOSE h : Rule(h)
<1>7. Rule(g)
  BY <1>6
<1>8. W!Follow(q, x, list) = g[n]
  BY DEF W!Follow
<1> HIDE DEF g
<1>9. /\ g[0] = c
      /\ \A k \in 1 .. n : g[k] = FollowStep(k, list, g[k - 1])
  <2>1. g[0] = c
    BY <1>1, <1>7
  <2>2. ASSUME NEW k \in 1 .. n PROVE g[k] = FollowStep(k, list, g[k - 1])
    <3>1. k \in 0 .. n /\ k # 0
      BY <1>1
    <3> QED
      BY <1>7, <1>14, <3>1 DEF FollowStep
  <2> QED
    BY <2>1, <2>2
<1> HIDE DEF Rule, n, c
<1> DEFINE Holds(k) == /\ g[k].at = p[k]
                       /\ g[k].arcs \in Seq(Arc) /\ Len(g[k].arcs) = k
                       /\ \A i \in 1 .. k : g[k].arcs[i] = <<list[i], p[i - 1]>>
           T == {k \in 0 .. n : Holds(k)}
<1>10. 0 \in T
  <2>1. Holds(0)
    BY <1>9, <1>14 DEF c
  <2> QED
    BY <1>1, <2>1
<1>11. ASSUME NEW k \in 0 .. (n - 1), k \in T PROVE k + 1 \in T
  <2>1. k + 1 \in 1 .. n /\ (k + 1) - 1 = k /\ k \in 0 .. n /\ k + 1 \in 0 .. n /\ k \in Nat
    BY <1>1
  <2>2. Holds(k)
    BY <1>11
  <2>3. g[k + 1] = FollowStep(k + 1, list, g[k])
    BY <1>9, <2>1
  <2>4. PICK before : before = g[k]
    OBVIOUS
  <2>5. PICK e : e = graph.edges[list[k + 1]]
    OBVIOUS
  <2>6. /\ g[k + 1].at = IF e.a = before.at THEN e.b ELSE e.a
        /\ g[k + 1].arcs = Append(before.arcs, <<list[k + 1], before.at>>)
    BY <2>3, <2>4, <2>5 DEF FollowStep
  <2>7. /\ before.at = p[k] /\ before.arcs \in Seq(Arc) /\ Len(before.arcs) = k
        /\ \A i \in 1 .. k : before.arcs[i] = <<list[i], p[i - 1]>>
    BY <2>2, <2>4
  <2>8. BaseStep(list[k + 1], p[(k + 1) - 1], p[k + 1], t[k + 1] - t[(k + 1) - 1])
    BY <2>1 DEF FollowsTrace, IsTrace, n
  <2>9. {e.a, e.b} = {p[k], p[k + 1]} /\ p[k] # p[k + 1]
    BY <2>1, <2>5, <2>8 DEF BaseStep
  <2>10. g[k + 1].at = p[k + 1]
    BY <2>6, <2>7, <2>9
  <2>11. list[k + 1] \in 1 .. GetEdges /\ p[k] \in Nodes
    BY <1>0, <2>1 DEF FollowsTrace, n
  <2>12. PICK arc \in Arc : arc = <<list[k + 1], before.at>>
    BY <2>7, <2>11
  <2> HIDE DEF Arc
  <2>13. PICK arcs : arcs = before.arcs
    OBVIOUS
  <2>14. /\ Append(arcs, arc) \in Seq(Arc) /\ Len(Append(arcs, arc)) = k + 1
         /\ \A i \in 1 .. k : Append(arcs, arc)[i] = arcs[i]
         /\ Append(arcs, arc)[k + 1] = arc
    <3>1. arcs \in Seq(Arc) /\ Len(arcs) = k
      BY <2>7, <2>13
    <3> QED
      BY <2>1, <2>12, <3>1, AppendProperties
  <2>15. g[k + 1].arcs = Append(arcs, arc)
    BY <2>6, <2>12, <2>13
  <2>16. ASSUME NEW i \in 1 .. k + 1
         PROVE  g[k + 1].arcs[i] = <<list[i], p[i - 1]>>
    <3>1. CASE i \in 1 .. k
      BY <2>7, <2>13, <2>14, <2>15, <3>1
    <3>2. CASE i = k + 1
      <4>1. i - 1 = k
        BY <2>1, <3>2
      <4> QED
        BY <2>7, <2>12, <2>14, <2>15, <3>2, <4>1
    <3> QED
      BY <2>1, <3>1, <3>2
  <2>17. Holds(k + 1)
    BY <2>10, <2>14, <2>15, <2>16
  <2> QED
    BY <2>1, <2>17
<1>12. 0 .. n \subseteq T
  <2>1. \A k \in 0 .. (n - 1) : k \in T => k + 1 \in T
    BY <1>11
  <2>2. n \in Nat
    BY <1>1
  <2> HIDE DEF T
  <2> QED
    BY <1>10, <2>1, <2>2, BoundedInduction
<1>13. Holds(n)
  BY <1>1, <1>12
<1> QED
  BY <1>8, <1>13 DEF n

-----------------------------------------------------------------------------

\* The weight of a walk, as IsWalk adds it up.
IsTotal(total, q, arcs, n) ==
    total = [i \in 0 .. n |->
               IF i = 0 THEN 0
               ELSE total[i - 1] + W!ArcWeight(q, arcs[i])
                      + (IF i = 1 THEN 0 ELSE W!Turn(q, arcs[i - 1], arcs[i]))]

\* A trace is a walk for Walks.
LEMMA TracedWalk ==
    ASSUME graph \in Graphs, NEW list, NEW x, NEW y, NEW w, Traced(list, x, y, TRUE, w)
    PROVE  W!IsWalk(BaseQuery(x, y), list, w)
<1> DEFINE q == BaseQuery(x, y)
           n == Len(list)
           walk == W!Follow(q, x, list)
           arcs == walk.arcs
<1>1. /\ q.edges = graph.edges /\ q.start["from"] = x /\ q.start["to"] = y
      /\ q.only["from"] = AnyEdge /\ q.only["to"] = AnyEdge /\ q.restricted = {} /\ q.uTurn = 0
  BY DEF BaseQuery, Q!Sides
<1> HIDE DEF q
<1>2. list \in Seq(1 .. GetEdges) /\ n \in Nat
  BY DEF Traced
<1>3. PICK p \in [0 .. n -> Nodes], t \in [0 .. n -> Int] :
         IsTrace(list, p, t, TRUE) /\ p[0] = x /\ p[n] = y /\ t[0] = 0 /\ t[n] = w
  BY DEF Traced
<1>4. FollowsTrace(q, x, list, p, t)
  BY <1>1, <1>2, <1>3 DEF FollowsTrace
<1>5. /\ walk.at = p[n]
      /\ \A i \in 1 .. n : arcs[i] = <<list[i], p[i - 1]>>
  BY <1>4, FollowFacts
<1> HIDE DEF walk, arcs
<1>6. Inf \notin Int /\ DOMAIN graph.edges = 1 .. GetEdges
  <2>1. graph.edges \in Seq(ToSet(graph.edges)) /\ Inf \notin Int
    BY GraphsAssumption
  <2> QED
    BY <2>1 DEF GetEdges
<1>7. ASSUME NEW i \in 1 .. n
      PROVE  /\ list[i] \in 1 .. GetEdges /\ i - 1 \in 0 .. n /\ i \in 0 .. n
             /\ t[i] \in Int /\ t[i - 1] \in Int
             /\ W!TailNode(arcs[i]) = p[i - 1] /\ W!HeadNode(q, arcs[i]) = p[i]
             /\ W!ArcWeight(q, arcs[i]) = t[i] - t[i - 1]
             /\ arcs[i] \in W!Arcs(q) /\ arcs[i][1] = list[i]
  <2>1. i - 1 \in 0 .. n /\ i \in 0 .. n
    BY <1>2
  <2>2. list[i] \in 1 .. GetEdges
    BY <1>2, ElementOfSeq
  <2>3. t[i] \in Int /\ t[i - 1] \in Int
    BY <1>3, <2>1
  <2>4. PICK e, m, k, d : e = list[i] /\ m = p[i - 1] /\ k = p[i] /\ d = t[i] - t[i - 1]
    OBVIOUS
  <2>5. arcs[i] = <<e, m>>
    BY <1>5, <2>4
  <2>6. BaseStep(e, m, k, d)
    BY <1>3, <2>4 DEF IsTrace, n
  <2>7. W!TailNode(arcs[i]) = m /\ arcs[i][1] = e
    BY <2>5 DEF W!TailNode
  <2>8. W!HeadNode(q, arcs[i]) = k /\ W!ArcWeight(q, arcs[i]) = d
    BY <1>1, <2>6, <2>7 DEF W!HeadNode, W!ArcWeight, BaseStep
  <2>9. d # Inf
    BY <1>6, <2>3, <2>4
  <2>10. arcs[i] \in {<<e, q.edges[e].a>>, <<e, q.edges[e].b>>}
    BY <1>1, <2>5, <2>6 DEF BaseStep
  <2>11. arcs[i] \in W!Arcs(q)
    BY <1>1, <1>6, <2>2, <2>4, <2>8, <2>9, <2>10 DEF W!Arcs
  <2> QED
    BY <2>1, <2>2, <2>3, <2>4, <2>7, <2>8, <2>11
<1>8. \A i, j : W!Turn(q, i, j) = 0
  BY <1>1 DEF W!Turn
<1>9. Inf # 0
  BY <1>6
<1>10. \A i \in 1 .. (n - 1) : W!Follows(q, arcs[i + 1], arcs[i])
  <2> SUFFICES ASSUME NEW i \in 1 .. (n - 1) PROVE W!Follows(q, arcs[i + 1], arcs[i])
    OBVIOUS
  <2>1. i \in 1 .. n /\ i + 1 \in 1 .. n /\ (i + 1) - 1 = i
    BY <1>2
  <2> QED
    BY <1>7, <1>8, <1>9, <2>1 DEF W!Follows
<1>11. n > 0 => W!IsFirst(q, arcs[1]) /\ W!IsFinal(q, arcs[n])
  <2> SUFFICES ASSUME n > 0 PROVE W!IsFirst(q, arcs[1]) /\ W!IsFinal(q, arcs[n])
    OBVIOUS
  <2>1. 1 \in 1 .. n /\ n \in 1 .. n /\ 1 - 1 = 0
    BY <1>2
  <2> QED
    BY <1>1, <1>3, <1>7, <2>1 DEF W!IsFirst, W!IsFinal
<1> DEFINE total == CHOOSE f : IsTotal(f, q, arcs, n)
<1>12. IsTotal(total, q, arcs, n)
  <2> DEFINE f == [i \in 0 .. n |-> t[i]]
  <2>1. ASSUME NEW i \in 0 .. n
        PROVE  t[i] = IF i = 0 THEN 0
                      ELSE f[i - 1] + W!ArcWeight(q, arcs[i])
                             + (IF i = 1 THEN 0 ELSE W!Turn(q, arcs[i - 1], arcs[i]))
    <3>1. CASE i = 0
      BY <1>3, <3>1
    <3>2. CASE i # 0
      <4>1. i \in 1 .. n /\ i - 1 \in 0 .. n
        BY <1>2, <3>2
      <4>2. f[i - 1] = t[i - 1]
        BY <4>1
      <4>3. W!ArcWeight(q, arcs[i]) = t[i] - t[i - 1] /\ t[i] \in Int /\ t[i - 1] \in Int
        BY <1>7, <4>1
      <4> HIDE DEF f
      <4>4. (IF i = 1 THEN 0 ELSE W!Turn(q, arcs[i - 1], arcs[i])) = 0
        BY <1>8
      <4>5. PICK d : d = W!ArcWeight(q, arcs[i])
        OBVIOUS
      <4>6. t[i] = t[i - 1] + d + 0
        BY <4>3, <4>5
      <4> QED
        BY <3>2, <4>2, <4>4, <4>5, <4>6
    <3> QED
      BY <3>1, <3>2
  <2>2. f = [i \in 0 .. n |->
               IF i = 0 THEN 0
               ELSE f[i - 1] + W!ArcWeight(q, arcs[i])
                      + (IF i = 1 THEN 0 ELSE W!Turn(q, arcs[i - 1], arcs[i]))]
    BY <2>1
  <2> HIDE DEF f
  <2>3. IsTotal(f, q, arcs, n)
    BY <2>2 DEF IsTotal
  <2> QED
    BY <2>3
<1> HIDE DEF total
<1> DEFINE T == {k \in 0 .. n : total[k] = t[k]}
<1>13. 0 \in T
  <2>1. total[0] = 0
    BY <1>2, <1>12 DEF IsTotal
  <2> QED
    BY <1>2, <1>3, <2>1
<1>14. ASSUME NEW k \in 0 .. (n - 1), k \in T PROVE k + 1 \in T
  <2>1. k + 1 \in 1 .. n /\ (k + 1) - 1 = k /\ k + 1 \in 0 .. n /\ k + 1 # 0
    BY <1>2
  <2>2. PICK i : i = k + 1
    OBVIOUS
  <2>3. total[i] = total[i - 1] + W!ArcWeight(q, arcs[i])
                      + (IF i = 1 THEN 0 ELSE W!Turn(q, arcs[i - 1], arcs[i]))
    BY <1>12, <2>1, <2>2 DEF IsTotal
  <2>4. W!ArcWeight(q, arcs[i]) = t[i] - t[i - 1] /\ t[i] \in Int /\ t[i - 1] \in Int
    BY <1>7, <2>1, <2>2
  <2>5. (IF i = 1 THEN 0 ELSE W!Turn(q, arcs[i - 1], arcs[i])) = 0
    BY <1>8
  <2>6. total[i - 1] = t[i - 1]
    BY <1>14, <2>1, <2>2
  <2>7. PICK d : d = W!ArcWeight(q, arcs[i])
    OBVIOUS
  <2>8. t[i] = t[i - 1] + d + 0
    BY <2>4, <2>7
  <2>9. total[i] = t[i]
    BY <2>3, <2>5, <2>6, <2>7, <2>8
  <2> QED
    BY <2>1, <2>2, <2>9
<1>15. 0 .. n \subseteq T
  <2>1. \A k \in 0 .. (n - 1) : k \in T => k + 1 \in T
    BY <1>14
  <2>2. n \in Nat
    BY <1>2
  <2> HIDE DEF T, n
  <2> QED
    BY <1>13, <2>1, <2>2, BoundedInduction
<1>16. total[n] = w
  BY <1>2, <1>3, <1>15
<1>17. /\ walk.at = q.start["to"]
       /\ \A i \in 1 .. n : arcs[i] \in W!Arcs(q)
  BY <1>1, <1>3, <1>5, <1>7
<1>18. W!IsWalk(q, list, w)
  BY <1>1, <1>10, <1>11, <1>16, <1>17 DEF W!IsWalk, IsTotal, total, walk, arcs
<1> QED
  BY <1>18 DEF q

-----------------------------------------------------------------------------

\* The stored graph when the preparation is over.
Prepared ==
    /\ graph \in Graphs /\ shortcuts \in Seq(StoredShortcut)
    /\ \A i \in 1 .. Len(shortcuts) : Composed(i)

\* The skipped edge at the end of the shortcut, and the other one.
Near(id, adj) ==
    LET s == shortcuts[id - GetEdges] IN IF Touches(s.skip2, adj) THEN s.skip2 ELSE s.skip1
Far(id, adj) ==
    LET s == shortcuts[id - GetEdges] IN IF Near(id, adj) = s.skip2 THEN s.skip1 ELSE s.skip2

\* The round of expand.
Expands(h, id, adj) ==
    IF id <= GetEdges THEN <<id>>
    ELSE IF Near(id, adj) >= id \/ Far(id, adj) >= id THEN << >>
    ELSE h[<<Near(id, adj), adj>>] \o h[<<Far(id, adj), BaseNode(Near(id, adj), adj)>>]

IsExpansion(h, edge) ==
    \A id \in 1 .. edge, adj \in Nodes : h[<<id, adj>>] = Expands(h, id, adj)

\* The ends of an edge of the stored graph are nodes.
LEMMA CHNodes ==
    ASSUME Prepared, NEW k \in StoredEdges
    PROVE  /\ k \in Nat \ {0} /\ CHEdges[k].a \in Nodes /\ CHEdges[k].b \in Nodes
           /\ CHEdges[k].fwd \in Nat \cup {Inf} /\ CHEdges[k].bwd \in Nat \cup {Inf}
           /\ ~ (k <= GetEdges) => k - GetEdges \in 1 .. Len(shortcuts)
                                   /\ CHEdges[k] = RecordEdge(shortcuts[k - GetEdges])
           /\ k <= GetEdges => k \in 1 .. GetEdges /\ CHEdges[k] = graph.edges[k]
<1>1. /\ GetEdges \in Nat /\ Len(shortcuts) \in Nat
      /\ \A e \in 1 .. GetEdges : CHEdges[e] = graph.edges[e]
      /\ \A i \in 1 .. Len(shortcuts) : CHEdges[GetEdges + i] = RecordEdge(shortcuts[i])
  BY CHEdgesFacts DEF Prepared
<1>2. k \in 1 .. (GetEdges + Len(shortcuts))
  BY DEF StoredEdges
<1>3. CASE k <= GetEdges
  <2>1. k \in 1 .. GetEdges
    BY <1>1, <1>2, <1>3
  <2>2. /\ graph.edges[k].a \in Nodes /\ graph.edges[k].b \in Nodes
        /\ graph.edges[k].fwd \in (Nat \ {0}) \cup {Inf} /\ graph.edges[k].bwd \in (Nat \ {0}) \cup {Inf}
    BY <2>1, BaseFacts DEF Prepared
  <2> QED
    BY <1>1, <1>3, <2>1, <2>2
<1>4. CASE ~ (k <= GetEdges)
  <2>1. PICK i : i = k - GetEdges
    OBVIOUS
  <2>2. i \in 1 .. Len(shortcuts) /\ GetEdges + i = k
    BY <1>1, <1>2, <1>4, <2>1
  <2>3. shortcuts[i] \in StoredShortcut
    BY <2>2 DEF Prepared
  <2>4. CHEdges[k] = RecordEdge(shortcuts[i])
    BY <1>1, <2>2
  <2>5. /\ RecordEdge(shortcuts[i]).a \in Nodes /\ RecordEdge(shortcuts[i]).b \in Nodes
        /\ RecordEdge(shortcuts[i]).fwd \in Nat \cup {Inf}
        /\ RecordEdge(shortcuts[i]).bwd \in Nat \cup {Inf}
    BY <2>3 DEF RecordEdge, StoredShortcut
  <2> QED
    BY <1>2, <1>4, <2>1, <2>2, <2>4, <2>5
<1> QED
  BY <1>3, <1>4

\* What a shortcut skips has a smaller id.
LEMMA SkipsBefore ==
    ASSUME Prepared, NEW id \in StoredEdges, ~ (id <= GetEdges), NEW adj \in Nodes
    PROVE  /\ Near(id, adj) \in 1 .. (id - 1) /\ Far(id, adj) \in 1 .. (id - 1)
           /\ Near(id, adj) \in StoredEdges /\ Far(id, adj) \in StoredEdges
           /\ ~ (Near(id, adj) >= id) /\ ~ (Far(id, adj) >= id)
           /\ BaseNode(Near(id, adj), adj) \in Nodes
<1>1. PICK i : i = id - GetEdges
  OBVIOUS
<1>2. i \in 1 .. Len(shortcuts) /\ id \in Nat
  BY <1>1, CHNodes
<1>3. PICK r : r = shortcuts[i]
  OBVIOUS
<1>4. r.skip1 \in 1 .. (GetEdges + i - 1) /\ r.skip2 \in 1 .. (GetEdges + i - 1)
  BY <1>2, <1>3 DEF Prepared, Composed
<1>5. GetEdges \in Nat
  BY CHEdgesFacts DEF Prepared
<1>6. r.skip1 \in 1 .. (id - 1) /\ r.skip2 \in 1 .. (id - 1)
  <2>1. GetEdges + i - 1 = id - 1
    BY <1>1, <1>2, <1>5
  <2> QED
    BY <1>4, <2>1
<1>7. Near(id, adj) \in {r.skip1, r.skip2} /\ Far(id, adj) \in {r.skip1, r.skip2}
  BY <1>1, <1>3 DEF Near, Far
<1>8. PICK near, far : near = Near(id, adj) /\ far = Far(id, adj)
  OBVIOUS
<1>9. near \in 1 .. (id - 1) /\ far \in 1 .. (id - 1)
  BY <1>6, <1>7, <1>8
<1>10. near \in StoredEdges /\ far \in StoredEdges /\ ~ (near >= id) /\ ~ (far >= id)
  <2>1. Len(shortcuts) \in Nat /\ id \in 1 .. (GetEdges + Len(shortcuts))
    BY CHEdgesFacts DEF Prepared, StoredEdges
  <2> QED
    BY <1>2, <1>5, <1>9, <2>1 DEF StoredEdges
<1>11. BaseNode(near, adj) \in Nodes
  BY <1>10, CHNodes DEF BaseNode
<1> QED
  BY <1>8, <1>9, <1>10, <1>11

\* A round uses what is known of smaller ids only.
LEMMA ExpandsSame ==
    ASSUME Prepared, NEW id \in StoredEdges, NEW adj \in Nodes, NEW g, NEW h,
           \A k \in 1 .. (id - 1), n \in Nodes : g[<<k, n>>] = h[<<k, n>>]
    PROVE  Expands(g, id, adj) = Expands(h, id, adj)
<1>1. CASE id <= GetEdges
  BY <1>1 DEF Expands
<1>2. CASE ~ (id <= GetEdges)
  BY <1>2, SkipsBefore DEF Expands
<1> QED
  BY <1>1, <1>2

\* A round yields lists of base edges.
LEMMA ExpandsTyped ==
    ASSUME Prepared, NEW edge \in StoredEdges, NEW id \in 1 .. edge, NEW adj \in Nodes,
           NEW h \in [(1 .. edge) \X Nodes -> Seq(1 .. GetEdges)]
    PROVE  Expands(h, id, adj) \in Seq(1 .. GetEdges)
<1>1. id \in StoredEdges /\ edge \in Nat /\ id \in Nat
  <2>1. GetEdges \in Nat /\ Len(shortcuts) \in Nat
    BY CHEdgesFacts DEF Prepared
  <2> QED
    BY <2>1 DEF StoredEdges
<1>2. CASE id <= GetEdges
  <2>1. id \in 1 .. GetEdges
    BY <1>1, <1>2, CHNodes
  <2> QED
    BY <1>2, <2>1 DEF Expands
<1>3. CASE ~ (id <= GetEdges)
  <2>1. PICK near, far, n : near = Near(id, adj) /\ far = Far(id, adj) /\ n = BaseNode(near, adj)
    OBVIOUS
  <2>2. near \in 1 .. (id - 1) /\ far \in 1 .. (id - 1) /\ n \in Nodes /\ ~ (near >= id) /\ ~ (far >= id)
    BY <1>1, <1>3, <2>1, SkipsBefore
  <2>3. near \in 1 .. edge /\ far \in 1 .. edge
    BY <1>1, <2>2
  <2>4. PICK x, y : x = h[<<near, adj>>] /\ y = h[<<far, n>>]
    OBVIOUS
  <2>5. x \in Seq(1 .. GetEdges) /\ y \in Seq(1 .. GetEdges)
    BY <2>2, <2>3, <2>4
  <2>6. x \o y \in Seq(1 .. GetEdges)
    BY <2>5, ConcatProperties
  <2>7. Expands(h, id, adj) = x \o y
    BY <1>3, <2>1, <2>2, <2>4 DEF Expands
  <2> QED
    BY <2>6, <2>7
<1> QED
  BY <1>2, <1>3

-----------------------------------------------------------------------------

\* The recursion over the ids has a solution: after as many rounds as the edge
\* has smaller ids nothing changes any more.
LEMMA ExpansionExists ==
    ASSUME Prepared, NEW edge \in StoredEdges
    PROVE  \E h \in [(1 .. edge) \X Nodes -> Seq(1 .. GetEdges)] : IsExpansion(h, edge)
<1> DEFINE K == (1 .. edge) \X Nodes
           V == Seq(1 .. GetEdges)
           F == [K -> V]
           c == [x \in K |-> << >>]
           Round(h) == [x \in K |-> Expands(h, x[1], x[2])]
           step == [z \in (1 .. edge) \X F |-> Round(z[2])]
<1>1. edge \in Nat \ {0} /\ edge \in 1 .. edge
  BY CHNodes
<1>2. c \in F
  <2>1. << >> \in V
    OBVIOUS
  <2> HIDE DEF V, K
  <2> QED
    BY <2>1
<1>3. ASSUME NEW h \in F PROVE Round(h) \in F
  <2>1. ASSUME NEW x \in K PROVE Expands(h, x[1], x[2]) \in V
    BY ExpandsTyped
  <2> HIDE DEF V, K
  <2> QED
    BY <2>1
<1>4. \A h : \A id \in 1 .. edge, adj \in Nodes : Round(h)[<<id, adj>>] = Expands(h, id, adj)
  OBVIOUS
<1> HIDE DEF Round, F
<1>5. step \in [(1 .. edge) \X F -> F]
  BY <1>3
<1>6. \A k \in 1 .. edge, h \in F : step[<<k, h>>] = Round(h)
  OBVIOUS
<1>7. PICK g \in [0 .. edge -> F] : IsIndexedRecursion(g, edge, c, step)
  <2>1. edge \in Nat
    BY <1>1
  <2> HIDE DEF step, c
  <2> QED
    BY <1>2, <1>5, <2>1, IndexedRecursionExists
<1> HIDE DEF step
<1>8. ASSUME NEW k \in 1 .. edge PROVE g[k] = Round(g[k - 1])
  <2>1. k - 1 \in 0 .. edge
    BY <1>1
  <2> QED
    BY <1>6, <1>7, <2>1 DEF IsIndexedRecursion
<1>9. ASSUME NEW k \in 1 .. edge, NEW id \in 1 .. edge, NEW adj \in Nodes
      PROVE  g[k][<<id, adj>>] = Expands(g[k - 1], id, adj)
  BY <1>4, <1>8
<1>10. \A id \in 1 .. edge : id \in StoredEdges /\ id \in Nat
  <2>1. GetEdges \in Nat /\ Len(shortcuts) \in Nat
    BY CHEdgesFacts DEF Prepared
  <2> QED
    BY <2>1 DEF StoredEdges
<1> DEFINE last == edge - 1
           Stable(k) == \A id \in 1 .. edge, adj \in Nodes :
                           id <= k => g[k + 1][<<id, adj>>] = g[k][<<id, adj>>]
           T == {k \in 0 .. last : Stable(k)}
<1>11. last \in Nat
  BY <1>1
<1>12. 0 \in T
  <2>1. \A id \in 1 .. edge : ~ (id <= 0)
    BY <1>1
  <2> QED
    BY <1>11, <2>1
<1>13. ASSUME NEW k \in 0 .. (last - 1), k \in T PROVE k + 1 \in T
  <2>1. /\ k + 1 \in 0 .. last /\ k + 1 \in 1 .. edge /\ (k + 1) + 1 \in 1 .. edge
        /\ ((k + 1) + 1) - 1 = k + 1 /\ (k + 1) - 1 = k /\ k \in Nat
    BY <1>1, <1>11
  <2>2. PICK l : l = k + 1
    OBVIOUS
  <2>3. ASSUME NEW id \in 1 .. edge, NEW adj \in Nodes, id <= l
        PROVE  g[l + 1][<<id, adj>>] = g[l][<<id, adj>>]
    <3>1. g[l + 1][<<id, adj>>] = Expands(g[l], id, adj) /\ g[l][<<id, adj>>] = Expands(g[k], id, adj)
      <4>1. g[l + 1][<<id, adj>>] = Expands(g[(l + 1) - 1], id, adj)
        BY <1>9, <2>1, <2>2
      <4>2. g[l][<<id, adj>>] = Expands(g[l - 1], id, adj)
        BY <1>9, <2>1, <2>2
      <4> QED
        BY <2>1, <2>2, <4>1, <4>2
    <3>2. \A j \in 1 .. (id - 1), n \in Nodes : g[l][<<j, n>>] = g[k][<<j, n>>]
      <4>1. \A j \in 1 .. (id - 1) : j \in 1 .. edge /\ j <= k
        BY <1>1, <2>1, <2>2, <2>3
      <4>2. \A j \in 1 .. edge, n \in Nodes : j <= k => g[k + 1][<<j, n>>] = g[k][<<j, n>>]
        BY <1>13
      <4> QED
        BY <2>2, <4>1, <4>2
    <3>3. Expands(g[l], id, adj) = Expands(g[k], id, adj)
      BY <1>10, <3>2, ExpandsSame
    <3> QED
      BY <3>1, <3>3
  <2> QED
    BY <2>1, <2>2, <2>3
<1>14. 0 .. last \subseteq T
  <2>1. \A k \in 0 .. (last - 1) : k \in T => k + 1 \in T
    BY <1>13
  <2> HIDE DEF T, last
  <2> QED
    BY <1>11, <1>12, <2>1, BoundedInduction
<1>15. IsExpansion(g[edge], edge)
  <2> SUFFICES ASSUME NEW id \in 1 .. edge, NEW adj \in Nodes
               PROVE  g[edge][<<id, adj>>] = Expands(g[edge], id, adj)
    BY DEF IsExpansion
  <2>1. g[edge][<<id, adj>>] = Expands(g[edge - 1], id, adj)
    BY <1>1, <1>9
  <2>2. \A j \in 1 .. edge, n \in Nodes : j <= edge - 1 => g[edge][<<j, n>>] = g[edge - 1][<<j, n>>]
    <3>1. last \in T /\ last + 1 = edge
      BY <1>1, <1>11, <1>14
    <3> QED
      BY <3>1
  <2>3. \A j \in 1 .. (id - 1) : j \in 1 .. edge /\ j <= edge - 1
    BY <1>1
  <2>4. \A j \in 1 .. (id - 1), n \in Nodes : g[edge - 1][<<j, n>>] = g[edge][<<j, n>>]
    BY <2>2, <2>3
  <2>5. Expands(g[edge - 1], id, adj) = Expands(g[edge], id, adj)
    BY <1>10, <2>4, ExpandsSame
  <2> QED
    BY <2>1, <2>5
<1>16. g[edge] \in [(1 .. edge) \X Nodes -> Seq(1 .. GetEdges)]
  <2>1. edge \in 0 .. edge
    BY <1>1
  <2>2. g[edge] \in F
    BY <1>7, <2>1
  <2> HIDE DEF V
  <2>3. F = [K -> V]
    BY DEF F
  <2>4. [K -> V] = [(1 .. edge) \X Nodes -> Seq(1 .. GetEdges)]
    BY DEF V
  <2> QED
    BY <2>2, <2>3, <2>4
<1> QED
  BY <1>15, <1>16

\* Unpack is that solution.
LEMMA UnpackMeaning ==
    ASSUME Prepared, NEW edge \in StoredEdges
    PROVE  \E h : IsExpansion(h, edge) /\ \A end : Unpack(edge, end) = h[<<edge, end>>]
<1> DEFINE Rule(h) == h = [x \in (1 .. edge) \X Nodes |->
            LET id == x[1]  adj == x[2]
            IN  IF id <= GetEdges THEN <<id>>
                ELSE LET s == shortcuts[id - GetEdges]
                         near == IF Touches(s.skip2, adj) THEN s.skip2 ELSE s.skip1
                         far == IF near = s.skip2 THEN s.skip1 ELSE s.skip2
                     IN  IF near >= id \/ far >= id THEN << >>
                         ELSE h[<<near, adj>>] \o h[<<far, BaseNode(near, adj)>>]]
           As(h) == h = [x \in (1 .. edge) \X Nodes |-> Expands(h, x[1], x[2])]
<1>1. \A h : Rule(h) <=> As(h)
  BY DEF Expands, Near, Far
<1>2. PICK f \in [(1 .. edge) \X Nodes -> Seq(1 .. GetEdges)] : IsExpansion(f, edge)
  BY ExpansionExists
<1>3. As(f)
  <2>1. \A x \in (1 .. edge) \X Nodes : f[x] = Expands(f, x[1], x[2])
    BY <1>2 DEF IsExpansion
  <2>2. f = [x \in (1 .. edge) \X Nodes |-> f[x]]
    BY <1>2
  <2> QED
    BY <2>1, <2>2
<1> DEFINE g == CHOOSE h : Rule(h)
<1>4. Rule(g)
  <2>1. Rule(f)
    BY <1>1, <1>3
  <2> HIDE DEF Rule
  <2> QED
    BY <2>1
<1>5. \A end : Unpack(edge, end) = g[<<edge, end>>]
  BY DEF Unpack
<1> HIDE DEF g, Rule
<1>6. As(g)
  BY <1>1, <1>4
<1>7. IsExpansion(g, edge)
  BY <1>6 DEF IsExpansion
<1> QED
  BY <1>5, <1>7

-----------------------------------------------------------------------------

\* What the two skipped edges of a shortcut are when it is unpacked from one of
\* its ends, and in either direction.
Halves(k, end, other, along, w, via) ==
    /\ via \in Nodes /\ via # end /\ via # other /\ end # other
    /\ CHEnds(Near(k, end)) = {end, via} /\ CHEnds(Far(k, end)) = {via, other}
    /\ CHWeight(Near(k, end), IF along THEN end ELSE via) \in Nat
    /\ CHWeight(Far(k, end), IF along THEN via ELSE other) \in Nat
    /\ w = CHWeight(Near(k, end), IF along THEN end ELSE via)
             + CHWeight(Far(k, end), IF along THEN via ELSE other)

\* Whichever end it begins at, the nearer edge touches that end and the other
\* one goes on from where the nearer one ends.
LEMMA TheHalves ==
    ASSUME Prepared, NEW k \in StoredEdges, ~ (k <= GetEdges), NEW end \in CHEnds(k),
           NEW along \in BOOLEAN, NEW w \in Nat,
           w = CHWeight(k, IF along THEN end ELSE BaseNode(k, end))
    PROVE  \E via : Halves(k, end, BaseNode(k, end), along, w, via)
<1>1. PICK i : i = k - GetEdges
  OBVIOUS
<1>2. PICK r : r = shortcuts[i]
  OBVIOUS
<1>3. i \in 1 .. Len(shortcuts) /\ CHEdges[k] = RecordEdge(r)
  BY <1>1, <1>2, CHNodes
<1>4. /\ CHEdges[k].a = r.a /\ CHEdges[k].b = r.b
      /\ CHEdges[k].fwd = (IF r.fwd THEN r.weight ELSE Inf)
      /\ CHEdges[k].bwd = (IF r.bwd THEN r.weight ELSE Inf)
  BY <1>3 DEF RecordEdge
<1>5. /\ r.fwd \/ r.bwd
      /\ r.fwd => \E via : Over(r.skip1, r.skip2, r.a, r.b, via, r.weight)
      /\ r.bwd => \E via : Over(r.skip2, r.skip1, r.b, r.a, via, r.weight)
  BY <1>2, <1>3 DEF Prepared, Composed
<1>6. r.a # r.b
  BY <1>5 DEF Over
<1>7. w # Inf
  BY BaseFacts DEF Prepared
<1>8. /\ Near(k, end) = (IF end \in CHEnds(r.skip2) THEN r.skip2 ELSE r.skip1)
      /\ Far(k, end) = (IF Near(k, end) = r.skip2 THEN r.skip1 ELSE r.skip2)
  BY <1>1, <1>2 DEF Near, Far, Touches, CHEnds
<1>9. ASSUME CHEnds(r.skip2) # CHEnds(r.skip1) PROVE r.skip1 # r.skip2
  BY <1>9
<1>10. CASE end = r.b /\ along
  <2>1. BaseNode(k, end) = r.a /\ w = r.weight /\ r.bwd
    BY <1>4, <1>6, <1>7, <1>10 DEF BaseNode, CHWeight
  <2>2. PICK via : Over(r.skip2, r.skip1, r.b, r.a, via, r.weight)
    BY <1>5, <2>1
  <2>3. Near(k, end) = r.skip2 /\ Far(k, end) = r.skip1
    BY <1>8, <1>10, <2>2 DEF Over
  <2>4. Halves(k, end, r.a, along, w, via)
    BY <1>7, <1>10, <2>1, <2>2, <2>3 DEF Over, Halves
  <2> QED
    BY <2>1, <2>4
<1>11. CASE end = r.b /\ ~ along
  <2>1. BaseNode(k, end) = r.a
    BY <1>4, <1>6, <1>11 DEF BaseNode
  <2>2. w = r.weight /\ r.fwd
    BY <1>4, <1>7, <1>11, <2>1 DEF CHWeight
  <2>3. PICK via : Over(r.skip1, r.skip2, r.a, r.b, via, r.weight)
    BY <1>5, <2>2
  <2>4. Near(k, end) = r.skip2 /\ Far(k, end) = r.skip1
    BY <1>8, <1>11, <2>3 DEF Over
  <2>5. /\ CHWeight(r.skip1, r.a) \in Nat /\ CHWeight(r.skip2, via) \in Nat
        /\ w = CHWeight(r.skip1, r.a) + CHWeight(r.skip2, via)
    BY <1>7, <2>2, <2>3 DEF Over
  <2>6. w = CHWeight(r.skip2, via) + CHWeight(r.skip1, r.a)
    BY <2>5
  <2>7. Halves(k, end, r.a, along, w, via)
    BY <1>11, <2>3, <2>4, <2>5, <2>6 DEF Over, Halves
  <2> QED
    BY <2>1, <2>7
<1>12. CASE end = r.a /\ along
  <2>1. BaseNode(k, end) = r.b /\ w = r.weight /\ r.fwd
    BY <1>4, <1>7, <1>12 DEF BaseNode, CHWeight
  <2>2. PICK via : Over(r.skip1, r.skip2, r.a, r.b, via, r.weight)
    BY <1>5, <2>1
  <2>3. CHEnds(r.skip1) = {r.a, via} /\ CHEnds(r.skip2) = {via, r.b} /\ via # r.a
    BY <2>2 DEF Over
  <2>4. Near(k, end) = r.skip1 /\ Far(k, end) = r.skip2
    BY <1>6, <1>8, <1>12, <2>3
  <2>5. Halves(k, end, r.b, along, w, via)
    BY <1>7, <1>12, <2>1, <2>2, <2>4 DEF Over, Halves
  <2> QED
    BY <2>1, <2>5
<1>13. CASE end = r.a /\ ~ along
  <2>1. BaseNode(k, end) = r.b
    BY <1>4, <1>13 DEF BaseNode
  <2>2. w = r.weight /\ r.bwd
    BY <1>4, <1>6, <1>7, <1>13, <2>1 DEF CHWeight
  <2>3. PICK via : Over(r.skip2, r.skip1, r.b, r.a, via, r.weight)
    BY <1>5, <2>2
  <2>4. CHEnds(r.skip1) = {via, r.a} /\ CHEnds(r.skip2) = {r.b, via} /\ via # r.a
    BY <2>3 DEF Over
  <2>5. Near(k, end) = r.skip1 /\ Far(k, end) = r.skip2
    BY <1>6, <1>8, <1>13, <2>4
  <2>6. /\ CHWeight(r.skip2, r.b) \in Nat /\ CHWeight(r.skip1, via) \in Nat
        /\ w = CHWeight(r.skip2, r.b) + CHWeight(r.skip1, via)
    BY <1>7, <2>2, <2>3 DEF Over
  <2>7. w = CHWeight(r.skip1, via) + CHWeight(r.skip2, r.b)
    BY <2>6
  <2>8. Halves(k, end, r.b, along, w, via)
    BY <1>13, <2>3, <2>5, <2>6, <2>7 DEF Over, Halves
  <2> QED
    BY <2>1, <2>8
<1> QED
  BY <1>4, <1>10, <1>11, <1>12, <1>13 DEF CHEnds

\* What edge k expands to according to h is a trace of its weight, whichever end
\* it begins at and in both directions it may be used in.
Unpacks(h, k) ==
    \A end \in CHEnds(k), along \in BOOLEAN :
        CHWeight(k, IF along THEN end ELSE BaseNode(k, end)) \in Nat =>
            Traced(h[<<k, end>>], end, BaseNode(k, end), along,
                   CHWeight(k, IF along THEN end ELSE BaseNode(k, end)))

\* By induction on the id.
LEMMA EveryEdgeUnpacks ==
    ASSUME Prepared, NEW edge \in StoredEdges, NEW h, IsExpansion(h, edge)
    PROVE  Unpacks(h, edge)
<1> DEFINE T == {k \in 0 .. edge : \A id \in 1 .. edge : id <= k => Unpacks(h, id)}
<1>1. edge \in Nat \ {0} /\ edge \in 0 .. edge /\ edge \in 1 .. edge
  BY CHNodes
<1>2. \A id \in 1 .. edge : id \in StoredEdges /\ id \in Nat
  <2>1. GetEdges \in Nat /\ Len(shortcuts) \in Nat
    BY CHEdgesFacts DEF Prepared
  <2> QED
    BY <2>1 DEF StoredEdges
<1>3. 0 \in T
  <2>1. \A id \in 1 .. edge : ~ (id <= 0)
    BY <1>1
  <2> QED
    BY <1>1, <2>1
<1>4. ASSUME NEW id \in 1 .. edge, \A j \in 1 .. edge : j < id => Unpacks(h, j) PROVE Unpacks(h, id)
  <2> SUFFICES ASSUME NEW end \in CHEnds(id), NEW along \in BOOLEAN, NEW w \in Nat,
                      w = CHWeight(id, IF along THEN end ELSE BaseNode(id, end))
               PROVE  Traced(h[<<id, end>>], end, BaseNode(id, end), along, w)
    BY DEF Unpacks
  <2>1. id \in StoredEdges /\ end \in Nodes /\ BaseNode(id, end) \in Nodes
    BY <1>2, CHNodes DEF CHEnds, BaseNode
  <2>2. h[<<id, end>>] = Expands(h, id, end)
    BY <2>1 DEF IsExpansion
  <2>3. CASE id <= GetEdges
    <3>1. id \in 1 .. GetEdges /\ CHEdges[id] = graph.edges[id] /\ h[<<id, end>>] = <<id>>
      BY <2>1, <2>2, <2>3, CHNodes DEF Expands
    <3>2. graph.edges[id].a # graph.edges[id].b
      BY <3>1, BaseFacts DEF Prepared
    <3>3. PICK other : other = BaseNode(id, end)
      OBVIOUS
    <3>4. /\ {graph.edges[id].a, graph.edges[id].b} = {end, other} /\ end # other
      BY <3>1, <3>2, <3>3 DEF CHEnds, BaseNode
    <3>5. IF along THEN BaseStep(id, end, other, w) ELSE BaseStep(id, other, end, w)
      BY <3>1, <3>3, <3>4 DEF BaseStep, CHWeight
    <3>6. w \in Int
      OBVIOUS
    <3>7. Traced(<<id>>, end, other, along, w)
      BY <2>1, <3>1, <3>3, <3>5, <3>6, TracedEdge
    <3> QED
      BY <3>1, <3>3, <3>7
  <2>4. CASE ~ (id <= GetEdges)
    <3>1. PICK near, far, other : near = Near(id, end) /\ far = Far(id, end) /\ other = BaseNode(id, end)
      OBVIOUS
    <3>2. PICK via : Halves(id, end, BaseNode(id, end), along, w, via)
      BY <2>1, <2>4, TheHalves
    <3>3. /\ via # end /\ via # other /\ end # other
          /\ CHEnds(near) = {end, via} /\ CHEnds(far) = {via, other}
          /\ CHWeight(near, IF along THEN end ELSE via) \in Nat
          /\ CHWeight(far, IF along THEN via ELSE other) \in Nat
          /\ w = CHWeight(near, IF along THEN end ELSE via)
                   + CHWeight(far, IF along THEN via ELSE other)
      BY <3>1, <3>2 DEF Halves
    <3>4. BaseNode(near, end) = via /\ BaseNode(far, via) = other
      BY <3>3 DEF BaseNode, CHEnds
    <3>5. /\ near \in 1 .. (id - 1) /\ far \in 1 .. (id - 1) /\ ~ (near >= id) /\ ~ (far >= id)
      BY <2>1, <2>4, <3>1, SkipsBefore
    <3>6. near \in 1 .. edge /\ near < id /\ far \in 1 .. edge /\ far < id
      BY <1>1, <3>5
    <3>7. Unpacks(h, near) /\ Unpacks(h, far)
      BY <1>4, <3>6
    <3>8. PICK v1, v2 : v1 = CHWeight(near, IF along THEN end ELSE via)
                        /\ v2 = CHWeight(far, IF along THEN via ELSE other)
      OBVIOUS
    <3>9. Traced(h[<<near, end>>], end, via, along, v1)
      BY <3>3, <3>4, <3>7, <3>8 DEF Unpacks
    <3>10. Traced(h[<<far, via>>], via, other, along, v2)
      BY <3>3, <3>4, <3>7, <3>8 DEF Unpacks
    <3>11. PICK list, more : list = h[<<near, end>>] /\ more = h[<<far, via>>]
      OBVIOUS
    <3>12. Traced(list \o more, end, other, along, v1 + v2)
      BY <3>9, <3>10, <3>11, TracedJoin
    <3>13. h[<<id, end>>] = list \o more
      BY <2>2, <2>4, <3>1, <3>4, <3>5, <3>11 DEF Expands
    <3>14. w = v1 + v2
      BY <3>3, <3>8
    <3> QED
      BY <3>1, <3>12, <3>13, <3>14
  <2> QED
    BY <2>3, <2>4
<1>5. ASSUME NEW k \in 0 .. (edge - 1), k \in T PROVE k + 1 \in T
  <2>1. k + 1 \in 0 .. edge /\ k + 1 \in 1 .. edge
    BY <1>1
  <2>2. \A j \in 1 .. edge : j < k + 1 => Unpacks(h, j)
    <3>1. \A j \in 1 .. edge : j < k + 1 => j <= k
      BY <2>1
    <3> QED
      BY <1>5, <3>1
  <2>3. Unpacks(h, k + 1)
    BY <1>4, <2>1, <2>2
  <2>4. \A id \in 1 .. edge : id <= k + 1 => Unpacks(h, id)
    <3>1. \A id \in 1 .. edge : id <= k + 1 => id < k + 1 \/ id = k + 1
      BY <2>1
    <3> QED
      BY <2>2, <2>3, <3>1
  <2> QED
    BY <2>1, <2>4
<1>6. 0 .. edge \subseteq T
  <2>1. \A k \in 0 .. (edge - 1) : k \in T => k + 1 \in T
    BY <1>5
  <2>2. edge \in Nat
    BY <1>1
  <2> HIDE DEF T
  <2> QED
    BY <1>3, <2>1, <2>2, BoundedInduction
<1> QED
  <2>1. edge \in T
    BY <1>1, <1>6
  <2>2. edge <= edge
    BY <1>1
  <2> QED
    BY <1>1, <2>1, <2>2

\* Unpack yields a trace with the weight of the edge, in the direction in which
\* it is unpacked and in the other.
LEMMA UnpackTraced ==
    ASSUME Prepared, NEW k \in StoredEdges, NEW end \in CHEnds(k), NEW along \in BOOLEAN,
           NEW w \in Nat, w = CHWeight(k, IF along THEN end ELSE BaseNode(k, end))
    PROVE  Traced(Unpack(k, end), end, BaseNode(k, end), along, w)
<1>1. PICK h : IsExpansion(h, k) /\ \A n : Unpack(k, n) = h[<<k, n>>]
  BY UnpackMeaning
<1>2. Unpacks(h, k)
  BY <1>1, EveryEdgeUnpacks
<1> QED
  BY <1>1, <1>2 DEF Unpacks

\* When the preparation is over, all shortcuts unpack.
LEMMA ShortcutsUnpackDone ==
    ASSUME ListsInv, StoreInv, RecordsInv
    PROVE  ShortcutsUnpack
<1> SUFFICES ASSUME phase = "done", NEW i \in DOMAIN shortcuts, shortcuts[i].weight # Inf
             PROVE  LET s == shortcuts[i]
                        towards(n) == Unpack(GetEdges + i, n)
                    IN  /\ s.fwd => W!IsWalk(BaseQuery(s.a, s.b), Reverse(towards(s.b)), s.weight)
                        /\ s.bwd => W!IsWalk(BaseQuery(s.b, s.a), Reverse(towards(s.a)), s.weight)
  BY DEF ShortcutsUnpack
<1>1. Prepared
  BY AllComposed DEF Prepared, ListsInv, StoreInv
<1>2. i \in 1 .. Len(shortcuts) /\ graph \in Graphs
  BY <1>1 DEF Prepared
<1>3. PICK k, s : k = GetEdges + i /\ s = shortcuts[i]
  OBVIOUS
<1>4. k \in StoredEdges /\ CHEdges[k] = RecordEdge(s)
  BY <1>1, <1>2, <1>3, CHEdgesFacts DEF Prepared
<1>5. s.weight \in Nat
  <2>1. s \in StoredShortcut
    BY <1>1, <1>2, <1>3 DEF Prepared
  <2> QED
    BY <1>3, <2>1 DEF StoredShortcut
<1>6. s.a # s.b
  BY <1>1, <1>2, <1>3 DEF Prepared, Composed, Over
<1>7. ASSUME s.fwd PROVE W!IsWalk(BaseQuery(s.a, s.b), Reverse(Unpack(k, s.b)), s.weight)
  <2>1. s.b \in CHEnds(k) /\ BaseNode(k, s.b) = s.a /\ CHWeight(k, s.a) = s.weight
    BY <1>4, <1>6, <1>7 DEF CHEnds, BaseNode, CHWeight, RecordEdge
  <2>2. Traced(Unpack(k, s.b), s.b, s.a, FALSE, s.weight)
    BY <1>1, <1>4, <1>5, <2>1, UnpackTraced
  <2>3. Traced(Reverse(Unpack(k, s.b)), s.a, s.b, TRUE, s.weight)
    BY <2>2, TracedReverse
  <2> QED
    BY <1>2, <2>3, TracedWalk
<1>8. ASSUME s.bwd PROVE W!IsWalk(BaseQuery(s.b, s.a), Reverse(Unpack(k, s.a)), s.weight)
  <2>1. s.a \in CHEnds(k) /\ BaseNode(k, s.a) = s.b /\ CHWeight(k, s.b) = s.weight
    BY <1>4, <1>6, <1>8 DEF CHEnds, BaseNode, CHWeight, RecordEdge
  <2>2. Traced(Unpack(k, s.a), s.a, s.b, FALSE, s.weight)
    BY <1>1, <1>4, <1>5, <2>1, UnpackTraced
  <2>3. Traced(Reverse(Unpack(k, s.a)), s.b, s.a, TRUE, s.weight)
    BY <2>2, TracedReverse
  <2> QED
    BY <1>2, <2>3, TracedWalk
<1> QED
  BY <1>3, <1>7, <1>8

\* Whatever the order of the contraction and wherever the witness search gave
\* up, ShortcutUnpacker turns a stored shortcut of finite weight into a walk of
\* base edges between its ends that weighs what the shortcut says.
THEOREM ShortcutsUnpackToWalks == Spec => []ShortcutsUnpack
<1>1. Spec => []ListsInv
  BY ListsAlways
<1>2. Spec => []StoreInv
  BY StoreAlways
<1>3. Spec => []RecordsInv
  BY RecordsAlways
<1>4. ListsInv /\ StoreInv /\ RecordsInv => ShortcutsUnpack
  BY ShortcutsUnpackDone
<1> QED
  BY <1>1, <1>2, <1>3, <1>4, PTL
=============================================================================
