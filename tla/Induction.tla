----------------------------- MODULE Induction -----------------------------
(***************************************************************************)
(* Induction over the natural numbers and the existence of functions       *)
(* defined by recursion, stated with sets in place of predicates, and the  *)
(* uniqueness of a list by its elements.                                   *)
(***************************************************************************)
EXTENDS Integers, Sequences, Functions, TLAPS, WellFoundedInduction,
        SequenceTheorems

\* Every nonempty set of naturals has a least element.
LEMMA LeastNatural ==
    ASSUME NEW T, T \subseteq Nat, T # {}
    PROVE  \E m \in T : \A k \in T : m <= k
<1> DEFINE R == OpToRel(<, Nat)
<1>1. IsWellFoundedOn(R, Nat)
  BY NatLessThanWellFounded
<1>2. \A x, y \in Nat : x < y => <<x, y>> \in R
  BY DEF OpToRel
<1> HIDE DEF R
<1>3. PICK x \in T : \A y \in T : ~ (<<y, x>> \in R)
  BY <1>1, WFMin
<1>4. \A y \in T : x <= y
  <2> SUFFICES ASSUME NEW y \in T PROVE x <= y
    OBVIOUS
  <2>1. x \in Nat /\ y \in Nat
    OBVIOUS
  <2> QED
    <3>1. ~ (y < x)
      BY <1>2, <1>3, <2>1, Zenon
    <3> QED
      BY <2>1, <3>1
<1> QED
  BY <1>4

\* A set that holds 0 and with every number its successor holds all naturals.
LEMMA SetInduction ==
    ASSUME NEW S, 0 \in S, \A n \in Nat : n \in S => n + 1 \in S
    PROVE  Nat \subseteq S
<1> SUFFICES ASSUME NEW n \in Nat, n \notin S PROVE FALSE
  OBVIOUS
<1>1. PICK m \in Nat \ S : \A k \in Nat \ S : m <= k
  <2>1. Nat \ S \subseteq Nat /\ Nat \ S # {}
    OBVIOUS
  <2> QED
    BY <2>1, LeastNatural
<1>2. m # 0 /\ m - 1 \in Nat
  BY <1>1
<1>3. m - 1 \in S
  BY <1>1, <1>2
<1> QED
  BY <1>1, <1>2, <1>3

\* The same up to a bound.
LEMMA BoundedInduction ==
    ASSUME NEW N \in Nat, NEW S, 0 \in S,
           \A n \in 0 .. (N - 1) : n \in S => n + 1 \in S
    PROVE  0 .. N \subseteq S
<1> DEFINE T == {n \in Nat : n <= N => n \in S}
<1>1. 0 \in T
  OBVIOUS
<1>2. \A n \in Nat : n \in T => n + 1 \in T
  OBVIOUS
<1> HIDE DEF T
<1>3. Nat \subseteq T
  BY <1>1, <1>2, SetInduction
<1> QED
  BY <1>3 DEF T

\* f is the function that recursive application of step to c defines on 0 .. N.
IsRecursion(f, N, c, step) ==
    f[0] = c /\ \A k \in 1 .. N : f[k] = step[f[k - 1]]

\* A recursion on 0 .. N whose step is a function has a solution (what a
\* recursive function definition chooses exists).
LEMMA RecursiveFunctionExists ==
    ASSUME NEW N \in Nat, NEW V, NEW c \in V, NEW step \in [V -> V]
    PROVE  \E f \in [0 .. N -> V] : IsRecursion(f, N, c, step)
<1> DEFINE Solves(f, n) == IsRecursion(f, n, c, step)
           S == {n \in Nat : \E f \in [0 .. n -> V] : Solves(f, n)}
<1>1. 0 \in S
  <2>1. [k \in 0 .. 0 |-> c] \in [0 .. 0 -> V] /\ Solves([k \in 0 .. 0 |-> c], 0)
    BY DEF IsRecursion
  <2> QED
    BY <2>1
<1>2. \A n \in Nat : n \in S => n + 1 \in S
  <2> SUFFICES ASSUME NEW n \in Nat, NEW f \in [0 .. n -> V], Solves(f, n)
               PROVE  \E g \in [0 .. (n + 1) -> V] : Solves(g, n + 1)
    OBVIOUS
  <2> DEFINE g == [k \in 0 .. (n + 1) |-> IF k = n + 1 THEN step[f[n]] ELSE f[k]]
  <2>1. g \in [0 .. (n + 1) -> V]
    OBVIOUS
  <2>2. g[0] = c
    BY DEF IsRecursion
  <2>3. \A k \in 1 .. (n + 1) : g[k] = step[g[k - 1]]
    <3> USE DEF IsRecursion
    <3> SUFFICES ASSUME NEW k \in 1 .. (n + 1) PROVE g[k] = step[g[k - 1]]
      OBVIOUS
    <3>1. k - 1 \in 0 .. n /\ g[k - 1] = f[k - 1]
      OBVIOUS
    <3>2. CASE k = n + 1
      BY <3>1, <3>2
    <3>3. CASE k # n + 1
      BY <3>1, <3>3
    <3> QED
      BY <3>2, <3>3
  <2> QED
    BY <2>1, <2>2, <2>3 DEF IsRecursion
<1> HIDE DEF S
<1>3. N \in S
  BY <1>1, <1>2, SetInduction
<1> QED
  BY <1>3 DEF S

-----------------------------------------------------------------------------

\* list holds the elements of the set T of numbers, largest first.
IsDescendingList(list, T) ==
    \E len \in Nat :
        /\ list \in [1 .. len -> T]
        /\ \A t \in T : \E i \in 1 .. len : list[i] = t
        /\ \A i, j \in 1 .. len : i < j => list[j] < list[i]

\* There is only one way to list a set in descending order.
LEMMA DescendingListUnique ==
    ASSUME NEW T, T \subseteq Int, NEW s, NEW r,
           IsDescendingList(s, T), IsDescendingList(r, T)
    PROVE  s = r
<1>1. PICK m \in Nat : /\ s \in [1 .. m -> T]
                       /\ \A t \in T : \E i \in 1 .. m : s[i] = t
                       /\ \A i, j \in 1 .. m : i < j => s[j] < s[i]
  BY DEF IsDescendingList
<1>2. PICK n \in Nat : /\ r \in [1 .. n -> T]
                       /\ \A t \in T : \E i \in 1 .. n : r[i] = t
                       /\ \A i, j \in 1 .. n : i < j => r[j] < r[i]
  BY DEF IsDescendingList
<1>3. \A i \in 1 .. m : i <= n /\ s[i] = r[i]
  <2> DEFINE D == {i \in 1 .. m : ~ (i <= n /\ s[i] = r[i])}
  <2> SUFFICES ASSUME D # {} PROVE FALSE
    OBVIOUS
  <2>1. PICK i \in D : \A k \in D : i <= k
    <3>1. D \subseteq Nat
      OBVIOUS
    <3> HIDE DEF D
    <3> QED
      BY <3>1, LeastNatural
  <2>2. i \in 1 .. m /\ \A k \in 1 .. (i - 1) : k <= n /\ s[k] = r[k]
    BY <2>1
  <2> HIDE DEF D
  <2>3. PICK j \in 1 .. n : r[j] = s[i]
    BY <1>1, <1>2, <2>2
  <2>4. ~ (j < i)
    <3> SUFFICES ASSUME j < i PROVE FALSE
      OBVIOUS
    <3>1. j \in 1 .. (i - 1) /\ j \in 1 .. m /\ i \in 1 .. m
      BY <2>2
    <3>2. s[j] = r[j] /\ s[i] < s[j]
      BY <1>1, <2>2, <3>1
    <3>3. s[i] \in Int /\ s[j] \in Int
      BY <1>1, <3>1
    <3> QED
      BY <2>3, <3>2, <3>3
  <2>5. i <= n
    BY <2>2, <2>4
  <2>6. s[i] # r[i]
    BY <2>1, <2>5 DEF D
  <2>7. i < j
    BY <2>2, <2>3, <2>4, <2>6
  <2>8. r[j] < r[i] /\ r[i] \in T
    BY <1>2, <2>2, <2>5, <2>7
  <2>9. PICK k \in 1 .. m : s[k] = r[i]
    BY <1>1, <2>8
  <2>10. k < i
    <3>1. s[i] \in Int /\ s[k] \in Int /\ s[i] < s[k]
      BY <1>1, <2>2, <2>3, <2>8, <2>9
    <3>2. i < k => s[k] < s[i]
      BY <1>1, <2>2
    <3> QED
      BY <2>2, <3>1, <3>2
  <2>11. s[k] = r[k] /\ r[i] < r[k] /\ r[k] \in Int /\ r[i] \in Int
    <3>1. k \in 1 .. (i - 1) /\ k \in 1 .. n /\ i \in 1 .. n
      BY <2>2, <2>5, <2>10
    <3>2. s[k] = r[k]
      BY <2>2, <3>1
    <3>3. r[i] < r[k]
      BY <1>2, <3>1
    <3>4. r[k] \in T /\ r[i] \in T
      BY <1>2, <3>1
    <3> QED
      BY <3>2, <3>3, <3>4
  <2> QED
    BY <2>9, <2>11
<1>4. m = n
  <2>1. m <= n
    BY <1>3
  <2>2. CASE m < n
    <3>1. m + 1 \in 1 .. n /\ r[m + 1] \in T
      BY <1>2, <2>2
    <3>2. PICK j \in 1 .. m : s[j] = r[m + 1]
      BY <1>1, <3>1
    <3>3. r[j] = r[m + 1] /\ j < m + 1 /\ j \in 1 .. n
      BY <1>3, <2>2, <3>2
    <3>4. r[m + 1] < r[j] /\ r[j] \in Int /\ r[m + 1] \in Int
      BY <1>2, <3>1, <3>3
    <3> QED
      BY <3>3, <3>4
  <2> QED
    BY <2>1, <2>2
<1> QED
  BY <1>1, <1>2, <1>3, <1>4

\* The empty set has the empty list.
LEMMA DescendingListEmpty ==
    ASSUME NEW s, IsDescendingList(s, {})
    PROVE  s = << >>
<1>1. PICK len \in Nat : /\ s \in [1 .. len -> {}]
                         /\ \A i, j \in 1 .. len : i < j => s[j] < s[i]
  BY DEF IsDescendingList
<1>2. len = 0
  <2>1. CASE len > 0
    <3>1. 1 \in 1 .. len
      BY <2>1
    <3> QED
      BY <1>1, <3>1
  <2> QED
    BY <2>1
<1>3. 1 .. len = {}
  BY <1>2
<1> QED
  BY <1>1, <1>3

\* A number above all others comes first.
LEMMA DescendingListPrepend ==
    ASSUME NEW T, T \subseteq Int, NEW c \in Int, \A t \in T : t < c,
           NEW s, IsDescendingList(s, T)
    PROVE  IsDescendingList(<<c>> \o s, T \cup {c})
<1> DEFINE U == T \cup {c}
           r == <<c>> \o s
<1>1. PICK len \in Nat : /\ s \in [1 .. len -> T]
                         /\ \A t \in T : \E i \in 1 .. len : s[i] = t
                         /\ \A i, j \in 1 .. len : i < j => s[j] < s[i]
  BY DEF IsDescendingList
<1>2. s \in Seq(U) /\ Len(s) = len /\ <<c>> \in Seq(U) /\ Len(<<c>>) = 1
  BY <1>1
<1>3. /\ r \in Seq(U) /\ Len(r) = 1 + len
      /\ \A i \in 1 .. 1 + len : r[i] = IF i <= 1 THEN <<c>>[i] ELSE s[i - 1]
  <2> HIDE DEF U
  <2> QED
    BY <1>2, ConcatProperties
<1> HIDE DEF r
<1>4. /\ r \in [1 .. 1 + len -> U] /\ r[1] = c
      /\ \A i \in 2 .. 1 + len : r[i] = s[i - 1]
  <2>1. r \in [1 .. 1 + len -> U]
    BY <1>3
  <2>2. r[1] = c
    BY <1>3
  <2>3. \A i \in 2 .. 1 + len : r[i] = s[i - 1]
    <3> TAKE i \in 2 .. 1 + len
    <3>1. i \in 1 .. 1 + len /\ ~ (i <= 1)
      OBVIOUS
    <3> QED
      BY <1>3, <3>1
  <2> QED
    BY <2>1, <2>2, <2>3
<1>5. \A u \in U : \E i \in 1 .. 1 + len : r[i] = u
  <2> SUFFICES ASSUME NEW t \in T PROVE \E i \in 1 .. 1 + len : r[i] = t
    BY <1>4
  <2>1. PICK i \in 1 .. len : s[i] = t
    BY <1>1
  <2>2. i + 1 \in 2 .. 1 + len /\ i + 1 \in 1 .. 1 + len /\ (i + 1) - 1 = i
    OBVIOUS
  <2>3. r[i + 1] = s[i]
    BY <1>4, <2>2
  <2> QED
    BY <2>1, <2>2, <2>3
<1>6. ASSUME NEW i \in 1 .. 1 + len, NEW j \in 1 .. 1 + len, i < j
      PROVE  r[j] < r[i]
  <2>1. j \in 2 .. 1 + len /\ j - 1 \in 1 .. len /\ r[j] = s[j - 1] /\ s[j - 1] \in T
    BY <1>1, <1>4, <1>6
  <2>2. CASE i = 1
    BY <1>4, <2>1, <2>2
  <2>3. CASE i # 1
    <3>1. i \in 2 .. 1 + len /\ i - 1 \in 1 .. len /\ i - 1 < j - 1
      BY <1>6, <2>3
    <3>2. r[i] = s[i - 1] /\ s[j - 1] < s[i - 1]
      BY <1>1, <1>4, <2>1, <3>1
    <3> QED
      BY <2>1, <3>2
  <2> QED
    BY <2>2, <2>3
<1>7. 1 + len \in Nat
  OBVIOUS
<1> HIDE DEF U
<1>8. IsDescendingList(r, U)
  BY <1>4, <1>5, <1>6, <1>7 DEF IsDescendingList
<1> QED
  BY <1>8 DEF r, U
=============================================================================
