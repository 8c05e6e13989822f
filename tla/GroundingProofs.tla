--------------------------- MODULE GroundingProofs ---------------------------
(***************************************************************************)
(* Proofs about Grounding: sorting and filtering, the tree and its pages,  *)
(* the fusion of the rankings, and the budgets.                            *)
(***************************************************************************)
EXTENDS Grounding, LoopLemmas, FiniteSetTheorems, SequenceTheorems

-----------------------------------------------------------------------------
(* Sorting.                                                                *)

StrictOrder(R, S) ==
    /\ \A x \in S : <<x, x>> \notin R
    /\ \A x, y, z \in S : <<x, y>> \in R /\ <<y, z>> \in R => <<x, z>> \in R
    /\ \A x, y \in S : x = y \/ <<x, y>> \in R \/ <<y, x>> \in R

Rank(R, S, p) == Cardinality({r \in S : <<r, p>> \in R})

\* A list of S in the order R, without repetitions.
Sorted(list, R, S) ==
    /\ list \in [1..Cardinality(S) -> S]
    /\ \A p \in S : \E k \in 1..Cardinality(S) : list[k] = p
    /\ \A i, j \in 1..Cardinality(S) : i < j => <<list[i], list[j]>> \in R

LEMMA RankGrows ==
    ASSUME NEW S, IsFiniteSet(S), NEW R, StrictOrder(R, S)
    PROVE  /\ \A p \in S : Rank(R, S, p) \in 0..(Cardinality(S) - 1)
           /\ \A p, q \in S : <<p, q>> \in R => Rank(R, S, p) < Rank(R, S, q)
<1> DEFINE before(p) == {r \in S : <<r, p>> \in R}
<1>1. ASSUME NEW p \in S
      PROVE  /\ IsFiniteSet(before(p)) /\ Cardinality(before(p)) \in Nat
             /\ Cardinality(before(p)) <= Cardinality(S) - 1
  <2>1. before(p) \in SUBSET (S \ {p})
    BY DEF StrictOrder
  <2>2. IsFiniteSet(S \ {p}) /\ Cardinality(S \ {p}) = Cardinality(S) - 1
    BY FS_RemoveElement
  <2> HIDE DEF before
  <2>3. QED
    BY <2>1, <2>2, FS_Subset, FS_CardinalityType
<1>2. ASSUME NEW p \in S, NEW q \in S, <<p, q>> \in R
      PROVE  Cardinality(before(p)) < Cardinality(before(q))
  <2>1. before(p) \in SUBSET (before(q) \ {p}) /\ p \in before(q)
    BY <1>2 DEF StrictOrder
  <2>2. IsFiniteSet(before(q)) /\ Cardinality(before(q)) \in Nat /\ Cardinality(before(p)) \in Nat
    BY <1>1
  <2> HIDE DEF before
  <2>3. IsFiniteSet(before(q) \ {p}) /\ Cardinality(before(q) \ {p}) = Cardinality(before(q)) - 1
    BY <2>1, <2>2, FS_RemoveElement
  <2>4. Cardinality(before(p)) <= Cardinality(before(q) \ {p})
    BY <2>1, <2>3, FS_Subset
  <2>5. QED
    BY <2>2, <2>3, <2>4
<1>3. Cardinality(S) \in Nat
  BY FS_CardinalityType
<1>4. QED
  <2>1. \A p : Rank(R, S, p) = Cardinality(before(p))
    BY DEF Rank
  <2> HIDE DEF before
  <2>2. QED
    BY <1>1, <1>2, <1>3, <2>1

LEMMA RanksAreUnique ==
    ASSUME NEW S, IsFiniteSet(S), NEW R, StrictOrder(R, S)
    PROVE  \A p, q \in S : Rank(R, S, p) = Rank(R, S, q) => p = q
<1> DEFINE rank == [p \in S |-> Rank(R, S, p)]
<1>1. rank \in [S -> Nat] /\ \A p \in S : rank[p] = Rank(R, S, p)
  BY RankGrows, FS_CardinalityType
<1>2. \A p, q \in S : <<p, q>> \in R => rank[p] < rank[q]
  BY RankGrows
<1>3. \A p, q \in S : p = q \/ <<p, q>> \in R \/ <<q, p>> \in R
  BY DEF StrictOrder
<1> HIDE DEF rank
<1>4. ASSUME NEW p \in S, NEW q \in S, rank[p] = rank[q]
      PROVE  p = q
  <2>1. rank[p] \in Nat /\ ~(rank[p] < rank[q]) /\ ~(rank[q] < rank[p])
    BY <1>1, <1>4
  <2>2. QED
    BY <1>2, <1>3, <2>1
<1>5. QED
  BY <1>1, <1>4

\* For each place there is a member with as many before it.
LEMMA RanksAreDense ==
    ASSUME NEW S, IsFiniteSet(S), NEW R, StrictOrder(R, S), NEW k \in 1..Cardinality(S)
    PROVE  \E p \in S : Rank(R, S, p) = k - 1
<1> DEFINE n == Cardinality(S)
           rank == [p \in S |-> Rank(R, S, p)]
           T == (0..(n - 1)) \ {k - 1}
<1>1. n \in Nat /\ k \in 1..n
  BY FS_CardinalityType
<1>2. SUFFICES ASSUME \A p \in S : Rank(R, S, p) # k - 1 PROVE FALSE
  OBVIOUS
<1>3. rank \in [S -> T]
  BY <1>2, RankGrows
<1>4. \A p, q \in S : rank[p] = rank[q] => p = q
  BY RanksAreUnique
<1> HIDE DEF rank, n
<1>5. IsFiniteSet(0..(n - 1)) /\ Cardinality(0..(n - 1)) = n
  <2>1. \A a, b \in Int : /\ IsFiniteSet(a..b)
                          /\ Cardinality(a..b) = IF a > b THEN 0 ELSE b - a + 1
    BY FS_Interval
  <2>2. QED
    BY <1>1, <2>1
<1>6. IsFiniteSet(T) /\ Cardinality(T) = n - 1
  <2>1. k - 1 \in 0..(n - 1)
    BY <1>1
  <2>2. QED
    BY <1>5, <2>1, FS_RemoveElement
<1>7. Cardinality(T) < Cardinality(S)
  BY <1>1, <1>6 DEF n
<1> HIDE DEF T
<1>8. \E x, y \in S : x # y /\ rank[x] = rank[y]
  BY <1>3, <1>6, <1>7, FS_PigeonHole
<1>9. QED
  BY <1>4, <1>8

\* A list whose k-th member has k - 1 members before it is sorted.
LEMMA RankedIsSorted ==
    ASSUME NEW S, IsFiniteSet(S), NEW R, StrictOrder(R, S), NEW list,
           \A k \in 1..Cardinality(S) : list[k] \in S /\ Rank(R, S, list[k]) = k - 1
    PROVE  Sorted([k \in 1..Cardinality(S) |-> list[k]], R, S)
<1> DEFINE n == Cardinality(S)
           rank == [p \in S |-> Rank(R, S, p)]
           sorted == [k \in 1..n |-> list[k]]
<1>1. n \in Nat
  BY FS_CardinalityType
<1>2. rank \in [S -> Nat] /\ \A p \in S : rank[p] < n
  BY <1>1, RankGrows
<1>3. \A p, q \in S : rank[p] = rank[q] => p = q
  BY RanksAreUnique
<1>4. \A p, q \in S : <<p, q>> \in R => rank[p] < rank[q]
  BY RankGrows
<1>5. \A p, q \in S : p = q \/ <<p, q>> \in R \/ <<q, p>> \in R
  BY DEF StrictOrder
<1>6. /\ sorted \in [1..n -> S]
      /\ \A k \in 1..n : rank[sorted[k]] = k - 1
  OBVIOUS
<1> HIDE DEF rank, n, sorted
<1>7. ASSUME NEW p \in S
      PROVE  \E k \in 1..n : sorted[k] = p
  <2> DEFINE k == rank[p] + 1
  <2>1. k \in 1..n /\ k - 1 = rank[p]
    BY <1>1, <1>2
  <2> HIDE DEF k
  <2>2. sorted[k] \in S /\ rank[sorted[k]] = rank[p]
    BY <1>6, <2>1
  <2>3. QED
    BY <1>3, <2>1, <2>2
<1>8. ASSUME NEW i \in 1..n, NEW j \in 1..n, i < j
      PROVE  <<sorted[i], sorted[j]>> \in R
  <2>1. /\ sorted[i] \in S /\ sorted[j] \in S
        /\ rank[sorted[i]] = i - 1 /\ rank[sorted[j]] = j - 1
    BY <1>6
  <2>2. ~(rank[sorted[j]] < rank[sorted[i]]) /\ sorted[i] # sorted[j]
    BY <1>1, <1>8, <2>1
  <2>3. QED
    BY <1>4, <1>5, <2>1, <2>2
<1>9. QED
  BY <1>6, <1>7, <1>8 DEF Sorted, n, sorted

\* The places of a filtered list, in order.
Increasing(o, places) ==
    /\ o \in [1..Cardinality(places) -> places]
    /\ \A p \in places : \E k \in 1..Cardinality(places) : o[k] = p
    /\ \A i, j \in 1..Cardinality(places) : i < j => o[i] < o[j]

LEMMA PlacesInOrder ==
    ASSUME NEW places \in SUBSET Int, IsFiniteSet(places)
    PROVE  Increasing(InOrder(places, <), places)
<1> DEFINE R == {e \in places \X places : e[1] < e[2]}
           list == InOrder(places, <)
           n == Cardinality(places)
<1>1. \A x, y \in places : <<x, y>> \in R <=> x < y
  OBVIOUS
<1>2. StrictOrder(R, places)
  BY <1>1 DEF StrictOrder
<1> HIDE DEF R
<1>3. \A p \in places : Rank(R, places, p) = Cardinality({r \in places : r < p})
  <2>1. ASSUME NEW p \in places
        PROVE  {r \in places : <<r, p>> \in R} = {r \in places : r < p}
    BY <1>1
  <2>2. QED
    BY <2>1 DEF Rank
<1>4. list = [k \in 1..n |-> CHOOSE p \in places : Cardinality({r \in places : r < p}) = k - 1]
  BY DEF InOrder
<1>5. ASSUME NEW k \in 1..n
      PROVE  list[k] \in places /\ Rank(R, places, list[k]) = k - 1
  <2>1. \E p \in places : Cardinality({r \in places : r < p}) = k - 1
    <3>1. \E p \in places : Rank(R, places, p) = k - 1
      BY <1>2, RanksAreDense
    <3>2. QED
      BY <1>3, <3>1
  <2>2. list[k] = CHOOSE p \in places : Cardinality({r \in places : r < p}) = k - 1
    BY <1>4
  <2>3. list[k] \in places /\ Cardinality({r \in places : r < list[k]}) = k - 1
    BY <2>1, <2>2
  <2>4. QED
    BY <1>3, <2>3
<1>6. list = [k \in 1..n |-> list[k]]
  BY <1>4
<1> HIDE DEF list
<1>7. Sorted([k \in 1..n |-> list[k]], R, places)
  BY <1>2, <1>5, RankedIsSorted
<1>8. Sorted(list, R, places)
  BY <1>6, <1>7
<1>9. QED
  BY <1>1, <1>8 DEF Sorted, Increasing, list

LEMMA AtPlaces ==
    ASSUME NEW s, NEW places \in SUBSET Int, IsFiniteSet(places)
    PROVE  \E o : /\ Increasing(o, places)
                  /\ At(s, places) = [k \in 1..Cardinality(places) |-> s[o[k]]]
<1>1. At(s, places) = [k \in 1..Cardinality(places) |-> s[InOrder(places, <)[k]]]
  BY DEF At
<1>2. QED
  BY <1>1, PlacesInOrder

\* A filtered list is a list of the members at the places.
AllIn(s, places, T) == \A i \in places : s[i] \in T

Filtered(list, s, places, T) ==
    /\ list \in Seq(T)
    /\ Len(list) = Cardinality(places)
    /\ \A k \in 1..Cardinality(places) : \E i \in places : list[k] = s[i]
    /\ \A i \in places : \E k \in 1..Cardinality(places) : list[k] = s[i]

LEMMA AtIsSeq ==
    ASSUME NEW T, NEW s, NEW places \in SUBSET Int, IsFiniteSet(places), AllIn(s, places, T)
    PROVE  Filtered(At(s, places), s, places, T)
<1>1. PICK o : /\ Increasing(o, places)
               /\ At(s, places) = [k \in 1..Cardinality(places) |-> s[o[k]]]
  BY AtPlaces
<1>2. Cardinality(places) \in Nat
  BY FS_CardinalityType
<1>3. \A k \in 1..Cardinality(places) : s[o[k]] \in T
  BY <1>1 DEF Increasing, AllIn
<1> DEFINE n == Cardinality(places)
           list == At(s, places)
<1>4. /\ n \in Nat /\ list = [k \in 1..n |-> s[o[k]]]
      /\ o \in [1..n -> places] /\ \A p \in places : \E k \in 1..n : o[k] = p
      /\ \A k \in 1..n : s[o[k]] \in T
  BY <1>1, <1>2, <1>3 DEF Increasing
<1> HIDE DEF n, list
<1>5. list \in Seq(T) /\ Len(list) = n
  <2>1. list \in [1..n -> T]
    BY <1>4
  <2>2. QED
    BY <1>4, <2>1, SeqDef
<1>6. /\ \A k \in 1..n : \E i \in places : list[k] = s[i]
      /\ \A i \in places : \E k \in 1..n : list[k] = s[i]
  BY <1>4
<1>7. QED
  BY <1>5, <1>6 DEF n, list, Filtered

-----------------------------------------------------------------------------
(* Sums.                                                                   *)

Sums(s, f) ==
    /\ f \in [0..Len(s) -> Int]
    /\ f[0] = 0
    /\ \A i \in 1..Len(s) : f[i] = f[i - 1] + s[i]
    /\ TotalOf(s) = f[Len(s)]

LEMMA SumsUp ==
    ASSUME NEW s \in Seq(Int)
    PROVE  \E f : Sums(s, f)
<1> DEFINE n == Len(s)
           add == [i \in 1..n |-> [a \in Int |-> a + s[i]]]
           Is(f) == f = [i \in 0..n |-> IF i = 0 THEN 0 ELSE f[i - 1] + s[i]]
           sum == CHOOSE f : Is(f)
<1>1. n \in Nat /\ \A i \in 1..n : s[i] \in Int
  OBVIOUS
<1>2. TotalOf(s) = sum[n]
  BY DEF TotalOf
<1>3. add \in [1..n -> [Int -> Int]]
  BY <1>1
<1>4. \A i \in 1..n, a \in Int : add[i][a] = a + s[i]
  OBVIOUS
<1> HIDE DEF add
<1>5. PICK run \in [0..n -> Int] :
          run = [i \in 0..n |-> IF i = 0 THEN 0 ELSE add[i][run[i - 1]]]
  <2> DEFINE S == Int  zero == 0
  <2>1. zero \in S /\ add \in [1..n -> [S -> S]]
    BY <1>3
  <2> HIDE DEF S, zero
  <2>2. HasRun(n, S, zero, add)
    BY <1>1, <2>1, LoopOver
  <2>3. QED
    BY <2>2 DEF HasRun, S, zero
<1>6. Is(run)
  <2>1. ASSUME NEW i \in 0..n, i # 0
        PROVE  run[i] = run[i - 1] + s[i]
    <3>1. i \in 1..n /\ i - 1 \in 0..n
      BY <1>1, <2>1
    <3>2. run[i] = add[i][run[i - 1]]
      BY <1>5, <2>1
    <3>3. QED
      BY <1>4, <3>1, <3>2
  <2>2. run[0] = 0
    BY <1>1, <1>5
  <2>3. QED
    BY <1>5, <2>1, <2>2
<1>7. Is(sum)
  BY <1>6
<1> HIDE DEF sum
<1>8. sum[0] = 0 /\ \A i \in 1..n : sum[i] = sum[i - 1] + s[i]
  BY <1>1, <1>7
<1>9. 0..n \subseteq {i \in 0..n : sum[i] \in Int}
  <2> DEFINE U == {i \in 0..n : sum[i] \in Int}
  <2>1. 0 \in U
    BY <1>1, <1>8
  <2>2. \A i \in 0..(n - 1) : i \in U => i + 1 \in U
    BY <1>1, <1>8
  <2> HIDE DEF U
  <2>3. 0..n \subseteq U
    BY <1>1, <2>1, <2>2, CountTo
  <2>4. QED
    BY <2>3 DEF U
<1>10. sum \in [0..n -> Int]
  BY <1>7, <1>9
<1>11. Sums(s, sum)
  BY <1>2, <1>8, <1>10 DEF Sums
<1>12. QED
  BY <1>11

LEMMA SumGrowsWithMembers ==
    ASSUME NEW s \in Seq(Int), NEW t \in Seq(Int), Len(s) = Len(t),
           \A i \in 1..Len(s) : s[i] <= t[i]
    PROVE  TotalOf(s) <= TotalOf(t)
<1> DEFINE n == Len(s)
<1>1. n \in Nat /\ \A i \in 1..n : s[i] \in Int /\ t[i] \in Int /\ s[i] <= t[i]
  OBVIOUS
<1>2. PICK f : f \in [0..n -> Int] /\ f[0] = 0 /\ (\A i \in 1..n : f[i] = f[i - 1] + s[i])
               /\ TotalOf(s) = f[n]
  BY SumsUp DEF Sums
<1>3. PICK g : g \in [0..n -> Int] /\ g[0] = 0 /\ (\A i \in 1..n : g[i] = g[i - 1] + t[i])
               /\ TotalOf(t) = g[n]
  BY SumsUp DEF Sums
<1> HIDE DEF n
<1> DEFINE U == {i \in 0..n : f[i] <= g[i]}
<1>4. 0 \in U
  BY <1>1, <1>2, <1>3
<1>5. ASSUME NEW i \in 0..(n - 1), i \in U
      PROVE  i + 1 \in U
  <2>1. i \in 0..n /\ i + 1 \in 1..n /\ (i + 1) - 1 = i
    BY <1>1
  <2>2. f[i + 1] = f[i] + s[i + 1] /\ g[i + 1] = g[i] + t[i + 1]
    BY <1>2, <1>3, <2>1
  <2>3. f[i] \in Int /\ g[i] \in Int /\ s[i + 1] \in Int /\ t[i + 1] \in Int
    BY <1>1, <1>2, <1>3, <2>1
  <2>4. f[i] <= g[i] /\ s[i + 1] <= t[i + 1]
    BY <1>1, <1>5, <2>1
  <2>5. f[i + 1] <= g[i + 1]
    BY <2>2, <2>3, <2>4
  <2>6. QED
    BY <2>1, <2>5
<1> HIDE DEF U
<1>6. 0..n \subseteq U
  BY <1>1, <1>4, <1>5, CountTo
<1>7. QED
  BY <1>1, <1>2, <1>3, <1>6 DEF U

\* A sum of n members that are at most b is at most n * b, and natural numbers
\* have a natural sum.
AllAtMost(s, b) == \A i \in 1..Len(s) : s[i] <= b

LEMMA SumAtMost ==
    ASSUME NEW s \in Seq(Int), NEW b \in Int, AllAtMost(s, b)
    PROVE  TotalOf(s) \in Int /\ TotalOf(s) <= Len(s) * b
<1> DEFINE n == Len(s)
<1>1. n \in Nat /\ \A i \in 1..n : s[i] \in Int /\ s[i] <= b
  BY DEF AllAtMost
<1>2. PICK f : f \in [0..n -> Int] /\ f[0] = 0 /\ (\A i \in 1..n : f[i] = f[i - 1] + s[i])
               /\ TotalOf(s) = f[n]
  BY SumsUp DEF Sums
<1> HIDE DEF n
<1> DEFINE U == {i \in 0..n : f[i] <= i * b}
<1>4. 0 \in U
  BY <1>1, <1>2
<1>5. ASSUME NEW i \in 0..(n - 1), i \in U
      PROVE  i + 1 \in U
  <2>1. i \in 0..n /\ i + 1 \in 1..n /\ (i + 1) - 1 = i /\ i \in Int
    BY <1>1
  <2>2. f[i + 1] = f[i] + s[i + 1] /\ f[i] \in Int /\ s[i + 1] \in Int
    BY <1>1, <1>2, <2>1
  <2>3. f[i] <= i * b /\ s[i + 1] <= b
    BY <1>1, <1>5, <2>1
  <2>4. (i + 1) * b = i * b + b /\ i * b \in Int
    BY <2>1
  <2>5. f[i + 1] <= (i + 1) * b
    BY <2>2, <2>3, <2>4
  <2>6. QED
    BY <2>1, <2>5
<1> HIDE DEF U
<1>6. 0..n \subseteq U
  BY <1>1, <1>4, <1>5, CountTo
<1>7. QED
  BY <1>1, <1>2, <1>6 DEF U, n

LEMMA SumIsInt ==
    ASSUME NEW s \in Seq(Int)
    PROVE  TotalOf(s) \in Int
<1>1. PICK f : Sums(s, f)
  BY SumsUp
<1>2. Len(s) \in 0..Len(s)
  OBVIOUS
<1>3. QED
  BY <1>1, <1>2 DEF Sums

LEMMA SumIsNat ==
    ASSUME NEW s \in Seq(Nat)
    PROVE  TotalOf(s) \in Nat
<1> DEFINE n == Len(s)
<1>1. n \in Nat /\ s \in Seq(Int) /\ \A i \in 1..n : s[i] \in Nat
  OBVIOUS
<1>2. PICK f : f \in [0..n -> Int] /\ f[0] = 0 /\ (\A i \in 1..n : f[i] = f[i - 1] + s[i])
               /\ TotalOf(s) = f[n]
  BY <1>1, SumsUp DEF Sums
<1> HIDE DEF n
<1> DEFINE U == {i \in 0..n : f[i] \in Nat}
<1>3. 0 \in U
  BY <1>1, <1>2
<1>4. ASSUME NEW i \in 0..(n - 1), i \in U
      PROVE  i + 1 \in U
  <2>1. i \in 0..n /\ i + 1 \in 1..n /\ (i + 1) - 1 = i
    BY <1>1
  <2>2. f[i + 1] = f[i] + s[i + 1] /\ f[i] \in Nat /\ s[i + 1] \in Nat
    BY <1>1, <1>2, <1>4, <2>1
  <2>3. f[i + 1] \in Nat
    BY <2>2
  <2>4. QED
    BY <2>1, <2>3
<1> HIDE DEF U
<1>5. 0..n \subseteq U
  BY <1>1, <1>3, <1>4, CountTo
<1>6. QED
  BY <1>1, <1>2, <1>5 DEF U

LEMMA SumOfNone == TotalOf(<<>>) = 0
<1>1. <<>> \in Seq(Int) /\ Len(<<>>) = 0
  OBVIOUS
<1>2. PICK f : Sums(<<>>, f)
  BY <1>1, SumsUp
<1>3. QED
  BY <1>1, <1>2 DEF Sums

LEMMA SumOfConcat ==
    ASSUME NEW s \in Seq(Int), NEW t \in Seq(Int)
    PROVE  TotalOf(s \o t) = TotalOf(s) + TotalOf(t)
<1> DEFINE m == Len(s)
           n == Len(t)
           u == s \o t
<1>1. /\ m \in Nat /\ n \in Nat /\ u \in Seq(Int) /\ Len(u) = m + n
      /\ \A i \in 1..m : u[i] = s[i] /\ s[i] \in Int
      /\ \A i \in 1..n : u[m + i] = t[i] /\ t[i] \in Int
  BY ConcatProperties
<1>2. PICK f : f \in [0..m -> Int] /\ f[0] = 0 /\ (\A i \in 1..m : f[i] = f[i - 1] + s[i])
               /\ TotalOf(s) = f[m]
  BY SumsUp DEF Sums
<1>3. PICK g : g \in [0..n -> Int] /\ g[0] = 0 /\ (\A i \in 1..n : g[i] = g[i - 1] + t[i])
               /\ TotalOf(t) = g[n]
  BY SumsUp DEF Sums
<1>4. PICK h : h \in [0..(m + n) -> Int] /\ h[0] = 0
               /\ (\A i \in 1..(m + n) : h[i] = h[i - 1] + u[i])
               /\ TotalOf(u) = h[m + n]
  BY <1>1, SumsUp DEF Sums
<1> HIDE DEF m, n, u
<1> DEFINE U == {i \in 0..m : h[i] = f[i]}
           V == {i \in 0..n : h[m + i] = f[m] + g[i]}
<1>5. 0..m \subseteq U
  <2>1. 0 \in U
    BY <1>1, <1>2, <1>4
  <2>2. ASSUME NEW i \in 0..(m - 1), i \in U
        PROVE  i + 1 \in U
    <3>1. i \in 0..m /\ i + 1 \in 1..m /\ (i + 1) - 1 = i /\ i + 1 \in 1..(m + n)
      BY <1>1
    <3>2. f[i + 1] = f[i] + s[i + 1] /\ h[i + 1] = h[i] + u[i + 1] /\ u[i + 1] = s[i + 1]
      BY <1>1, <1>2, <1>4, <3>1
    <3>3. QED
      BY <2>2, <3>1, <3>2
  <2> HIDE DEF U
  <2>3. QED
    BY <1>1, <2>1, <2>2, CountTo
<1>6. h[m] = f[m] /\ f[m] \in Int
  BY <1>1, <1>2, <1>5
<1>7. 0..n \subseteq V
  <2>1. 0 \in V
    BY <1>1, <1>3, <1>6
  <2>2. ASSUME NEW i \in 0..(n - 1), i \in V
        PROVE  i + 1 \in V
    <3>1. /\ i \in 0..n /\ i + 1 \in 1..n /\ (i + 1) - 1 = i
          /\ m + (i + 1) \in 1..(m + n) /\ (m + (i + 1)) - 1 = m + i
      BY <1>1
    <3>2. /\ g[i + 1] = g[i] + t[i + 1] /\ h[m + (i + 1)] = h[m + i] + u[m + (i + 1)]
          /\ u[m + (i + 1)] = t[i + 1]
      BY <1>1, <1>3, <1>4, <3>1
    <3>3. h[m + i] = f[m] + g[i] /\ g[i] \in Int /\ t[i + 1] \in Int
      BY <1>1, <1>3, <2>2, <3>1
    <3>4. h[m + (i + 1)] = f[m] + g[i + 1]
      BY <1>6, <3>2, <3>3
    <3>5. QED
      BY <3>1, <3>4
  <2> HIDE DEF V
  <2>3. QED
    BY <1>1, <2>1, <2>2, CountTo
<1>8. QED
  BY <1>1, <1>2, <1>3, <1>4, <1>7 DEF u

LEMMA SumOfOne ==
    ASSUME NEW a \in Int
    PROVE  TotalOf(<<a>>) = a
<1>1. <<a>> \in Seq(Int) /\ Len(<<a>>) = 1 /\ <<a>>[1] = a
  OBVIOUS
<1>2. PICK f : Sums(<<a>>, f)
  BY <1>1, SumsUp
<1>3. f[0] = 0 /\ f[1] = f[1 - 1] + <<a>>[1] /\ TotalOf(<<a>>) = f[1]
  BY <1>1, <1>2 DEF Sums
<1>4. QED
  BY <1>1, <1>3

LEMMA SumOfAppend ==
    ASSUME NEW s \in Seq(Int), NEW a \in Int
    PROVE  TotalOf(Append(s, a)) = TotalOf(s) + a
<1>1. Append(s, a) = s \o <<a>> /\ <<a>> \in Seq(Int)
  BY AppendIsConcat
<1>2. QED
  BY <1>1, SumOfConcat, SumOfOne

-----------------------------------------------------------------------------
(* The least and the greatest.                                             *)

LEMMA MaxIs ==
    ASSUME NEW S \in SUBSET Int, NEW x \in S, \A y \in S : y <= x
    PROVE  Max(S) = x
<1>1. \A m \in S : (\A y \in S : m >= y) => m = x
  OBVIOUS
<1>2. \A y \in S : x >= y
  OBVIOUS
<1>3. Max(S) = CHOOSE m \in S : \A y \in S : m >= y
  BY DEF Max
<1>4. QED
  BY <1>1, <1>2, <1>3

LEMMA MinIs ==
    ASSUME NEW S \in SUBSET Int, NEW x \in S, \A y \in S : x <= y
    PROVE  Min(S) = x
<1>1. \A m \in S : (\A y \in S : m =< y) => m = x
  OBVIOUS
<1>2. Min(S) = CHOOSE m \in S : \A y \in S : m =< y
  BY DEF Min
<1>3. QED
  BY <1>1, <1>2

LEMMA MaxOfPlaces ==
    ASSUME NEW n \in Nat, NEW S \in SUBSET (0..n), S # {}
    PROVE  Max(S) \in S /\ \A y \in S : y <= Max(S)
<1> DEFINE T == {n - x : x \in S}
<1>1. T \in SUBSET Nat /\ T # {}
  <2>1. \A x \in S : x \in 0..n /\ n - x \in Nat
    OBVIOUS
  <2>2. QED
    BY <2>1
<1>2. PICK t \in T : \A u \in T : t <= u
  BY <1>1, LeastNat
<1>3. PICK x \in S : t = n - x
  BY <1>2
<1>4. \A y \in S : y <= x
  BY <1>2, <1>3
<1>5. S \in SUBSET Int
  OBVIOUS
<1>6. QED
  BY <1>3, <1>4, <1>5, MaxIs

LEMMA MinOfNats ==
    ASSUME NEW S \in SUBSET Nat, S # {}
    PROVE  Min(S) \in S /\ \A y \in S : Min(S) <= y
<1>1. PICK x \in S : \A y \in S : x <= y
  BY LeastNat
<1>2. S \in SUBSET Int
  OBVIOUS
<1>3. QED
  BY <1>1, <1>2, MinIs

-----------------------------------------------------------------------------
(* The tree of a paper.                                                    *)

Entries == [level : Nat, page : Int]
Outlines == Seq(Entries)

LEMMA FunIsSeq ==
    ASSUME NEW S, NEW n \in Nat, NEW f \in [1..n -> S]
    PROVE  f \in Seq(S) /\ Len(f) = n /\ DOMAIN f = 1..n
BY SeqDef

LEMMA LevelIsNat ==
    ASSUME NEW marks \in Outlines, NEW j \in 1..Len(marks)
    PROVE  NodeLevel(marks[j]) \in Nat /\ marks[j].page \in Int
<1>1. marks[j] \in Entries
  BY ElementOfSeq DEF Outlines
<1>2. marks[j].level \in Nat /\ marks[j].page \in Int
  BY <1>1 DEF Entries
<1>3. QED
  BY <1>2 DEF NodeLevel, Larger

\* After n entries: each is followed, or is itself, a node that is open and not
\* on a lower level; and the parents are right.
Nested(marks, n, state) ==
    /\ state.stack \in Seq(1..n)
    /\ \A a, b \in 1..Len(state.stack) : a < b => state.stack[a] < state.stack[b]
    /\ \A j \in 1..n :
          \E a \in 1..Len(state.stack) :
              /\ state.stack[a] >= j
              /\ NodeLevel(marks[state.stack[a]]) <= NodeLevel(marks[j])
    /\ state.parent \in Seq(Nat) /\ Len(state.parent) = n
    /\ \A j \in 1..n : state.parent[j] = NearestAbove(marks, j)

\* The last open node above a new one is the last node above it.
LEMMA LastOpenAbove ==
    ASSUME NEW m \in Nat, NEW n \in Nat, NEW stack \in [1..n -> 1..m],
           NEW L \in [1..(m + 1) -> Nat],
           \A a, b \in 1..n : a < b => stack[a] < stack[b],
           \A j \in 1..m : \E a \in 1..n : stack[a] >= j /\ L[stack[a]] <= L[j],
           NEW k \in 0..n, \A a \in 1..n : L[stack[a]] < L[m + 1] => a <= k,
           NEW j \in 1..m, L[j] < L[m + 1]
    PROVE  k # 0 /\ j <= stack[k]
<1>1. PICK a \in 1..n : stack[a] >= j /\ L[stack[a]] <= L[j]
  OBVIOUS
<1>2. stack[a] \in 1..(m + 1) /\ j \in 1..(m + 1) /\ m + 1 \in 1..(m + 1)
  OBVIOUS
<1>3. L[stack[a]] < L[m + 1]
  <2> DEFINE x == L[stack[a]]  y == L[j]  z == L[m + 1]
  <2>1. x \in Nat /\ y \in Nat /\ z \in Nat
    BY <1>2
  <2>2. x <= y /\ y < z
    BY <1>1
  <2> HIDE DEF x, y, z
  <2>3. x < z
    BY <2>1, <2>2
  <2>4. QED
    BY <2>3 DEF x, z
<1>4. a <= k /\ k \in 1..n
  BY <1>3
<1> DEFINE x == stack[a]  y == stack[k]
<1>5. x \in Int /\ y \in Int /\ j <= x
  BY <1>1, <1>4
<1>6. x = y \/ x < y
  <2>1. CASE a = k
    BY <2>1
  <2>2. CASE a # k
    BY <1>4, <2>2
  <2>3. QED
    BY <2>1, <2>2
<1> HIDE DEF x, y
<1>7. k # 0 /\ j <= y
  BY <1>4, <1>5, <1>6
<1>8. QED
  BY <1>7 DEF y

\* What stays open below a new node, and the last of it.
LEMMA PopsToNearest ==
    ASSUME NEW marks \in Outlines, NEW i \in 1..Len(marks), NEW state,
           Nested(marks, i - 1, state)
    PROVE  LET open == PopTo(marks, state.stack, i)
           IN  /\ open \in Seq(1..(i - 1)) /\ Len(open) <= Len(state.stack)
               /\ \A a \in 1..Len(open) : open[a] = state.stack[a]
               /\ \A a \in 1..Len(state.stack) :
                     a > Len(open) => NodeLevel(marks[i]) <= NodeLevel(marks[state.stack[a]])
               /\ NearestAbove(marks, i) = IF open = <<>> THEN 0 ELSE Last(open)
<1> DEFINE stack == state.stack
           m == i - 1
           n == Len(stack)
           L == [j \in 1..(m + 1) |-> NodeLevel(marks[j])]
           above == {a \in 1..n : L[stack[a]] < L[i]}
           k == Max(above \cup {0})
           open == SubSeq(stack, 1, k)
<1>1. m \in Nat /\ m + 1 = i /\ \A j \in 1..(m + 1) : j \in 1..Len(marks)
  BY DEF Outlines
<1>2. stack \in Seq(1..m) /\ n \in Nat /\ DOMAIN stack = 1..n /\ stack \in [1..n -> 1..m]
  BY DEF Nested
<1>3. \A a, b \in 1..n : a < b => stack[a] < stack[b]
  BY DEF Nested
<1>4. L \in [1..(m + 1) -> Nat] /\ \A j \in 1..(m + 1) : NodeLevel(marks[j]) = L[j]
  BY <1>1, LevelIsNat
<1>5. \A j \in 1..m : \E a \in 1..n : stack[a] >= j /\ NodeLevel(marks[stack[a]]) <= NodeLevel(marks[j])
  BY DEF Nested
<1> HIDE DEF L, n, stack, m
<1>6. \A a \in 1..n : stack[a] \in 1..m /\ stack[a] \in 1..(m + 1)
  BY <1>1, <1>2
<1>7. \A j \in 1..m : \E a \in 1..n : stack[a] >= j /\ L[stack[a]] <= L[j]
  <2>1. \A j \in 1..m : j \in 1..(m + 1)
    BY <1>1
  <2>2. QED
    BY <1>4, <1>5, <1>6, <2>1
<1>8. PopTo(marks, stack, i) = open
  <2>1. i \in 1..(m + 1)
    BY <1>1
  <2>2. {a \in DOMAIN stack : NodeLevel(marks[stack[a]]) < NodeLevel(marks[i])} = above
    BY <1>2, <1>4, <1>6, <2>1
  <2> HIDE DEF above
  <2>3. QED
    BY <2>2 DEF PopTo
<1>9. k \in above \cup {0} /\ \A a \in above : a <= k
  <2>1. above \cup {0} \in SUBSET (0..n) /\ above \cup {0} # {}
    BY <1>2
  <2> HIDE DEF above
  <2>2. QED
    BY <1>2, <2>1, MaxOfPlaces
<1> HIDE DEF k
<1>10. k \in 0..n /\ (k # 0 => k \in 1..n /\ L[stack[k]] < L[i])
  BY <1>2, <1>9
<1>11. \A a \in 1..n : L[stack[a]] < L[m + 1] => a <= k
  BY <1>1, <1>9
<1> HIDE DEF above
<1>12. /\ open \in Seq(1..m) /\ Len(open) = k
       /\ \A a \in 1..k : open[a] = stack[a]
  <2>1. 1 \in Int /\ k \in Int /\ \A a \in 1..k : stack[a] \in 1..m
    BY <1>2, <1>10
  <2>2. /\ open \in Seq(1..m) /\ Len(open) = IF 1 <= k THEN k - 1 + 1 ELSE 0
        /\ \A a \in 1..(k - 1 + 1) : open[a] = stack[1 + a - 1]
    BY <2>1, SubSeqProperties
  <2>3. k \in Nat /\ k - 1 + 1 = k /\ \A a \in 1..k : 1 + a - 1 = a
    BY <1>2, <1>10
  <2> HIDE DEF open
  <2>4. QED
    BY <2>2, <2>3
<1> HIDE DEF open
<1> DEFINE higher == {j \in 1..m : L[j] < L[m + 1]}
           nearest == IF k = 0 THEN 0 ELSE stack[k]
<1>13. NearestAbove(marks, i) = Max({0} \cup higher)
  <2>1. \A j \in 1..m : j \in 1..(m + 1)
    BY <1>1
  <2>2. {j \in 1..m : NodeLevel(marks[j]) < NodeLevel(marks[m + 1])} = higher
    BY <1>1, <1>4, <2>1
  <2> HIDE DEF higher
  <2>3. QED
    BY <1>1, <2>2 DEF NearestAbove, m
<1>14. \A j \in higher : k # 0 /\ j <= stack[k]
  BY <1>1, <1>2, <1>3, <1>4, <1>7, <1>10, <1>11, LastOpenAbove
<1>15. nearest \in {0} \cup higher
  BY <1>1, <1>6, <1>10
<1>16. \A j \in {0} \cup higher : j <= nearest
  <2>1. k # 0 => stack[k] \in 1..m
    BY <1>6, <1>10
  <2> HIDE DEF higher
  <2>2. QED
    BY <1>1, <1>14, <2>1
<1>17. NearestAbove(marks, i) = nearest
  <2>1. {0} \cup higher \in SUBSET Int
    BY <1>1
  <2> HIDE DEF higher, nearest
  <2>2. QED
    BY <1>13, <1>15, <1>16, <2>1, MaxIs
<1>18. nearest = IF open = <<>> THEN 0 ELSE Last(open)
  <2>1. open = <<>> <=> k = 0
    BY <1>12
  <2>2. k # 0 => Last(open) = stack[k]
    BY <1>2, <1>10, <1>12 DEF Last
  <2>3. QED
    BY <2>1, <2>2
<1>19. \A a \in 1..n : a > k => NodeLevel(marks[i]) <= NodeLevel(marks[stack[a]])
  <2>1. ASSUME NEW a \in 1..n, a > k
        PROVE  L[i] <= L[stack[a]]
    <3>1. ~(L[stack[a]] < L[m + 1])
      BY <1>2, <1>10, <1>11, <2>1
    <3>2. L[stack[a]] \in Nat /\ L[i] \in Nat
      BY <1>1, <1>4, <1>6
    <3>3. QED
      BY <1>1, <3>1, <3>2
  <2>2. i \in 1..(m + 1)
    BY <1>1
  <2>3. QED
    BY <1>4, <1>6, <2>1, <2>2
<1> HIDE DEF nearest
<1>20. k <= n
  BY <1>2, <1>10
<1>21. QED
  BY <1>8, <1>12, <1>17, <1>18, <1>19, <1>20 DEF stack, n, m

LEMMA NestKeeps ==
    ASSUME NEW marks \in Outlines, NEW i \in 1..Len(marks), NEW state,
           Nested(marks, i - 1, state)
    PROVE  Nested(marks, i, Nest(marks, state, i))
<1> DEFINE old == state.stack
           open == PopTo(marks, old, i)
           k == Len(open)
           new == Append(open, i)
           parent == Append(state.parent, IF open = <<>> THEN 0 ELSE Last(open))
           level(j) == NodeLevel(marks[j])
<1>1. Nest(marks, state, i) = [stack |-> new, parent |-> parent]
  BY DEF Nest
<1>2. /\ open \in Seq(1..(i - 1)) /\ k <= Len(old)
      /\ \A a \in 1..k : open[a] = old[a]
      /\ \A a \in 1..Len(old) : a > k => level(i) <= level(old[a])
      /\ NearestAbove(marks, i) = IF open = <<>> THEN 0 ELSE Last(open)
  BY PopsToNearest
<1>3. /\ old \in Seq(1..(i - 1)) /\ Len(old) \in Nat /\ i \in Nat /\ i - 1 \in Nat
      /\ \A a, b \in 1..Len(old) : a < b => old[a] < old[b]
      /\ \A j \in 1..(i - 1) : \E a \in 1..Len(old) : old[a] >= j /\ level(old[a]) <= level(j)
      /\ state.parent \in Seq(Nat) /\ Len(state.parent) = i - 1
      /\ \A j \in 1..(i - 1) : state.parent[j] = NearestAbove(marks, j)
  <2>1. i \in Nat /\ i - 1 \in Nat
    BY DEF Outlines
  <2> HIDE DEF open
  <2>2. QED
    BY <2>1 DEF Nested
<1>4. \A j \in 1..i : level(j) \in Nat
  BY LevelIsNat DEF Outlines
<1> HIDE DEF open, old, level
<1>5. /\ open \in Seq(1..i) /\ k \in Nat
      /\ \A a \in 1..Len(old) : old[a] \in 1..(i - 1) /\ old[a] \in 1..i
      /\ \A a \in 1..k : a \in 1..Len(old) /\ open[a] = old[a]
      /\ \A a \in 1..(k + 1) : a \in 1..k \/ a = k + 1
  <2>1. 1..(i - 1) \subseteq 1..i
    BY <1>3
  <2>2. open \in Seq(1..i)
    BY <1>2, <2>1, SeqMonotonic
  <2>3. \A a \in 1..Len(old) : old[a] \in 1..(i - 1)
    BY <1>3, ElementOfSeq
  <2>4. k \in Nat
    BY <2>2
  <2> HIDE DEF k, new, parent
  <2> DEFINE size == Len(old)
  <2>len. size \in Nat /\ k <= size
    BY <1>2, <1>3
  <2> HIDE DEF size
  <2>places. \A a \in 1..k : a \in 1..size
    BY <2>4, <2>len
  <2>5. \A a \in 1..k : a \in 1..Len(old) /\ open[a] = old[a]
    BY <1>2, <2>places DEF size
  <2>6. \A a \in 1..(k + 1) : a \in 1..k \/ a = k + 1
    BY <2>4
  <2>7. \A a \in 1..Len(old) : old[a] \in 1..(i - 1) /\ old[a] \in 1..i
    BY <2>1, <2>3
  <2>8. QED
    BY <2>2, <2>4, <2>5, <2>6, <2>7
<1>6. /\ new \in Seq(1..i) /\ Len(new) = k + 1 /\ new[k + 1] = i
      /\ \A a \in 1..k : new[a] = open[a]
  <2>1. i \in 1..i
    BY <1>3
  <2>2. QED
    BY <1>5, <2>1, AppendProperties
<1> HIDE DEF new, k
<1>7. ASSUME NEW a \in 1..(k + 1), NEW b \in 1..(k + 1), a < b
      PROVE  new[a] < new[b]
  <2>1. a \in 1..k /\ new[a] = old[a] /\ a \in 1..Len(old)
    <3>1. a \in 1..k
      BY <1>5, <1>7
    <3>2. QED
      BY <1>5, <1>6, <3>1
  <2>2. CASE b = k + 1
    <3>1. old[a] \in 1..(i - 1) /\ new[b] = i
      BY <1>5, <1>6, <2>1, <2>2
    <3>2. \A x \in 1..(i - 1) : x < i
      BY <1>3
    <3>3. QED
      BY <2>1, <3>1, <3>2
  <2>3. CASE b # k + 1
    <3>1. b \in 1..k /\ new[b] = old[b] /\ b \in 1..Len(old)
      <4>1. b \in 1..k
        BY <1>5, <2>3
      <4>2. QED
        BY <1>5, <1>6, <4>1
    <3>2. QED
      BY <1>3, <1>7, <2>1, <3>1
  <2>4. QED
    BY <2>2, <2>3
<1>8. ASSUME NEW j \in 1..i
      PROVE  \E a \in 1..(k + 1) : new[a] >= j /\ level(new[a]) <= level(j)
  <2>1. CASE j = i
    <3>1. k + 1 \in 1..(k + 1) /\ new[k + 1] >= j /\ level(new[k + 1]) <= level(j)
      BY <1>4, <1>5, <1>6, <2>1
    <3>2. QED
      BY <3>1
  <2>2. CASE j # i
    <3>1. j \in 1..(i - 1)
      BY <1>3, <2>2
    <3>2. PICK a \in 1..Len(old) : old[a] >= j /\ level(old[a]) <= level(j)
      BY <1>3, <3>1
    <3>3. CASE a <= k
      <4>1. a \in 1..(k + 1) /\ new[a] = old[a]
        BY <1>2, <1>5, <1>6, <3>3
      <4>2. QED
        BY <3>2, <4>1
    <3>4. CASE ~(a <= k)
      <4>1. level(i) <= level(old[a])
        BY <1>2, <1>3, <1>5, <3>4
      <4>2. level(i) \in Nat /\ level(old[a]) \in Nat /\ level(j) \in Nat
        <5>1. old[a] \in 1..i /\ i \in 1..i
          BY <1>3, <1>5
        <5>2. QED
          BY <1>4, <5>1
      <4>3. level(i) <= level(j)
        BY <3>2, <4>1, <4>2
      <4>4. k + 1 \in 1..(k + 1) /\ new[k + 1] >= j
        <5>1. k + 1 \in 1..(k + 1) /\ i >= j
          BY <1>3, <1>5
        <5>2. QED
          BY <1>6, <5>1
      <4>5. QED
        BY <1>6, <4>3, <4>4
    <3>5. QED
      BY <3>3, <3>4
  <2>3. QED
    BY <2>1, <2>2
<1>9. /\ parent \in Seq(Nat) /\ Len(parent) = i
      /\ \A j \in 1..i : parent[j] = NearestAbove(marks, j)
  <2> DEFINE p == IF open = <<>> THEN 0 ELSE Last(open)
  <2>1. p \in Nat
    <3>1. open # <<>> => Len(open) \in 1..Len(open)
      BY <1>2
    <3>2. open # <<>> => Last(open) \in 1..(i - 1)
      BY <1>2, <3>1, ElementOfSeq DEF Last
    <3>3. QED
      BY <3>2
  <2>2. p = NearestAbove(marks, i)
    BY <1>2
  <2> HIDE DEF p
  <2>3. /\ Append(state.parent, p) \in Seq(Nat)
        /\ Len(Append(state.parent, p)) = i
        /\ \A j \in 1..(i - 1) : Append(state.parent, p)[j] = state.parent[j]
        /\ Append(state.parent, p)[i] = p
    <3> DEFINE old_parent == state.parent
    <3>1. old_parent \in Seq(Nat) /\ Len(old_parent) = i - 1 /\ (i - 1) + 1 = i
      BY <1>3
    <3> HIDE DEF old_parent, parent
    <3>2. /\ Append(old_parent, p) \in Seq(Nat)
          /\ Len(Append(old_parent, p)) = Len(old_parent) + 1
          /\ \A j \in 1..Len(old_parent) : Append(old_parent, p)[j] = old_parent[j]
          /\ Append(old_parent, p)[Len(old_parent) + 1] = p
      BY <2>1, <3>1, AppendProperties
    <3>3. QED
      BY <3>1, <3>2 DEF old_parent
  <2>4. \A j \in 1..i : j \in 1..(i - 1) \/ j = i
    BY <1>3
  <2>5. parent = Append(state.parent, p)
    BY DEF p
  <2> HIDE DEF parent
  <2>6. QED
    BY <1>3, <2>2, <2>3, <2>4, <2>5
<1> HIDE DEF parent
<1> DEFINE next == [stack |-> new, parent |-> parent]
<1>10. next.stack = new /\ next.parent = parent
  OBVIOUS
<1> HIDE DEF next
<1>11. Nested(marks, i, next)
  BY <1>6, <1>7, <1>8, <1>9, <1>10 DEF Nested, level
<1>12. QED
  BY <1>1, <1>11 DEF next

LEMMA ParentsAreNearest ==
    ASSUME NEW marks \in Outlines
    PROVE  /\ Parents(marks) \in Seq(Nat) /\ Len(Parents(marks)) = Len(marks)
           /\ \A j \in 1..Len(marks) : Parents(marks)[j] = NearestAbove(marks, j)
<1> DEFINE n == Len(marks)
           first == [stack |-> <<>>, parent |-> <<>>]
           Good(i) == {s \in [stack : Seq(Nat), parent : Seq(Nat)] : Nested(marks, i, s)}
           I == [i \in 0..n |-> Good(i)]
           step == [i \in 1..n |-> [s \in Good(i - 1) |-> Nest(marks, s, i)]]
           Is(f) == f = [i \in 0..n |-> IF i = 0 THEN first ELSE Nest(marks, f[i - 1], i)]
           nest == CHOOSE f : Is(f)
<1>1. n \in Nat
  BY DEF Outlines
<1>2. Parents(marks) = nest[n].parent
  BY DEF Parents
<1>3. first \in Good(0)
  <2>1. first.stack = <<>> /\ first.parent = <<>> /\ <<>> \in Seq(1..0) /\ <<>> \in Seq(Nat)
    OBVIOUS
  <2>2. Len(<<>>) = 0 /\ 1..0 = {}
    OBVIOUS
  <2>3. first \in [stack : Seq(Nat), parent : Seq(Nat)]
    BY <2>1
  <2> HIDE DEF first
  <2>4. Nested(marks, 0, first)
    BY <2>1, <2>2 DEF Nested
  <2>5. QED
    BY <2>3, <2>4
<1>4. ASSUME NEW i \in 1..n, NEW s \in Good(i - 1)
      PROVE  Nest(marks, s, i) \in Good(i)
  <2> DEFINE t == Nest(marks, s, i)
  <2>1. Nested(marks, i, t)
    BY NestKeeps
  <2>2. t = [stack |-> t.stack, parent |-> t.parent]
    BY DEF Nest
  <2> HIDE DEF t
  <2>3. t.stack \in Seq(1..i) /\ t.parent \in Seq(Nat) /\ 1..i \subseteq Nat
    BY <2>1 DEF Nested
  <2>4. t.stack \in Seq(Nat)
    BY <2>3, SeqMonotonic
  <2>5. t \in [stack : Seq(Nat), parent : Seq(Nat)]
    BY <2>2, <2>3, <2>4
  <2>6. QED
    BY <2>1, <2>5 DEF t
<1> HIDE DEF first, Good
<1>5. /\ \A i \in 0..n : I[i] = Good(i)
      /\ \A i \in 1..n : \A s \in Good(i - 1) : step[i][s] = Nest(marks, s, i)
  OBVIOUS
<1>6. \A i \in 1..n : i - 1 \in 0..n /\ i \in 0..n
  BY <1>1
<1> HIDE DEF I, step, n
<1>7. LoopIn(n, I, first, step)
  <2>1. first \in I[0]
    BY <1>1, <1>3, <1>5
  <2>2. \A i \in 1..n : \A s \in I[i - 1] : step[i][s] \in I[i]
    BY <1>4, <1>5, <1>6
  <2>3. QED
    BY <1>1, <2>1, <2>2, InvariantLoop
<1>8. \E f : Is(f)
  <2>1. PICK run : /\ run = [i \in 0..n |-> IF i = 0 THEN first ELSE step[i][run[i - 1]]]
                   /\ \A i \in 0..n : run[i] \in I[i]
    BY <1>7 DEF LoopIn
  <2>2. ASSUME NEW i \in 0..n, i # 0
        PROVE  run[i] = Nest(marks, run[i - 1], i)
    <3>1. i \in 1..n /\ i - 1 \in 0..n
      BY <1>1, <2>2
    <3>2. run[i] = step[i][run[i - 1]] /\ run[i - 1] \in Good(i - 1)
      BY <1>5, <2>1, <2>2, <3>1
    <3>3. QED
      BY <1>5, <3>1, <3>2
  <2>3. run[0] = first
    BY <1>1, <2>1
  <2>4. Is(run)
    BY <2>1, <2>2, <2>3
  <2>5. QED
    BY <2>4
<1>9. Is(nest)
  BY <1>8
<1> HIDE DEF nest
<1>10. 0..n \subseteq {i \in 0..n : nest[i] \in Good(i)}
  <2> DEFINE T == {i \in 0..n : nest[i] \in Good(i)}
  <2>1. 0 \in T
    BY <1>1, <1>3, <1>9
  <2>2. ASSUME NEW i \in 0..(n - 1), i \in T
        PROVE  i + 1 \in T
    <3>1. i + 1 \in 1..n /\ (i + 1) - 1 = i /\ i + 1 \in 0..n
      BY <1>1
    <3>2. nest[i + 1] = Nest(marks, nest[i], i + 1)
      <4>1. nest[i + 1] = IF i + 1 = 0 THEN first ELSE Nest(marks, nest[(i + 1) - 1], i + 1)
        BY <1>9, <3>1
      <4>2. i + 1 # 0
        BY <1>1
      <4>3. QED
        BY <3>1, <4>1, <4>2
    <3>3. nest[i] \in Good((i + 1) - 1)
      BY <2>2, <3>1
    <3>4. nest[i + 1] \in Good(i + 1)
      BY <1>4, <3>1, <3>2, <3>3
    <3>5. QED
      BY <3>1, <3>4
  <2> HIDE DEF T
  <2>3. 0..n \subseteq T
    BY <1>1, <2>1, <2>2, CountTo
  <2>4. QED
    BY <2>3 DEF T
<1>11. nest[n] \in Good(n)
  BY <1>1, <1>10
<1>12. Nested(marks, n, nest[n])
  BY <1>11 DEF Good
<1>13. QED
  BY <1>2, <1>12 DEF Nested, n

\* A node stands for the page it starts on, and for those up to its end.
LEMMA StandsForPage ==
    ASSUME NEW node, node.start \in Int, node.end \in Int, NEW n \in Nat, NEW p \in 1..n,
           \/ node.start = p
           \/ node.start <= p /\ node.end # NoPage /\ p <= node.end
    PROVE  p \in PagesOf(node, n)
<1> DEFINE start == Larger(1, IF node.start = 0 THEN 1 ELSE node.start)
           end == Smaller(n, IF node.end = NoPage THEN start ELSE node.end)
<1>1. start \in Int /\ start <= p
  BY DEF Larger
<1>2. end \in Int /\ (start = p \/ p <= end)
  BY <1>1 DEF Larger, Smaller, NoPage
<1>3. p <= Larger(start, end)
  BY <1>1, <1>2 DEF Larger
<1>4. PagesOf(node, n) = {x \in 1..n : start <= x /\ x <= Larger(start, end)}
  BY DEF PagesOf
<1> HIDE DEF start, end
<1>5. QED
  BY <1>1, <1>3, <1>4

LEMMA TreeOfOutline ==
    ASSUME NEW marks \in Outlines, NEW i \in 1..Len(marks)
    PROVE  /\ DOMAIN Tree(marks) = 1..Len(marks)
           /\ Tree(marks)[i].parent = NearestAbove(marks, i)
           /\ Tree(marks)[i].start = marks[i].page
           /\ Tree(marks)[i].end = EndPage(marks, i)
<1>1. DOMAIN marks = 1..Len(marks)
  BY DEF Outlines
<1>2. Parents(marks)[i] = NearestAbove(marks, i)
  BY ParentsAreNearest
<1>3. QED
  BY <1>1, <1>2 DEF Tree

\* The end of a section: open if none starts after it, else short of the next.
LEMMA EndOfSection ==
    ASSUME NEW marks \in Outlines, NEW i \in 1..Len(marks)
    PROVE  /\ EndPage(marks, i) \in Int
           /\ \/ /\ EndPage(marks, i) = NoPage
                 /\ \A j \in 1..Len(marks) : ~Follows(marks, i, j)
              \/ \E j \in 1..Len(marks) :
                    /\ Follows(marks, i, j)
                    /\ EndPage(marks, i) =
                         Larger(marks[i].page,
                                (IF marks[j].page = 0 THEN 1 ELSE marks[j].page) - 1)
<1> DEFINE n == Len(marks)
           later == {j \in DOMAIN marks : Follows(marks, i, j)}
           pages == {marks[j].page : j \in later}
           f == [j \in 1..n |-> marks[j].page]
<1>1. n \in Nat /\ DOMAIN marks = 1..n /\ later \in SUBSET (1..n)
  BY DEF Outlines
<1>2. f \in [1..n -> Int] /\ \A j \in 1..n : f[j] = marks[j].page
  BY LevelIsNat
<1>3. EndPage(marks, i) =
        IF later = {} THEN NoPage
        ELSE Larger(marks[i].page, (IF Min(pages) = 0 THEN 1 ELSE Min(pages)) - 1)
  BY DEF EndPage
<1>4. \A j \in 1..n : j \in later <=> Follows(marks, i, j)
  BY <1>1
<1> HIDE DEF f, later
<1>5. CASE later = {}
  BY <1>3, <1>4, <1>5 DEF NoPage
<1>6. CASE later # {}
  <2> HIDE DEF n
  <2>1. PICK j \in later : \A k \in later : f[j] <= f[k]
    BY <1>1, <1>2, <1>6, LeastOf
  <2>2. j \in 1..n /\ marks[j].page \in Int
    BY <1>1, <1>2, <2>1
  <2>3. Min(pages) = marks[j].page
    <3>1. pages \in SUBSET Int
      BY <1>1, <1>2
    <3>2. marks[j].page \in pages /\ \A y \in pages : marks[j].page <= y
      BY <1>1, <1>2, <2>1
    <3> HIDE DEF pages
    <3>3. QED
      BY <3>1, <3>2, MinIs
  <2>4. EndPage(marks, i) =
           Larger(marks[i].page, (IF marks[j].page = 0 THEN 1 ELSE marks[j].page) - 1)
    BY <1>3, <1>6, <2>3
  <2>5. Follows(marks, i, j)
    BY <1>4, <2>1, <2>2
  <2>6. marks[i].page \in Int
    BY LevelIsNat
  <2>7. EndPage(marks, i) \in Int
    BY <2>2, <2>4, <2>6 DEF Larger
  <2>8. QED
    BY <2>2, <2>4, <2>5, <2>7 DEF n
<1>7. QED
  BY <1>5, <1>6

\* The last of the sections that start on a page or before reaches it.
LEMMA OutlineCovers ==
    ASSUME NEW marks \in Outlines, NEW nPages \in Nat
    PROVE  CoversPages(Tree(marks), nPages)
<1> DEFINE n == Len(marks)
           f == [j \in 1..n |-> marks[j].page]
<1>1. n \in Nat
  BY DEF Outlines
<1>2. f \in [1..n -> Int] /\ \A j \in 1..n : marks[j].page = f[j]
  BY LevelIsNat
<1>3. /\ DOMAIN Tree(marks) = 1..n
      /\ \A j \in 1..n : Tree(marks)[j].start = f[j] /\ Tree(marks)[j].end = EndPage(marks, j)
  <2>1. DOMAIN Tree(marks) = 1..n
    BY DEF Tree, Outlines
  <2>2. QED
    BY <1>2, <2>1, TreeOfOutline
<1>4. \A i, j \in 1..n : Follows(marks, i, j) <=> f[i] < f[j] \/ (f[i] = f[j] /\ i < j)
  BY <1>2 DEF Follows
<1> HIDE DEF n, f
<1>5. ASSUME NEW p \in 1..nPages, NEW a \in 1..n, NEW b \in 1..n, f[a] <= p, p <= f[b]
      PROVE  \E i \in 1..n : p \in PagesOf(Tree(marks)[i], nPages)
  <2> DEFINE J == {j \in 1..n : f[j] <= p}
  <2>1. PICK c \in J : \A j \in J : f[c] >= f[j]
    <3>1. J \in SUBSET (1..n) /\ J # {}
      BY <1>5
    <3> HIDE DEF J
    <3>2. QED
      BY <1>1, <1>2, <3>1, LeastOf
  <2> DEFINE K == {j \in J : f[j] = f[c]}
             i == Max(K)
  <2>2. i \in K /\ \A j \in K : j <= i
    <3>1. K \in SUBSET (0..n) /\ K # {}
      BY <1>1, <2>1
    <3> HIDE DEF K
    <3>2. QED
      BY <1>1, <3>1, MaxOfPlaces
  <2>3. i \in 1..n /\ f[i] = f[c] /\ f[i] <= p /\ f[i] \in Int
    BY <1>2, <2>2
  <2> HIDE DEF i
  <2>4. ASSUME NEW j \in 1..n, Follows(marks, i, j)
        PROVE  f[j] > p
    <3>1. SUFFICES ASSUME f[j] <= p PROVE FALSE
      BY <1>2
    <3>2. f[j] \in Int /\ f[j] <= f[i]
      BY <1>2, <2>1, <2>3, <3>1
    <3>3. f[i] < f[j] \/ (f[i] = f[j] /\ i < j)
      BY <1>4, <2>3, <2>4
    <3>4. f[j] = f[i] /\ i < j
      BY <2>3, <3>2, <3>3
    <3>5. j <= i
      BY <2>2, <2>3, <3>1, <3>4
    <3>6. QED
      BY <2>3, <3>4, <3>5
  <2> DEFINE node == Tree(marks)[i]
             end == EndPage(marks, i)
  <2>5. node.start = f[i] /\ node.end = end /\ end \in Int
    BY <1>3, <2>3, EndOfSection DEF n
  <2>6. CASE end = NoPage /\ \A j \in 1..n : ~Follows(marks, i, j)
    <3>1. f[b] <= f[i] /\ f[b] \in Int
      BY <1>2, <1>4, <2>3, <2>6
    <3>2. f[i] = p
      BY <1>5, <2>3, <3>1
    <3> HIDE DEF node, end
    <3>3. p \in PagesOf(node, nPages)
      BY <2>3, <2>5, <3>2, StandsForPage
    <3>4. QED
      BY <2>3, <3>3 DEF node
  <2>7. CASE \E j \in 1..n :
                /\ Follows(marks, i, j)
                /\ end = Larger(marks[i].page,
                                (IF marks[j].page = 0 THEN 1 ELSE marks[j].page) - 1)
    <3>1. PICK j \in 1..n : /\ Follows(marks, i, j)
                            /\ end = Larger(f[i], (IF f[j] = 0 THEN 1 ELSE f[j]) - 1)
      BY <1>2, <2>3, <2>7
    <3>2. f[j] > p /\ f[j] \in Int
      BY <1>2, <2>4, <3>1
    <3> HIDE DEF node, end
    <3>3. p <= end /\ end # NoPage
      BY <2>3, <3>1, <3>2 DEF Larger, NoPage
    <3>4. p \in PagesOf(node, nPages)
      BY <2>3, <2>5, <3>3, StandsForPage
    <3>5. QED
      BY <2>3, <3>4 DEF node
  <2>8. QED
    <3>1. \/ end = NoPage /\ \A j \in 1..Len(marks) : ~Follows(marks, i, j)
          \/ \E j \in 1..Len(marks) :
                /\ Follows(marks, i, j)
                /\ end = Larger(marks[i].page,
                                (IF marks[j].page = 0 THEN 1 ELSE marks[j].page) - 1)
      BY <2>3, EndOfSection DEF n
    <3> HIDE DEF end
    <3>2. QED
      BY <2>6, <2>7, <3>1 DEF n
<1>6. QED
  BY <1>3, <1>5 DEF CoversPages

LEMMA BlocksCover ==
    ASSUME NEW nPages \in Nat
    PROVE  CoversPages(PageBlocks(nPages), nPages)
<1> DEFINE blocks == PageBlocks(nPages)
           n == (nPages + 4) \div 5
<1>1. /\ n \in Nat /\ DOMAIN blocks = 1..n
      /\ \A b \in 1..n : /\ blocks[b].start = (b - 1) * 5 + 1
                         /\ blocks[b].end = Smaller(b * 5, nPages)
  BY DEF PageBlocks, PagesPerNode
<1> HIDE DEF blocks
<1>2. ASSUME NEW p \in 1..nPages
      PROVE  \E b \in 1..n : p \in PagesOf(blocks[b], nPages)
  <2> DEFINE b == ((p - 1) \div 5) + 1
  <2>1. b \in 1..n /\ (b - 1) * 5 + 1 <= p /\ p <= b * 5
    OBVIOUS
  <2> HIDE DEF b, n
  <2>2. /\ blocks[b].start = (b - 1) * 5 + 1 /\ blocks[b].end = Smaller(b * 5, nPages)
        /\ b \in Int
    BY <1>1, <2>1
  <2>3. blocks[b].start \in Int /\ blocks[b].end \in Int
    BY <2>2 DEF Smaller
  <2>4. blocks[b].start <= p /\ blocks[b].end # NoPage /\ p <= blocks[b].end
    BY <2>1, <2>2 DEF Smaller, NoPage
  <2>5. p \in PagesOf(blocks[b], nPages)
    BY <2>3, <2>4, StandsForPage
  <2>6. QED
    BY <2>1, <2>5
<1>3. QED
  BY <1>1, <1>2 DEF CoversPages, blocks

LEMMA HeadingsAreOutline ==
    ASSUME NEW n \in Nat, NEW found \in [1..n -> Nat]
    PROVE  Headings(found) \in Outlines
<1> DEFINE on(p) == [k \in 1..found[p] |-> Entry(1, p)]
           step == [p \in 1..n |-> [s \in Outlines |-> s \o on(p)]]
           none == <<>>
           Is(f) == f = [p \in 0..n |-> IF p = 0 THEN none ELSE f[p - 1] \o on(p)]
           upTo == CHOOSE f : Is(f)
<1>1. found \in Seq(Nat) /\ Len(found) = n
  BY SeqDef
<1>2. Headings(found) = upTo[n]
  BY <1>1 DEF Headings
<1>3. \A p \in 1..n : on(p) \in Outlines
  <2>1. ASSUME NEW p \in 1..n
        PROVE  on(p) \in Outlines
    <3>1. Entry(1, p) \in Entries
      BY DEF Entry, Entries
    <3>2. found[p] \in Nat
      OBVIOUS
    <3>3. on(p) \in [1..found[p] -> Entries]
      BY <3>1
    <3> HIDE DEF on
    <3>4. QED
      BY <3>2, <3>3, FunIsSeq DEF Outlines
  <2>2. QED
    BY <2>1
<1>4. none \in Outlines
  BY DEF Outlines
<1> HIDE DEF on
<1>5. \A p \in 1..n, s \in Outlines : s \o on(p) \in Outlines /\ step[p][s] = s \o on(p)
  BY <1>3, ConcatProperties DEF Outlines
<1>6. step \in [1..n -> [Outlines -> Outlines]]
  BY <1>5
<1> HIDE DEF step
<1>7. \E f : Is(f)
  <2> HIDE DEF none
  <2>1. HasRun(n, Outlines, none, step)
    BY <1>4, <1>6, LoopOver
  <2>2. PICK run \in [0..n -> Outlines] :
            run = [p \in 0..n |-> IF p = 0 THEN none ELSE step[p][run[p - 1]]]
    BY <2>1 DEF HasRun
  <2>3. ASSUME NEW p \in 0..n, p # 0
        PROVE  run[p] = run[p - 1] \o on(p)
    <3>1. p \in 1..n /\ p - 1 \in 0..n
      BY <2>3
    <3>2. run[p] = step[p][run[p - 1]] /\ run[p - 1] \in Outlines
      BY <2>2, <2>3, <3>1
    <3>3. QED
      BY <1>5, <3>1, <3>2
  <2>4. run[0] = none
    BY <2>2
  <2>5. Is(run)
    BY <2>2, <2>3, <2>4
  <2>6. QED
    BY <2>5
<1>8. Is(upTo)
  BY <1>7
<1> HIDE DEF upTo, none
<1>9. upTo[0] = none /\ \A p \in 1..n : upTo[p] = upTo[p - 1] \o on(p)
  <2>1. \A p \in 0..n : upTo[p] = IF p = 0 THEN none ELSE upTo[p - 1] \o on(p)
    BY <1>8
  <2>2. 0 \in 0..n /\ \A p \in 1..n : p # 0 /\ p \in 0..n
    OBVIOUS
  <2>3. QED
    BY <2>1, <2>2
<1> HIDE DEF Is
<1> DEFINE T == {p \in 0..n : upTo[p] \in Outlines}
<1>10. 0..n \subseteq T
  <2>1. 0 \in T
    BY <1>4, <1>9
  <2>2. ASSUME NEW p \in 0..(n - 1), p \in T
        PROVE  p + 1 \in T
    <3>1. p + 1 \in 1..n /\ (p + 1) - 1 = p /\ p + 1 \in 0..n
      OBVIOUS
    <3>2. upTo[p + 1] = upTo[p] \o on(p + 1)
      BY <1>9, <3>1
    <3>3. upTo[p + 1] \in Outlines
      BY <1>5, <2>2, <3>1, <3>2
    <3>4. QED
      BY <3>1, <3>3
  <2> HIDE DEF T
  <2>3. QED
    BY <2>1, <2>2, CountTo
<1>11. QED
  BY <1>2, <1>10

\* The tree of a paper, whichever way it was built: of the outline that the
\* bookmarks or the headings make, or of blocks of pages.
LEMMA BuiltTree ==
    ASSUME NEW marks \in Outlines, NEW found \in HeadingCounts
    PROVE  \/ /\ BuildTree(marks, found) = Tree(marks) /\ marks # <<>>
           \/ /\ BuildTree(marks, found) = Tree(Headings(found)) /\ marks = <<>>
              /\ Headings(found) \in Outlines
           \/ BuildTree(marks, found) = PageBlocks(NPages) /\ marks = <<>>
<1>1. NPages \in Nat /\ found \in [1..NPages -> Nat]
  BY BoundsAssumption, PagesAssumption
<1>2. Headings(found) \in Outlines
  BY <1>1, HeadingsAreOutline
<1>3. Len(found) = NPages
  BY <1>1, SeqDef
<1>4. QED
  BY <1>2, <1>3 DEF BuildTree

StartsCovered(nodes) ==
    \A i \in DOMAIN nodes : nodes[i].start \in 1..NPages => nodes[i].start \in PagesOf(nodes[i], NPages)

LEMMA TreeStartsCovered ==
    /\ \A marks \in Outlines : StartsCovered(Tree(marks))
    /\ StartsCovered(PageBlocks(NPages))
<1>1. NPages \in Nat
  BY BoundsAssumption
<1>2. ASSUME NEW nodes, NEW i \in DOMAIN nodes, nodes[i].start \in 1..NPages, nodes[i].end \in Int
      PROVE  nodes[i].start \in PagesOf(nodes[i], NPages)
  <2>1. nodes[i].start \in Int
    BY <1>2
  <2>2. QED
    BY <1>1, <1>2, <2>1, StandsForPage
<1>3. ASSUME NEW marks \in Outlines
      PROVE  StartsCovered(Tree(marks))
  <2>1. DOMAIN Tree(marks) = 1..Len(marks)
    BY DEF Tree, Outlines
  <2>2. \A i \in 1..Len(marks) : Tree(marks)[i].end \in Int
    BY TreeOfOutline, EndOfSection
  <2>3. QED
    BY <1>2, <2>1, <2>2 DEF StartsCovered
<1>4. StartsCovered(PageBlocks(NPages))
  <2>1. \A i \in DOMAIN PageBlocks(NPages) : PageBlocks(NPages)[i].end \in Int
    BY <1>1 DEF PageBlocks, PagesPerNode, Smaller
  <2>2. QED
    BY <1>2, <2>1 DEF StartsCovered
<1>5. QED
  BY <1>3, <1>4

BookmarksAreOutline ==
    \A n \in 0..MaxEntries :
        [1..n -> {Entry(l, p) : l \in Levels, p \in TargetPages}] \subseteq Outlines

LEMMA Bookmarks == BookmarksAreOutline
<1>1. ASSUME NEW n \in 0..MaxEntries,
             NEW marks \in [1..n -> {Entry(l, p) : l \in Levels, p \in TargetPages}]
      PROVE  marks \in Outlines
  <2>1. n \in Nat
    BY BoundsAssumption
  <2>2. {Entry(l, p) : l \in Levels, p \in TargetPages} \subseteq Entries
    <3>1. \A l \in Levels, p \in TargetPages : Entry(l, p) \in Entries
      BY InputsAssumption DEF Entry, Entries
    <3>2. QED
      BY <3>1
  <2>3. marks \in [1..n -> Entries]
    BY <2>2
  <2>4. QED
    BY <2>1, <2>3, FunIsSeq DEF Outlines
<1>2. QED
  BY <1>1 DEF BookmarksAreOutline

\* The nodes of a stored tree nest as the outline's levels say, and no page
\* between two of them is lost, for every outline, list of headings and length
\* of the paper.
THEOREM IndexIsFaithful == Spec => []IndexFollowsOutline
<1>1. Init => IndexFollowsOutline
  BY DEF Init, IndexFollowsOutline
<1>2. ASSUME IndexFollowsOutline, [Next]_vars
      PROVE  IndexFollowsOutline'
  <2>1. CASE BuildPaperTree
    <3>1. PICK n \in 0..MaxEntries :
          \E marks \in [1..n -> {Entry(l, p) : l \in Levels, p \in TargetPages}] :
          \E found \in HeadingCounts : outline' = marks /\ tree' = BuildTree(marks, found)
      BY <2>1 DEF BuildPaperTree
    <3>2. PICK marks \in [1..n -> {Entry(l, p) : l \in Levels, p \in TargetPages}],
               found \in HeadingCounts : outline' = marks /\ tree' = BuildTree(marks, found)
      BY <3>1
    <3>3. marks \in Outlines
      BY Bookmarks DEF BookmarksAreOutline
    <3>4. NPages \in Nat
      BY BoundsAssumption
    <3>5. CASE marks # <<>>
      <4>1. tree' = Tree(marks)
        BY <3>2, <3>3, <3>5, BuiltTree
      <4>2. DOMAIN Tree(marks) = 1..Len(marks)
        BY <3>3 DEF Tree, Outlines
      <4>3. \A i \in 1..Len(marks) : Tree(marks)[i].parent = NearestAbove(marks, i)
        BY <3>3, TreeOfOutline
      <4>4. CoversPages(Tree(marks), NPages) /\ StartsCovered(Tree(marks))
        BY <3>3, <3>4, OutlineCovers, TreeStartsCovered
      <4>5. QED
        BY <3>2, <4>1, <4>2, <4>3, <4>4 DEF IndexFollowsOutline, StartsCovered
    <3>6. CASE marks = <<>>
      <4>1. CoversPages(tree', NPages)
        BY <3>2, <3>3, <3>4, <3>6, BuiltTree, OutlineCovers, BlocksCover
      <4>2. StartsCovered(tree')
        BY <3>2, <3>3, <3>6, BuiltTree, TreeStartsCovered
      <4>3. QED
        BY <3>2, <3>6, <4>1, <4>2 DEF IndexFollowsOutline, StartsCovered
    <3>7. QED
      BY <3>5, <3>6
  <2>2. CASE hybrid_candidates \/ GatherCollection \/ NavigatePaper \/ NoTree
             \/ HoldPaper \/ GatherPaper \/ UnreadablePdf \/ BuildPrompt
    <3>1. stage' # "indexed"
      BY <2>2 DEF hybrid_candidates, GatherCollection, NavigatePaper, NoTree, HoldPaper,
                  GatherPaper, UnreadablePdf, BuildPrompt, Reach
    <3>2. QED
      BY <3>1 DEF IndexFollowsOutline
  <2>3. CASE UNCHANGED vars
    BY <1>2, <2>3 DEF vars, IndexFollowsOutline
  <2>4. QED
    BY <1>2, <2>1, <2>2, <2>3 DEF Next
<1>3. QED
  BY <1>1, <1>2, PTL DEF Spec

-----------------------------------------------------------------------------
(* The nodes that are read.                                                *)

\* At most so many of the nodes of a tree with m nodes.
Picks(m, limit) == {s \in Seq(1..m) : Len(s) <= limit}

\* One id of the model's reply.
Pick(s, id, m, limit) ==
    IF id \in 1..m /\ ~Contains(s, id) /\ Len(s) < limit THEN Append(s, id) ELSE s

LEMMA SelectedPicks ==
    ASSUME NEW reply \in Seq(Nat), NEW nodes, NEW m \in Nat, DOMAIN nodes = 1..m,
           NEW limit \in Nat
    PROVE  Selected(reply, nodes, limit) \in Picks(m, limit)
<1> DEFINE n == Len(reply)
           S == Picks(m, limit)
           first == <<>>
           next(k, s) == Pick(s, reply[k], m, limit)
           step == [k \in 1..n |-> [s \in S |-> next(k, s)]]
           Is(f) == f = [k \in 0..n |-> IF k = 0 THEN first ELSE next(k, f[k - 1])]
           chosen == CHOOSE f : Is(f)
<1>result. Selected(reply, nodes, limit) = chosen[n]
  BY DEF Selected, Pick
<1>1. n \in Nat
  OBVIOUS
<1>2. first \in S
  BY DEF Picks
<1>3. \A k \in 1..n, s \in S : next(k, s) \in S
  <2>1. ASSUME NEW k \in 1..n, NEW s \in S
        PROVE  next(k, s) \in S
    <3> DEFINE id == reply[k]
    <3>1. s \in Seq(1..m) /\ Len(s) <= limit /\ Len(s) \in Nat
      BY DEF Picks
    <3> HIDE DEF id
    <3>2. CASE id \in 1..m /\ ~Contains(s, id) /\ Len(s) < limit
      <4>1. Append(s, id) \in Seq(1..m) /\ Len(Append(s, id)) = Len(s) + 1
        BY <3>1, <3>2, AppendProperties
      <4>2. QED
        BY <3>1, <3>2, <4>1 DEF Picks, Pick, id
    <3>3. CASE ~(id \in 1..m /\ ~Contains(s, id) /\ Len(s) < limit)
      BY <3>1, <3>3 DEF Picks, Pick, id
    <3>4. QED
      BY <3>2, <3>3
  <2>2. QED
    BY <2>1
<1> HIDE DEF next, S
<1>4. /\ step \in [1..n -> [S -> S]]
      /\ \A k \in 1..n, s \in S : step[k][s] = next(k, s)
  BY <1>3
<1> HIDE DEF step, first
<1>5. \E f : Is(f)
  <2>1. HasRun(n, S, first, step)
    BY <1>1, <1>2, <1>4, LoopOver
  <2>2. PICK run \in [0..n -> S] :
            run = [k \in 0..n |-> IF k = 0 THEN first ELSE step[k][run[k - 1]]]
    BY <2>1 DEF HasRun
  <2>3. ASSUME NEW k \in 0..n, k # 0
        PROVE  run[k] = next(k, run[k - 1])
    <3>1. k \in 1..n /\ k - 1 \in 0..n
      BY <1>1, <2>3
    <3>2. run[k] = step[k][run[k - 1]] /\ run[k - 1] \in S
      BY <2>2, <2>3, <3>1
    <3>3. QED
      BY <1>4, <3>1, <3>2
  <2>4. run[0] = first
    BY <1>1, <2>2
  <2>5. Is(run)
    BY <2>2, <2>3, <2>4
  <2>6. QED
    BY <2>5
<1>6. Is(chosen)
  BY <1>5
<1> HIDE DEF chosen
<1>7. chosen[0] = first /\ \A k \in 1..n : chosen[k] = next(k, chosen[k - 1])
  <2>1. \A k \in 0..n : chosen[k] = IF k = 0 THEN first ELSE next(k, chosen[k - 1])
    BY <1>6
  <2>2. 0 \in 0..n /\ \A k \in 1..n : k # 0 /\ k \in 0..n
    BY <1>1
  <2>3. QED
    BY <2>1, <2>2
<1> HIDE DEF Is
<1>8. \A k \in 0..n : chosen[k] \in S
  <2> DEFINE T == {k \in 0..n : chosen[k] \in S}
  <2>1. 0 \in T
    BY <1>1, <1>2, <1>7
  <2>2. ASSUME NEW k \in 0..(n - 1), k \in T
        PROVE  k + 1 \in T
    <3>1. k + 1 \in 1..n /\ (k + 1) - 1 = k /\ k + 1 \in 0..n
      BY <1>1
    <3>2. chosen[k + 1] = next(k + 1, chosen[k])
      BY <1>7, <3>1
    <3>3. chosen[k + 1] \in S
      BY <1>3, <2>2, <3>1, <3>2
    <3>4. QED
      BY <3>1, <3>3
  <2> HIDE DEF T
  <2>3. 0..n \subseteq T
    BY <1>1, <2>1, <2>2, CountTo
  <2>4. QED
    BY <2>3 DEF T
<1>9. QED
  BY <1>1, <1>8, <1>result DEF S

LEMMA LexicalPicks ==
    ASSUME NEW m \in Nat, NEW words \in [1..m -> Nat], NEW limit \in Nat
    PROVE  Lexical(words, limit) \in Picks(m, limit)
<1> DEFINE Better(i, j) == words[i] > words[j] \/ (words[i] = words[j] /\ i < j)
           S == {i \in DOMAIN words : words[i] > 0}
           R == {e \in S \X S : Better(e[1], e[2])}
           ranked == InOrder(S, Better)
           n == Cardinality(S)
           best == SubSeq(ranked, 1, Smaller(limit, Len(ranked)))
<1>1. Lexical(words, limit) = best
  BY DEF Lexical
<1>2. S \in SUBSET (1..m) /\ IsFiniteSet(S)
  <2>1. S \in SUBSET (1..m) /\ IsFiniteSet(1..m)
    BY FS_Interval
  <2> HIDE DEF S
  <2>2. QED
    BY <2>1, FS_Subset
<1>3. \A i, j \in S : <<i, j>> \in R <=> Better(i, j)
  OBVIOUS
<1>4. \A i \in S : i \in Int /\ words[i] \in Nat
  OBVIOUS
<1> HIDE DEF R, S
<1>5. StrictOrder(R, S)
  <2>1. \A i \in S : <<i, i>> \notin R
    BY <1>3, <1>4
  <2>2. \A i, j, k \in S : <<i, j>> \in R /\ <<j, k>> \in R => <<i, k>> \in R
    BY <1>3, <1>4
  <2>3. ASSUME NEW i \in S, NEW j \in S, i # j
        PROVE  <<i, j>> \in R \/ <<j, i>> \in R
    <3>1. i < j \/ j < i
      BY <1>4, <2>3
    <3>2. words[i] > words[j] \/ words[j] > words[i] \/ words[i] = words[j]
      BY <1>4
    <3>3. Better(i, j) \/ Better(j, i)
      BY <3>1, <3>2
    <3>4. QED
      BY <1>3, <3>3
  <2>4. QED
    BY <2>1, <2>2, <2>3 DEF StrictOrder
<1>6. \A p \in S : Rank(R, S, p) = Cardinality({r \in S : Better(r, p)})
  <2>1. ASSUME NEW p \in S
        PROVE  {r \in S : <<r, p>> \in R} = {r \in S : Better(r, p)}
    BY <1>3
  <2>2. QED
    BY <2>1 DEF Rank
<1>7. ranked = [k \in 1..n |-> CHOOSE p \in S : Cardinality({r \in S : Better(r, p)}) = k - 1]
  BY DEF InOrder
<1> HIDE DEF Better
<1>8. ASSUME NEW k \in 1..n
      PROVE  ranked[k] \in S
  <2>1. PICK p \in S : Rank(R, S, p) = k - 1
    BY <1>2, <1>5, RanksAreDense
  <2>2. \E q \in S : Cardinality({r \in S : Better(r, q)}) = k - 1
    BY <1>6, <2>1
  <2>3. QED
    BY <1>7, <2>2
<1>9. ranked \in [1..n -> 1..m]
  <2>1. ranked = [k \in 1..n |-> ranked[k]]
    BY <1>7
  <2> HIDE DEF ranked
  <2>2. QED
    BY <1>2, <1>8, <2>1
<1>10. n \in Nat
  BY <1>2, FS_CardinalityType
<1> HIDE DEF ranked, n
<1>11. ranked \in Seq(1..m) /\ Len(ranked) = n
  BY <1>9, <1>10, FunIsSeq
<1> DEFINE k == Smaller(limit, Len(ranked))
<1>12. k \in Nat /\ k <= limit /\ k <= n
  BY <1>10, <1>11 DEF Smaller
<1>13. best \in Seq(1..m) /\ Len(best) <= limit
  <2>1. \A i \in 1..k : ranked[i] \in 1..m
    BY <1>9, <1>10, <1>12
  <2> HIDE DEF k
  <2>2. /\ SubSeq(ranked, 1, k) \in Seq(1..m)
        /\ Len(SubSeq(ranked, 1, k)) = IF 1 <= k THEN k - 1 + 1 ELSE 0
    BY <1>12, <2>1, SubSeqProperties
  <2>3. QED
    BY <1>12, <2>2 DEF k
<1>14. QED
  BY <1>1, <1>13 DEF Picks

LEMMA NavigatePicks ==
    ASSUME NEW reply \in Seq(Nat), NEW m \in Nat, NEW words \in [1..m -> Nat],
           NEW nodes, DOMAIN nodes = 1..m, NEW limit \in Nat
    PROVE  navigate(reply, words, nodes, limit) \in Picks(m, limit)
BY SelectedPicks, LexicalPicks DEF navigate

-----------------------------------------------------------------------------
(* What the sections that are read add up to.                              *)

LEMMA NonEmptyKeeps ==
    ASSUME NEW texts \in Seq(Nat)
    PROVE  /\ NonEmpty(texts) \in Seq(Nat \ {0})
           /\ Len(NonEmpty(texts)) <= Len(texts)
           /\ \A k \in 1..Len(NonEmpty(texts)) :
                 \E i \in 1..Len(texts) : NonEmpty(texts)[k] = texts[i]
           /\ \A i \in 1..Len(texts) : texts[i] > 0 => NonEmpty(texts) # <<>>
<1> DEFINE n == Len(texts)
           places == {k \in DOMAIN texts : texts[k] > 0}
           T == Nat \ {0}
           kept == NonEmpty(texts)
<1>1. n \in Nat /\ DOMAIN texts = 1..n /\ \A i \in 1..n : texts[i] \in Nat
  OBVIOUS
<1>2. kept = At(texts, places)
  BY DEF NonEmpty
<1>3. places \in SUBSET (1..n) /\ places \in SUBSET Int /\ AllIn(texts, places, T)
  BY <1>1 DEF AllIn
<1>4. \A i \in 1..n : texts[i] > 0 => i \in places
  BY <1>1
<1> HIDE DEF places, kept, n
<1>5. IsFiniteSet(places) /\ Cardinality(places) <= n
  <2>1. IsFiniteSet(1..n) /\ Cardinality(1..n) = IF 1 > n THEN 0 ELSE n - 1 + 1
    BY <1>1, FS_Interval
  <2>2. Cardinality(1..n) = n
    BY <1>1, <2>1
  <2>3. QED
    BY <1>3, <2>1, <2>2, FS_Subset
<1> HIDE DEF T
<1>6. /\ kept \in Seq(T)
      /\ Len(kept) = Cardinality(places)
      /\ \A k \in 1..Cardinality(places) : \E i \in places : kept[k] = texts[i]
      /\ \A i \in places : \E k \in 1..Cardinality(places) : kept[k] = texts[i]
  <2> DEFINE list == At(texts, places)
             m == Cardinality(places)
  <2>1. /\ list \in Seq(T) /\ Len(list) = m
        /\ \A k \in 1..m : \E i \in places : list[k] = texts[i]
        /\ \A i \in places : \E k \in 1..m : list[k] = texts[i]
    BY <1>3, <1>5, AtIsSeq DEF Filtered
  <2> HIDE DEF list, m
  <2>2. kept = list
    BY <1>2 DEF list
  <2>3. QED
    BY <2>1, <2>2 DEF m
<1>7. \A i \in places : kept # <<>>
  <2>1. SUFFICES ASSUME NEW i \in places, kept = <<>> PROVE FALSE
    OBVIOUS
  <2>2. PICK k \in 1..Cardinality(places) : TRUE
    BY <1>6
  <2>3. Cardinality(places) = 0
    BY <1>6, <2>1
  <2>4. QED
    BY <2>2, <2>3
<1>8. QED
  BY <1>3, <1>4, <1>5, <1>6, <1>7 DEF kept, n, T

LEMMA SumOfFewer ==
    ASSUME NEW s \in Seq(Int), NEW b \in Nat, NEW n \in Nat, Len(s) <= n, AllAtMost(s, b)
    PROVE  TotalOf(s) <= n * b
<1> DEFINE m == Len(s)
           total == TotalOf(s)
<1>1. total \in Int /\ total <= m * b
  BY SumAtMost
<1>2. m \in Nat /\ m <= n
  OBVIOUS
<1> HIDE DEF m, total
<1>3. n - m \in Nat /\ m * b \in Int /\ n * b \in Int
  BY <1>2
<1>4. (n - m) * b \in Nat
  BY <1>3
<1>5. n * b = m * b + (n - m) * b
  BY <1>2
<1>6. m * b <= n * b
  BY <1>3, <1>4, <1>5
<1>7. total <= n * b
  BY <1>1, <1>3, <1>6
<1>8. QED
  BY <1>7 DEF total

\* n texts of at most b characters.
LEMMA NonEmptyBounded ==
    ASSUME NEW texts \in Seq(Nat), NEW b \in Nat, AllAtMost(texts, b)
    PROVE  TotalOf(NonEmpty(texts)) <= Len(texts) * b
<1> DEFINE kept == NonEmpty(texts)
           n == Len(texts)
<1>1. /\ kept \in Seq(Nat \ {0}) /\ Len(kept) <= n
      /\ \A k \in 1..Len(kept) : \E i \in 1..n : kept[k] = texts[i]
  BY NonEmptyKeeps
<1>2. n \in Nat /\ \A i \in 1..n : texts[i] <= b
  BY DEF AllAtMost
<1> HIDE DEF kept, n
<1>3. kept \in Seq(Int) /\ AllAtMost(kept, b)
  <2>1. kept \in Seq(Int)
    BY <1>1
  <2>2. \A k \in 1..Len(kept) : kept[k] <= b
    BY <1>1, <1>2
  <2>3. QED
    BY <2>1, <2>2 DEF AllAtMost
<1>4. TotalOf(kept) <= n * b
  BY <1>1, <1>2, <1>3, SumOfFewer
<1>5. QED
  BY <1>4 DEF kept, n

-----------------------------------------------------------------------------
(* The nodes of a tree.                                                    *)

Nodes(n) == [parent : 0..n, start : Int, end : Int]

\* A tree: the parents are among its nodes.
Trees == {nodes \in UNION {Seq(Nodes(n)) : n \in Nat} : nodes \in Seq(Nodes(Len(nodes)))}

LEMMA OutlineTree ==
    ASSUME NEW marks \in Outlines
    PROVE  Tree(marks) \in Trees /\ Len(Tree(marks)) = Len(marks)
<1> DEFINE n == Len(marks)
           f == Tree(marks)
           node(i) == [parent |-> Parents(marks)[i], start |-> marks[i].page,
                       end |-> EndPage(marks, i)]
<1>1. n \in Nat /\ DOMAIN marks = 1..n
  BY DEF Outlines
<1>2. f = [i \in 1..n |-> node(i)]
  BY <1>1 DEF Tree
<1>3. ASSUME NEW i \in 1..n
      PROVE  node(i) \in Nodes(n)
  <2>1. EndPage(marks, i) \in Int /\ marks[i].page \in Int
    BY <1>3, EndOfSection, LevelIsNat
  <2>2. Parents(marks)[i] = NearestAbove(marks, i)
    BY <1>3, ParentsAreNearest
  <2> DEFINE above == {0} \cup {j \in 1..(i - 1) : NodeLevel(marks[j]) < NodeLevel(marks[i])}
  <2>3. above \in SUBSET (0..n) /\ above # {}
    BY <1>1, <1>3
  <2>4. NearestAbove(marks, i) = Max(above)
    BY DEF NearestAbove
  <2> HIDE DEF above, n
  <2>5. Max(above) \in 0..n
    BY <1>1, <2>3, MaxOfPlaces
  <2>6. QED
    BY <2>1, <2>2, <2>4, <2>5 DEF Nodes
<1> HIDE DEF node, f, n
<1>4. f \in [1..n -> Nodes(n)]
  BY <1>2, <1>3
<1>5. f \in Seq(Nodes(n)) /\ Len(f) = n
  BY <1>1, <1>4, FunIsSeq
<1>6. QED
  BY <1>1, <1>5 DEF f, n, Trees

LEMMA BlocksTree == PageBlocks(NPages) \in Trees
<1> DEFINE n == (NPages + PagesPerNode - 1) \div PagesPerNode
           f == PageBlocks(NPages)
           node(b) == [parent |-> 0, start |-> (b - 1) * PagesPerNode + 1,
                       end |-> Smaller(b * PagesPerNode, NPages)]
<1>1. NPages \in Nat
  BY BoundsAssumption
<1>2. n \in Nat
  BY <1>1 DEF PagesPerNode
<1>3. f = [b \in 1..n |-> node(b)]
  BY DEF PageBlocks
<1>4. \A b \in 1..n : node(b) \in Nodes(n)
  BY <1>1, <1>2 DEF PagesPerNode, Smaller, Nodes
<1> HIDE DEF node, f, n
<1>5. f \in [1..n -> Nodes(n)]
  BY <1>3, <1>4
<1>6. f \in Seq(Nodes(n)) /\ Len(f) = n
  BY <1>2, <1>5, FunIsSeq
<1>7. QED
  BY <1>2, <1>6 DEF f, Trees

LEMMA BuiltTreeIsTree ==
    ASSUME NEW marks \in Outlines, NEW found \in HeadingCounts
    PROVE  BuildTree(marks, found) \in Trees
BY BuiltTree, OutlineTree, BlocksTree

-----------------------------------------------------------------------------
(* What is read of a paper.                                                *)

Allowance == Larger(SectionBudget, 500 * SectionsPerPaper)

\* The shares of the sections stay within the allowance together.
LEMMA SharesFit ==
    ASSUME NEW n \in 1..SectionsPerPaper
    PROVE  /\ PerSection(n) \in Nat /\ PerSection(n) > 0
           /\ Allowance \in Nat /\ n * PerSection(n) <= Allowance
<1> DEFINE q == SectionBudget \div n
<1>1. SectionBudget \in Nat /\ SectionsPerPaper \in Nat /\ n \in Nat /\ n > 0 /\ n <= SectionsPerPaper
  BY BoundsAssumption
<1>2. q \in Nat /\ n * q <= SectionBudget
  <2>1. \A a \in Nat, b \in Nat \ {0} : a \div b \in Nat /\ b * (a \div b) <= a
    BY SMT
  <2>2. QED
    BY <1>1, <2>1
<1>3. PerSection(n) = IF 500 > q THEN 500 ELSE q
  BY DEF PerSection, Larger
<1> HIDE DEF q
<1>4. n * 500 <= 500 * SectionsPerPaper
  BY <1>1
<1>5. Allowance \in Nat /\ SectionBudget <= Allowance /\ 500 * SectionsPerPaper <= Allowance
  BY <1>1 DEF Allowance, Larger
<1>6. CASE 500 > q
  BY <1>1, <1>2, <1>3, <1>4, <1>5, <1>6
<1>7. CASE ~(500 > q)
  BY <1>1, <1>2, <1>3, <1>5, <1>7
<1>8. QED
  BY <1>6, <1>7

LEMMA PagesAreNat ==
    ASSUME NEW page \in PageTexts
    PROVE  /\ page \in Seq(Nat) /\ Len(page) = NPages /\ TotalOf(page) \in Nat
           /\ \A node : TotalOf(At(page, PagesOf(node, Len(page)))) \in Nat
<1>1. page \in [1..NPages -> Nat] /\ NPages \in Nat
  BY PagesAssumption, BoundsAssumption
<1>2. page \in Seq(Nat) /\ Len(page) = NPages
  BY <1>1, FunIsSeq
<1>3. ASSUME NEW node
      PROVE  TotalOf(At(page, PagesOf(node, NPages))) \in Nat
  <2> DEFINE places == PagesOf(node, NPages)
  <2>1. places \in SUBSET (1..NPages)
    BY DEF PagesOf
  <2> HIDE DEF places
  <2>2. IsFiniteSet(places) /\ places \in SUBSET Int
    <3>1. IsFiniteSet(1..NPages)
      BY <1>1, FS_Interval
    <3>2. QED
      <4>1. \A p \in 1..NPages : p \in Int
        BY <1>1
      <4>2. QED
        BY <2>1, <3>1, <4>1, FS_Subset
  <2>3. AllIn(page, places, Nat)
    BY <1>1, <2>1 DEF AllIn
  <2>4. At(page, places) \in Seq(Nat)
    BY <2>2, <2>3, AtIsSeq DEF Filtered
  <2>5. QED
    BY <2>4, SumIsNat DEF places
<1>4. QED
  BY <1>2, <1>3, SumIsNat

\* Pieces of the nodes, each within its share.
Pieces(excerpts) == excerpts \in Seq(Nat \ {0}) /\ TotalOf(excerpts) <= Allowance

LEMMA PiecesFit ==
    ASSUME NEW n \in 1..SectionsPerPaper, NEW text \in [1..n -> Nat]
    PROVE  LET cut == [k \in 1..n |-> Smaller(PerSection(n), text[k])]
           IN  /\ Pieces(NonEmpty(cut))
               /\ NonEmpty(cut) = <<>> => \A k \in 1..n : text[k] = 0
<1> DEFINE share == PerSection(n)
           cut == [k \in 1..n |-> Smaller(share, text[k])]
<1>1. n \in Nat /\ n > 0 /\ share \in Nat /\ share > 0 /\ Allowance \in Nat /\ n * share <= Allowance
  BY SharesFit
<1>2. cut \in [1..n -> Nat] /\ \A k \in 1..n : cut[k] <= share /\ (cut[k] = 0 => text[k] = 0)
  BY <1>1 DEF Smaller
<1> HIDE DEF cut, share
<1>3. cut \in Seq(Nat) /\ Len(cut) = n
  BY <1>1, <1>2, FunIsSeq
<1>4. AllAtMost(cut, share)
  BY <1>2, <1>3 DEF AllAtMost
<1>5. TotalOf(NonEmpty(cut)) <= n * share
  BY <1>1, <1>3, <1>4, NonEmptyBounded
<1>6. NonEmpty(cut) \in Seq(Nat \ {0})
  BY <1>3, NonEmptyKeeps
<1>7. TotalOf(NonEmpty(cut)) \in Int
  BY <1>6, SumIsNat
<1>8. Pieces(NonEmpty(cut))
  BY <1>1, <1>5, <1>6, <1>7 DEF Pieces
<1>9. NonEmpty(cut) = <<>> => \A k \in 1..n : text[k] = 0
  <2>1. NonEmpty(cut) = <<>> => \A k \in 1..n : ~(cut[k] > 0)
    BY <1>3, NonEmptyKeeps
  <2>2. QED
    BY <1>2, <2>1
<1>10. QED
  BY <1>8, <1>9 DEF cut, share

LEMMA OneText ==
    ASSUME NEW a \in Nat
    PROVE  /\ NonEmpty(<<a>>) \in Seq(Nat \ {0}) /\ TotalOf(NonEmpty(<<a>>)) <= a
           /\ TotalOf(NonEmpty(<<a>>)) \in Nat
           /\ NonEmpty(<<a>>) = <<>> => a = 0
           /\ a > 0 => Len(NonEmpty(<<a>>)) = 1 /\ NonEmpty(<<a>>)[1] = a
<1> DEFINE s == <<a>>
           kept == NonEmpty(s)
<1>1. s \in Seq(Nat) /\ Len(s) = 1 /\ s[1] = a
  OBVIOUS
<1>2. AllAtMost(s, a)
  BY <1>1 DEF AllAtMost
<1> HIDE DEF s
<1>3. TotalOf(kept) <= 1 * a
  BY <1>1, <1>2, NonEmptyBounded
<1>4. /\ kept \in Seq(Nat \ {0}) /\ Len(kept) <= 1
      /\ \A k \in 1..Len(kept) : \E i \in 1..1 : kept[k] = s[i]
      /\ \A i \in 1..1 : s[i] > 0 => kept # <<>>
  BY <1>1, NonEmptyKeeps
<1> HIDE DEF kept
<1>5. TotalOf(kept) \in Nat
  BY <1>4, SumIsNat
<1>6. a > 0 => Len(kept) = 1 /\ kept[1] = a
  BY <1>1, <1>4
<1>7. kept = <<>> => a = 0
  BY <1>1, <1>4
<1>8. TotalOf(kept) <= a
  BY <1>3, <1>5
<1>9. QED
  BY <1>4, <1>5, <1>6, <1>7, <1>8 DEF kept, s

\* The library's holdings of a paper, as HoldPaper finds them.
Holding(held) ==
    /\ held.pdf \in BOOLEAN /\ held.page \in PageTexts /\ held.full \in Nat
    /\ held.summary \in {0, SummaryChars} /\ held.abstract \in {0, SummaryChars}

LEMMA ExcerptsFit ==
    ASSUME NEW nodes, NEW m \in 0..SectionsPerPaper, DOMAIN nodes = 1..m, Len(nodes) = m,
           m = 0 => nodes = <<>>, NEW held, Holding(held), NEW found
    PROVE  /\ Pieces(Excerpts(nodes, held, found))
           /\ Excerpts(nodes, held, found) = <<>> /\ SectionBudget > 0 => held.full = 0
<1> DEFINE rest == NonEmpty(<<Smaller(held.full, SectionBudget)>>)
           pages == PagesForNodes(nodes, held.page)
           text == TextForNodes(nodes, held.full, found)
           chosen == Excerpts(nodes, held, found)
<1>1. /\ SectionBudget \in Nat /\ SectionsPerPaper \in Nat /\ m \in Nat /\ Allowance \in Nat
      /\ SectionBudget <= Allowance
  BY BoundsAssumption DEF Allowance, Larger
<1>2. held.full \in Nat /\ held.page \in PageTexts
  BY DEF Holding
<1>3. Pieces(rest) /\ (rest = <<>> /\ SectionBudget > 0 => held.full = 0)
  <2> DEFINE a == Smaller(held.full, SectionBudget)
  <2>1. a \in Nat /\ a <= SectionBudget /\ (a = 0 /\ SectionBudget > 0 => held.full = 0)
    BY <1>1, <1>2 DEF Smaller
  <2> HIDE DEF a
  <2>2. NonEmpty(<<a>>) \in Seq(Nat \ {0}) /\ TotalOf(NonEmpty(<<a>>)) <= a
        /\ TotalOf(NonEmpty(<<a>>)) \in Nat /\ (NonEmpty(<<a>>) = <<>> => a = 0)
    BY <2>1, OneText
  <2>3. QED
    BY <1>1, <2>1, <2>2 DEF Pieces, a
<1>4. CASE nodes = <<>>
  <2>1. chosen = rest
    BY <1>4 DEF Excerpts
  <2>2. QED
    BY <1>3, <2>1
<1>5. CASE nodes # <<>>
  <2>1. m \in 1..SectionsPerPaper
    BY <1>5
  <2>2. Pieces(pages)
    <3> DEFINE total == [k \in 1..m |-> TotalOf(At(held.page, PagesOf(nodes[k], Len(held.page))))]
    <3>1. total \in [1..m -> Nat]
      BY <1>2, PagesAreNat
    <3>2. pages = NonEmpty([k \in 1..m |-> Smaller(PerSection(m), total[k])])
      BY DEF PagesForNodes
    <3> HIDE DEF total, pages
    <3>3. Pieces(NonEmpty([k \in 1..m |-> Smaller(PerSection(m), total[k])]))
      BY <2>1, <3>1, PiecesFit
    <3>4. QED
      BY <3>2, <3>3
  <2>3. Pieces(text)
    <3> DEFINE from == [k \in 1..m |-> IF k \in found THEN held.full \div 2 ELSE held.full]
    <3>1. from \in [1..m -> Nat]
      BY <1>2
    <3>2. text = NonEmpty([k \in 1..m |-> Smaller(PerSection(m), from[k])])
      BY DEF TextForNodes
    <3> HIDE DEF from, text
    <3>3. Pieces(NonEmpty([k \in 1..m |-> Smaller(PerSection(m), from[k])]))
      BY <2>1, <3>1, PiecesFit
    <3>4. QED
      BY <3>2, <3>3
  <2> HIDE DEF text, pages, rest
  <2>4. \/ chosen = pages /\ pages # <<>>
        \/ chosen = text /\ text # <<>>
        \/ chosen = rest
    BY <1>5 DEF Excerpts, text, pages, rest
  <2>5. QED
    BY <1>3, <2>2, <2>3, <2>4
<1>6. QED
  BY <1>4, <1>5

LEMMA SectionsFit ==
    ASSUME NEW nodes, NEW m \in 0..SectionsPerPaper, DOMAIN nodes = 1..m, Len(nodes) = m,
           m = 0 => nodes = <<>>, NEW held, Holding(held), NEW found
    PROVE  LET sections == Sections(nodes, held, found)
           IN  /\ sections \in Seq(Nat \ {0})
               /\ sections = <<>> /\ SectionBudget > 0 =>
                     held.full + held.summary + held.abstract = 0
               /\ held.summary > 0 => sections[1] = held.summary
               /\ TotalOf(sections) <= Allowance + 2 * SummaryChars
<1> DEFINE summary == NonEmpty(<<held.summary>>)
           abstract == NonEmpty(<<held.abstract>>)
           excerpts == Excerpts(nodes, held, found)
           both == summary \o excerpts
           sections == Sections(nodes, held, found)
<1>1. SummaryChars \in Nat /\ Allowance \in Nat
  BY BoundsAssumption DEF Allowance, Larger
<1>2. /\ held.summary \in Nat /\ held.abstract \in Nat
      /\ held.summary <= SummaryChars /\ held.abstract <= SummaryChars
  BY <1>1 DEF Holding
<1>3. /\ summary \in Seq(Nat \ {0}) /\ TotalOf(summary) \in Nat
      /\ TotalOf(summary) <= held.summary
      /\ summary = <<>> => held.summary = 0
      /\ held.summary > 0 => Len(summary) = 1 /\ summary[1] = held.summary
  BY <1>2, OneText
<1>4. /\ abstract \in Seq(Nat \ {0}) /\ TotalOf(abstract) \in Nat
      /\ TotalOf(abstract) <= held.abstract
      /\ abstract = <<>> => held.abstract = 0
  BY <1>2, OneText
<1>5. /\ excerpts \in Seq(Nat \ {0}) /\ TotalOf(excerpts) <= Allowance
      /\ excerpts = <<>> /\ SectionBudget > 0 => held.full = 0
  BY ExcerptsFit DEF Pieces
<1>6. sections = IF both = <<>> THEN abstract ELSE both
  BY DEF Sections
<1> HIDE DEF sections, abstract, summary, excerpts
<1>7. excerpts \in Seq(Int) /\ summary \in Seq(Int) /\ TotalOf(excerpts) \in Nat
  BY <1>3, <1>5, SumIsNat
<1>8. both \in Seq(Nat \ {0}) /\ TotalOf(both) = TotalOf(summary) + TotalOf(excerpts)
  BY <1>3, <1>5, <1>7, SumOfConcat, ConcatProperties
<1>9. both = <<>> => summary = <<>> /\ excerpts = <<>>
  BY <1>3, <1>5
<1>10. held.summary > 0 => both # <<>> /\ both[1] = held.summary
  <2>1. held.summary > 0 => Len(both) > 0
    BY <1>3, <1>5
  <2>2. held.summary > 0 => both[1] = summary[1]
    BY <1>3, <1>5
  <2>3. QED
    BY <1>3, <1>9, <2>2
<1> HIDE DEF both
<1>11. CASE both = <<>>
  <2>1. sections = abstract /\ held.summary = 0
    BY <1>3, <1>6, <1>9, <1>11
  <2>2. abstract = <<>> /\ SectionBudget > 0 => held.full = 0 /\ held.abstract = 0
    BY <1>4, <1>5, <1>9, <1>11
  <2>3. TotalOf(abstract) <= Allowance + 2 * SummaryChars
    BY <1>1, <1>2, <1>4
  <2>4. abstract = <<>> /\ SectionBudget > 0 => held.full + held.summary + held.abstract = 0
    BY <2>1, <2>2
  <2>5. QED
    BY <1>4, <2>1, <2>3, <2>4 DEF sections
<1>12. CASE both # <<>>
  <2>1. sections = both
    BY <1>6, <1>12
  <2>2. TotalOf(both) <= Allowance + 2 * SummaryChars
    BY <1>1, <1>2, <1>3, <1>5, <1>7, <1>8
  <2>3. QED
    BY <1>8, <1>10, <1>12, <2>1, <2>2 DEF sections
<1>13. QED
  BY <1>11, <1>12

\* What holds of the paper asked about at each stage: its tree, then the nodes
\* picked from it, then what is held of it.
PaperInv ==
    /\ stage \in {"asked", "ranked", "failed", "prepared"} => tree = <<>>
    /\ stage \in {"indexed", "navigated", "held", "gathered"} => tree \in Trees
    /\ stage \in {"navigated", "held"} => Len(tree) <= SectionsPerPaper
    /\ stage = "held" => Holding(paper)
    /\ stage \notin {"held", "gathered"} => paper = NoPaper

LEMMA PickedNodes ==
    ASSUME NEW nodes \in Trees, NEW picked \in Picks(Len(nodes), SectionsPerPaper)
    PROVE  LET kept == [k \in DOMAIN picked |-> [nodes[picked[k]] EXCEPT !.parent = 0]]
           IN  kept \in Trees /\ Len(kept) <= SectionsPerPaper
<1> DEFINE m == Len(nodes)
           n == Len(picked)
           node(k) == [nodes[picked[k]] EXCEPT !.parent = 0]
           kept == [k \in DOMAIN picked |-> node(k)]
<1>1. m \in Nat /\ nodes \in Seq(Nodes(m)) /\ n \in Nat /\ DOMAIN picked = 1..n
  BY DEF Trees, Picks
<1>2. n <= SectionsPerPaper /\ \A k \in 1..n : picked[k] \in 1..m
  BY DEF Picks
<1>3. ASSUME NEW k \in 1..n
      PROVE  node(k) \in Nodes(n)
  <2>1. nodes[picked[k]] \in Nodes(m)
    BY <1>1, <1>2, <1>3, ElementOfSeq
  <2>2. \A x \in Nodes(m) : [x EXCEPT !.parent = 0] \in Nodes(n)
    <3>1. n \in Nat /\ 0 \in 0..n
      BY <1>1
    <3> HIDE DEF m, n
    <3>2. QED
      BY <3>1 DEF Nodes
  <2>3. QED
    BY <2>1, <2>2
<1> HIDE DEF node
<1>4. kept \in [1..n -> Nodes(n)]
  BY <1>1, <1>3
<1> HIDE DEF kept, n, m
<1>5. kept \in Seq(Nodes(n)) /\ Len(kept) = n
  BY <1>1, <1>4, FunIsSeq
<1>6. kept \in Trees /\ Len(kept) <= SectionsPerPaper
  BY <1>1, <1>2, <1>5 DEF Trees
<1>7. QED
  BY <1>6 DEF kept, node

LEMMA NoTreeIsTree == <<>> \in Trees
<1>1. <<>> \in Seq(Nodes(0)) /\ Len(<<>>) = 0
  OBVIOUS
<1>2. QED
  BY <1>1 DEF Trees

\* One step keeps the tree a tree and the holdings what they are.
LEMMA PaperStep == PaperInv /\ [Next]_vars => PaperInv'
<1> SUFFICES ASSUME PaperInv, [Next]_vars PROVE PaperInv'
  OBVIOUS
<1>1. CASE hybrid_candidates
  BY <1>1 DEF hybrid_candidates, PaperInv, Reach
<1>2. CASE GatherCollection
  <2>1. stage = "ranked" /\ stage' \in {"ranked", "gathered"} /\ tree' = tree /\ paper' = paper
    BY <1>2 DEF GatherCollection
  <2>2. QED
    BY <2>1, NoTreeIsTree DEF PaperInv
<1>3. CASE BuildPaperTree
  <2>1. stage = "asked" /\ stage' = "indexed" /\ paper' = paper
    BY <1>3 DEF BuildPaperTree, Reach
  <2>2. PICK n \in 0..MaxEntries :
        \E marks \in [1..n -> {Entry(l, p) : l \in Levels, p \in TargetPages}] :
        \E found \in HeadingCounts : tree' = BuildTree(marks, found)
    BY <1>3 DEF BuildPaperTree
  <2>3. tree' \in Trees
    BY <2>2, Bookmarks, BuiltTreeIsTree DEF BookmarksAreOutline
  <2>4. QED
    BY <2>1, <2>3 DEF PaperInv
<1>4. CASE NavigatePaper
  <2>1. stage = "indexed" /\ stage' = "navigated" /\ paper' = paper
    BY <1>4 DEF NavigatePaper, Reach
  <2>2. tree \in Trees
    BY <2>1 DEF PaperInv
  <2>3. Len(tree) \in Nat /\ DOMAIN tree = 1..Len(tree)
    BY <2>2 DEF Trees
  <2>4. PICK reply \in Replies, hit \in {{}, DOMAIN tree, {Len(tree)} \ {0}} :
           LET words == [i \in DOMAIN tree |-> IF i \in hit THEN i ELSE 0]
               picked == navigate(reply, words, tree, SectionsPerPaper)
           IN  tree' = [k \in DOMAIN picked |-> [tree[picked[k]] EXCEPT !.parent = 0]]
    BY <1>4 DEF NavigatePaper
  <2> DEFINE m == Len(tree)
             words == [i \in DOMAIN tree |-> IF i \in hit THEN i ELSE 0]
             picked == navigate(reply, words, tree, SectionsPerPaper)
  <2>5. reply \in Seq(Nat) /\ SectionsPerPaper \in Nat
    BY InputsAssumption, BoundsAssumption
  <2>6. words \in [1..m -> Nat]
    BY <2>3
  <2>7. tree' = [k \in DOMAIN picked |-> [tree[picked[k]] EXCEPT !.parent = 0]]
    BY <2>4
  <2> HIDE DEF words
  <2>8. picked \in Picks(m, SectionsPerPaper)
    BY <2>3, <2>5, <2>6, NavigatePicks
  <2> HIDE DEF picked
  <2>9. tree' \in Trees /\ Len(tree') <= SectionsPerPaper
    BY <2>2, <2>7, <2>8, PickedNodes
  <2>10. QED
    BY <2>1, <2>9 DEF PaperInv
<1>5. CASE NoTree
  <2>1. stage = "asked" /\ stage' = "navigated" /\ paper' = paper /\ tree' = tree
    BY <1>5 DEF NoTree, Reach
  <2>2. Len(<<>>) = 0 /\ SectionsPerPaper \in Nat
    BY BoundsAssumption
  <2>3. QED
    BY <2>1, <2>2, NoTreeIsTree DEF PaperInv
<1>6. CASE HoldPaper
  <2>1. stage = "navigated" /\ stage' = "held" /\ tree' = tree
    BY <1>6 DEF HoldPaper, Reach
  <2>2. PICK page \in PageTexts, pdf \in BOOLEAN, extracted \in BOOLEAN,
             summary \in {0, SummaryChars}, abstract \in {0, SummaryChars} :
           paper' = [pdf |-> pdf, page |-> page,
                     full |-> IF extracted THEN TotalOf(page) ELSE 0,
                     summary |-> summary, abstract |-> abstract]
    BY <1>6 DEF HoldPaper
  <2>3. TotalOf(page) \in Nat
    BY PagesAreNat
  <2>4. Holding(paper')
    BY <2>2, <2>3 DEF Holding
  <2>5. QED
    BY <2>1, <2>4 DEF PaperInv
<1>7. CASE GatherPaper
  BY <1>7 DEF GatherPaper, PaperInv, Reach
<1>8. CASE BuildPrompt
  BY <1>8 DEF BuildPrompt, PaperInv, Reach
<1>9. CASE UnreadablePdf
  BY <1>9 DEF UnreadablePdf, PaperInv
<1>10. CASE UNCHANGED vars
  BY <1>10 DEF vars, PaperInv
<1>11. QED
  BY <1>1, <1>2, <1>3, <1>4, <1>5, <1>6, <1>7, <1>8, <1>9, <1>10 DEF Next

\* gather_grounding_material_for_paper: as far as the budget of a section is not
\* zero, a question about a paper of which any text is held is answered from
\* some of it, whatever the tree and the PDF give, and from no more than the
\* shares of the sections allow.
THEOREM EvidenceOfPaper ==
    ASSUME SectionBudget > 0
    PROVE  Spec => []EvidenceIsUsed
<1>1. Init => PaperInv /\ EvidenceIsUsed
  BY DEF Init, PaperInv, EvidenceIsUsed
<1>2. PaperInv /\ EvidenceIsUsed /\ [Next]_vars => PaperInv' /\ EvidenceIsUsed'
  <2> SUFFICES ASSUME PaperInv, EvidenceIsUsed, [Next]_vars PROVE PaperInv' /\ EvidenceIsUsed'
    OBVIOUS
  <2>1. PaperInv'
    BY PaperStep
  <2>2. CASE GatherPaper
    <3>1. stage = "held" /\ paper' = paper
      BY <2>2 DEF GatherPaper, Reach
    <3>2. tree \in Trees /\ Len(tree) <= SectionsPerPaper /\ Holding(paper)
      BY <3>1 DEF PaperInv
    <3>3. PICK found \in SUBSET DOMAIN tree :
             materials' = <<[score |-> Scale, sections |-> Sections(tree, paper, found)]>>
      BY <2>2 DEF GatherPaper
    <3> DEFINE m == Len(tree)
               sections == Sections(tree, paper, found)
    <3>4. m \in 0..SectionsPerPaper /\ DOMAIN tree = 1..m /\ (m = 0 => tree = <<>>)
      BY <3>2, BoundsAssumption DEF Trees
    <3> HIDE DEF m
    <3>5. /\ sections = <<>> /\ SectionBudget > 0 => paper.full + paper.summary + paper.abstract = 0
          /\ paper.summary > 0 => sections[1] = paper.summary
          /\ TotalOf(sections) <= Allowance + 2 * SummaryChars
      BY <3>2, <3>4, SectionsFit DEF m
    <3>6. materials'[1].sections = sections
      BY <3>3
    <3> HIDE DEF sections
    <3>7. EvidenceIsUsed'
      BY <3>1, <3>5, <3>6 DEF EvidenceIsUsed, Allowance
    <3>8. QED
      BY <2>1, <3>7
  <2>3. CASE GatherCollection
    <3>1. paper' = NoPaper
      BY <2>3 DEF GatherCollection, PaperInv
    <3>2. QED
      BY <2>1, <3>1 DEF EvidenceIsUsed
  <2>4. CASE hybrid_candidates \/ BuildPaperTree \/ NavigatePaper \/ NoTree \/ HoldPaper
             \/ UnreadablePdf \/ BuildPrompt
    <3>1. stage' # "gathered"
      BY <2>4 DEF hybrid_candidates, BuildPaperTree, NavigatePaper, NoTree, HoldPaper,
                  UnreadablePdf, BuildPrompt, Reach
    <3>2. QED
      BY <2>1, <3>1 DEF EvidenceIsUsed
  <2>5. CASE UNCHANGED vars
    BY <2>1, <2>5 DEF vars, EvidenceIsUsed
  <2>6. QED
    BY <2>2, <2>3, <2>4, <2>5 DEF Next
<1>3. QED
  BY <1>1, <1>2, PTL DEF Spec

-----------------------------------------------------------------------------
(* Rankings.                                                               *)

Distinct(s) == \A i, j \in 1..Len(s) : s[i] = s[j] => i = j

LEMMA FirstOfIs ==
    ASSUME NEW T, NEW s \in Seq(T), NEW n \in Nat
    PROVE  /\ FirstOf(s, n) \in Seq(T)
           /\ Len(FirstOf(s, n)) = Smaller(n, Len(s))
           /\ \A i \in 1..Smaller(n, Len(s)) : FirstOf(s, n)[i] = s[i]
<1> DEFINE k == Smaller(n, Len(s))
<1>1. k \in Nat /\ k <= Len(s) /\ Len(s) \in Nat
  BY DEF Smaller
<1>2. \A i \in 1..k : s[i] \in T
  BY <1>1
<1>3. FirstOf(s, n) = SubSeq(s, 1, k)
  BY DEF FirstOf
<1> HIDE DEF k
<1>4. /\ SubSeq(s, 1, k) \in Seq(T)
      /\ Len(SubSeq(s, 1, k)) = IF 1 <= k THEN k - 1 + 1 ELSE 0
      /\ \A i \in 1..(k - 1 + 1) : SubSeq(s, 1, k)[i] = s[1 + i - 1]
  BY <1>1, <1>2, SubSeqProperties
<1>5. \A i \in 1..k : i \in 1..(k - 1 + 1) /\ 1 + i - 1 = i
  BY <1>1
<1>6. \A i \in 1..k : SubSeq(s, 1, k)[i] = s[i]
  BY <1>4, <1>5
<1>7. QED
  BY <1>1, <1>3, <1>4, <1>6 DEF k

\* The rank of a member of a ranking is its place.
LEMMA RankIs ==
    ASSUME NEW T, NEW s \in Seq(T), Distinct(s)
    PROVE  /\ \A i \in 1..Len(s) : IsIn(s, s[i]) /\ RankIn(s, s[i]) = i
           /\ \A p : IsIn(s, p) =>
                 RankIn(s, p) \in 1..Len(s) /\ s[RankIn(s, p)] = p /\ p \in T
<1> DEFINE n == Len(s)
<1>1. n \in Nat /\ DOMAIN s = 1..n /\ \A i \in 1..n : s[i] \in T
  OBVIOUS
<1>2. ASSUME NEW i \in 1..n
      PROVE  IsIn(s, s[i]) /\ RankIn(s, s[i]) = i
  <2> DEFINE I == {j \in 1..n : s[j] = s[i]}
  <2>1. IsIn(s, s[i])
    BY <1>1, <1>2 DEF IsIn, ToSet
  <2>2. RankIn(s, s[i]) = IF I # {} THEN Min(I) ELSE 0
    BY DEF RankIn, SelectInSeq
  <2>3. I = {i}
    BY <1>2 DEF Distinct
  <2>4. {i} \in SUBSET Int /\ i \in {i} /\ \A y \in {i} : i <= y
    BY <1>1, <1>2
  <2>5. Min({i}) = i
    BY <2>4, MinIs
  <2>6. QED
    BY <2>1, <2>2, <2>3, <2>5
<1>3. ASSUME NEW p, IsIn(s, p)
      PROVE  \E i \in 1..n : p = s[i]
  BY <1>1, <1>3 DEF IsIn, ToSet
<1> HIDE DEF n
<1>4. ASSUME NEW p, IsIn(s, p)
      PROVE  RankIn(s, p) \in 1..n /\ s[RankIn(s, p)] = p /\ p \in T
  <2>1. PICK i \in 1..n : p = s[i]
    BY <1>3, <1>4
  <2>2. QED
    BY <1>1, <1>2, <2>1
<1>5. QED
  BY <1>2, <1>4 DEF n

\* The first n of a ranking have the same ranks there.
LEMMA RankInFirst ==
    ASSUME NEW T, NEW s \in Seq(T), Distinct(s), NEW n \in Nat
    PROVE  /\ Distinct(FirstOf(s, n))
           /\ \A p : IsIn(FirstOf(s, n), p) <=> IsIn(s, p) /\ RankIn(s, p) <= n
           /\ \A p : IsIn(FirstOf(s, n), p) => RankIn(FirstOf(s, n), p) = RankIn(s, p)
<1> DEFINE k == Smaller(n, Len(s))
           f == FirstOf(s, n)
<1>1. f \in Seq(T) /\ Len(f) = k /\ \A i \in 1..k : f[i] = s[i]
  BY FirstOfIs
<1>2. k \in Nat /\ Len(s) \in Nat /\ k <= Len(s) /\ k <= n
      /\ \A i \in 1..Len(s) : i <= n => i \in 1..k
  BY DEF Smaller
<1> HIDE DEF k, f
<1>3. Distinct(f)
  BY <1>1, <1>2 DEF Distinct
<1>4. /\ \A i \in 1..Len(s) : IsIn(s, s[i]) /\ RankIn(s, s[i]) = i
      /\ \A p : IsIn(s, p) => RankIn(s, p) \in 1..Len(s) /\ s[RankIn(s, p)] = p
  BY RankIs
<1>5. /\ \A i \in 1..k : IsIn(f, f[i]) /\ RankIn(f, f[i]) = i
      /\ \A p : IsIn(f, p) => RankIn(f, p) \in 1..k /\ f[RankIn(f, p)] = p
  BY <1>1, <1>3, RankIs
<1>6. ASSUME NEW p, IsIn(f, p)
      PROVE  IsIn(s, p) /\ RankIn(s, p) <= n /\ RankIn(f, p) = RankIn(s, p)
  <2> DEFINE i == RankIn(f, p)
  <2>1. i \in 1..k /\ f[i] = p
    BY <1>5, <1>6
  <2> HIDE DEF i
  <2>2. s[i] = p /\ i \in 1..Len(s) /\ i <= n
    BY <1>1, <1>2, <2>1
  <2>3. QED
    BY <1>4, <2>2 DEF i
<1>7. ASSUME NEW p, IsIn(s, p), RankIn(s, p) <= n
      PROVE  IsIn(f, p)
  <2> DEFINE i == RankIn(s, p)
  <2>1. i \in 1..Len(s) /\ s[i] = p /\ i <= n
    BY <1>4, <1>7
  <2> HIDE DEF i
  <2>2. i \in 1..k
    BY <1>2, <2>1
  <2>3. QED
    BY <1>1, <1>5, <2>1, <2>2
<1>8. QED
  BY <1>3, <1>6, <1>7 DEF f

\* All places of a list give the list.
LEMMA AllPlaces ==
    ASSUME NEW T, NEW s \in Seq(T)
    PROVE  At(s, DOMAIN s) = s
<1> DEFINE n == Len(s)
<1>1. n \in Nat /\ DOMAIN s = 1..n /\ s = [k \in 1..n |-> s[k]]
  OBVIOUS
<1> HIDE DEF n
<1>2. \A m \in Nat : IsFiniteSet(1..m) /\ Cardinality(1..m) = m
  <2>1. \A a, b \in Int : Cardinality(a..b) = (IF a > b THEN 0 ELSE b - a + 1) /\ IsFiniteSet(a..b)
    BY FS_Interval
  <2>2. QED
    BY <2>1
<1>3. \A p \in 1..n : Cardinality({r \in 1..n : r < p}) = p - 1
  <2>1. \A p \in 1..n : {r \in 1..n : r < p} = 1..(p - 1) /\ p - 1 \in Nat
    BY <1>1
  <2>2. QED
    BY <1>2, <2>1
<1>4. \A k \in 1..n : (CHOOSE p \in 1..n : Cardinality({r \in 1..n : r < p}) = k - 1) = k
  <2>1. ASSUME NEW k \in 1..n, NEW p \in 1..n, Cardinality({r \in 1..n : r < p}) = k - 1
        PROVE  p = k
    <3>1. p - 1 = k - 1
      BY <1>3, <2>1
    <3>2. QED
      BY <1>1, <3>1
  <2>2. QED
    BY <1>3, <2>1
<1>5. At(s, 1..n) = [k \in 1..n |-> s[InOrder(1..n, <)[k]]]
  BY <1>1, <1>2 DEF At
<1>6. \A k \in 1..n : InOrder(1..n, <)[k] = k
  BY <1>1, <1>2, <1>4 DEF InOrder
<1>7. QED
  BY <1>1, <1>5, <1>6

\* What is filtered from a ranking is a ranking of what the filter lets pass.
Passes(s, A, places) ==
    places \in SUBSET (1..Len(s)) /\ \A k \in 1..Len(s) : k \in places <=> s[k] \in A

LEMMA FilteredRanking ==
    ASSUME NEW T, NEW s \in Seq(T), Distinct(s), NEW A, NEW places, Passes(s, A, places)
    PROVE  /\ At(s, places) \in Seq(T \cap A) /\ Distinct(At(s, places))
           /\ ToSet(At(s, places)) = ToSet(s) \cap A
<1> DEFINE n == Len(s)
           list == At(s, places)
           m == Cardinality(places)
<1>1. n \in Nat /\ DOMAIN s = 1..n /\ \A k \in 1..n : s[k] \in T
  OBVIOUS
<1>2. places \in SUBSET (1..n) /\ \A k \in 1..n : k \in places <=> s[k] \in A
  BY <1>1 DEF Passes
<1> HIDE DEF n
<1>3. IsFiniteSet(places) /\ m \in Nat /\ places \in SUBSET Int
  <2>1. IsFiniteSet(1..n)
    BY <1>1, FS_Interval
  <2>2. IsFiniteSet(places)
    BY <1>2, <2>1, FS_Subset
  <2>3. places \in SUBSET Int
    BY <1>1, <1>2
  <2>4. QED
    BY <2>2, <2>3, FS_CardinalityType
<1> DEFINE B == T \cap A
<1>4. AllIn(s, places, B)
  BY <1>1, <1>2 DEF AllIn
<1> HIDE DEF B
<1>40. Filtered(At(s, places), s, places, B)
  BY <1>3, <1>4, AtIsSeq
<1>5. /\ list \in Seq(B) /\ Len(list) = m
      /\ \A k \in 1..m : \E i \in places : list[k] = s[i]
      /\ \A i \in places : \E k \in 1..m : list[k] = s[i]
  BY <1>40 DEF Filtered
<1>6. PICK o : Increasing(o, places) /\ list = [k \in 1..m |-> s[o[k]]]
  <2>1. \E o : /\ Increasing(o, places)
               /\ At(s, places) = [k \in 1..Cardinality(places) |-> s[o[k]]]
    BY <1>3, AtPlaces
  <2>2. QED
    BY <2>1
<1> HIDE DEF list, m
<1>7. Distinct(list)
  <2>1. ASSUME NEW i \in 1..m, NEW j \in 1..m, list[i] = list[j]
        PROVE  i = j
    <3>1. list[i] = s[o[i]] /\ list[j] = s[o[j]]
      BY <1>6
    <3>2. o[i] \in places /\ o[j] \in places
      BY <1>6 DEF Increasing, m
    <3>3. o[i] \in 1..n /\ o[j] \in 1..n
      BY <1>2, <3>2
    <3>4. o[i] = o[j]
      BY <2>1, <3>1, <3>3 DEF Distinct, n
    <3>5. i < j \/ j < i \/ i = j
      BY <1>3
    <3>6. i < j => o[i] < o[j]
      BY <1>6 DEF Increasing, m
    <3>7. j < i => o[j] < o[i]
      BY <1>6 DEF Increasing, m
    <3>8. o[i] \in Int /\ o[j] \in Int
      BY <1>3, <3>2
    <3>9. QED
      BY <3>4, <3>5, <3>6, <3>7, <3>8
  <2>2. QED
    BY <1>5, <2>1 DEF Distinct
<1>8. ToSet(list) = ToSet(s) \cap A
  <2>1. DOMAIN list = 1..m
    BY <1>5
  <2>2. \A x : x \in ToSet(list) <=> \E k \in 1..m : x = list[k]
    BY <2>1 DEF ToSet
  <2>3. \A x : x \in ToSet(s) <=> \E k \in 1..n : x = s[k]
    BY <1>1 DEF ToSet
  <2>4. ASSUME NEW x \in ToSet(list) PROVE x \in ToSet(s) \cap A
    <3>1. PICK k \in 1..m : x = list[k]
      BY <2>2
    <3>2. PICK i \in places : list[k] = s[i]
      BY <1>5
    <3>3. QED
      BY <1>2, <2>3, <3>1, <3>2
  <2>5. ASSUME NEW x \in ToSet(s), x \in A PROVE x \in ToSet(list)
    <3>1. PICK i \in 1..n : x = s[i]
      BY <2>3
    <3>2. i \in places
      BY <1>2, <2>5, <3>1
    <3>3. PICK k \in 1..m : list[k] = s[i]
      BY <1>5, <3>2
    <3>4. QED
      BY <2>2, <3>1, <3>3
  <2>6. QED
    BY <2>4, <2>5
<1>9. QED
  BY <1>5, <1>7, <1>8 DEF list, B

-----------------------------------------------------------------------------
(* Scores.                                                                 *)

Part(k) == Scale \div (RRF_RANK_CONSTANT + k)

LEMMA PartIs ==
    ASSUME NEW k \in 1..CandidateK
    PROVE  Part(k) \in Nat /\ Part(k) > 0 /\ Part(k) * (60 + k) = Scale /\ Scale > 0
<1> DEFINE d == 60 + k
           q == Scale \div d
<1>1. Scale \in Nat /\ Scale > 0 /\ d \in Nat /\ d > 0 /\ Scale % d = 0
  BY ScaleAssumption, BoundsAssumption DEF RRF_RANK_CONSTANT
<1> HIDE DEF d
<1>3. q \in Nat /\ Scale = d * q
  BY <1>1
<1> HIDE DEF q
<1>4. q * d = Scale /\ q > 0
  BY <1>1, <1>3
<1>5. QED
  BY <1>1, <1>3, <1>4 DEF Part, q, d, RRF_RANK_CONSTANT

LEMMA FactorsFall ==
    \A u, v, x, y \in Nat : x < y /\ v > 0 /\ u * x = v * y => u > v
<1> SUFFICES ASSUME NEW u \in Nat, NEW v \in Nat, NEW x \in Nat, NEW y \in Nat,
                    x < y, v > 0, u * x = v * y, u <= v
             PROVE  FALSE
  OBVIOUS
<1>1. v - u \in Nat /\ y - x \in Nat /\ y - x > 0
  OBVIOUS
<1>2. (v - u) * x \in Nat /\ v * (y - x) \in Nat /\ u * x \in Nat /\ v * x \in Nat
  BY <1>1
<1>3. v * x = u * x + (v - u) * x /\ v * y = v * x + v * (y - x)
  OBVIOUS
<1>4. v * (y - x) > 0
  BY <1>1
<1>5. QED
  BY <1>2, <1>3, <1>4

LEMMA PartsFall ==
    /\ \A a, b \in 1..CandidateK : a < b => Part(a) > Part(b)
    /\ CandidateK <= 61 => \A a, b \in 1..CandidateK : 2 * Part(b) > Part(a)
<1>1. ASSUME NEW a \in 1..CandidateK, NEW b \in 1..CandidateK, a < b
      PROVE  Part(a) > Part(b)
  <2>1. Part(a) \in Nat /\ Part(b) \in Nat /\ Part(b) > 0
        /\ Part(a) * (60 + a) = Part(b) * (60 + b)
    BY PartIs
  <2>2. 60 + a \in Nat /\ 60 + b \in Nat /\ 60 + a < 60 + b
    BY <1>1
  <2>3. QED
    BY <2>1, <2>2, FactorsFall
<1>2. ASSUME CandidateK <= 61, NEW a \in 1..CandidateK, NEW b \in 1..CandidateK
      PROVE  2 * Part(b) > Part(a)
  <2> DEFINE u == Part(a)
             v == Part(b)
  <2>1. u \in Nat /\ v \in Nat /\ v > 0 /\ u * (60 + a) = v * (60 + b)
    BY PartIs
  <2>2. a - 1 \in Nat /\ 61 - b \in Nat
    BY <1>2, BoundsAssumption
  <2> HIDE DEF u, v
  <2>3. u * (60 + a) = 61 * u + u * (a - 1) /\ v * (60 + b) = 121 * v - v * (61 - b)
    BY <2>1, <2>2
  <2>4. u * (a - 1) \in Nat /\ v * (61 - b) \in Nat
    BY <2>1, <2>2
  <2>5. 61 * u <= 121 * v
    BY <2>1, <2>3, <2>4
  <2>6. 2 * v > u
    BY <2>1, <2>5
  <2>7. QED
    BY <2>6 DEF u, v
<1>3. QED
  BY <1>1, <1>2

InRanks(R, S) == [k \in 1..Cardinality(S) |-> CHOOSE p \in S : Rank(R, S, p) = k - 1]

LEMMA ChosenAreSorted ==
    ASSUME NEW S, IsFiniteSet(S), NEW R, StrictOrder(R, S)
    PROVE  Sorted(InRanks(R, S), R, S)
<1> DEFINE n == Cardinality(S)
           list == [k \in 1..n |-> CHOOSE p \in S : Rank(R, S, p) = k - 1]
<1>1. ASSUME NEW k \in 1..n
      PROVE  list[k] \in S /\ Rank(R, S, list[k]) = k - 1
  <2>1. \E p \in S : Rank(R, S, p) = k - 1
    BY <1>1, RanksAreDense
  <2>2. QED
    BY <1>1, <2>1
<1>2. list = [k \in 1..n |-> list[k]]
  OBVIOUS
<1> HIDE DEF list
<1>3. Sorted([k \in 1..n |-> list[k]], R, S)
  BY <1>1, RankedIsSorted
<1>4. Sorted(list, R, S)
  BY <1>2, <1>3
<1>5. QED
  BY <1>4 DEF list, InRanks

\* A list of candidates: the best of S by their scores.
Scored(c, S, vector, fts) ==
    /\ c \in Seq(S) /\ Len(c) = Smaller(CandidateK, Cardinality(S)) /\ Distinct(c)
    /\ \A i, j \in 1..Len(c) :
          i < j => Score(vector, fts, c[i]) >= Score(vector, fts, c[j])
    /\ \A i \in 1..Len(c), p \in S :
          (\A j \in 1..Len(c) : c[j] # p) => Score(vector, fts, c[i]) >= Score(vector, fts, p)

Rankings(vector, fts) ==
    /\ vector \in Seq(Papers) /\ fts \in Seq(Papers)
    /\ Distinct(vector) /\ Distinct(fts)
    /\ Len(vector) <= CandidateK /\ Len(fts) <= CandidateK

LEMMA ScoreIs ==
    ASSUME NEW vector, NEW fts, Rankings(vector, fts), NEW p
    PROVE  /\ Share(vector, p) \in Nat /\ Share(fts, p) \in Nat
           /\ Score(vector, fts, p) = Share(vector, p) + Share(fts, p)
           /\ IsIn(vector, p) => /\ RankIn(vector, p) \in 1..CandidateK /\ p \in Papers
                                 /\ Share(vector, p) = Part(RankIn(vector, p))
           /\ IsIn(fts, p) => /\ RankIn(fts, p) \in 1..CandidateK /\ p \in Papers
                              /\ Share(fts, p) = Part(RankIn(fts, p))
           /\ ~IsIn(vector, p) => Share(vector, p) = 0
           /\ ~IsIn(fts, p) => Share(fts, p) = 0
<1>1. ASSUME NEW s \in Seq(Papers), Distinct(s), Len(s) <= CandidateK, IsIn(s, p)
      PROVE  RankIn(s, p) \in 1..CandidateK /\ p \in Papers /\ Share(s, p) = Part(RankIn(s, p))
  <2>1. RankIn(s, p) \in 1..Len(s) /\ p \in Papers
    BY <1>1, RankIs
  <2>2. RankIn(s, p) \in 1..CandidateK
    BY <1>1, <2>1, BoundsAssumption
  <2>3. QED
    BY <1>1, <2>1, <2>2 DEF Share, Part
<1>2. \A s : ~IsIn(s, p) => Share(s, p) = 0
  BY DEF Share
<1>3. \A s \in Seq(Papers) : Distinct(s) /\ Len(s) <= CandidateK => Share(s, p) \in Nat
  BY <1>1, <1>2, PartIs
<1>4. Score(vector, fts, p) = Share(vector, p) + Share(fts, p)
  BY DEF Score
<1>5. QED
  BY <1>1, <1>2, <1>3, <1>4 DEF Rankings

LEMMA BestRankIs ==
    ASSUME NEW vector, NEW fts, Rankings(vector, fts), NEW p, IsIn(vector, p) \/ IsIn(fts, p)
    PROVE  BestRank(vector, fts, p) \in Nat
<1> DEFINE ranks == {RankIn(r, p) : r \in {r \in {vector, fts} : IsIn(r, p)}}
<1>1. ranks \in SUBSET Nat /\ ranks # {}
  <2>1. /\ IsIn(vector, p) => RankIn(vector, p) \in Nat
        /\ IsIn(fts, p) => RankIn(fts, p) \in Nat
    BY ScoreIs
  <2>2. QED
    BY <2>1
<1>2. BestRank(vector, fts, p) = Min(ranks)
  BY DEF BestRank
<1> HIDE DEF ranks
<1>3. QED
  BY <1>1, <1>2, MinOfNats

LEMMA FusedIsScored ==
    ASSUME NEW vector, NEW fts, Rankings(vector, fts),
           NEW S, S = ToSet(vector) \cup ToSet(fts)
    PROVE  /\ Scored(Fused(vector, fts, CandidateK), S, vector, fts)
           /\ S \subseteq Papers /\ IsFiniteSet(S)
<1> DEFINE score(p) == Score(vector, fts, p)
           best(p) == BestRank(vector, fts, p)
           Before(p, r) ==
               \/ score(p) > score(r)
               \/ score(p) = score(r) /\ (best(p) < best(r) \/ (best(p) = best(r) /\ p < r))
           R == {e \in S \X S : Before(e[1], e[2])}
           n == Cardinality(S)
           list == InOrder(S, Before)
           c == FirstOf(list, CandidateK)
<1>1. Fused(vector, fts, CandidateK) = c
  BY DEF Fused
<1>2. S \subseteq Papers /\ \A p \in S : IsIn(vector, p) \/ IsIn(fts, p)
  BY ScoreIs DEF IsIn
<1>3. IsFiniteSet(S)
  <2>1. NPapers \in Nat
    BY BoundsAssumption
  <2>2. IsFiniteSet(1..NPapers)
    BY <2>1, FS_Interval
  <2>3. QED
    BY <1>2, <2>2, FS_Subset DEF Papers
<1>4. \A p \in S : p \in Int /\ score(p) \in Nat /\ best(p) \in Nat
  <2>1. \A p \in S : p \in Int
    BY <1>2, BoundsAssumption DEF Papers
  <2>2. \A p \in S : score(p) \in Nat
    <3>1. ASSUME NEW p \in S PROVE score(p) \in Nat
      <4>1. Share(vector, p) \in Nat /\ Share(fts, p) \in Nat
        BY ScoreIs
      <4>2. QED
        BY <4>1, ScoreIs
    <3>2. QED
      BY <3>1
  <2>3. \A p \in S : best(p) \in Nat
    BY <1>2, BestRankIs
  <2>4. QED
    BY <2>1, <2>2, <2>3
<1>5. \A p, r \in S : <<p, r>> \in R <=> Before(p, r)
  OBVIOUS
<1>6. list = [k \in 1..n |-> CHOOSE p \in S : Cardinality({r \in S : Before(r, p)}) = k - 1]
  BY DEF InOrder
<1> HIDE DEF R, score, best
<1>7. StrictOrder(R, S)
  <2>1. \A p \in S : <<p, p>> \notin R
    BY <1>4, <1>5
  <2>2. \A p, q, r \in S : <<p, q>> \in R /\ <<q, r>> \in R => <<p, r>> \in R
    BY <1>4, <1>5
  <2>3. \A p, q \in S : p = q \/ <<p, q>> \in R \/ <<q, p>> \in R
    <3>1. ASSUME NEW p \in S, NEW q \in S, p # q
          PROVE  Before(p, q) \/ Before(q, p)
      <4>1. p < q \/ q < p
        BY <1>4, <3>1
      <4>2. score(p) > score(q) \/ score(q) > score(p) \/ score(p) = score(q)
        BY <1>4
      <4>3. best(p) < best(q) \/ best(q) < best(p) \/ best(p) = best(q)
        BY <1>4
      <4>4. QED
        BY <4>1, <4>2, <4>3
    <3> HIDE DEF Before
    <3>2. QED
      BY <1>5, <3>1
  <2>4. QED
    BY <2>1, <2>2, <2>3 DEF StrictOrder
<1>8. list = [k \in 1..n |-> CHOOSE p \in S : Rank(R, S, p) = k - 1]
  <2> HIDE DEF list, n, Before
  <2>1. \A p \in S : {r \in S : <<r, p>> \in R} = {r \in S : Before(r, p)}
    BY <1>5
  <2>2. \A p \in S : Rank(R, S, p) = Cardinality({r \in S : Before(r, p)})
    BY <2>1 DEF Rank
  <2> DEFINE counted(k) == CHOOSE p \in S : Cardinality({r \in S : Before(r, p)}) = k - 1
             ranked(k) == CHOOSE p \in S : Rank(R, S, p) = k - 1
  <2>3. \A k : counted(k) = ranked(k)
    BY <2>2
  <2>4. list = [k \in 1..n |-> counted(k)]
    BY <1>6
  <2> HIDE DEF counted, ranked
  <2>5. list = [k \in 1..n |-> ranked(k)]
    BY <2>3, <2>4
  <2>6. QED
    BY <2>5 DEF ranked
<1>9. \A p, r \in S : <<p, r>> \in R => score(p) >= score(r)
  BY <1>4, <1>5
<1> HIDE DEF list, Before
<1>10. Sorted(list, R, S) /\ n \in Nat
  <2>1. Sorted(InRanks(R, S), R, S)
    BY <1>3, <1>7, ChosenAreSorted
  <2>2. n \in Nat
    BY <1>3, FS_CardinalityType
  <2>3. list = InRanks(R, S)
    BY <1>8 DEF InRanks
  <2>4. QED
    BY <2>1, <2>2, <2>3
<1>11. /\ list \in [1..n -> S]
       /\ \A p \in S : \E k \in 1..n : list[k] = p
       /\ \A i, j \in 1..n : i < j => <<list[i], list[j]>> \in R
  BY <1>10 DEF Sorted
<1>12. list \in Seq(S) /\ Len(list) = n
  BY <1>10, <1>11, FunIsSeq
<1> DEFINE k == Smaller(CandidateK, n)
<1>13. k \in Nat /\ k <= n
  BY <1>10, BoundsAssumption DEF Smaller
<1>14. c \in Seq(S) /\ Len(c) = k /\ \A i \in 1..k : c[i] = list[i]
  <2>1. CandidateK \in Nat
    BY BoundsAssumption
  <2>2. /\ FirstOf(list, CandidateK) \in Seq(S)
        /\ Len(FirstOf(list, CandidateK)) = Smaller(CandidateK, Len(list))
        /\ \A i \in 1..Smaller(CandidateK, Len(list)) : FirstOf(list, CandidateK)[i] = list[i]
    BY <1>12, <2>1, FirstOfIs
  <2>3. QED
    BY <1>12, <2>2
<1> HIDE DEF k, c, n
<1>15. \A i, j \in 1..n : i < j => score(list[i]) >= score(list[j]) /\ list[i] # list[j]
  <2>1. ASSUME NEW i \in 1..n, NEW j \in 1..n, i < j
        PROVE  score(list[i]) >= score(list[j]) /\ list[i] # list[j]
    <3>1. <<list[i], list[j]>> \in R /\ list[i] \in S /\ list[j] \in S
      BY <1>11, <2>1
    <3>2. QED
      BY <1>7, <1>9, <3>1 DEF StrictOrder
  <2>2. QED
    BY <2>1
<1>16. Distinct(c)
  <2>1. ASSUME NEW i \in 1..k, NEW j \in 1..k, c[i] = c[j]
        PROVE  i = j
    <3>1. i \in 1..n /\ j \in 1..n /\ list[i] = list[j]
      BY <1>10, <1>13, <1>14, <2>1
    <3>2. ~(i < j) /\ ~(j < i)
      BY <1>15, <3>1
    <3>3. QED
      BY <2>1, <3>2
  <2>2. QED
    BY <1>14, <2>1 DEF Distinct
<1>17. \A i, j \in 1..k : i < j => score(c[i]) >= score(c[j])
  BY <1>10, <1>13, <1>14, <1>15
<1>18. ASSUME NEW i \in 1..k, NEW p \in S, \A j \in 1..k : c[j] # p
       PROVE  score(c[i]) >= score(p)
  <2>1. PICK m \in 1..n : list[m] = p
    BY <1>11
  <2>2. ~(m <= k)
    BY <1>10, <1>13, <1>14, <1>18, <2>1
  <2>3. i \in 1..n /\ i < m /\ c[i] = list[i]
    BY <1>10, <1>13, <1>14, <2>1, <2>2
  <2>4. QED
    BY <1>15, <2>1, <2>3
<1>19. Scored(c, S, vector, fts)
  BY <1>14, <1>16, <1>17, <1>18 DEF Scored, score, k, n
<1>20. QED
  BY <1>1, <1>2, <1>3, <1>19

-----------------------------------------------------------------------------
(* The two rankings of a question to the collection.                       *)

LEMMA RankingIs ==
    ASSUME NEW set \in SUBSET Papers, NEW s \in RankingsOf(set)
    PROVE  s \in Seq(set) /\ s \in Seq(Papers) /\ Distinct(s)
<1>1. PICK t \in SUBSET set : s \in SetToSeqs(t)
  BY DEF RankingsOf
<1> DEFINE n == Cardinality(t)
<1>2. s \in [1..n -> t] /\ \A i, j \in 1..n : i # j => s[i] # s[j]
  BY <1>1 DEF SetToSeqs
<1>3. n \in Nat
  <2>1. NPapers \in Nat
    BY BoundsAssumption
  <2>2. IsFiniteSet(1..NPapers)
    BY <2>1, FS_Interval
  <2>3. t \in SUBSET (1..NPapers)
    BY DEF Papers
  <2>4. IsFiniteSet(t)
    BY <2>2, <2>3, FS_Subset
  <2>5. QED
    BY <2>4, FS_CardinalityType
<1> HIDE DEF n
<1>4. s \in [1..n -> set] /\ s \in [1..n -> Papers]
  BY <1>2
<1>5. s \in Seq(set) /\ s \in Seq(Papers) /\ Len(s) = n
  BY <1>3, <1>4, FunIsSeq
<1>6. QED
  BY <1>2, <1>5 DEF Distinct

LEMMA FirstOfAll ==
    ASSUME NEW T, NEW s \in Seq(T), NEW n \in Nat, Len(s) <= n
    PROVE  FirstOf(s, n) = s
<1>1. Len(s) \in Nat /\ Smaller(n, Len(s)) = Len(s)
  BY DEF Smaller
<1>2. /\ FirstOf(s, n) \in Seq(T) /\ Len(FirstOf(s, n)) = Len(s)
      /\ \A i \in 1..Len(s) : FirstOf(s, n)[i] = s[i]
  BY <1>1, FirstOfIs
<1>3. QED
  BY <1>2, SeqEqual

\* What a ranking holds of the papers that the topic allows.
Inside(order, allowed) == At(order, {k \in DOMAIN order : order[k] \in allowed})

LEMMA InsideIs ==
    ASSUME NEW s \in Seq(Papers), Distinct(s), NEW allowed \in SUBSET Papers
    PROVE  /\ Inside(s, allowed) \in Seq(Papers) /\ Distinct(Inside(s, allowed))
           /\ ToSet(Inside(s, allowed)) = ToSet(s) \cap allowed
           /\ s \in Seq(allowed) => Inside(s, allowed) = s
<1> DEFINE places == {k \in DOMAIN s : s[k] \in allowed}
<1>1. Inside(s, allowed) = At(s, places)
  BY DEF Inside
<1>2. Passes(s, allowed, places)
  BY DEF Passes
<1>3. s \in Seq(allowed) => places = DOMAIN s
  <2>1. s \in Seq(allowed) => \A k \in DOMAIN s : s[k] \in allowed
    BY ElementOfSeq
  <2>2. QED
    BY <2>1
<1> HIDE DEF places
<1>4. /\ At(s, places) \in Seq(Papers \cap allowed) /\ Distinct(At(s, places))
      /\ ToSet(At(s, places)) = ToSet(s) \cap allowed
  BY <1>2, FilteredRanking
<1>5. Papers \cap allowed \subseteq Papers
  OBVIOUS
<1>6. At(s, places) \in Seq(Papers)
  BY <1>4, <1>5
<1>7. At(s, DOMAIN s) = s
  BY AllPlaces
<1>8. QED
  BY <1>1, <1>3, <1>4, <1>6, <1>7

\* _vector_ranking is the beginning of what the distance ordering holds of the
\* topic's papers.
LEMMA VectorRankingIs ==
    ASSUME NEW nearest \in Seq(Papers), Distinct(nearest), NEW scoped \in BOOLEAN,
           NEW tagged \in SUBSET Papers,
           NEW allowed, allowed = IF scoped THEN tagged ELSE Papers
    PROVE  VectorRanking(nearest, scoped, tagged, CandidateK)
             = FirstOf(Inside(nearest, allowed), CandidateK)
<1> DEFINE K == CandidateK
           rows == FirstOf(nearest, IF scoped THEN Len(nearest) ELSE K)
           kept == At(rows, {i \in DOMAIN rows : ~scoped \/ rows[i] \in tagged})
<1>1. VectorRanking(nearest, scoped, tagged, K) = FirstOf(kept, K)
  BY DEF VectorRanking
<1>2. K \in Nat /\ Len(nearest) \in Nat
  BY BoundsAssumption
<1>3. CASE scoped
  <2>1. rows = nearest
    BY <1>2, <1>3, FirstOfAll
  <2>2. kept = Inside(nearest, allowed)
    BY <1>3, <2>1 DEF Inside
  <2>3. QED
    BY <1>1, <2>2
<1>4. CASE ~scoped
  <2> DEFINE near == FirstOf(nearest, K)
  <2>1. near \in Seq(Papers) /\ Len(near) = Smaller(K, Len(nearest))
    BY <1>2, FirstOfIs
  <2>2. kept = At(near, {i \in DOMAIN near : TRUE})
    BY <1>4
  <2>3. Len(near) <= K
    BY <1>2, <2>1 DEF Smaller
  <2> HIDE DEF near
  <2>4. kept = near
    <3>1. {i \in DOMAIN near : TRUE} = DOMAIN near
      OBVIOUS
    <3>2. At(near, DOMAIN near) = near
      BY <2>1, AllPlaces
    <3>3. QED
      BY <2>2, <3>1, <3>2
  <2>5. FirstOf(near, K) = near
    BY <1>2, <2>1, <2>3, FirstOfAll
  <2>6. Inside(nearest, allowed) = nearest
    BY <1>4, InsideIs
  <2>7. QED
    BY <1>1, <2>4, <2>5, <2>6 DEF near
<1>5. QED
  BY <1>3, <1>4

-----------------------------------------------------------------------------
(* The candidates.                                                         *)

PlaceOf(s, p) == IF IsIn(s, p) THEN RankIn(s, p) ELSE NPapers + CandidateK + 1

LEMMA PlaceIs ==
    ASSUME NEW s \in Seq(Papers), Distinct(s), NEW p
    PROVE  /\ PlaceOf(s, p) \in Nat
           /\ IsIn(FirstOf(s, CandidateK), p) <=> PlaceOf(s, p) <= CandidateK
           /\ PlaceOf(s, p) <= CandidateK =>
                 /\ PlaceOf(s, p) \in 1..CandidateK
                 /\ Share(FirstOf(s, CandidateK), p) = Part(PlaceOf(s, p))
           /\ ~(PlaceOf(s, p) <= CandidateK) => Share(FirstOf(s, CandidateK), p) = 0
<1> DEFINE first == FirstOf(s, CandidateK)
<1>1. NPapers \in Nat /\ CandidateK \in Nat /\ Len(s) \in Nat
  BY BoundsAssumption
<1>2. IsIn(s, p) => RankIn(s, p) \in 1..Len(s)
  BY RankIs
<1>3. /\ IsIn(first, p) <=> IsIn(s, p) /\ RankIn(s, p) <= CandidateK
      /\ IsIn(first, p) => RankIn(first, p) = RankIn(s, p)
  BY <1>1, RankInFirst
<1> HIDE DEF first
<1>4. /\ PlaceOf(s, p) \in Nat /\ (PlaceOf(s, p) <= CandidateK => PlaceOf(s, p) \in 1..CandidateK)
      /\ IsIn(first, p) <=> PlaceOf(s, p) <= CandidateK
      /\ IsIn(first, p) => RankIn(first, p) = PlaceOf(s, p)
  BY <1>1, <1>2, <1>3 DEF PlaceOf
<1>5. Share(first, p) = IF IsIn(first, p) THEN Part(RankIn(first, p)) ELSE 0
  BY DEF Share, Part
<1>6. QED
  BY <1>4, <1>5 DEF first

\* A place further up gives no smaller share, and a larger one if the other
\* place gives any.
LEMMA SharesFall ==
    ASSUME NEW s \in Seq(Papers), Distinct(s), NEW p, NEW r, PlaceOf(s, p) < PlaceOf(s, r)
    PROVE  LET first == FirstOf(s, CandidateK)
           IN  /\ Share(first, p) >= Share(first, r)
               /\ PlaceOf(s, r) <= CandidateK => Share(first, p) > Share(first, r)
<1> DEFINE x == PlaceOf(s, p)
           y == PlaceOf(s, r)
           sx == Share(FirstOf(s, CandidateK), p)
           sy == Share(FirstOf(s, CandidateK), r)
<1>1. /\ x \in Nat /\ y \in Nat /\ CandidateK \in Nat
      /\ x <= CandidateK => x \in 1..CandidateK /\ sx = Part(x)
      /\ ~(x <= CandidateK) => sx = 0
      /\ y <= CandidateK => y \in 1..CandidateK /\ sy = Part(y)
      /\ ~(y <= CandidateK) => sy = 0
  BY PlaceIs, BoundsAssumption
<1>2. x < y
  OBVIOUS
<1> HIDE DEF x, y, sx, sy
<1>3. sx \in Nat /\ sy \in Nat
  BY <1>1, PartIs
<1>4. y <= CandidateK => sx > sy
  <2>1. ASSUME y <= CandidateK
        PROVE  sx > sy
    <3>1. x \in 1..CandidateK /\ y \in 1..CandidateK /\ sx = Part(x) /\ sy = Part(y)
      BY <1>1, <1>2, <2>1
    <3>2. Part(x) > Part(y)
      BY <1>2, <3>1, PartsFall
    <3>3. QED
      BY <3>1, <3>2
  <2>2. QED
    BY <2>1
<1>5. QED
  BY <1>1, <1>3, <1>4 DEF x, y, sx, sy

\* The list of candidates is the best of those that are near or match.
BestList(c, A, B, found) ==
    LET Better(p, r) == PlaceOf(A, p) < PlaceOf(A, r) /\ PlaceOf(B, p) < PlaceOf(B, r)
        Both(p) == PlaceOf(A, p) <= CandidateK /\ PlaceOf(B, p) <= CandidateK
    IN  /\ c \in Seq(found) /\ Distinct(c)
        /\ IsFiniteSet(found) /\ Len(c) = Smaller(CandidateK, Cardinality(found))
        /\ \A i, j \in 1..Len(c) :
              i < j => ~Better(c[j], c[i]) /\ (CandidateK <= 61 /\ Both(c[j]) => Both(c[i]))
        /\ \A p \in found, i \in 1..Len(c) :
              (\A j \in 1..Len(c) : c[j] # p) => ~Better(p, c[i])

LEMMA BestCandidates ==
    ASSUME NEW A \in Seq(Papers), Distinct(A), NEW B \in Seq(Papers), Distinct(B),
           NEW found,
           found = {p \in Papers : PlaceOf(A, p) <= CandidateK \/ PlaceOf(B, p) <= CandidateK}
    PROVE  BestList(Fused(FirstOf(A, CandidateK), FirstOf(B, CandidateK), CandidateK),
                    A, B, found)
<1> DEFINE K == CandidateK
           vector == FirstOf(A, K)
           fts == FirstOf(B, K)
           c == Fused(vector, fts, K)
           S == ToSet(vector) \cup ToSet(fts)
           near(p) == PlaceOf(A, p)
           worded(p) == PlaceOf(B, p)
           sv(p) == Share(vector, p)
           sf(p) == Share(fts, p)
           score(p) == Score(vector, fts, p)
           Better(p, r) == near(p) < near(r) /\ worded(p) < worded(r)
           Both(p) == near(p) <= K /\ worded(p) <= K
<1>1. K \in Nat
  BY BoundsAssumption
<1>2. Rankings(vector, fts)
  <2>1. /\ vector \in Seq(Papers) /\ Len(vector) = Smaller(K, Len(A))
        /\ fts \in Seq(Papers) /\ Len(fts) = Smaller(K, Len(B))
    BY <1>1, FirstOfIs
  <2>2. Distinct(vector) /\ Distinct(fts)
    BY <1>1, RankInFirst
  <2>3. Smaller(K, Len(A)) <= K /\ Smaller(K, Len(B)) <= K
    BY <1>1 DEF Smaller
  <2> HIDE DEF vector, fts
  <2>4. QED
    BY <2>1, <2>2, <2>3 DEF Rankings
<1>3. \A p : near(p) \in Nat /\ worded(p) \in Nat
  BY PlaceIs
<1>4. \A p : /\ IsIn(vector, p) <=> near(p) <= K
             /\ IsIn(fts, p) <=> worded(p) <= K
  BY PlaceIs
<1>5. \A p : /\ near(p) <= K => near(p) \in 1..K /\ sv(p) = Part(near(p))
             /\ ~(near(p) <= K) => sv(p) = 0
             /\ worded(p) <= K => worded(p) \in 1..K /\ sf(p) = Part(worded(p))
             /\ ~(worded(p) <= K) => sf(p) = 0
  BY PlaceIs
<1>6. \A p, r : near(p) < near(r) => sv(p) >= sv(r) /\ (near(r) <= K => sv(p) > sv(r))
  BY SharesFall
<1>7. \A p, r : worded(p) < worded(r) => sf(p) >= sf(r) /\ (worded(r) <= K => sf(p) > sf(r))
  BY SharesFall
<1> HIDE DEF vector, fts, near, worded, sv, sf
<1>8. \A p : sv(p) \in Nat /\ sf(p) \in Nat /\ score(p) = sv(p) + sf(p)
  BY <1>2, ScoreIs DEF sv, sf
<1>9. S = found
  <2>1. \A p : IsIn(vector, p) \/ IsIn(fts, p) => p \in Papers
    BY <1>2, ScoreIs
  <2>2. \A p : p \in S <=> IsIn(vector, p) \/ IsIn(fts, p)
    BY DEF IsIn
  <2>3. \A p : p \in found <=> p \in Papers /\ (near(p) <= K \/ worded(p) <= K)
    BY DEF near, worded
  <2>4. QED
    BY <1>4, <2>1, <2>2, <2>3
<1>10. Scored(c, found, vector, fts) /\ IsFiniteSet(found)
  BY <1>2, <1>9, FusedIsScored
<1>11. /\ c \in Seq(found) /\ Distinct(c) /\ Len(c) = Smaller(K, Cardinality(found))
       /\ \A i, j \in 1..Len(c) : i < j => score(c[i]) >= score(c[j])
       /\ \A i \in 1..Len(c), p \in found :
             (\A j \in 1..Len(c) : c[j] # p) => score(c[i]) >= score(p)
  BY <1>10 DEF Scored
<1> HIDE DEF c, score
<1>12. \A p \in found : near(p) <= K \/ worded(p) <= K
  BY DEF near, worded
<1>13. \A p, r \in found : Better(p, r) => score(p) > score(r)
  BY <1>6, <1>7, <1>8, <1>12
<1>14. ASSUME K <= 61, NEW p \in found, NEW r \in found, Both(p), ~Both(r)
       PROVE  score(p) > score(r)
  <2>1. /\ near(p) \in 1..K /\ worded(p) \in 1..K
        /\ sv(p) = Part(near(p)) /\ sf(p) = Part(worded(p))
    BY <1>5, <1>14
  <2>2. PICK b \in 1..K : score(r) = Part(b)
    <3>1. CASE near(r) <= K
      BY <1>5, <1>8, <1>14, <3>1, PartIs
    <3>2. CASE worded(r) <= K
      BY <1>5, <1>8, <1>14, <3>2, PartIs
    <3>3. QED
      BY <1>12, <3>1, <3>2
  <2>3. Part(b) \in Nat /\ Part(near(p)) \in Nat /\ Part(worded(p)) \in Nat
    BY <2>1, <2>2, PartIs
  <2>4. 2 * Part(near(p)) > Part(b) /\ 2 * Part(worded(p)) > Part(b)
    BY <1>14, <2>1, <2>2, PartsFall
  <2>5. score(p) = Part(near(p)) + Part(worded(p))
    BY <1>8, <2>1
  <2>6. QED
    BY <2>2, <2>3, <2>4, <2>5
<1>15. \A i \in 1..Len(c) : c[i] \in found
  BY <1>11
<1> HIDE DEF Better, Both
<1>16. \A p \in found : score(p) \in Nat
  BY <1>8
<1>17. \A i, j \in 1..Len(c) :
          i < j => ~Better(c[j], c[i]) /\ (K <= 61 /\ Both(c[j]) => Both(c[i]))
  <2>1. ASSUME NEW i \in 1..Len(c), NEW j \in 1..Len(c), i < j
        PROVE  ~Better(c[j], c[i]) /\ (K <= 61 /\ Both(c[j]) => Both(c[i]))
    <3>1. score(c[i]) >= score(c[j]) /\ c[i] \in found /\ c[j] \in found
      BY <1>11, <1>15, <2>1
    <3>2. ~(score(c[j]) > score(c[i]))
      BY <1>16, <3>1
    <3>3. QED
      BY <1>13, <1>14, <3>1, <3>2
  <2>2. QED
    BY <2>1
<1>18. \A p \in found, i \in 1..Len(c) :
          (\A j \in 1..Len(c) : c[j] # p) => ~Better(p, c[i])
  <2>1. ASSUME NEW p \in found, NEW i \in 1..Len(c), \A j \in 1..Len(c) : c[j] # p
        PROVE  ~Better(p, c[i])
    <3>1. score(c[i]) >= score(p) /\ c[i] \in found
      BY <1>11, <1>15, <2>1
    <3>2. ~(score(p) > score(c[i]))
      BY <1>16, <3>1
    <3>3. QED
      BY <1>13, <3>1, <3>2
  <2>2. QED
    BY <2>1
<1>19. BestList(c, A, B, found)
  BY <1>10, <1>11, <1>17, <1>18 DEF BestList, Better, Both, near, worded
<1>20. QED
  BY <1>19 DEF c, vector, fts

LEMMA DistinctCount ==
    ASSUME NEW T, NEW s \in Seq(T), Distinct(s)
    PROVE  Cardinality({s[i] : i \in 1..Len(s)}) = Len(s)
<1> DEFINE n == Len(s)
           U == {s[i] : i \in 1..n}
           f == [i \in 1..n |-> s[i]]
<1>1. n \in Nat /\ f \in [1..n -> U] /\ \A u \in U : \E i \in 1..n : f[i] = u
  OBVIOUS
<1>2. \A i, j \in 1..n : f[i] = f[j] => i = j
  BY DEF Distinct
<1>3. IsFiniteSet(1..n) /\ Cardinality(1..n) = n
  <2>1. IsFiniteSet(1..n) /\ Cardinality(1..n) = IF 1 > n THEN 0 ELSE n - 1 + 1
    BY <1>1, FS_Interval
  <2>2. QED
    BY <1>1, <2>1
<1> HIDE DEF f, U
<1>4. f \in Surjection(1..n, U) /\ f \in Injection(1..n, U)
  BY <1>1, <1>2 DEF Surjection, Injection, IsInjective
<1>5. Cardinality(U) = Cardinality(1..n)
  BY <1>3, <1>4, FS_Surjection
<1>6. QED
  BY <1>3, <1>5 DEF U

\* What the topic's papers and the two rankings are.
Ranked(allowed, nearest, words) ==
    /\ allowed \in SUBSET Papers /\ nearest \in Seq(Papers)
    /\ Inside(nearest, allowed) \in Seq(Papers) /\ Distinct(Inside(nearest, allowed))
    /\ ToSet(Inside(nearest, allowed)) \subseteq allowed
    /\ words \in Seq(allowed) /\ words \in Seq(Papers) /\ Distinct(words)
    /\ FirstOf(words, CandidateK) = words /\ Inside(words, allowed) = words

\* The list of candidates with their scores.
WithScores(vector, words) ==
    LET c == Fused(vector, words, CandidateK)
    IN  [i \in DOMAIN c |-> [id |-> c[i], score |-> Score(vector, words, c[i])]]

LEMMA RankedStep ==
    ASSUME hybrid_candidates
    PROVE  \E allowed, nearest, words :
              /\ Ranked(allowed, nearest, words)
              /\ ranking' = [vector |-> FirstOf(Inside(nearest, allowed), CandidateK),
                             fts |-> words, nearest |-> nearest, allowed |-> allowed]
              /\ candidates' = WithScores(FirstOf(Inside(nearest, allowed), CandidateK), words)
<1> DEFINE Chosen(scoped, tagged, nearest, fts) ==
         LET vector == VectorRanking(nearest, scoped, tagged, CandidateK)
             words == FirstOf(fts, CandidateK)
         IN  /\ ranking' = [vector |-> vector, fts |-> words, nearest |-> nearest,
                            allowed |-> IF scoped THEN tagged ELSE Papers]
             /\ candidates' = [i \in DOMAIN Fused(vector, words, CandidateK) |->
                   LET p == Fused(vector, words, CandidateK)[i]
                   IN  [id |-> p, score |-> Score(vector, words, p)]]
<1>any. \E scoped \in BOOLEAN, tagged \in SUBSET Papers : \E nearest \in RankingsOf(Papers) :
         \E fts \in RankingsOf(IF scoped THEN tagged ELSE Papers) :
            Chosen(scoped, tagged, nearest, fts)
  BY DEF hybrid_candidates
<1> HIDE DEF Chosen
<1>a. PICK scoped \in BOOLEAN, tagged \in SUBSET Papers : \E nearest \in RankingsOf(Papers) :
         \E fts \in RankingsOf(IF scoped THEN tagged ELSE Papers) :
            Chosen(scoped, tagged, nearest, fts)
  BY <1>any
<1>1. PICK nearest \in RankingsOf(Papers), fts \in RankingsOf(IF scoped THEN tagged ELSE Papers) :
         Chosen(scoped, tagged, nearest, fts)
  BY <1>a
<1> DEFINE K == CandidateK
           allowed == IF scoped THEN tagged ELSE Papers
           vector == VectorRanking(nearest, scoped, tagged, K)
           words == FirstOf(fts, K)
<1>2. /\ ranking' = [vector |-> vector, fts |-> words, nearest |-> nearest, allowed |-> allowed]
      /\ candidates' = WithScores(vector, words)
  BY <1>1 DEF WithScores, Chosen
<1>3. allowed \in SUBSET Papers /\ K \in Nat
  BY BoundsAssumption
<1>4. /\ nearest \in Seq(Papers) /\ Distinct(nearest)
      /\ fts \in Seq(allowed) /\ Distinct(fts)
  BY <1>3, RankingIs
<1>5. vector = FirstOf(Inside(nearest, allowed), K)
  BY <1>4, VectorRankingIs
<1> HIDE DEF allowed, vector
<1>6. /\ Inside(nearest, allowed) \in Seq(Papers) /\ Distinct(Inside(nearest, allowed))
      /\ ToSet(Inside(nearest, allowed)) \subseteq allowed
  BY <1>3, <1>4, InsideIs
<1>7. /\ words \in Seq(allowed) /\ Len(words) = Smaller(K, Len(fts)) /\ Distinct(words)
  BY <1>3, <1>4, FirstOfIs, RankInFirst
<1>8. Len(words) <= K
  BY <1>3, <1>4, <1>7 DEF Smaller
<1> HIDE DEF words
<1>9. words \in Seq(Papers)
  BY <1>3, <1>7
<1>10. FirstOf(words, K) = words
  BY <1>3, <1>7, <1>8, FirstOfAll
<1>11. Inside(words, allowed) = words
  BY <1>3, <1>7, <1>9, InsideIs
<1>12. Ranked(allowed, nearest, words)
  BY <1>3, <1>4, <1>6, <1>7, <1>9, <1>10, <1>11 DEF Ranked
<1>13. QED
  BY <1>2, <1>5, <1>12

\* hybrid_candidates and reciprocal_rank_fusion: the candidates are the best of
\* the topic's papers.  The constant 60 of the fusion sees to it that a paper of
\* both rankings comes before those of one only for rankings of at most 61
\* papers; the default is 8.
THEOREM BestAreCandidates ==
    ASSUME CandidateK <= 61
    PROVE  Spec => []CandidatesAreBest
<1>1. Init => CandidatesAreBest
  BY DEF Init, CandidatesAreBest
<1>2. ASSUME CandidatesAreBest, [Next]_vars
      PROVE  CandidatesAreBest'
  <2>1. CASE hybrid_candidates
    <3>1. PICK allowed, nearest, words :
              /\ Ranked(allowed, nearest, words)
              /\ ranking' = [vector |-> FirstOf(Inside(nearest, allowed), CandidateK),
                             fts |-> words, nearest |-> nearest, allowed |-> allowed]
              /\ candidates' = WithScores(FirstOf(Inside(nearest, allowed), CandidateK), words)
      BY <2>1, RankedStep
    <3> DEFINE A == Inside(nearest, allowed)
               c == Fused(FirstOf(A, CandidateK), words, CandidateK)
               found == {p \in Papers :
                           PlaceOf(A, p) <= CandidateK \/ PlaceOf(words, p) <= CandidateK}
               d == candidates'
               chosen == {d[i].id : i \in DOMAIN d}
    <3>2. A \in Seq(Papers) /\ Distinct(A) /\ words \in Seq(Papers) /\ Distinct(words)
          /\ FirstOf(words, CandidateK) = words /\ Inside(words, allowed) = words
          /\ ToSet(A) \subseteq allowed /\ ToSet(words) \subseteq allowed
          /\ allowed \subseteq Papers
      <4>1. ToSet(words) \subseteq allowed
        BY <3>1, ElementOfSeq DEF Ranked, ToSet
      <4>2. QED
        BY <3>1, <4>1 DEF Ranked
    <3>3. BestList(c, A, words, found)
      <4>1. BestList(Fused(FirstOf(A, CandidateK), FirstOf(words, CandidateK), CandidateK),
                     A, words, found)
        BY <3>2, BestCandidates
      <4>2. QED
        BY <3>2, <4>1
    <3>4. \A p : /\ Place(nearest, allowed, p) = PlaceOf(A, p)
                 /\ Place(words, allowed, p) = PlaceOf(words, p)
      BY <3>2 DEF Place, PlaceOf, Inside
    <3>5. \A p : PlaceOf(A, p) <= CandidateK \/ PlaceOf(words, p) <= CandidateK => p \in allowed
      <4>1. NPapers \in Nat /\ CandidateK \in Nat
        BY BoundsAssumption
      <4>2. \A s, p : PlaceOf(s, p) <= CandidateK => IsIn(s, p)
        BY <4>1 DEF PlaceOf
      <4>3. QED
        BY <3>2, <4>2 DEF IsIn
    <3>6. {p \in allowed : \/ Place(nearest, allowed, p) <= CandidateK
                           \/ Place(words, allowed, p) <= CandidateK} = found
      BY <3>2, <3>4, <3>5
    <3>7. /\ c \in Seq(found) /\ Distinct(c)
          /\ IsFiniteSet(found) /\ Len(c) = Smaller(CandidateK, Cardinality(found))
          /\ \A i, j \in 1..Len(c) :
                i < j => /\ ~(/\ PlaceOf(A, c[j]) < PlaceOf(A, c[i])
                              /\ PlaceOf(words, c[j]) < PlaceOf(words, c[i]))
                         /\ PlaceOf(A, c[j]) <= CandidateK /\ PlaceOf(words, c[j]) <= CandidateK
                              => PlaceOf(A, c[i]) <= CandidateK /\ PlaceOf(words, c[i]) <= CandidateK
          /\ \A p \in found, i \in 1..Len(c) :
                (\A j \in 1..Len(c) : c[j] # p) =>
                   ~(PlaceOf(A, p) < PlaceOf(A, c[i]) /\ PlaceOf(words, p) < PlaceOf(words, c[i]))
      BY <3>3 DEF BestList
    <3> HIDE DEF c, found
    <3> DEFINE n == Len(c)
    <3>8. n \in Nat /\ DOMAIN c = 1..n /\ \A i \in 1..n : c[i] \in found
      BY <3>7
    <3>9. /\ candidates' \in Seq([id : found, score : {Score(FirstOf(A, CandidateK), words, c[i]) : i \in 1..n}])
          /\ Len(candidates') = n
          /\ \A i \in 1..n : candidates'[i].id = c[i]
      <4> DEFINE item(i) == [id |-> c[i], score |-> Score(FirstOf(A, CandidateK), words, c[i])]
                 set == [id : found, score : {Score(FirstOf(A, CandidateK), words, c[i]) : i \in 1..n}]
      <4>1. candidates' = [i \in 1..n |-> item(i)]
        BY <3>1, <3>8 DEF WithScores, c
      <4>2. \A i \in 1..n : item(i) \in set /\ item(i).id = c[i]
        BY <3>8
      <4> HIDE DEF item, set, n
      <4>3. candidates' \in [1..n -> set]
        BY <4>1, <4>2
      <4>4. candidates' \in Seq(set) /\ Len(candidates') = n
        BY <3>8, <4>3, FunIsSeq
      <4>5. \A i \in 1..n : candidates'[i].id = c[i]
        BY <4>1, <4>2
      <4>6. QED
        BY <4>4, <4>5 DEF set
    <3> HIDE DEF d
    <3>10. DOMAIN d = 1..n /\ Len(d) = n /\ \A i \in 1..n : d[i].id = c[i]
      BY <3>8, <3>9 DEF d
    <3>11. chosen = {c[i] : i \in 1..n}
      BY <3>10
    <3>12. Cardinality(chosen) = n
      BY <3>7, <3>11, DistinctCount
    <3> HIDE DEF n
    <3>13. chosen \subseteq found
      BY <3>8, <3>11
    <3>14. \A i, j \in 1..n :
              i < j => /\ ~(/\ PlaceOf(A, d[j].id) < PlaceOf(A, d[i].id)
                            /\ PlaceOf(words, d[j].id) < PlaceOf(words, d[i].id))
                       /\ d[j].id \in {p \in found : /\ PlaceOf(A, p) <= CandidateK
                                                               /\ PlaceOf(words, p) <= CandidateK}
                            => d[i].id \in {p \in found : /\ PlaceOf(A, p) <= CandidateK
                                                                   /\ PlaceOf(words, p) <= CandidateK}
      BY <3>7, <3>8, <3>10 DEF n
    <3>15. \A p \in found \ chosen, r \in chosen :
              ~(PlaceOf(A, p) < PlaceOf(A, r) /\ PlaceOf(words, p) < PlaceOf(words, r))
      <4>1. ASSUME NEW p \in found \ chosen, NEW r \in chosen
            PROVE  ~(PlaceOf(A, p) < PlaceOf(A, r) /\ PlaceOf(words, p) < PlaceOf(words, r))
        <5>1. PICK i \in 1..n : r = c[i]
          BY <3>11, <4>1
        <5>2. \A j \in 1..n : c[j] # p
          BY <3>11, <4>1
        <5>3. QED
          BY <3>7, <4>1, <5>1, <5>2 DEF n
      <4> HIDE DEF chosen
      <4>2. QED
        BY <4>1
    <3> HIDE DEF chosen, A
    <3>16. BestChoice(d, nearest, words, allowed)
      <4> DEFINE Near(p) == Place(nearest, allowed, p)
                 Worded(p) == Place(words, allowed, p)
      <4>1. {p \in allowed : Near(p) <= CandidateK \/ Worded(p) <= CandidateK} = found
        BY <3>6
      <4>2. chosen \subseteq found /\ Cardinality(chosen) = Len(d)
            /\ Len(d) = Smaller(CandidateK, Cardinality(found))
        BY <3>7, <3>10, <3>12, <3>13 DEF n
      <4>3. \A p : Near(p) = PlaceOf(A, p) /\ Worded(p) = PlaceOf(words, p)
        BY <3>4
      <4> HIDE DEF Near, Worded
      <4>4. \A i, j \in DOMAIN d :
               i < j => /\ ~(Near(d[j].id) < Near(d[i].id) /\ Worded(d[j].id) < Worded(d[i].id))
                        /\ d[j].id \in {p \in found : Near(p) <= CandidateK /\ Worded(p) <= CandidateK}
                             => d[i].id \in {p \in found : Near(p) <= CandidateK /\ Worded(p) <= CandidateK}
        BY <3>10, <3>14, <4>3
      <4>5. \A p \in found \ chosen, r \in chosen : ~(Near(p) < Near(r) /\ Worded(p) < Worded(r))
        BY <3>15, <4>3
      <4>6. QED
        BY <4>1, <4>2, <4>4, <4>5 DEF BestChoice, chosen, Near, Worded
    <3>17. ranking'.nearest = nearest /\ ranking'.fts = words /\ ranking'.allowed = allowed
      BY <3>1
    <3>18. QED
      BY <3>16, <3>17 DEF CandidatesAreBest, d
  <2>2. CASE GatherCollection
    BY <2>2 DEF GatherCollection, CandidatesAreBest
  <2>3. CASE BuildPaperTree \/ NavigatePaper \/ NoTree \/ HoldPaper \/ GatherPaper
             \/ UnreadablePdf \/ BuildPrompt
    <3>1. stage' # "ranked"
      BY <2>3 DEF BuildPaperTree, NavigatePaper, NoTree, HoldPaper, GatherPaper, UnreadablePdf,
                  BuildPrompt, Reach
    <3>2. QED
      BY <3>1 DEF CandidatesAreBest
  <2>4. CASE UNCHANGED vars
    BY <1>2, <2>4 DEF vars, CandidatesAreBest
  <2>5. QED
    BY <1>2, <2>1, <2>2, <2>3, <2>4 DEF Next
<1>3. QED
  BY <1>1, <1>2, PTL DEF Spec

-----------------------------------------------------------------------------
(* The conversation in the prompt.                                         *)

\* After i messages: what is kept and what remains make the budget.
Kept(state, i, budget) ==
    /\ state.remaining \in Nat /\ state.kept \in Seq(Nat \ {0})
    /\ TotalOf(state.kept) + state.remaining = budget
    /\ Len(state.kept) <= i

LEMMA KeepsBudget ==
    ASSUME NEW i \in Nat, NEW budget \in Nat, NEW state, Kept(state, i, budget), NEW chars \in Nat
    PROVE  Kept(KeepMessage(state, chars), i + 1, budget)
<1> DEFINE left == state.remaining
           kept == state.kept
           text == Smaller(chars, left)
<1>1. /\ left \in Nat /\ kept \in Seq(Nat \ {0}) /\ TotalOf(kept) + left = budget
      /\ Len(kept) <= i /\ Len(kept) \in Nat
  BY DEF Kept
<1>2. CASE chars = 0 \/ left = 0
  <2>1. KeepMessage(state, chars) = state
    BY <1>2 DEF KeepMessage
  <2>2. QED
    BY <1>1, <2>1 DEF Kept
<1>3. CASE ~(chars = 0 \/ left = 0)
  <2>1. KeepMessage(state, chars) = [remaining |-> left - text, kept |-> <<text>> \o kept]
    BY <1>3 DEF KeepMessage
  <2>2. text \in Nat \ {0} /\ text <= left
    BY <1>1, <1>3 DEF Smaller
  <2> HIDE DEF text, left, kept
  <2>3. <<text>> \in Seq(Nat \ {0}) /\ <<text>> \in Seq(Int) /\ Len(<<text>>) = 1 /\ kept \in Seq(Int)
    BY <1>1, <2>2
  <2>4. TotalOf(<<text>> \o kept) = text + TotalOf(kept) /\ TotalOf(kept) \in Nat
    <3>1. TotalOf(<<text>>) = text
      BY <2>2, SumOfOne
    <3>2. TotalOf(<<text>> \o kept) = TotalOf(<<text>>) + TotalOf(kept)
      BY <2>3, SumOfConcat
    <3>3. kept \in Seq(Nat)
      BY <1>1
    <3>4. TotalOf(kept) \in Nat
      BY <3>3, SumIsNat
    <3>5. QED
      BY <3>1, <3>2, <3>4
  <2>5. <<text>> \o kept \in Seq(Nat \ {0}) /\ Len(<<text>> \o kept) = 1 + Len(kept)
    BY <1>1, <2>3, ConcatProperties
  <2>6. left - text \in Nat /\ 1 + Len(kept) <= i + 1
        /\ text + TotalOf(kept) + (left - text) = budget
    BY <1>1, <2>2, <2>4
  <2> DEFINE sum == TotalOf(<<text>> \o kept)
             list == <<text>> \o kept
  <2> HIDE DEF sum, list
  <2>7. QED
    BY <2>1, <2>4, <2>5, <2>6 DEF Kept
<1>4. QED
  BY <1>2, <1>3

LEMMA KeptOfIs ==
    ASSUME NEW messages \in Seq(Nat), NEW budget \in Nat
    PROVE  /\ KeptOf(messages, budget) \in Seq(Nat \ {0})
           /\ Len(KeptOf(messages, budget)) <= Len(messages)
           /\ TotalOf(KeptOf(messages, budget)) <= budget
<1> DEFINE n == Len(messages)
           first == [remaining |-> budget, kept |-> <<>>]
           States == [remaining : Nat, kept : Seq(Nat \ {0})]
           Good(i) == {s \in States : Kept(s, i, budget)}
           next(i, s) == KeepMessage(s, messages[n - i + 1])
           I == [i \in 0..n |-> Good(i)]
           step == [i \in 1..n |-> [s \in Good(i - 1) |-> next(i, s)]]
           Is(f) == f = [i \in 0..n |-> IF i = 0 THEN first ELSE next(i, f[i - 1])]
           back == CHOOSE f : Is(f)
<1>1. n \in Nat
  OBVIOUS
<1>2. KeptOf(messages, budget) = back[n].kept
  BY DEF KeptOf
<1>3. first \in Good(0)
  <2>1. <<>> \in Seq(Nat \ {0}) /\ Len(<<>>) = 0 /\ TotalOf(<<>>) = 0
    BY SumOfNone
  <2>2. first \in States /\ first.kept = <<>> /\ first.remaining = budget
    BY <2>1
  <2> HIDE DEF first, States
  <2>3. Kept(first, 0, budget)
    BY <2>1, <2>2 DEF Kept
  <2>4. QED
    BY <2>2, <2>3
<1>4. ASSUME NEW i \in 1..n, NEW s \in Good(i - 1)
      PROVE  next(i, s) \in Good(i)
  <2> DEFINE chars == messages[n - i + 1]
             t == KeepMessage(s, chars)
  <2>1. chars \in Nat
    <3>1. n - i + 1 \in 1..n
      BY <1>1
    <3>2. QED
      BY <3>1
  <2> HIDE DEF chars
  <2>2. i - 1 \in Nat /\ (i - 1) + 1 = i /\ Kept(s, i - 1, budget) /\ s \in States
    BY <1>1
  <2>3. Kept(t, i, budget)
    BY <2>1, <2>2, KeepsBudget
  <2>4. t \in [remaining : {t.remaining}, kept : {t.kept}]
    BY <2>2 DEF KeepMessage
  <2> HIDE DEF t
  <2>5. t \in States
    BY <2>3, <2>4 DEF Kept
  <2>6. QED
    BY <2>3, <2>5 DEF t, chars
<1> HIDE DEF first, Good, next
<1>5. /\ \A i \in 0..n : I[i] = Good(i)
      /\ \A i \in 1..n : \A s \in Good(i - 1) : step[i][s] = next(i, s)
  OBVIOUS
<1>6. \A i \in 1..n : i - 1 \in 0..n /\ i \in 0..n
  BY <1>1
<1> HIDE DEF I, step, n
<1>7. LoopIn(n, I, first, step)
  <2>1. first \in I[0]
    BY <1>1, <1>3, <1>5
  <2>2. \A i \in 1..n : \A s \in I[i - 1] : step[i][s] \in I[i]
    BY <1>4, <1>5, <1>6
  <2>3. QED
    BY <1>1, <2>1, <2>2, InvariantLoop
<1>8. \E f : Is(f)
  <2>1. PICK run : /\ run = [i \in 0..n |-> IF i = 0 THEN first ELSE step[i][run[i - 1]]]
                   /\ \A i \in 0..n : run[i] \in I[i]
    BY <1>7 DEF LoopIn
  <2>2. ASSUME NEW i \in 0..n, i # 0
        PROVE  run[i] = next(i, run[i - 1])
    <3>1. i \in 1..n /\ i - 1 \in 0..n
      BY <1>1, <2>2
    <3>2. run[i] = step[i][run[i - 1]] /\ run[i - 1] \in Good(i - 1)
      BY <1>5, <2>1, <2>2, <3>1
    <3>3. QED
      BY <1>5, <3>1, <3>2
  <2>3. run[0] = first
    BY <1>1, <2>1
  <2>4. Is(run)
    BY <2>1, <2>2, <2>3
  <2>5. QED
    BY <2>4
<1>9. Is(back)
  BY <1>8
<1> HIDE DEF back
<1>10. 0..n \subseteq {i \in 0..n : back[i] \in Good(i)}
  <2> DEFINE T == {i \in 0..n : back[i] \in Good(i)}
  <2>1. 0 \in T
    BY <1>1, <1>3, <1>9
  <2>2. ASSUME NEW i \in 0..(n - 1), i \in T
        PROVE  i + 1 \in T
    <3>1. i + 1 \in 1..n /\ (i + 1) - 1 = i /\ i + 1 \in 0..n
      BY <1>1
    <3>2. back[i + 1] = next(i + 1, back[i])
      <4>1. back[i + 1] = IF i + 1 = 0 THEN first ELSE next(i + 1, back[(i + 1) - 1])
        BY <1>9, <3>1
      <4>2. i + 1 # 0
        BY <1>1
      <4>3. QED
        BY <3>1, <4>1, <4>2
    <3>3. back[i] \in Good((i + 1) - 1)
      BY <2>2, <3>1
    <3>4. back[i + 1] \in Good(i + 1)
      BY <1>4, <3>1, <3>2, <3>3
    <3>5. QED
      BY <3>1, <3>4
  <2> HIDE DEF T
  <2>3. 0..n \subseteq T
    BY <1>1, <2>1, <2>2, CountTo
  <2>4. QED
    BY <2>3 DEF T
<1>11. back[n] \in Good(n)
  BY <1>1, <1>10

<1>12. Kept(back[n], n, budget)
  BY <1>11 DEF Good
<1> DEFINE kept == back[n].kept
<1>13. /\ kept \in Seq(Nat \ {0}) /\ Len(kept) <= n
       /\ TotalOf(kept) + back[n].remaining = budget /\ back[n].remaining \in Nat
  BY <1>12 DEF Kept
<1>14. TotalOf(kept) \in Nat
  BY <1>13, SumIsNat
<1>15. QED
  BY <1>2, <1>13, <1>14 DEF n

LEMMA HistoryIs ==
    ASSUME NEW messages \in Seq(Nat), NEW most \in Nat, NEW budget \in Nat
    PROVE  /\ BoundHistory(messages, most, budget) \in Seq(Nat \ {0})
           /\ Len(BoundHistory(messages, most, budget)) <= most
           /\ TotalOf(BoundHistory(messages, most, budget)) <= budget
<1> DEFINE n == Len(messages)
           from == IF n > most THEN n - most + 1 ELSE 1
           recent == SubSeq(messages, from, n)
<1>1. n \in Nat /\ from \in 1..(n + 1) /\ from \in Int /\ (n - from) + 1 <= most
  OBVIOUS
<1>2. \A i \in from..n : messages[i] \in Nat
  BY <1>1
<1> HIDE DEF from
<1>3. recent \in Seq(Nat) /\ Len(recent) <= most
  <2>1. /\ recent \in Seq(Nat)
        /\ Len(recent) = IF from <= n THEN n - from + 1 ELSE 0
    BY <1>1, <1>2, SubSeqProperties
  <2>2. QED
    BY <1>1, <2>1
<1>4. BoundHistory(messages, most, budget)
        = IF most = 0 \/ budget = 0 THEN <<>> ELSE KeptOf(recent, budget)
  BY DEF BoundHistory, from
<1> HIDE DEF recent
<1>5. /\ KeptOf(recent, budget) \in Seq(Nat \ {0}) /\ Len(KeptOf(recent, budget)) <= Len(recent)
      /\ TotalOf(KeptOf(recent, budget)) <= budget
  BY <1>3, KeptOfIs
<1>6. Len(KeptOf(recent, budget)) <= most
  BY <1>3, <1>5
<1>7. <<>> \in Seq(Nat \ {0}) /\ Len(<<>>) = 0 /\ TotalOf(<<>>) = 0
  BY SumOfNone
<1>8. QED
  BY <1>4, <1>5, <1>6, <1>7

-----------------------------------------------------------------------------
(* The budget of the context.                                              *)

LEMMA ContextIs ==
    ASSUME NEW label \in Nat
    PROVE  /\ \A m \in Material : ContextChars(m, label) \in Nat
           /\ \A ms \in Seq(Material) : Total(ms, label) \in Nat
<1>1. ASSUME NEW m \in Material
      PROVE  ContextChars(m, label) \in Nat
  <2> DEFINE n == Len(m.sections)
             chars == [k \in DOMAIN m.sections |-> m.sections[k] + label + Overhead]
  <2>1. m.sections \in Seq(Nat \ {0})
    BY DEF Material
  <2>2. n \in Nat /\ DOMAIN m.sections = 1..n /\ \A k \in 1..n : m.sections[k] \in Nat
    BY <2>1
  <2>3. chars \in [1..n -> Nat]
    BY <2>2 DEF Overhead
  <2>4. ContextChars(m, label) = TotalOf(chars)
    BY DEF ContextChars
  <2> HIDE DEF chars, n
  <2>5. chars \in Seq(Nat)
    BY <2>2, <2>3, FunIsSeq
  <2>6. QED
    BY <2>4, <2>5, SumIsNat
<1>2. ASSUME NEW ms \in Seq(Material)
      PROVE  Total(ms, label) \in Nat
  <2> DEFINE n == Len(ms)
             chars == [i \in DOMAIN ms |-> ContextChars(ms[i], label)]
  <2>1. n \in Nat /\ DOMAIN ms = 1..n /\ \A i \in 1..n : ms[i] \in Material
    OBVIOUS
  <2>2. chars \in [1..n -> Nat]
    BY <1>1, <2>1
  <2>3. Total(ms, label) = TotalOf(chars)
    BY DEF Total
  <2> HIDE DEF chars, n
  <2>4. chars \in Seq(Nat)
    BY <2>1, <2>2, FunIsSeq
  <2>5. QED
    BY <2>3, <2>4, SumIsNat
<1>3. QED
  BY <1>1, <1>2

\* What is rendered of a section is no more than what is counted for it.
LEMMA RenderedIsCounted ==
    ASSUME NEW ms \in Seq(Material)
    PROVE  RenderedChars(ms) \in Int /\ RenderedChars(ms) <= Total(ms, LabelChars)
<1> DEFINE part(i) == TotalOf([k \in DOMAIN ms[i].sections |-> 30 + LabelChars + ms[i].sections[k]])
           parts == [i \in DOMAIN ms |-> part(i)]
           counted == [i \in DOMAIN ms |-> ContextChars(ms[i], LabelChars)]
           n == Len(ms)
<1>1. n \in Nat /\ DOMAIN ms = 1..n /\ LabelChars \in Nat /\ \A i \in 1..n : ms[i] \in Material
  BY BoundsAssumption
<1>2. ASSUME NEW i \in 1..n
      PROVE  part(i) \in Nat /\ part(i) <= ContextChars(ms[i], LabelChars)
  <2> DEFINE s == ms[i].sections
             m == Len(s)
             short == [k \in DOMAIN s |-> 30 + LabelChars + s[k]]
             long == [k \in DOMAIN s |-> s[k] + LabelChars + Overhead]
  <2>1. s \in Seq(Nat \ {0})
    BY <1>1, <1>2 DEF Material
  <2>2. m \in Nat /\ DOMAIN s = 1..m /\ \A k \in 1..m : s[k] \in Nat
    BY <2>1
  <2> HIDE DEF s, m
  <2>3. short \in [1..m -> Nat] /\ long \in [1..m -> Nat] /\ \A k \in 1..m : short[k] <= long[k]
    BY <1>1, <2>2 DEF Overhead
  <2>4. part(i) = TotalOf(short) /\ ContextChars(ms[i], LabelChars) = TotalOf(long)
    BY DEF ContextChars, s
  <2> HIDE DEF short, long
  <2>5. /\ short \in Seq(Nat) /\ short \in Seq(Int) /\ Len(short) = m
        /\ long \in Seq(Int) /\ Len(long) = m
    <3>1. short \in [1..m -> Int] /\ long \in [1..m -> Int]
      BY <2>3
    <3>2. QED
      BY <2>2, <2>3, <3>1, FunIsSeq
  <2>6. TotalOf(short) \in Nat /\ TotalOf(short) <= TotalOf(long)
    BY <2>3, <2>5, SumIsNat, SumGrowsWithMembers
  <2>7. QED
    BY <2>4, <2>6
<1>3. RenderedChars(ms) = TotalOf(parts) /\ Total(ms, LabelChars) = TotalOf(counted)
  BY DEF RenderedChars, Total
<1> HIDE DEF part
<1>4. /\ parts \in [1..n -> Int] /\ counted \in [1..n -> Int]
      /\ \A i \in 1..n : parts[i] <= counted[i]
  BY <1>1, <1>2, ContextIs
<1> HIDE DEF parts, counted, n
<1>5. parts \in Seq(Int) /\ Len(parts) = n /\ counted \in Seq(Int) /\ Len(counted) = n
  BY <1>1, <1>4, FunIsSeq
<1>6. TotalOf(parts) \in Int
  BY <1>5, SumIsInt
<1>7. QED
  BY <1>3, <1>4, <1>5, <1>6, SumGrowsWithMembers

Weaker(ms, i, j) ==
    ms[i].score < ms[j].score \/ (ms[i].score = ms[j].score /\ i > j)

LEMMA WeakestIs ==
    ASSUME NEW ms \in Seq(Material), NEW kept \in SUBSET (1..Len(ms)), kept # {}
    PROVE  /\ Weakest(ms, kept) \in kept
           /\ \A j \in kept \ {Weakest(ms, kept)} : Weaker(ms, Weakest(ms, kept), j)
<1> DEFINE n == Len(ms)
           f == [i \in 1..n |-> ms[i].score]
           g == [i \in 1..n |-> i]
<1>1. n \in Nat /\ \A i \in 1..n : ms[i].score \in Nat
  <2>1. n \in Nat /\ \A i \in 1..n : ms[i] \in Material
    OBVIOUS
  <2>2. QED
    BY <2>1 DEF Material
<1>2. f \in [1..n -> Int] /\ g \in [1..n -> Int] /\ \A i \in 1..n : f[i] = ms[i].score /\ g[i] = i
  BY <1>1
<1> HIDE DEF f, g, n
<1>3. PICK i \in kept : \A j \in kept : f[i] <= f[j]
  BY <1>1, <1>2, LeastOf DEF n
<1> DEFINE low == {j \in kept : f[j] = f[i]}
<1>4. low \in SUBSET (1..n) /\ low # {}
  BY DEF n
<1> HIDE DEF low
<1>5. PICK w \in low : \A j \in low : g[w] >= g[j]
  BY <1>1, <1>2, <1>4, LeastOf
<1>6. w \in kept /\ w \in 1..n /\ i \in 1..n /\ \A j \in kept : j \in 1..n
  BY <1>4, <1>5 DEF low, n
<1>7. \A j \in kept : \/ ms[w].score < ms[j].score
                      \/ ms[w].score = ms[j].score /\ w >= j
  <2>1. ASSUME NEW j \in kept
        PROVE  ms[w].score < ms[j].score \/ (ms[w].score = ms[j].score /\ w >= j)
    <3>1. f[w] = f[i] /\ f[i] <= f[j]
      BY <1>3, <1>5 DEF low
    <3>2. f[w] = ms[w].score /\ f[j] = ms[j].score /\ ms[w].score \in Nat /\ ms[j].score \in Nat
      BY <1>1, <1>2, <1>6
    <3>3. CASE f[j] = f[i]
      <4>1. g[w] >= g[j] /\ g[w] = w /\ g[j] = j
        BY <1>2, <1>5, <1>6, <3>3 DEF low
      <4>2. QED
        BY <3>1, <3>2, <3>3, <4>1
    <3>4. CASE f[j] # f[i]
      BY <3>1, <3>2, <3>4
    <3>5. QED
      BY <3>3, <3>4
  <2>2. QED
    BY <2>1
<1> DEFINE x == Weakest(ms, kept)
<1>8. x \in kept /\ \A j \in kept : \/ ms[x].score < ms[j].score
                                    \/ ms[x].score = ms[j].score /\ x >= j
  BY <1>6, <1>7 DEF Weakest
<1> HIDE DEF x
<1>9. \A j \in kept \ {x} : Weaker(ms, x, j)
  BY <1>1, <1>6, <1>8 DEF Weaker
<1>10. QED
  BY <1>8, <1>9 DEF x

LEMMA PapersAt ==
    ASSUME NEW ms \in Seq(Material), NEW kept \in SUBSET (1..Len(ms))
    PROVE  /\ At(ms, kept) \in Seq(Material)
           /\ IsFiniteSet(kept) /\ Cardinality(kept) \in Nat
           /\ Len(At(ms, kept)) = Cardinality(kept) /\ Cardinality(kept) <= Len(ms)
           /\ \A label \in Nat : Total(At(ms, kept), label) \in Nat
<1> DEFINE n == Len(ms)
<1>1. n \in Nat /\ \A i \in 1..n : ms[i] \in Material
  OBVIOUS
<1> HIDE DEF n
<1>2. IsFiniteSet(1..n) /\ Cardinality(1..n) = n
  <2>1. IsFiniteSet(1..n) /\ Cardinality(1..n) = IF 1 > n THEN 0 ELSE n - 1 + 1
    BY <1>1, FS_Interval
  <2>2. QED
    BY <1>1, <2>1
<1>3. kept \in SUBSET (1..n) /\ kept \in SUBSET Int
  BY <1>1 DEF n
<1>4. IsFiniteSet(kept) /\ Cardinality(kept) <= n /\ Cardinality(kept) \in Nat
  BY <1>2, <1>3, FS_Subset, FS_CardinalityType
<1>5. AllIn(ms, kept, Material)
  BY <1>1, <1>3 DEF AllIn
<1>6. At(ms, kept) \in Seq(Material) /\ Len(At(ms, kept)) = Cardinality(kept)
  BY <1>3, <1>4, <1>5, AtIsSeq DEF Filtered
<1>7. \A label \in Nat : Total(At(ms, kept), label) \in Nat
  BY <1>6, ContextIs
<1>8. QED
  BY <1>4, <1>6, <1>7 DEF n

\* After i rounds: the papers that were evicted are weaker than those kept, the
\* strongest of them did not fit beside those, and the rest fits, is one paper,
\* or is short by a paper for each round.
Evicted(ms, kept, i, label, budget) ==
    /\ kept \in SUBSET (1..Len(ms)) /\ (Len(ms) > 0 => kept # {})
    /\ \A k \in kept, l \in (1..Len(ms)) \ kept : Weaker(ms, l, k)
    /\ \A j \in (1..Len(ms)) \ kept :
          (\A l \in ((1..Len(ms)) \ kept) \ {j} : Weaker(ms, l, j)) =>
             Total(At(ms, kept \cup {j}), label) > budget
    /\ \/ Cardinality(kept) <= 1
       \/ Total(At(ms, kept), label) <= budget
       \/ Cardinality(kept) <= Len(ms) - i

LEMMA EvictKeeps ==
    ASSUME NEW ms \in Seq(Material), NEW i \in Nat, NEW label \in Nat, NEW budget \in Nat,
           NEW kept, Evicted(ms, kept, i, label, budget)
    PROVE  Evicted(ms, Evict(ms, kept, label, budget), i + 1, label, budget)
<1> DEFINE n == Len(ms)
           D == 1..n
           size == Cardinality(kept)
           total == Total(At(ms, kept), label)
           w == Weakest(ms, kept)
           fewer == kept \ {w}
           Full(K) == \A j \in D \ K : (\A l \in (D \ K) \ {j} : Weaker(ms, l, j)) =>
                         Total(At(ms, K \cup {j}), label) > budget
<1>1. /\ kept \in SUBSET D /\ (n > 0 => kept # {})
      /\ \A k \in kept, l \in D \ kept : Weaker(ms, l, k)
      /\ Full(kept)
      /\ size <= 1 \/ total <= budget \/ size <= n - i
  BY DEF Evicted
<1>2. n \in Nat /\ IsFiniteSet(kept) /\ size \in Nat /\ total \in Nat
  BY <1>1, PapersAt
<1>3. \A j \in D : ms[j].score \in Nat
  <2>1. \A j \in D : ms[j] \in Material
    OBVIOUS
  <2>2. QED
    BY <2>1 DEF Material
<1> HIDE DEF total
<1>4. CASE ~(size > 1 /\ total > budget)
  <2>1. Evict(ms, kept, label, budget) = kept
    BY <1>4 DEF Evict, total
  <2>2. size <= 1 \/ total <= budget
    BY <1>2, <1>4
  <2>3. QED
    BY <1>1, <2>1, <2>2 DEF Evicted, total
<1>5. CASE size > 1 /\ total > budget
  <2>1. Evict(ms, kept, label, budget) = fewer
    BY <1>5 DEF Evict, total
  <2>2. kept # {}
    BY <1>1, <1>2, <1>5, FS_EmptySet
  <2>3. w \in kept /\ \A j \in fewer : Weaker(ms, w, j)
    BY <1>1, <2>2, WeakestIs
  <2> HIDE DEF w
  <2>4. Cardinality(fewer) = size - 1
    BY <1>2, <2>3, FS_RemoveElement
  <2> HIDE DEF size
  <2>5. fewer \in SUBSET D /\ fewer # {}
    <3>1. Cardinality({}) = 0
      BY FS_EmptySet
    <3>2. Cardinality(fewer) # 0
      BY <1>2, <1>5, <2>4
    <3>3. fewer # {}
      BY <3>1, <3>2
    <3>4. QED
      BY <1>1, <3>3
  <2>6. Cardinality(fewer) <= n - (i + 1)
    BY <1>1, <1>2, <1>5, <2>4
  <2>7. \A k \in fewer, l \in D \ fewer : Weaker(ms, l, k)
    BY <1>1, <2>3
  <2>8. ASSUME NEW j \in D \ fewer, \A l \in (D \ fewer) \ {j} : Weaker(ms, l, j)
        PROVE  Total(At(ms, fewer \cup {j}), label) > budget
    <3>1. CASE j = w
      <4>1. fewer \cup {j} = kept
        BY <2>3, <3>1
      <4>2. QED
        BY <1>5, <4>1 DEF total
    <3>2. CASE j # w
      <4>1. j \in D \ kept /\ w \in (D \ fewer) \ {j}
        BY <1>1, <2>3, <3>2
      <4>2. Weaker(ms, w, j) /\ Weaker(ms, j, w)
        BY <1>1, <2>3, <2>8, <4>1
      <4>3. w \in D /\ j \in D /\ D \in SUBSET Int
        BY <1>1, <2>3
      <4>4. FALSE
        BY <1>3, <4>2, <4>3 DEF Weaker
      <4>5. QED
        BY <4>4
    <3>3. QED
      BY <3>1, <3>2
  <2>9. Full(fewer)
    BY <2>8
  <2> HIDE DEF fewer
  <2>10. Evicted(ms, fewer, i + 1, label, budget)
    BY <2>5, <2>6, <2>7, <2>9 DEF Evicted
  <2>11. QED
    BY <2>1, <2>10
<1>6. QED
  BY <1>4, <1>5

LEMMA SurvivorsAre ==
    ASSUME NEW ms \in Seq(Material), NEW label \in Nat, NEW budget \in Nat
    PROVE  Evicted(ms, Survivors(ms, label, budget), Len(ms), label, budget)
<1> DEFINE n == Len(ms)
           first == DOMAIN ms
           Good(i) == {s \in SUBSET (1..n) : Evicted(ms, s, i, label, budget)}
           next(i, s) == Evict(ms, s, label, budget)
           I == [i \in 0..n |-> Good(i)]
           step == [i \in 1..n |-> [s \in Good(i - 1) |-> next(i, s)]]
           Is(f) == f = [i \in 0..n |-> IF i = 0 THEN first ELSE next(i, f[i - 1])]
           kept == CHOOSE f : Is(f)
<1>1. n \in Nat
  OBVIOUS
<1>2. Survivors(ms, label, budget) = kept[n]
  BY DEF Survivors
<1>3. first \in Good(0)
  <2>1. first = 1..n
    OBVIOUS
  <2>2. Cardinality(1..n) = n
    <3>1. Cardinality(1..n) = IF 1 > n THEN 0 ELSE n - 1 + 1
      BY <1>1, FS_Interval
    <3>2. QED
      BY <1>1, <3>1
  <2>3. (n > 0 => 1..n # {}) /\ (1..n) \ (1..n) = {} /\ n <= n - 0
    BY <1>1
  <2> HIDE DEF first
  <2>4. Evicted(ms, 1..n, 0, label, budget)
    BY <2>2, <2>3 DEF Evicted
  <2>5. QED
    BY <2>1, <2>4
<1>4. ASSUME NEW i \in 1..n, NEW s \in Good(i - 1)
      PROVE  next(i, s) \in Good(i)
  <2> DEFINE t == Evict(ms, s, label, budget)
  <2>1. i - 1 \in Nat /\ (i - 1) + 1 = i /\ Evicted(ms, s, i - 1, label, budget)
    BY <1>1
  <2>2. Evicted(ms, t, i, label, budget)
    BY <2>1, EvictKeeps
  <2> HIDE DEF t
  <2>3. t \in SUBSET (1..n)
    BY <2>2 DEF Evicted
  <2>4. QED
    BY <2>2, <2>3 DEF t
<1> HIDE DEF first, Good, next
<1>5. /\ \A i \in 0..n : I[i] = Good(i)
      /\ \A i \in 1..n : \A s \in Good(i - 1) : step[i][s] = next(i, s)
  OBVIOUS
<1>6. \A i \in 1..n : i - 1 \in 0..n /\ i \in 0..n
  BY <1>1
<1> HIDE DEF I, step, n
<1>7. LoopIn(n, I, first, step)
  <2>1. first \in I[0]
    BY <1>1, <1>3, <1>5
  <2>2. \A i \in 1..n : \A s \in I[i - 1] : step[i][s] \in I[i]
    BY <1>4, <1>5, <1>6
  <2>3. QED
    BY <1>1, <2>1, <2>2, InvariantLoop
<1>8. \E f : Is(f)
  <2>1. PICK run : /\ run = [i \in 0..n |-> IF i = 0 THEN first ELSE step[i][run[i - 1]]]
                   /\ \A i \in 0..n : run[i] \in I[i]
    BY <1>7 DEF LoopIn
  <2>2. ASSUME NEW i \in 0..n, i # 0
        PROVE  run[i] = next(i, run[i - 1])
    <3>1. i \in 1..n /\ i - 1 \in 0..n
      BY <1>1, <2>2
    <3>2. run[i] = step[i][run[i - 1]] /\ run[i - 1] \in Good(i - 1)
      BY <1>5, <2>1, <2>2, <3>1
    <3>3. QED
      BY <1>5, <3>1, <3>2
  <2>3. run[0] = first
    BY <1>1, <2>1
  <2>4. Is(run)
    BY <2>1, <2>2, <2>3
  <2>5. QED
    BY <2>4
<1>9. Is(kept)
  BY <1>8
<1> HIDE DEF kept
<1>10. 0..n \subseteq {i \in 0..n : kept[i] \in Good(i)}
  <2> DEFINE T == {i \in 0..n : kept[i] \in Good(i)}
  <2>1. 0 \in T
    BY <1>1, <1>3, <1>9
  <2>2. ASSUME NEW i \in 0..(n - 1), i \in T
        PROVE  i + 1 \in T
    <3>1. i + 1 \in 1..n /\ (i + 1) - 1 = i /\ i + 1 \in 0..n
      BY <1>1
    <3>2. kept[i + 1] = next(i + 1, kept[i])
      <4>1. kept[i + 1] = IF i + 1 = 0 THEN first ELSE next(i + 1, kept[(i + 1) - 1])
        BY <1>9, <3>1
      <4>2. i + 1 # 0
        BY <1>1
      <4>3. QED
        BY <3>1, <4>1, <4>2
    <3>3. kept[i] \in Good((i + 1) - 1)
      BY <2>2, <3>1
    <3>4. kept[i + 1] \in Good(i + 1)
      BY <1>4, <3>1, <3>2, <3>3
    <3>5. QED
      BY <3>1, <3>4
  <2> HIDE DEF T
  <2>3. 0..n \subseteq T
    BY <1>1, <2>1, <2>2, CountTo
  <2>4. QED
    BY <2>3 DEF T
<1>11. kept[n] \in Good(n)
  BY <1>1, <1>10

<1>12. Evicted(ms, kept[n], n, label, budget)
  BY <1>11 DEF Good
<1>13. QED
  BY <1>2, <1>12 DEF n

\* What context_chars counts for a list of sections.
Charged(list, label) == TotalOf([k \in DOMAIN list |-> list[k] + label + Overhead])

LEMMA ChargedMore ==
    ASSUME NEW list \in Seq(Nat), NEW a \in Nat, NEW label \in Nat
    PROVE  /\ Charged(list, label) \in Nat
           /\ Charged(Append(list, a), label) = Charged(list, label) + a + label + Overhead
<1> DEFINE n == Len(list)
           more == Append(list, a)
           old == [k \in DOMAIN list |-> list[k] + label + Overhead]
           new == [k \in DOMAIN more |-> more[k] + label + Overhead]
           last == a + label + Overhead
<1>1. n \in Nat /\ DOMAIN list = 1..n /\ \A k \in 1..n : list[k] \in Nat
  OBVIOUS
<1>2. /\ more \in Seq(Nat) /\ Len(more) = n + 1 /\ DOMAIN more = 1..(n + 1)
      /\ \A k \in 1..n : more[k] = list[k]
      /\ more[n + 1] = a
  BY AppendProperties
<1>3. Overhead \in Nat /\ last \in Nat
  BY DEF Overhead
<1> HIDE DEF n, more
<1>4. old \in [1..n -> Nat]
  BY <1>1, <1>3
<1>5. \A k \in 1..(n + 1) : more[k] \in Nat
  BY <1>2
<1>6. new \in [1..(n + 1) -> Nat] /\ \A k \in 1..(n + 1) : new[k] = more[k] + label + Overhead
  BY <1>2, <1>3, <1>5
<1>7. \A k \in 1..n : old[k] = list[k] + label + Overhead
  BY <1>1
<1>8. Charged(list, label) = TotalOf(old) /\ Charged(more, label) = TotalOf(new)
  BY DEF Charged
<1> HIDE DEF old, new, last
<1>9. old \in Seq(Nat) /\ Len(old) = n /\ new \in Seq(Nat) /\ Len(new) = n + 1
  <2>1. n + 1 \in Nat
    BY <1>1
  <2>2. QED
    BY <1>1, <1>4, <1>6, <2>1, FunIsSeq
<1>10. new = Append(old, last)
  <2>1. /\ Append(old, last) \in Seq(Nat) /\ Len(Append(old, last)) = n + 1
        /\ \A k \in 1..n : Append(old, last)[k] = old[k]
        /\ Append(old, last)[n + 1] = last
    BY <1>3, <1>9, AppendProperties
  <2>2. \A k \in 1..(n + 1) : k \in 1..n \/ k = n + 1
    BY <1>1
  <2>3. \A k \in 1..(n + 1) : new[k] = Append(old, last)[k]
    <3>1. ASSUME NEW k \in 1..(n + 1)
          PROVE  new[k] = Append(old, last)[k]
      <4>1. CASE k \in 1..n
        BY <1>2, <1>6, <1>7, <2>1, <4>1
      <4>2. CASE k = n + 1
        BY <1>2, <1>6, <2>1, <4>2 DEF last
      <4>3. QED
        BY <2>2, <4>1, <4>2
    <3>2. QED
      BY <3>1
  <2>4. QED
    BY <1>9, <2>1, <2>3, SeqEqual
<1>11. old \in Seq(Int) /\ last \in Int
  BY <1>3, <1>9
<1>12. TotalOf(new) = TotalOf(old) + last /\ TotalOf(old) \in Nat
  BY <1>9, <1>10, <1>11, SumOfAppend, SumIsNat
<1>13. TotalOf(old) + last = TotalOf(old) + a + label + Overhead
  BY <1>3, <1>12 DEF last
<1>14. QED
  BY <1>8, <1>12, <1>13 DEF more

LEMMA ChargedNone ==
    ASSUME NEW list, Len(list) = 0, NEW T, list \in Seq(T), NEW label
    PROVE  Charged(list, label) = 0
<1>1. list = <<>> /\ [k \in DOMAIN <<>> |-> <<>>[k] + label + Overhead] = <<>>
  OBVIOUS
<1>2. Charged(list, label) = TotalOf(<<>>)
  BY <1>1 DEF Charged
<1>3. QED
  BY <1>2, SumOfNone

TakeStates == [remaining : Int, sections : Seq(Nat \ {0}), full : BOOLEAN]

\* The last section taken is whole, or it is cut and nothing remains.
CutLast(taken, s, remaining) ==
    LET n == Len(taken)
    IN  n > 0 => taken[n] = s[n] \/ (taken[n] < s[n] /\ remaining = 0)

\* After i sections: what was taken is the beginning of the list, only the last
\* of it may be cut, and taking ends when there is room for no more than labels.
TakenState(state, s, i, label, budget) ==
    /\ state.remaining \in Nat /\ state.sections \in Seq(Nat \ {0})
    /\ Charged(state.sections, label) + state.remaining = budget
    /\ Len(state.sections) <= i
    /\ \A j \in 1..(Len(state.sections) - 1) : state.sections[j] = s[j]
    /\ ~state.full =>
          /\ Len(state.sections) = i
          /\ state.remaining > 0 => \A j \in 1..i : state.sections[j] = s[j]
    /\ state.full => state.remaining <= label + Overhead
    /\ CutLast(state.sections, s, state.remaining)

LEMMA TakeKeeps ==
    ASSUME NEW label \in Nat, NEW budget \in Nat, NEW i \in Nat, NEW s, s[i + 1] \in Nat \ {0},
           NEW state \in TakeStates, TakenState(state, s, i, label, budget)
    PROVE  /\ TakeSection(state, s[i + 1], label) \in TakeStates
           /\ TakenState(TakeSection(state, s[i + 1], label), s, i + 1, label, budget)
<1> DEFINE left == state.remaining
           taken == state.sections
           n == Len(taken)
           chars == s[i + 1]
           available == left - label - Overhead
           text == Smaller(chars, available)
           next == TakeSection(state, chars, label)
<1>1. /\ left \in Nat /\ taken \in Seq(Nat \ {0}) /\ n \in Nat
      /\ Charged(taken, label) + left = budget /\ n <= i
      /\ \A j \in 1..(n - 1) : taken[j] = s[j]
      /\ ~state.full => n = i /\ (left > 0 => \A j \in 1..i : taken[j] = s[j])
      /\ state.full => left <= label + Overhead
      /\ CutLast(taken, s, left)
  BY DEF TakenState
<1>2. Overhead \in Nat /\ available \in Int /\ chars \in Nat /\ chars > 0
  BY <1>1 DEF Overhead
<1>3. taken \in Seq(Nat)
  BY <1>1
<1>4. Charged(taken, label) \in Nat
  BY <1>3, ChargedMore
<1>5. CASE state.full \/ available <= 0
  <2> DEFINE t == [state EXCEPT !.full = TRUE]
  <2>1. next = t
    BY <1>5 DEF TakeSection
  <2>2. t \in TakeStates /\ t.remaining = left /\ t.sections = taken /\ t.full = TRUE
    BY DEF TakeStates
  <2>3. left <= label + Overhead
    <3>1. CASE state.full
      BY <1>1, <3>1
    <3>2. CASE available <= 0
      BY <1>1, <1>2, <3>2
    <3>3. QED
      BY <1>5, <3>1, <3>2
  <2> HIDE DEF t, left, taken
  <2>4. TakenState(t, s, i + 1, label, budget)
    BY <1>1, <2>2, <2>3 DEF TakenState
  <2>5. QED
    BY <2>1, <2>2, <2>4
<1>6. CASE ~(state.full \/ available <= 0)
  <2> DEFINE more == Append(taken, text)
             t == [remaining |-> available - text, sections |-> more, full |-> FALSE]
  <2>1. next = t
    BY <1>6 DEF TakeSection
  <2>2. /\ text \in Nat /\ text > 0 /\ text <= available
        /\ text = chars \/ (text = available /\ text < chars)
        /\ available - text \in Nat /\ left > 0
    BY <1>1, <1>2, <1>6 DEF Smaller
  <2>3. n = i /\ \A j \in 1..i : taken[j] = s[j]
    BY <1>1, <1>6, <2>2
  <2>4. Charged(more, label) = Charged(taken, label) + text + label + Overhead
    BY <1>3, <2>2, ChargedMore
  <2>5. Charged(more, label) + (available - text) = budget
    <3> DEFINE before == Charged(taken, label)
               after == Charged(more, label)
    <3>1. after = before + text + label + Overhead /\ before + left = budget
      BY <1>1, <2>4
    <3>2. available = left - label - Overhead
      OBVIOUS
    <3>3. before \in Int /\ left \in Int /\ text \in Int /\ Overhead \in Int
      BY <1>1, <1>2, <1>4, <2>2
    <3> HIDE DEF before, after, left, available, text, taken, n, chars, next, more, t
    <3>4. after + (available - text) = budget
      BY <3>1, <3>2, <3>3
    <3>5. QED
      BY <3>4 DEF after
  <2> HIDE DEF text, left, available, taken
  <2>6. /\ more \in Seq(Nat \ {0}) /\ Len(more) = i + 1
        /\ \A j \in 1..i : more[j] = s[j]
        /\ more[i + 1] = text
    <3>1. text \in Nat \ {0}
      BY <2>2
    <3>2. /\ more \in Seq(Nat \ {0}) /\ Len(more) = n + 1
          /\ \A j \in 1..n : more[j] = taken[j]
          /\ more[n + 1] = text
      BY <1>1, <3>1, AppendProperties
    <3> HIDE DEF n, more
    <3>3. QED
      BY <2>3, <3>2
  <2>7. available - text > 0 => \A j \in 1..(i + 1) : more[j] = s[j]
    <3>1. ASSUME available - text > 0
          PROVE  text = chars
      BY <1>2, <2>2, <3>1
    <3>2. \A j \in 1..(i + 1) : j \in 1..i \/ j = i + 1
      OBVIOUS
    <3>3. QED
      BY <2>6, <3>1, <3>2
  <2>8. /\ t.remaining = available - text /\ t.sections = more /\ t.full = FALSE
        /\ t \in TakeStates
    BY <2>2, <2>6 DEF TakeStates
  <2>9. (i + 1) - 1 = i /\ i + 1 # 0
    OBVIOUS
  <2>10. CutLast(more, s, available - text)
    <3>1. text = chars \/ (text < chars /\ available - text = 0)
      BY <1>2, <2>2
    <3> HIDE DEF more
    <3>2. QED
      BY <2>6, <3>1 DEF CutLast, chars
  <2> HIDE DEF more, t
  <2>11. TakenState(t, s, i + 1, label, budget)
    BY <2>2, <2>5, <2>6, <2>7, <2>8, <2>9, <2>10 DEF TakenState
  <2>12. QED
    BY <2>1, <2>8, <2>11
<1>7. QED
  BY <1>5, <1>6

\* What is left of a paper that is cut.
CutOf(cut, m, label, budget) ==
    /\ cut \in Seq(Nat \ {0}) /\ Len(cut) > 0 /\ Len(cut) <= Len(m.sections)
    /\ Charged(cut, label) <= budget /\ budget <= Charged(cut, label) + label + Overhead
    /\ \A j \in 1..(Len(cut) - 1) : cut[j] = m.sections[j]
    /\ CutLast(cut, m.sections, budget - Charged(cut, label))

LEMMA TrimmedIs ==
    ASSUME NEW m \in Material, m.sections # <<>>, NEW label \in Nat, NEW budget \in Nat,
           Charged(m.sections, label) > budget
    PROVE  \/ Trimmed(m, label, budget) = <<>> /\ budget <= label + Overhead
           \/ \E cut : /\ CutOf(cut, m, label, budget)
                       /\ Trimmed(m, label, budget) = <<[m EXCEPT !.sections = cut]>>
<1> DEFINE s == m.sections
           n == Len(s)
           first == [remaining |-> budget, sections |-> <<>>, full |-> FALSE]
           Good(i) == {t \in TakeStates : TakenState(t, s, i, label, budget)}
           next(i, t) == TakeSection(t, s[i], label)
           I == [i \in 0..n |-> Good(i)]
           step == [i \in 1..n |-> [t \in Good(i - 1) |-> next(i, t)]]
           Is(f) == f = [i \in 0..n |-> IF i = 0 THEN first ELSE next(i, f[i - 1])]
           fit == CHOOSE f : Is(f)
<1>1. n \in Nat
  BY DEF Material
<1>20. s \in Seq(Nat \ {0}) /\ n > 0 /\ \A i \in 1..n : s[i] \in Nat \ {0}
  <2>1. s \in Seq(Nat \ {0}) /\ s # <<>>
    BY DEF Material
  <2> HIDE DEF s
  <2>2. QED
    BY <2>1
<1>2. Trimmed(m, label, budget)
        = IF fit[n].sections = <<>> THEN <<>> ELSE <<[m EXCEPT !.sections = fit[n].sections]>>
  BY DEF Trimmed
<1>3. first \in Good(0)
  <2>1. <<>> \in Seq(Nat \ {0}) /\ Len(<<>>) = 0
    OBVIOUS
  <2>2. first \in TakeStates /\ first.sections = <<>> /\ first.remaining = budget /\ first.full = FALSE
    BY <2>1 DEF TakeStates
  <2>3. Charged(<<>>, label) = 0
    BY <2>1, ChargedNone
  <2>4. CutLast(<<>>, s, budget)
    BY <2>1 DEF CutLast
  <2> HIDE DEF first, s
  <2>5. TakenState(first, s, 0, label, budget)
    BY <2>1, <2>2, <2>3, <2>4 DEF TakenState
  <2>6. QED
    BY <2>2, <2>5
<1>4. ASSUME NEW i \in 1..n, NEW t \in Good(i - 1)
      PROVE  next(i, t) \in Good(i)
  <2> HIDE DEF s
  <2>1. i - 1 \in Nat /\ (i - 1) + 1 = i /\ t \in TakeStates /\ TakenState(t, s, i - 1, label, budget)
        /\ s[i] \in Nat \ {0}
    BY <1>1, <1>20
  <2> DEFINE h == i - 1
  <2>2. h \in Nat /\ h + 1 = i /\ TakenState(t, s, h, label, budget) /\ s[h + 1] \in Nat \ {0}
    BY <2>1
  <2> HIDE DEF h
  <2>3. /\ TakeSection(t, s[h + 1], label) \in TakeStates
        /\ TakenState(TakeSection(t, s[h + 1], label), s, h + 1, label, budget)
    BY <2>1, <2>2, TakeKeeps
  <2>4. QED
    BY <2>2, <2>3
<1> HIDE DEF s
<1> HIDE DEF first, Good, next
<1>5. /\ \A i \in 0..n : I[i] = Good(i)
      /\ \A i \in 1..n : \A t \in Good(i - 1) : step[i][t] = next(i, t)
  OBVIOUS
<1>6. \A i \in 1..n : i - 1 \in 0..n /\ i \in 0..n
  BY <1>1
<1> HIDE DEF I, step, n
<1>7. LoopIn(n, I, first, step)
  <2>1. first \in I[0]
    BY <1>1, <1>3, <1>5
  <2>2. \A i \in 1..n : \A t \in I[i - 1] : step[i][t] \in I[i]
    BY <1>4, <1>5, <1>6
  <2>3. QED
    BY <1>1, <2>1, <2>2, InvariantLoop
<1>8. \E f : Is(f)
  <2>1. PICK run : /\ run = [i \in 0..n |-> IF i = 0 THEN first ELSE step[i][run[i - 1]]]
                   /\ \A i \in 0..n : run[i] \in I[i]
    BY <1>7 DEF LoopIn
  <2>2. ASSUME NEW i \in 0..n, i # 0
        PROVE  run[i] = next(i, run[i - 1])
    <3>1. i \in 1..n /\ i - 1 \in 0..n
      BY <1>1, <2>2
    <3>2. run[i] = step[i][run[i - 1]] /\ run[i - 1] \in Good(i - 1)
      BY <1>5, <2>1, <2>2, <3>1
    <3>3. QED
      BY <1>5, <3>1, <3>2
  <2>3. run[0] = first
    BY <1>1, <2>1
  <2>4. Is(run)
    BY <2>1, <2>2, <2>3
  <2>5. QED
    BY <2>4
<1>9. Is(fit)
  BY <1>8
<1> HIDE DEF fit
<1>10. 0..n \subseteq {i \in 0..n : fit[i] \in Good(i)}
  <2> DEFINE T == {i \in 0..n : fit[i] \in Good(i)}
  <2>1. 0 \in T
    BY <1>1, <1>3, <1>9
  <2>2. ASSUME NEW i \in 0..(n - 1), i \in T
        PROVE  i + 1 \in T
    <3>1. i + 1 \in 1..n /\ (i + 1) - 1 = i /\ i + 1 \in 0..n
      BY <1>1
    <3>2. fit[i + 1] = next(i + 1, fit[i])
      <4>1. fit[i + 1] = IF i + 1 = 0 THEN first ELSE next(i + 1, fit[(i + 1) - 1])
        BY <1>9, <3>1
      <4>2. i + 1 # 0
        BY <1>1
      <4>3. QED
        BY <3>1, <4>1, <4>2
    <3>3. fit[i] \in Good((i + 1) - 1)
      BY <2>2, <3>1
    <3>4. fit[i + 1] \in Good(i + 1)
      BY <1>4, <3>1, <3>2, <3>3
    <3>5. QED
      BY <3>1, <3>4
  <2> HIDE DEF T
  <2>3. 0..n \subseteq T
    BY <1>1, <2>1, <2>2, CountTo
  <2>4. QED
    BY <2>3 DEF T
<1>11. fit[n] \in Good(n)
  BY <1>1, <1>10

<1>12. TakenState(fit[n], s, n, label, budget)
  BY <1>11 DEF Good
<1> DEFINE cut == fit[n].sections
           left == fit[n].remaining
<1>13. /\ cut \in Seq(Nat \ {0}) /\ Len(cut) <= n
       /\ left \in Nat /\ Charged(cut, label) + left = budget
       /\ \A j \in 1..(Len(cut) - 1) : cut[j] = s[j]
       /\ ~fit[n].full => Len(cut) = n /\ (left > 0 => \A j \in 1..n : cut[j] = s[j])
       /\ fit[n].full => left <= label + Overhead
       /\ CutLast(cut, s, left)
  BY <1>12 DEF TakenState
<1> HIDE DEF cut, left
<1>14. Charged(cut, label) \in Nat /\ (cut = <<>> => Charged(cut, label) = 0)
  <2>1. cut \in Seq(Nat) /\ (cut = <<>> => Len(cut) = 0)
    BY <1>13
  <2>2. QED
    BY <2>1, ChargedMore, ChargedNone
<1>15. left <= label + Overhead
  <2>1. CASE fit[n].full
    BY <1>13, <2>1
  <2>2. CASE ~fit[n].full
    <3>1. ASSUME left > 0
          PROVE  FALSE
      <4>1. Len(cut) = Len(s) /\ \A j \in 1..Len(s) : cut[j] = s[j]
        BY <1>13, <2>2, <3>1 DEF n
      <4>2. cut = s
        BY <1>13, <1>20, <4>1, SeqEqual
      <4>3. Charged(cut, label) > budget
        BY <4>2 DEF s
      <4>4. QED
        BY <1>13, <1>14, <4>3
    <3>2. Overhead \in Nat
      BY DEF Overhead
    <3>3. QED
      BY <1>13, <3>1, <3>2
  <2>3. QED
    BY <2>1, <2>2
<1>16. CASE cut = <<>>
  <2>1. budget <= label + Overhead
    BY <1>13, <1>14, <1>15, <1>16
  <2>2. QED
    BY <1>2, <1>16, <2>1 DEF cut
<1>17. CASE cut # <<>>
  <2>1. Trimmed(m, label, budget) = <<[m EXCEPT !.sections = cut]>>
    BY <1>2, <1>17 DEF cut
  <2>2. Len(cut) > 0
    BY <1>13, <1>17
  <2>3. /\ Charged(cut, label) <= budget /\ budget <= Charged(cut, label) + label + Overhead
        /\ budget - Charged(cut, label) = left
    <3>1. Overhead \in Nat
      BY DEF Overhead
    <3>2. QED
      BY <1>13, <1>14, <1>15, <3>1
  <2>4. CutOf(cut, m, label, budget)
    BY <1>13, <2>2, <2>3 DEF CutOf, s, n
  <2>5. QED
    BY <2>1, <2>4
<1>18. QED
  BY <1>16, <1>17

LEMMA TotalOfOnePaper ==
    ASSUME NEW m \in Material, NEW label \in Nat
    PROVE  Total(<<m>>, label) = Charged(m.sections, label)
<1> DEFINE chars == ContextChars(m, label)
           list == [i \in DOMAIN <<m>> |-> ContextChars(<<m>>[i], label)]
<1>1. chars \in Nat /\ chars = Charged(m.sections, label)
  BY ContextIs DEF ContextChars, Charged
<1>2. DOMAIN <<m>> = 1..1 /\ <<m>>[1] = m
  OBVIOUS
<1>3. Total(<<m>>, label) = TotalOf(list)
  BY DEF Total
<1>4. list = [i \in 1..1 |-> chars]
  BY <1>2
<1> HIDE DEF chars, list
<1>5. list = <<chars>>
  BY <1>4
<1>6. TotalOf(<<chars>>) = chars
  BY <1>1, SumOfOne
<1>7. QED
  BY <1>1, <1>3, <1>5, <1>6

\* The prompt's material is what was kept, or the beginning of one paper.
Fitted(ms, chosen, result) ==
    LET whole == At(ms, chosen)
    IN  IF Total(whole, LabelChars) <= ContextBudget THEN result = whole
        ELSE Cardinality(chosen) = 1 /\ IsCut(result, whole[1])

LEMMA BudgetedIs ==
    ASSUME NEW ms \in Seq(Material)
    PROVE  \E chosen :
              /\ Evicted(ms, chosen, Len(ms), LabelChars, ContextBudget)
              /\ Fitted(ms, chosen, Budgeted(ms, LabelChars, ContextBudget))
              /\ Budgeted(ms, LabelChars, ContextBudget) \in Seq(Material)
              /\ Len(Budgeted(ms, LabelChars, ContextBudget)) <= Len(ms)
              /\ RenderedChars(Budgeted(ms, LabelChars, ContextBudget)) <= ContextBudget
<1> DEFINE L == LabelChars
           B == ContextBudget
           n == Len(ms)
           chosen == Survivors(ms, L, B)
           whole == At(ms, chosen)
           result == Budgeted(ms, L, B)
<1>1. L \in Nat /\ B \in Nat /\ n \in Nat
  BY BoundsAssumption
<1>2. Evicted(ms, chosen, n, L, B)
  BY <1>1, SurvivorsAre
<1>3. result = IF whole = <<>> \/ Total(whole, L) <= B THEN whole ELSE Trimmed(whole[1], L, B)
  BY DEF Budgeted
<1> HIDE DEF chosen, result
<1>4. chosen \in SUBSET (1..n)
      /\ (Cardinality(chosen) <= 1 \/ Total(whole, L) <= B \/ Cardinality(chosen) <= n - n)
  BY <1>2 DEF Evicted
<1>5. /\ whole \in Seq(Material) /\ Len(whole) = Cardinality(chosen)
      /\ Cardinality(chosen) \in Nat /\ Cardinality(chosen) <= n /\ Total(whole, L) \in Nat
  BY <1>1, <1>4, PapersAt
<1>6. \A r \in Seq(Material) : Total(r, L) <= B => RenderedChars(r) <= B
  <2>1. ASSUME NEW r \in Seq(Material), Total(r, L) <= B
        PROVE  RenderedChars(r) <= B
    <3>1. RenderedChars(r) <= Total(r, L) /\ Total(r, L) \in Nat
      BY <1>1, RenderedIsCounted, ContextIs
    <3>2. RenderedChars(r) \in Int
      BY RenderedIsCounted
    <3>3. QED
      BY <1>1, <2>1, <3>1, <3>2
  <2>2. QED
    BY <2>1
<1>7. <<>> \in Seq(Material) /\ Len(<<>>) = 0 /\ Total(<<>>, L) = 0
  <2>1. [i \in DOMAIN <<>> |-> ContextChars(<<>>[i], L)] = <<>>
    OBVIOUS
  <2>2. QED
    BY <2>1, SumOfNone DEF Total
<1>8. CASE whole = <<>> \/ Total(whole, L) <= B
  <2>1. result = whole /\ Total(whole, L) <= B
    BY <1>1, <1>3, <1>7, <1>8
  <2>2. Fitted(ms, chosen, result)
    BY <2>1 DEF Fitted
  <2> HIDE DEF whole
  <2>3. QED
    BY <1>2, <1>5, <1>6, <2>1, <2>2 DEF result
<1>9. CASE ~(whole = <<>> \/ Total(whole, L) <= B)
  <2> DEFINE m == whole[1]
  <2> HIDE DEF whole
  <2>1. Cardinality(chosen) = 1 /\ n >= 1
    BY <1>1, <1>4, <1>5, <1>9
  <2>2. m \in Material /\ whole = <<m>>
    <3>1. whole \in Seq(Material) /\ Len(whole) = 1
      BY <1>5, <2>1
    <3>2. whole[1] \in Material
      <4>1. 1 \in 1..Len(whole)
        BY <3>1
      <4>2. QED
        BY <3>1, <4>1, ElementOfSeq
    <3> HIDE DEF m
    <3>3. <<m>> \in Seq(Material) /\ Len(<<m>>) = 1 /\ <<m>>[1] = m
      BY <3>2 DEF m
    <3>4. \A i \in 1..1 : whole[i] = <<m>>[i]
      BY <3>3 DEF m
    <3>5. whole = <<m>>
      BY <3>1, <3>3, <3>4, SeqEqual
    <3>6. QED
      BY <3>2, <3>5 DEF m
  <2> HIDE DEF m
  <2>3. m.sections # <<>> /\ Charged(m.sections, L) > B
    <3>1. Total(whole, L) = Charged(m.sections, L)
      BY <1>1, <2>2, TotalOfOnePaper
    <3>2. m.sections \in Seq(Nat \ {0})
      BY <2>2 DEF Material
    <3>3. m.sections = <<>> => Charged(m.sections, L) = 0
      BY <3>2, ChargedNone
    <3>4. Charged(m.sections, L) > B
      BY <1>1, <1>5, <1>9, <3>1
    <3>5. QED
      BY <1>1, <3>3, <3>4
  <2>4. result = Trimmed(m, L, B)
    BY <1>3, <1>9 DEF m
  <2>5. \/ Trimmed(m, L, B) = <<>> /\ B <= L + Overhead
        \/ \E cut : CutOf(cut, m, L, B) /\ Trimmed(m, L, B) = <<[m EXCEPT !.sections = cut]>>
    BY <1>1, <2>2, <2>3, TrimmedIs
  <2>6. CASE result = <<>> /\ B <= L + Overhead
    <3>1. Fitted(ms, chosen, result)
      <4>1. IsCut(result, m)
        BY <2>6 DEF IsCut
      <4>2. QED
        BY <1>1, <1>5, <1>9, <2>1, <4>1 DEF Fitted, whole, m
    <3>2. RenderedChars(<<>>) <= B
      <4> DEFINE none == <<>>
      <4>1. none \in Seq(Material) /\ Total(none, L) = 0
        BY <1>7
      <4> HIDE DEF none, L, B
      <4>2. Total(none, L) <= B
        BY <1>1, <4>1
      <4>3. RenderedChars(none) <= B
        BY <1>6, <4>1, <4>2
      <4>4. QED
        BY <4>3 DEF none
    <3>3. result = <<>>
      BY <2>6
    <3>4. RenderedChars(result) <= B
      BY <3>2, <3>3
    <3>5. result \in Seq(Material) /\ Len(result) <= n
      BY <1>1, <1>7, <3>3
    <3>6. QED
      BY <1>2, <3>1, <3>4, <3>5 DEF result
  <2>7. ASSUME NEW cut, CutOf(cut, m, L, B), result = <<[m EXCEPT !.sections = cut]>>
        PROVE  /\ Fitted(ms, chosen, result) /\ result \in Seq(Material)
               /\ Len(result) <= n /\ RenderedChars(result) <= B
    <3> DEFINE short == [m EXCEPT !.sections = cut]
    <3>1. /\ cut \in Seq(Nat \ {0}) /\ Len(cut) > 0 /\ Len(cut) <= Len(m.sections)
          /\ Charged(cut, L) <= B /\ B <= Charged(cut, L) + L + Overhead
          /\ \A j \in 1..(Len(cut) - 1) : cut[j] = m.sections[j]
          /\ CutLast(cut, m.sections, B - Charged(cut, L))
      BY <2>7 DEF CutOf
    <3>2. short \in Material /\ short.sections = cut /\ short.score = m.score
          /\ m.sections \in Seq(Nat \ {0})
      BY <2>2, <3>1 DEF Material
    <3> HIDE DEF short
    <3>3. result = <<short>> /\ result \in Seq(Material) /\ Len(result) = 1 /\ result[1] = short
      BY <2>7, <3>2 DEF short
    <3>4. Total(result, L) <= B
      BY <1>1, <3>1, <3>2, <3>3, TotalOfOnePaper
    <3>5. IsCut(result, m)
      <4>1. ContextChars(result[1], L) = Charged(cut, L) /\ Charged(cut, L) \in Nat
        <5>1. ContextChars(short, L) = Charged(cut, L) /\ ContextChars(short, L) \in Nat
          BY <1>1, <3>2, ContextIs DEF ContextChars, Charged
        <5>2. QED
          BY <3>3, <5>1
      <4>2. Len(cut) \in 1..Len(m.sections)
        BY <3>1, <3>2
      <4>3. \/ cut[Len(cut)] = m.sections[Len(cut)]
            \/ cut[Len(cut)] < m.sections[Len(cut)] /\ Charged(cut, L) = B
        BY <1>1, <3>1, <4>1 DEF CutLast
      <4>4. result[1].sections = cut /\ result[1].score = m.score
        BY <3>2, <3>3
      <4>5. B <= Charged(cut, L) + (L + Overhead)
        BY <1>1, <3>1, <4>1 DEF Overhead
      <4> HIDE DEF m, L, B
      <4>6. QED
        BY <3>1, <3>3, <4>1, <4>2, <4>3, <4>4, <4>5 DEF IsCut, L, B
    <3>6. Fitted(ms, chosen, result)
      BY <1>1, <1>5, <1>9, <2>1, <3>5 DEF Fitted, m, whole
    <3>7. QED
      BY <1>1, <1>6, <2>1, <3>3, <3>4, <3>6
  <2>8. QED
    BY <1>2, <2>4, <2>5, <2>6, <2>7 DEF result
<1>10. QED
  BY <1>8, <1>9

-----------------------------------------------------------------------------
(* Types.                                                                  *)

Candidates == Seq([id : Papers, score : Nat \ {0}])

\* Every candidate has a share in at least one of the rankings.
LEMMA ScoredPapers ==
    ASSUME NEW vector, NEW words, Rankings(vector, words)
    PROVE  WithScores(vector, words) \in Candidates
<1> DEFINE S == ToSet(vector) \cup ToSet(words)
           c == Fused(vector, words, CandidateK)
           n == Len(c)
           item(i) == [id |-> c[i], score |-> Score(vector, words, c[i])]
           list == WithScores(vector, words)
           T == [id : Papers, score : Nat \ {0}]
<1>1. Scored(c, S, vector, words) /\ S \subseteq Papers
  BY FusedIsScored
<1>2. c \in Seq(S) /\ n \in Nat /\ DOMAIN c = 1..n
  BY <1>1 DEF Scored
<1>3. \A p \in S : IsIn(vector, p) \/ IsIn(words, p)
  BY DEF IsIn
<1> HIDE DEF S, c
<1>4. ASSUME NEW p \in S
      PROVE  Score(vector, words, p) \in Nat \ {0}
  <2> DEFINE sv == Share(vector, p)
             sw == Share(words, p)
  <2>1. sv \in Nat /\ sw \in Nat /\ Score(vector, words, p) = sv + sw
    BY ScoreIs
  <2>2. IsIn(vector, p) => sv > 0
    BY ScoreIs, PartIs
  <2>3. IsIn(words, p) => sw > 0
    BY ScoreIs, PartIs
  <2> HIDE DEF sv, sw
  <2>4. QED
    BY <1>3, <2>1, <2>2, <2>3
<1>5. \A i \in 1..n : item(i) \in T
  BY <1>1, <1>2, <1>4, ElementOfSeq
<1>6. list = [i \in 1..n |-> item(i)]
  BY <1>2 DEF WithScores, c
<1> HIDE DEF item, n, T, list
<1>7. list \in [1..n -> T]
  BY <1>5, <1>6
<1>8. list \in Seq(T)
  BY <1>2, <1>7, FunIsSeq
<1>9. QED
  BY <1>8 DEF T, list, Candidates

RankingType(r) ==
    /\ r.vector \in Seq(Papers) /\ r.fts \in Seq(Papers)
    /\ r.nearest \in Seq(Papers) /\ r.allowed \subseteq Papers

LEMMA RankedTypes ==
    ASSUME hybrid_candidates
    PROVE  RankingType(ranking') /\ candidates' \in Candidates
<1>1. PICK allowed, nearest, words :
          /\ Ranked(allowed, nearest, words)
          /\ ranking' = [vector |-> FirstOf(Inside(nearest, allowed), CandidateK),
                         fts |-> words, nearest |-> nearest, allowed |-> allowed]
          /\ candidates' = WithScores(FirstOf(Inside(nearest, allowed), CandidateK), words)
  BY RankedStep
<1> DEFINE A == Inside(nearest, allowed)
           vector == FirstOf(A, CandidateK)
<1>2. /\ A \in Seq(Papers) /\ Distinct(A) /\ words \in Seq(Papers) /\ Distinct(words)
      /\ FirstOf(words, CandidateK) = words /\ nearest \in Seq(Papers)
      /\ allowed \subseteq Papers
  BY <1>1 DEF Ranked
<1>3. CandidateK \in Nat
  BY BoundsAssumption
<1> HIDE DEF A
<1>4. vector \in Seq(Papers) /\ Distinct(vector) /\ Len(vector) <= CandidateK
  BY <1>2, <1>3, FirstOfIs, RankInFirst DEF Smaller
<1>5. Len(words) <= CandidateK
  <2>1. Len(words) = Smaller(CandidateK, Len(words)) /\ Len(words) \in Nat
    BY <1>2, <1>3, FirstOfIs
  <2>2. QED
    BY <1>3, <2>1 DEF Smaller
<1> HIDE DEF vector
<1>6. WithScores(vector, words) \in Candidates
  BY <1>2, <1>4, <1>5, ScoredPapers DEF Rankings
<1>7. RankingType(ranking')
  BY <1>1, <1>2, <1>4 DEF RankingType, vector, A
<1>8. QED
  BY <1>1, <1>6, <1>7 DEF vector, A

\* The papers whose material is gathered: none before, then no more than the
\* navigations allow and the candidates give, or the one that is asked about.
Gathering ==
    /\ stage \in {"asked", "indexed", "navigated", "held"} => materials = <<>>
    /\ stage = "ranked" => Len(materials) <= Smaller(MaxNavigations, Len(candidates))

TypeInv == TypeOK /\ PaperInv /\ Gathering

LEMMA EvidenceOfCandidate ==
    ASSUME TypeOK, Gathering, GatherCollection
    PROVE  /\ materials' \in Seq(Material) /\ Len(materials') <= Larger(1, MaxNavigations)
           /\ stage' = "ranked" => Len(materials') <= Smaller(MaxNavigations, Len(candidates))
<1> DEFINE n == Len(materials)
           c == Len(candidates)
<1>1. /\ stage = "ranked" /\ materials \in Seq(Material) /\ n <= Larger(1, MaxNavigations)
      /\ n <= Smaller(MaxNavigations, c) /\ candidates \in Candidates
  BY DEF GatherCollection, TypeOK, Gathering, Candidates
<1>2. n \in Nat /\ c \in Nat /\ MaxNavigations \in Nat
  BY <1>1, BoundsAssumption DEF Candidates
<1>3. CASE n = Smaller(MaxNavigations, c)
  BY <1>1, <1>3 DEF GatherCollection
<1>4. CASE n # Smaller(MaxNavigations, c)
  <2>1. PICK sections \in Evidence :
           materials' = Append(materials, [score |-> candidates[n + 1].score,
                                           sections |-> sections])
    BY <1>4 DEF GatherCollection
  <2> DEFINE m == [score |-> candidates[n + 1].score, sections |-> sections]
  <2>2. n + 1 \in 1..c /\ n + 1 <= Smaller(MaxNavigations, c) /\ n + 1 <= MaxNavigations
    BY <1>1, <1>2, <1>4 DEF Smaller
  <2>3. candidates[n + 1].score \in Nat
    <3>1. candidates[n + 1] \in [id : Papers, score : Nat \ {0}]
      BY <1>1, <2>2, ElementOfSeq DEF Candidates
    <3>2. QED
      BY <3>1
  <2>4. m \in Material
    BY <2>3, InputsAssumption DEF Material
  <2> HIDE DEF m
  <2>5. materials' \in Seq(Material) /\ Len(materials') = n + 1
    BY <1>1, <2>1, <2>4 DEF m
  <2>6. QED
    BY <1>2, <2>2, <2>5 DEF Larger
<1>5. QED
  BY <1>3, <1>4

LEMMA EvidenceOfOne ==
    ASSUME PaperInv, GatherPaper
    PROVE  materials' \in Seq(Material) /\ Len(materials') = 1
<1>1. stage = "held"
  BY DEF GatherPaper, Reach
<1>2. tree \in Trees /\ Len(tree) <= SectionsPerPaper /\ Holding(paper)
  BY <1>1 DEF PaperInv
<1>3. PICK found \in SUBSET DOMAIN tree :
         materials' = <<[score |-> Scale, sections |-> Sections(tree, paper, found)]>>
  BY DEF GatherPaper
<1> DEFINE m == Len(tree)
           sections == Sections(tree, paper, found)
           material == [score |-> Scale, sections |-> sections]
<1>4. m \in 0..SectionsPerPaper /\ DOMAIN tree = 1..m /\ (m = 0 => tree = <<>>)
  BY <1>2, BoundsAssumption DEF Trees
<1> HIDE DEF m
<1>5. sections \in Seq(Nat \ {0})
  BY <1>2, <1>4, SectionsFit DEF m
<1> HIDE DEF sections
<1>6. material \in Material
  BY <1>5, ScaleAssumption DEF Material
<1> HIDE DEF material
<1>7. QED
  BY <1>3, <1>6 DEF material, sections

\* One step keeps the types and what is said of the papers gathered.
LEMMA TypeStep == TypeInv /\ [Next]_vars => TypeInv'
<1> SUFFICES ASSUME TypeInv, [Next]_vars PROVE TypeInv'
  OBVIOUS
<1>1. TypeOK /\ PaperInv /\ Gathering /\ PaperInv'
  BY PaperStep DEF TypeInv
<1>2. /\ stage \in Stages /\ RankingType(ranking) /\ candidates \in Candidates
      /\ outline \in Seq([level : Levels, page : TargetPages])
      /\ paper.pdf \in BOOLEAN /\ paper.full \in Nat
      /\ materials \in Seq(Material) /\ Len(materials) <= Larger(1, MaxNavigations)
      /\ history \in Seq(Nat \ {0}) /\ Len(history) <= HistoryMessages
  BY <1>1 DEF TypeOK, RankingType, Candidates
<1>3. /\ <<>> \in Seq(Material) /\ Len(<<>>) = 0 /\ MaxNavigations \in Nat /\ HistoryMessages \in Nat
      /\ 0 <= Larger(1, MaxNavigations) /\ 1 <= Larger(1, MaxNavigations)
  BY BoundsAssumption DEF Larger
<1>4. RankingType(NoRanking) /\ <<>> \in Candidates /\ NoPaper.pdf \in BOOLEAN /\ NoPaper.full \in Nat
  BY DEF NoRanking, RankingType, Candidates, NoPaper
<1>5. stage' \in Stages
  BY <1>2 DEF Next, vars, hybrid_candidates, GatherCollection, BuildPaperTree, NavigatePaper,
              NoTree, HoldPaper, GatherPaper, UnreadablePdf, BuildPrompt, Reach, Stages
<1>6. RankingType(ranking') /\ candidates' \in Candidates
  <2>1. CASE hybrid_candidates
    BY <2>1, RankedTypes
  <2>2. CASE ranking' \in {ranking, NoRanking} /\ candidates' \in {candidates, <<>>}
    BY <1>2, <1>4, <2>2
  <2>3. QED
    BY <2>1, <2>2 DEF Next, vars, GatherCollection, BuildPaperTree, NavigatePaper,
                      NoTree, HoldPaper, GatherPaper, UnreadablePdf, BuildPrompt
<1>7. outline' \in Seq([level : Levels, page : TargetPages])
  <2>1. CASE BuildPaperTree
    <3>1. PICK n \in 0..MaxEntries :
          \E marks \in [1..n -> {Entry(l, p) : l \in Levels, p \in TargetPages}] :
             outline' = marks
      BY <2>1 DEF BuildPaperTree
    <3>2. n \in Nat
      BY BoundsAssumption
    <3>3. {Entry(l, p) : l \in Levels, p \in TargetPages} \subseteq [level : Levels, page : TargetPages]
      BY DEF Entry
    <3>4. outline' \in [1..n -> [level : Levels, page : TargetPages]]
      BY <3>1, <3>3
    <3>5. QED
      BY <3>2, <3>4, FunIsSeq
  <2>2. CASE outline' \in {outline, <<>>}
    <3>1. outline' = outline \/ outline' = <<>>
      BY <2>2
    <3>2. <<>> \in Seq([level : Levels, page : TargetPages])
      OBVIOUS
    <3>3. QED
      BY <1>2, <3>1, <3>2
  <2>3. QED
    BY <2>1, <2>2 DEF Next, vars, hybrid_candidates, GatherCollection, NavigatePaper,
                      NoTree, HoldPaper, GatherPaper, UnreadablePdf, BuildPrompt
<1>8. paper'.pdf \in BOOLEAN /\ paper'.full \in Nat
  <2>1. CASE HoldPaper
    <3>1. stage' = "held"
      BY <2>1 DEF HoldPaper, Reach
    <3>2. QED
      BY <1>1, <3>1 DEF PaperInv, Holding
  <2>2. CASE paper' \in {paper, NoPaper}
    BY <1>2, <1>4, <2>2
  <2>3. QED
    BY <2>1, <2>2 DEF Next, vars, hybrid_candidates, GatherCollection, BuildPaperTree,
                      NavigatePaper, NoTree, GatherPaper, UnreadablePdf, BuildPrompt
<1>9. /\ materials' \in Seq(Material) /\ Len(materials') <= Larger(1, MaxNavigations)
      /\ Gathering'
  <2>1. CASE hybrid_candidates
    <3>1. stage = "asked" /\ stage' = "ranked" /\ materials' = materials
      BY <2>1 DEF hybrid_candidates, Reach
    <3>2. materials' = <<>> /\ Len(candidates') \in Nat
      BY <1>1, <1>6, <3>1 DEF Gathering, Candidates
    <3>3. QED
      BY <1>3, <3>1, <3>2 DEF Gathering, Smaller
  <2>2. CASE GatherCollection
    <3>1. /\ materials' \in Seq(Material) /\ Len(materials') <= Larger(1, MaxNavigations)
          /\ stage' = "ranked" => Len(materials') <= Smaller(MaxNavigations, Len(candidates))
      BY <1>1, <2>2, EvidenceOfCandidate
    <3>2. stage' \in {"ranked", "gathered"} /\ candidates' = candidates
      BY <2>2 DEF GatherCollection
    <3>3. QED
      BY <3>1, <3>2 DEF Gathering
  <2>3. CASE BuildPaperTree \/ NavigatePaper \/ NoTree \/ HoldPaper
    <3>1. /\ stage \in {"asked", "indexed", "navigated", "held"} /\ materials' = materials
          /\ stage' # "ranked"
      BY <2>3 DEF BuildPaperTree, NavigatePaper, NoTree, HoldPaper, Reach
    <3>2. materials = <<>>
      BY <1>1, <3>1 DEF Gathering
    <3>3. QED
      BY <1>2, <3>1, <3>2 DEF Gathering
  <2>4. CASE GatherPaper
    <3>1. materials' \in Seq(Material) /\ Len(materials') = 1
      BY <1>1, <2>4, EvidenceOfOne
    <3>2. stage' = "gathered"
      BY <2>4 DEF GatherPaper, Reach
    <3>3. QED
      BY <1>3, <3>1, <3>2 DEF Gathering
  <2>5. CASE BuildPrompt
    <3> DEFINE result == Budgeted(materials, LabelChars, ContextBudget)
    <3>1. stage' = "prepared" /\ materials' = result
      BY <2>5 DEF BuildPrompt, Reach
    <3>2. result \in Seq(Material) /\ Len(result) <= Len(materials)
      BY <1>2, BudgetedIs
    <3> HIDE DEF result
    <3>3. Len(result) \in Nat /\ Len(materials) \in Nat /\ Larger(1, MaxNavigations) \in Nat
      BY <1>2, <1>3, <3>2 DEF Larger
    <3>4. QED
      BY <1>2, <3>1, <3>2, <3>3 DEF Gathering
  <2>6. CASE UnreadablePdf
    <3>1. stage' = "failed" /\ materials' = <<>>
      BY <2>6 DEF UnreadablePdf
    <3>2. QED
      BY <1>3, <3>1 DEF Gathering
  <2>7. CASE UNCHANGED vars
    BY <1>1, <1>2, <2>7 DEF vars, Gathering
  <2>8. QED
    BY <2>1, <2>2, <2>3, <2>4, <2>5, <2>6, <2>7 DEF Next
<1>10. history' \in Seq(Nat \ {0}) /\ Len(history') <= HistoryMessages
  <2>1. CASE BuildPrompt
    <3>1. PICK messages \in Histories :
             history' = BoundHistory(messages, HistoryMessages, HistoryBudget)
      BY <2>1 DEF BuildPrompt
    <3>2. messages \in Seq(Nat) /\ HistoryMessages \in Nat /\ HistoryBudget \in Nat
      BY InputsAssumption, BoundsAssumption
    <3>3. QED
      BY <3>1, <3>2, HistoryIs
  <2>2. CASE history' = history
    BY <1>2, <2>2
  <2>3. QED
    BY <2>1, <2>2 DEF Next, vars, hybrid_candidates, GatherCollection, BuildPaperTree,
                      NavigatePaper, NoTree, HoldPaper, GatherPaper, UnreadablePdf
<1>11. tree' \in Seq([parent : 0..Len(tree'), start : Int, end : Int])
  <2>1. tree' \in Trees
    BY <1>1, <1>5, NoTreeIsTree DEF PaperInv, Stages
  <2>2. QED
    BY <2>1 DEF Trees, Nodes
<1>12. TypeOK'
  BY <1>5, <1>6, <1>7, <1>8, <1>9, <1>10, <1>11 DEF TypeOK, RankingType, Candidates
<1>13. QED
  BY <1>1, <1>9, <1>12 DEF TypeInv

LEMMA Typed == Spec => []TypeInv
<1>1. Init => TypeInv
  <2> SUFFICES ASSUME Init PROVE TypeInv
    OBVIOUS
  <2>1. PaperInv /\ Gathering
    BY DEF Init, PaperInv, Gathering
  <2>2. Len(<<>>) = 0 /\ HistoryMessages \in Nat /\ 0 <= Larger(1, MaxNavigations)
    BY BoundsAssumption DEF Larger
  <2>3. TypeOK
    BY <2>2 DEF Init, TypeOK, Stages, NoRanking, NoPaper
  <2>4. QED
    BY <2>1, <2>3 DEF TypeInv
<1>2. QED
  BY <1>1, TypeStep, PTL DEF Spec

\* The rankings and candidates are papers of the library with a score that is
\* not zero, the parents in a tree are among its nodes, and what is gathered and
\* kept are texts that are not empty, of as many papers and messages as the
\* settings allow.
THEOREM TypeCorrect == Spec => []TypeOK
<1>1. TypeInv => TypeOK
  BY DEF TypeInv
<1>2. QED
  BY <1>1, Typed, PTL

\* budget_grounding_material and _bound_history: the prompt and the conversation
\* keep within their budgets for every material and every history, papers leave
\* in the order of their weakness, the strongest of those that left did not fit
\* beside the ones kept, and the last one is cut to the budget and not dropped.
THEOREM StrongestAreKept == Spec => StrongestFit
<1>1. ASSUME TypeInv, [Next]_vars, stage = "gathered", stage' = "prepared"
      PROVE  /\ RenderedChars(materials') <= ContextBudget
             /\ \E chosen :
                   /\ Evicted(materials, chosen, Len(materials), LabelChars, ContextBudget)
                   /\ Fitted(materials, chosen, materials')
             /\ TotalOf(history') <= HistoryBudget
  <2>1. BuildPrompt
    BY <1>1 DEF Next, vars, hybrid_candidates, GatherCollection, BuildPaperTree, NavigatePaper,
                NoTree, HoldPaper, GatherPaper, UnreadablePdf, Reach
  <2>2. materials \in Seq(Material) /\ materials' = Budgeted(materials, LabelChars, ContextBudget)
    BY <1>1, <2>1 DEF TypeInv, TypeOK, BuildPrompt
  <2>3. PICK messages \in Histories :
           history' = BoundHistory(messages, HistoryMessages, HistoryBudget)
    BY <2>1 DEF BuildPrompt
  <2>4. messages \in Seq(Nat) /\ HistoryMessages \in Nat /\ HistoryBudget \in Nat
    BY InputsAssumption, BoundsAssumption
  <2>5. TotalOf(history') <= HistoryBudget
    BY <2>3, <2>4, HistoryIs
  <2>6. QED
    BY <2>2, <2>5, BudgetedIs
<1> DEFINE Step ==
       stage = "gathered" /\ stage' = "prepared" =>
        /\ RenderedChars(materials') <= ContextBudget
        /\ \E chosen \in SUBSET DOMAIN materials :
              LET left == DOMAIN materials \ chosen
                  whole == At(materials, chosen)
                  Before(i, j) == \/ materials[i].score < materials[j].score
                                  \/ materials[i].score = materials[j].score /\ i > j
              IN
              /\ materials # <<>> => chosen # {}
              /\ \A i \in chosen, j \in left : materials[i].score >= materials[j].score
              /\ \A j \in left :
                    (\A i \in left \ {j} : Before(i, j)) =>
                        Total(At(materials, chosen \cup {j}), LabelChars)
                            > ContextBudget
              /\ IF Total(whole, LabelChars) <= ContextBudget
                 THEN materials' = whole
                 ELSE Cardinality(chosen) = 1 /\ IsCut(materials', whole[1])
        /\ TotalOf(history') <= HistoryBudget
<1>2. ASSUME TypeInv, [Next]_vars, stage = "gathered", stage' = "prepared"
      PROVE  Step
  <2>1. PICK chosen :
           /\ Evicted(materials, chosen, Len(materials), LabelChars, ContextBudget)
           /\ Fitted(materials, chosen, materials')
    BY <1>1, <1>2
  <2>2. materials \in Seq(Material) /\ DOMAIN materials = 1..Len(materials)
    BY <1>2 DEF TypeInv, TypeOK
  <2>3. \A i \in DOMAIN materials : materials[i].score \in Nat
    <3>1. \A i \in DOMAIN materials : materials[i] \in Material
      BY <2>2
    <3>2. QED
      BY <3>1 DEF Material
  <2>4. chosen \in SUBSET DOMAIN materials
    BY <2>1, <2>2 DEF Evicted
  <2>5. \A i \in chosen, j \in DOMAIN materials \ chosen : materials[i].score >= materials[j].score
    BY <2>1, <2>2, <2>3, <2>4 DEF Evicted, Weaker
  <2>6. \A j \in DOMAIN materials \ chosen :
           (\A i \in (DOMAIN materials \ chosen) \ {j} : Weaker(materials, i, j)) =>
              Total(At(materials, chosen \cup {j}), LabelChars) > ContextBudget
    BY <2>1, <2>2 DEF Evicted
  <2>7. RenderedChars(materials') <= ContextBudget /\ TotalOf(history') <= HistoryBudget
    BY <1>1, <1>2
  <2>8. materials # <<>> => chosen # {}
    BY <2>1, <2>2 DEF Evicted
  <2>9. QED
    BY <2>1, <2>4, <2>5, <2>6, <2>7, <2>8 DEF Fitted, Weaker
<1>3. TypeInv /\ [Next]_vars => [Step]_vars
  BY <1>2
<1>4. QED
  BY <1>3, Typed, PTL DEF Spec, StrongestFit
=============================================================================
