----------------------------- MODULE LoopLemmas -----------------------------
(***************************************************************************)
(* Induction and recursion over the natural numbers, stated with sets in   *)
(* place of predicates so that the provers can use them: a loop is the     *)
(* sequence of its states, the next one being a function of the last.      *)
(***************************************************************************)
EXTENDS Integers, WellFoundedInduction, TLAPS

LEMMA LeastNat ==
    ASSUME NEW T \in SUBSET Nat, T # {}
    PROVE  \E n \in T : \A m \in T : n <= m
<1> DEFINE R == OpToRel(<, Nat)
<1>1. IsWellFoundedOn(R, Nat)
  BY NatLessThanWellFounded
<1>2. \A x, y \in Nat : <<x, y>> \in R <=> x < y
  BY DEF OpToRel
<1> HIDE DEF R
<1>3. PICK n \in T : \A m \in T : ~(<<m, n>> \in R)
  BY <1>1, WFMin
<1>4. \A m \in T : ~(m < n) /\ m \in Nat /\ n \in Nat
  BY <1>2, <1>3
<1>5. QED
  BY <1>4

\* Induction: a set that contains 0 and successors contains every number.
LEMMA Counting ==
    ASSUME NEW T, 0 \in T, \A n \in Nat : n \in T => n + 1 \in T
    PROVE  Nat \subseteq T
<1>1. SUFFICES ASSUME Nat \ T # {} PROVE FALSE
  OBVIOUS
<1>2. PICK n \in Nat \ T : \A m \in Nat \ T : n <= m
  BY <1>1, LeastNat
<1>3. n # 0 /\ n - 1 \in Nat
  BY <1>2
<1>4. n - 1 \in T
  BY <1>2, <1>3
<1>5. QED
  BY <1>2, <1>3, <1>4

\* The first n steps of a loop.
RunsFor(f, n, first, step) ==
    f[0] = first /\ \A i \in 0..(n - 1) : f[i + 1] = step[i][f[i]]

\* A loop whose body maps states to states has a sequence of states.
LEMMA LoopExists ==
    ASSUME NEW S, NEW first \in S, NEW step \in [Nat -> [S -> S]]
    PROVE  \E run \in [Nat -> S] :
              run[0] = first /\ \A n \in Nat : run[n + 1] = step[n][run[n]]
<1> DEFINE Long == {n \in Nat : \E f \in [0..n -> S] : RunsFor(f, n, first, step)}
<1>1. 0 \in Long
  <2> DEFINE f == [i \in 0..0 |-> first]
  <2>1. f \in [0..0 -> S] /\ RunsFor(f, 0, first, step)
    BY DEF RunsFor
  <2>2. QED
    BY <2>1
<1>2. ASSUME NEW n \in Nat, n \in Long
      PROVE  n + 1 \in Long
  <2>1. PICK f \in [0..n -> S] : RunsFor(f, n, first, step)
    BY <1>2
  <2> DEFINE g == [i \in 0..(n + 1) |-> IF i = n + 1 THEN step[n][f[n]] ELSE f[i]]
  <2>2. g \in [0..(n + 1) -> S]
    BY <2>1
  <2>3. g[0] = first
    BY <2>1 DEF RunsFor
  <2>4. ASSUME NEW i \in 0..(n + 1 - 1)
        PROVE  g[i + 1] = step[i][g[i]]
    <3>1. CASE i = n
      BY <3>1
    <3>2. CASE i # n
      <4>1. i \in 0..(n - 1) /\ i + 1 \in 0..n
        BY <3>2, <2>4
      <4>2. f[i + 1] = step[i][f[i]]
        BY <4>1, <2>1 DEF RunsFor
      <4>3. QED
        BY <4>1, <4>2
    <3>3. QED
      BY <3>1, <3>2
  <2> HIDE DEF g
  <2>5. RunsFor(g, n + 1, first, step)
    BY <2>3, <2>4 DEF RunsFor
  <2>6. QED
    BY <2>2, <2>5
<1>3. Nat \subseteq Long
  <2> HIDE DEF Long
  <2>1. QED
    BY <1>1, <1>2, Counting
<1>4. ASSUME NEW n \in Nat, NEW m \in Nat, NEW f \in [0..n -> S], NEW g \in [0..m -> S],
             RunsFor(f, n, first, step), RunsFor(g, m, first, step)
      PROVE  \A i \in 0..n : i <= m => f[i] = g[i]
  <2> DEFINE Same == {i \in Nat : i <= n /\ i <= m => f[i] = g[i]}
  <2>1. 0 \in Same
    BY <1>4 DEF RunsFor
  <2>2. ASSUME NEW i \in Nat, i \in Same
        PROVE  i + 1 \in Same
    <3>1. SUFFICES ASSUME i + 1 <= n, i + 1 <= m
                   PROVE  f[i + 1] = g[i + 1]
      OBVIOUS
    <3>2. i \in 0..(n - 1) /\ i \in 0..(m - 1) /\ f[i] = g[i]
      BY <2>2, <3>1
    <3>3. QED
      BY <1>4, <3>2 DEF RunsFor
  <2>3. Nat \subseteq Same
    <3> HIDE DEF Same
    <3>1. QED
      BY <2>1, <2>2, Counting
  <2>4. QED
    BY <2>3
<1> DEFINE upto(n) == CHOOSE f \in [0..n -> S] : RunsFor(f, n, first, step)
           run == [n \in Nat |-> upto(n)[n]]
<1>5. ASSUME NEW n \in Nat
      PROVE  upto(n) \in [0..n -> S] /\ RunsFor(upto(n), n, first, step)
  <2>1. \E f \in [0..n -> S] : RunsFor(f, n, first, step)
    BY <1>3
  <2>2. QED
    BY <2>1
<1> HIDE DEF upto
<1>6. run \in [Nat -> S]
  BY <1>5
<1>7. run[0] = first
  BY <1>5 DEF RunsFor
<1>8. ASSUME NEW n \in Nat
      PROVE  run[n + 1] = step[n][run[n]]
  <2>1. n + 1 \in Nat /\ n \in 0..n /\ n <= n + 1 /\ n \in 0..(n + 1 - 1)
    OBVIOUS
  <2>2. upto(n + 1)[n + 1] = step[n][upto(n + 1)[n]]
    BY <1>5, <2>1 DEF RunsFor
  <2>3. upto(n)[n] = upto(n + 1)[n]
    <3>1. \A i \in 0..n : i <= n + 1 => upto(n)[i] = upto(n + 1)[i]
      BY <1>4, <1>5, <2>1
    <3>2. QED
      BY <3>1, <2>1
  <2>4. QED
    BY <2>1, <2>2, <2>3
<1>9. QED
  BY <1>6, <1>7, <1>8

\* Induction up to a bound.
LEMMA CountTo ==
    ASSUME NEW n \in Nat, NEW T, 0 \in T, \A i \in 0..(n - 1) : i \in T => i + 1 \in T
    PROVE  0..n \subseteq T
<1> DEFINE U == {i \in Nat : i <= n => i \in T}
<1>1. 0 \in U
  OBVIOUS
<1>2. ASSUME NEW i \in Nat, i \in U
      PROVE  i + 1 \in U
  <2>1. SUFFICES ASSUME i + 1 <= n PROVE i + 1 \in T
    OBVIOUS
  <2>2. i \in 0..(n - 1)
    BY <2>1
  <2>3. QED
    BY <1>2, <2>2
<1>3. Nat \subseteq U
  <2> HIDE DEF U
  <2>1. QED
    BY <1>1, <1>2, Counting
<1>4. QED
  BY <1>3

\* A loop over 1..n, with the equation of a recursive function.
HasRun(n, S, first, step) ==
    \E run \in [0..n -> S] :
        run = [i \in 0..n |-> IF i = 0 THEN first ELSE step[i][run[i - 1]]]

LEMMA LoopOver ==
    ASSUME NEW n \in Nat, NEW S
    PROVE  \A first \in S, step \in [1..n -> [S -> S]] : HasRun(n, S, first, step)
<1>any. \A a \in S, body \in [Nat -> [S -> S]] :
           \E run \in [Nat -> S] :
              run[0] = a /\ \A i \in Nat : run[i + 1] = body[i][run[i]]
  BY LoopExists
<1> TAKE first \in S, step \in [1..n -> [S -> S]]
<1> DEFINE full == [i \in Nat |-> IF i + 1 \in 1..n THEN step[i + 1] ELSE [s \in S |-> s]]
<1>1. full \in [Nat -> [S -> S]]
  OBVIOUS
<1>2. \A i \in Nat : i + 1 \in 1..n => full[i] = step[i + 1]
  OBVIOUS
<1> HIDE DEF full
<1>3. PICK f \in [Nat -> S] : f[0] = first /\ \A i \in Nat : f[i + 1] = full[i][f[i]]
  BY <1>1, <1>any
<1> DEFINE run == [i \in 0..n |-> f[i]]
<1>4. run \in [0..n -> S]
  OBVIOUS
<1>5. ASSUME NEW i \in 0..n, i # 0
      PROVE  run[i] = step[i][run[i - 1]]
  <2>1. i - 1 \in Nat /\ (i - 1) + 1 = i /\ i \in 1..n /\ i - 1 \in 0..n
    BY <1>5
  <2>2. f[i] = full[i - 1][f[i - 1]]
    BY <1>3, <2>1
  <2>3. full[i - 1] = step[i]
    BY <1>2, <2>1
  <2>4. QED
    BY <2>1, <2>2, <2>3
<1>6. run[0] = first
  BY <1>3
<1>7. run = [i \in 0..n |-> IF i = 0 THEN first ELSE step[i][run[i - 1]]]
  BY <1>5, <1>6
<1>8. QED
  BY <1>4, <1>7 DEF HasRun

\* A loop that goes from states in I[i - 1] to states in I[i].
LoopIn(n, I, first, step) ==
    \E run :
        /\ run = [i \in 0..n |-> IF i = 0 THEN first ELSE step[i][run[i - 1]]]
        /\ \A i \in 0..n : run[i] \in I[i]

LEMMA InvariantLoop ==
    ASSUME NEW n \in Nat, NEW I, NEW first, NEW step, first \in I[0],
           \A i \in 1..n : \A s \in I[i - 1] : step[i][s] \in I[i]
    PROVE  LoopIn(n, I, first, step)
<1> DEFINE S == UNION {I[i] : i \in 0..n}
           safe == [i \in 1..n |-> [s \in S |-> IF s \in I[i - 1] THEN step[i][s] ELSE first]]
<1>1. first \in S
  OBVIOUS
<1>2. \A i \in 1..n : \A s \in I[i - 1] : step[i][s] \in S
  OBVIOUS
<1>3. \A i \in 1..n : \A s \in I[i - 1] : s \in S
  <2>1. \A i \in 1..n : i - 1 \in 0..n
    OBVIOUS
  <2>2. QED
    BY <2>1
<1>4. /\ safe \in [1..n -> [S -> S]]
      /\ \A i \in 1..n : \A s \in I[i - 1] : safe[i][s] = step[i][s]
  <2> HIDE DEF S
  <2>1. QED
    BY <1>1, <1>2, <1>3
<1> HIDE DEF S, safe
<1>5. HasRun(n, S, first, safe)
  BY <1>1, <1>4, LoopOver
<1>6. PICK run \in [0..n -> S] :
          run = [i \in 0..n |-> IF i = 0 THEN first ELSE safe[i][run[i - 1]]]
  BY <1>5 DEF HasRun
<1>7. run[0] = first
  BY <1>6
<1>8. \A i \in 1..n : run[i] = safe[i][run[i - 1]]
  BY <1>6
<1> DEFINE T == {i \in 0..n : run[i] \in I[i]}
<1>9. 0..n \subseteq T
  <2>1. 0 \in T
    BY <1>7
  <2>2. ASSUME NEW i \in 0..(n - 1), i \in T
        PROVE  i + 1 \in T
    <3>1. i + 1 \in 1..n /\ (i + 1) - 1 = i /\ i + 1 \in 0..n
      OBVIOUS
    <3>2. run[i + 1] = safe[i + 1][run[i]] /\ run[i] \in I[(i + 1) - 1]
      BY <1>8, <2>2, <3>1
    <3>3. run[i + 1] \in I[i + 1]
      BY <1>4, <3>1, <3>2
    <3>4. QED
      BY <3>1, <3>3
  <2> HIDE DEF T
  <2>3. QED
    BY <2>1, <2>2, CountTo
<1>10. ASSUME NEW i \in 0..n, i # 0
       PROVE  run[i] = step[i][run[i - 1]]
  <2>1. i \in 1..n /\ i - 1 \in 0..n
    BY <1>10
  <2>2. run[i - 1] \in I[i - 1]
    BY <1>9, <2>1
  <2>3. QED
    BY <1>4, <1>8, <2>1, <2>2
<1>11. run = [i \in 0..n |-> IF i = 0 THEN first ELSE step[i][run[i - 1]]]
  BY <1>6, <1>7, <1>10
<1>12. \A i \in 0..n : run[i] \in I[i]
  BY <1>9
<1>13. QED
  BY <1>11, <1>12 DEF LoopIn

\* Of finitely many integers one is the least, and one the greatest.
LEMMA LeastOf ==
    ASSUME NEW n \in Nat, NEW f \in [1..n -> Int], NEW J \in SUBSET (1..n), J # {}
    PROVE  (\E i \in J : \A j \in J : f[i] <= f[j]) /\ (\E i \in J : \A j \in J : f[i] >= f[j])
<1> DEFINE Least(K) == \E i \in K : \A j \in K : f[i] <= f[j]
           Most(K) == \E i \in K : \A j \in K : f[i] >= f[j]
           T == {m \in Nat : m <= n => \A K \in SUBSET (1..m) : K # {} => Least(K) /\ Most(K)}
<1>1. 0 \in T
  <2>1. 1..0 = {}
    OBVIOUS
  <2>2. QED
    BY <2>1
<1>2. ASSUME NEW m \in Nat, m \in T
      PROVE  m + 1 \in T
  <2>1. SUFFICES ASSUME m + 1 <= n, NEW K \in SUBSET (1..(m + 1)), K # {}
                 PROVE  Least(K) /\ Most(K)
    OBVIOUS
  <2> DEFINE L == K \ {m + 1}
  <2>2. L \in SUBSET (1..m) /\ m <= n
    BY <2>1
  <2>3. \A k \in K : k \in 1..n /\ f[k] \in Int
    BY <2>1
  <2>4. CASE L = {}
    <3>1. K = {m + 1}
      BY <2>1, <2>4
    <3>2. QED
      BY <2>3, <3>1
  <2>5. CASE L # {}
    <3>1. PICK a \in L : \A j \in L : f[a] <= f[j]
      BY <1>2, <2>2, <2>5
    <3>2. PICK b \in L : \A j \in L : f[b] >= f[j]
      BY <1>2, <2>2, <2>5
    <3> DEFINE c == m + 1
    <3>3. Least(K)
      <4>1. CASE c \in K /\ f[c] <= f[a]
        <5>1. \A j \in K : f[c] <= f[j]
          BY <2>3, <3>1, <4>1
        <5>2. QED
          BY <4>1, <5>1
      <4>2. CASE ~(c \in K /\ f[c] <= f[a])
        <5>1. \A j \in K : f[a] <= f[j]
          BY <2>3, <3>1, <4>2
        <5>2. QED
          BY <3>1, <5>1
      <4>3. QED
        BY <4>1, <4>2
    <3>4. Most(K)
      <4>1. CASE c \in K /\ f[c] >= f[b]
        <5>1. \A j \in K : f[c] >= f[j]
          BY <2>3, <3>2, <4>1
        <5>2. QED
          BY <4>1, <5>1
      <4>2. CASE ~(c \in K /\ f[c] >= f[b])
        <5>1. \A j \in K : f[b] >= f[j]
          BY <2>3, <3>2, <4>2
        <5>2. QED
          BY <3>2, <5>1
      <4>3. QED
        BY <4>1, <4>2
    <3>5. QED
      BY <3>3, <3>4
  <2>6. QED
    BY <2>4, <2>5
<1>3. Nat \subseteq T
  <2> HIDE DEF T
  <2>1. QED
    BY <1>1, <1>2, Counting
<1>4. Least(J) /\ Most(J)
  BY <1>3
<1>5. QED
  BY <1>4
=============================================================================
