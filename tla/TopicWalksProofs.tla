-------------------------- MODULE TopicWalksProofs --------------------------
(***************************************************************************)
(* Proofs about TopicWalks: the loops of the readers end, and find what is *)
(* below and above a topic, in every state that overlapping edits reach.   *)
(***************************************************************************)
EXTENDS TopicWalks, TaxonomyProofs, LoopLemmas, FiniteSetTheorems, SequenceTheorems

\* What the walks need of the table that they loaded.
FiniteTable == IsFiniteSet(topics)
Table == RefInv /\ FiniteTable

LEMMA TableFacts ==
    ASSUME Table
    PROVE  /\ topics \subseteq Topics /\ parent \in [Topics -> TopicOrNone]
           /\ \A x \in Topics : parent[x] \in Topics => x \in topics /\ parent[x] \in topics
           /\ \A x \in Topics : parent[x] \in topics \/ parent[x] = NoTopic
           /\ NoTopic \notin Topics
           /\ IsFiniteSet(topics) /\ Rounds \in Nat
<1>1. IsFiniteSet(topics) /\ Rounds \in Nat
  BY FS_CardinalityType DEF Table, FiniteTable, Rounds
<1> QED
  BY <1>1, NoTopicAssumption DEF Table, RefInv, TypeOK, NoDangling, TopicOrNone

\* Rows are added and removed one by one.
LEMMA FiniteStep == FiniteTable /\ [Next]_vars => FiniteTable'
<1> SUFFICES ASSUME IsFiniteSet(topics), [Next]_vars PROVE IsFiniteSet(topics')
  BY DEF FiniteTable
<1>1. ASSUME NEW t, NEW n, NEW q, NewTopic(t, n, q)
      PROVE  IsFiniteSet(topics')
  BY <1>1, FS_AddElement DEF NewTopic
<1>2. ASSUME NEW t, DropTopic(t)
      PROVE  IsFiniteSet(topics')
  BY <1>2, FS_RemoveElement DEF DropTopic
<1>3. CASE Tagging
  BY <1>1, <1>3 DEF Tagging, ApplyReuse, ApplyProposal
<1>4. CASE SmallEdit
  BY <1>1, <1>4 DEF SmallEdit, CreateTopic, RenameTopic, AddPaperTopic, RemovePaperTopic
<1>5. ASSUME NEW e \in Editors, CheckedEdit(e)
      PROVE  IsFiniteSet(topics')
  <2>1. CASE CommitMerge(e) \/ CommitDelete(e)
    BY <1>2, <2>1 DEF CommitMerge, CommitDelete
  <2>2. ASSUME NEW t \in Topics, CommitSplit(e, t)
        PROVE  IsFiniteSet(topics')
    BY <1>1, <2>2 DEF CommitSplit
  <2> QED
    BY <1>5, <2>1, <2>2 DEF CheckedEdit, CheckReparent, WriteReparent, ReadMerge, ReadDelete,
       CheckSplit, Rollback
<1> QED
  BY <1>3, <1>4, <1>5 DEF Next, vars

LEMMA TableInvariant == Spec => []Table
<1>1. Init => FiniteTable
  BY FS_EmptySet DEF Init, FiniteTable
<1>2. Spec => []FiniteTable
  BY <1>1, FiniteStep, PTL DEF Spec
<1> QED
  BY <1>2, RefInvariant, PTL DEF Table

-----------------------------------------------------------------------------
(* descendant_ids.                                                         *)

\* The children that join the frontier, each once.
LEMMA SetToSeqLists ==
    ASSUME NEW S, IsFiniteSet(S)
    PROVE  /\ SetToSeq(S) \in [1..Cardinality(S) -> S]
           /\ \A x \in S : \E i \in 1..Cardinality(S) : SetToSeq(S)[i] = x
<1> DEFINE n == Cardinality(S)
<1>1. n \in Nat /\ IsFiniteSet(1..n) /\ Cardinality(1..n) = n
  <2>1. n \in Nat
    BY FS_CardinalityType
  <2>2. QED
    BY <2>1, FS_Interval
<1>2. PICK f \in Bijection(1..n, S) : TRUE
  BY FS_CardinalityType DEF ExistsBijection
<1>3. f \in [1..n -> S] /\ IsInjective(f)
  BY <1>2 DEF Bijection, Injection, IsInjective
<1>4. SetToSeq(S) \in [1..n -> S] /\ IsInjective(SetToSeq(S))
  BY <1>3 DEF SetToSeq
<1>5. SetToSeq(S) \in Injection(1..n, S)
  BY <1>4 DEF Injection, IsInjective
<1>6. SetToSeq(S) \in Surjection(1..n, S)
  BY <1>1, <1>5, FS_Injection
<1> QED
  BY <1>4, <1>6 DEF Surjection

\* What is below a topic of the table is in the table.
LEMMA BelowInTable ==
    ASSUME Table, NEW t \in topics
    PROVE  Below(parent, t) \subseteq topics
<1>1. t \in Topics /\ topics \in SUBSET Topics /\ Closed(parent, topics)
  BY TableFacts DEF Closed
<1> QED
  BY <1>1, BelowLeast

\* The states of the loop of descendant_ids.
WalkStates == [seen : SUBSET topics, frontier : Seq(topics)]

LEMMA NewChildren ==
    ASSUME Table, NEW w \in WalkStates, w.frontier # <<>>
    PROVE  LET new == Children(Head(w.frontier)) \ w.seen
               list == SetToSeq(new)
           IN  /\ new \subseteq topics /\ IsFiniteSet(new)
               /\ list \in Seq(topics) /\ Len(list) = Cardinality(new)
               /\ \A i \in 1..Len(list) : list[i] \in new
               /\ \A x \in new : \E i \in 1..Len(list) : list[i] = x
<1> DEFINE new == Children(Head(w.frontier)) \ w.seen
           list == SetToSeq(new)
<1>1. new \subseteq topics
  BY DEF Children
<1>2. IsFiniteSet(new) /\ Cardinality(new) \in Nat
  BY <1>1, TableFacts, FS_Subset, FS_CardinalityType
<1> HIDE DEF new
<1>3. /\ list \in [1..Cardinality(new) -> new]
      /\ \A x \in new : \E i \in 1..Cardinality(new) : list[i] = x
  BY <1>2, SetToSeqLists
<1> HIDE DEF list
<1>4. list \in Seq(topics) /\ Len(list) = Cardinality(new)
  BY <1>1, <1>2, <1>3
<1>5. QED
  BY <1>1, <1>2, <1>3, <1>4 DEF new, list

LEMMA VisitType ==
    ASSUME Table, NEW w \in WalkStates
    PROVE  Visit(w) \in WalkStates
<1>1. CASE w.frontier = <<>>
  BY <1>1 DEF Visit
<1>2. CASE w.frontier # <<>>
  <2> DEFINE new == Children(Head(w.frontier)) \ w.seen
             list == SetToSeq(new)
  <2>1. new \subseteq topics /\ list \in Seq(topics)
    BY <1>2, NewChildren
  <2>2. Visit(w) = [seen |-> w.seen \cup new, frontier |-> Tail(w.frontier) \o list]
    BY <1>2 DEF Visit
  <2> HIDE DEF new, list
  <2>3. w.seen \in SUBSET topics /\ w.frontier \in Seq(topics)
    BY DEF WalkStates
  <2>4. Tail(w.frontier) \o list \in Seq(topics)
    BY <1>2, <2>1, <2>3
  <2>5. QED
    BY <2>1, <2>2, <2>3, <2>4 DEF WalkStates
<1>3. QED
  BY <1>1, <1>2

\* The walk of the model is the sequence of these states.
LEMMA WalkRuns ==
    ASSUME Table, NEW t \in topics
    PROVE  /\ Walk(t) \in [Nat -> WalkStates]
           /\ Walk(t)[0] = [seen |-> {t}, frontier |-> <<t>>]
           /\ \A n \in Nat : Walk(t)[n + 1] = Visit(Walk(t)[n])
<1> DEFINE first == [seen |-> {t}, frontier |-> <<t>>]
           visit == [n \in Nat |-> [w \in WalkStates |-> Visit(w)]]
           Is(f) == f = [n \in Nat |-> IF n = 0 THEN first ELSE Visit(f[n - 1])]
<1>1. first \in WalkStates
  BY DEF WalkStates
<1>2. visit \in [Nat -> [WalkStates -> WalkStates]]
  BY VisitType
<1>3. Walk(t) = CHOOSE f : Is(f)
  BY DEF Walk
<1>visit. \A n \in Nat, w \in WalkStates : visit[n][w] = Visit(w)
  OBVIOUS
<1> HIDE DEF first, visit
<1>4. PICK run \in [Nat -> WalkStates] :
          run[0] = first /\ \A n \in Nat : run[n + 1] = visit[n][run[n]]
  BY <1>1, <1>2, LoopExists
<1>5. Is(run)
  <2>1. ASSUME NEW n \in Nat, n # 0
        PROVE  run[n] = Visit(run[n - 1])
    <3>1. n - 1 \in Nat /\ (n - 1) + 1 = n
      BY <2>1
    <3>2. run[n] = visit[n - 1][run[n - 1]]
      BY <1>4, <3>1
    <3>3. QED
      BY <1>4, <1>visit, <3>1, <3>2
  <2>2. QED
    BY <1>4, <2>1
<1>6. Is(Walk(t))
  BY <1>3, <1>5
<1> DEFINE walk == Walk(t)
<1>7. walk = [n \in Nat |-> IF n = 0 THEN first ELSE Visit(walk[n - 1])]
  BY <1>6
<1> HIDE DEF walk, Is
<1>8. walk[0] = first /\ \A n \in Nat : walk[n + 1] = Visit(walk[n])
  <2>1. walk[0] = first
    BY <1>7
  <2>2. ASSUME NEW n \in Nat
        PROVE  walk[n + 1] = Visit(walk[n])
    <3>1. n + 1 \in Nat /\ n + 1 # 0 /\ (n + 1) - 1 = n
      OBVIOUS
    <3>2. walk[n + 1] = IF n + 1 = 0 THEN first ELSE Visit(walk[(n + 1) - 1])
      BY <1>7, <3>1
    <3>3. QED
      BY <3>1, <3>2
  <2>3. QED
    BY <2>1, <2>2
<1> DEFINE Typed == {n \in Nat : walk[n] \in WalkStates}
<1>9. Nat \subseteq Typed
  <2>1. 0 \in Typed
    BY <1>1, <1>8
  <2>2. ASSUME NEW n \in Nat, n \in Typed
        PROVE  n + 1 \in Typed
    BY <1>8, <2>2, VisitType
  <2> HIDE DEF Typed
  <2>3. QED
    BY <2>1, <2>2, Counting
<1>10. walk \in [Nat -> WalkStates]
  <2>1. walk = [n \in Nat |-> walk[n]]
    BY <1>7
  <2>2. QED
    BY <1>9, <2>1
<1>11. QED
  BY <1>8, <1>10 DEF walk, first

\* After n rounds: what was seen is below t, what has an unseen child waits in
\* the frontier, and each round took one topic from there.
WalkInv(t, n, w) ==
    /\ t \in w.seen /\ w.seen \subseteq Below(parent, t)
    /\ \A i \in 1..Len(w.frontier) : w.frontier[i] \in w.seen
    /\ \A x \in topics : parent[x] \in w.seen /\ x \notin w.seen =>
          \E i \in 1..Len(w.frontier) : w.frontier[i] = parent[x]
    /\ w.frontier = <<>> \/ Len(w.frontier) + n = Cardinality(w.seen)

LEMMA VisitKeepsInv ==
    ASSUME Table, NEW t \in topics, NEW n \in Nat, NEW w \in WalkStates, WalkInv(t, n, w)
    PROVE  WalkInv(t, n + 1, Visit(w))
<1>1. CASE w.frontier = <<>>
  BY <1>1 DEF Visit, WalkInv
<1>2. CASE w.frontier # <<>>
  <2> DEFINE new == Children(Head(w.frontier)) \ w.seen
             list == SetToSeq(new)
             rest == Tail(w.frontier)
             seen == w.seen \cup new
             frontier == rest \o list
  <2>1. /\ new \subseteq topics /\ IsFiniteSet(new)
        /\ list \in Seq(topics) /\ Len(list) = Cardinality(new)
        /\ \A i \in 1..Len(list) : list[i] \in new
        /\ \A x \in new : \E i \in 1..Len(list) : list[i] = x
    BY <1>2, NewChildren
  <2>2. \A x \in topics : x \in new <=> parent[x] = Head(w.frontier) /\ x \notin w.seen
    BY DEF Children
  <2>3. Visit(w) = [seen |-> seen, frontier |-> frontier]
    BY <1>2 DEF Visit
  <2>4. new \cap w.seen = {}
    OBVIOUS
  <2> HIDE DEF new, list
  <2>5. w.seen \in SUBSET topics /\ w.frontier \in Seq(topics) /\ Len(w.frontier) \in Nat \ {0}
    BY <1>2 DEF WalkStates
  <2>6. /\ rest \in Seq(topics) /\ Len(rest) = Len(w.frontier) - 1
        /\ \A i \in 1..Len(rest) : rest[i] = w.frontier[i + 1]
        /\ Head(w.frontier) = w.frontier[1]
    BY <1>2, <2>5
  <2> HIDE DEF rest
  <2>7. /\ frontier \in Seq(topics) /\ Len(frontier) = Len(rest) + Len(list)
        /\ \A i \in 1..Len(rest) : frontier[i] = rest[i]
        /\ \A i \in 1..Len(list) : frontier[Len(rest) + i] = list[i]
    <3>1. /\ frontier \in Seq(topics) /\ Len(frontier) = Len(rest) + Len(list)
          /\ \A i \in 1..(Len(rest) + Len(list)) :
                frontier[i] = IF i <= Len(rest) THEN rest[i] ELSE list[i - Len(rest)]
      BY <2>1, <2>6, ConcatProperties
    <3>2. Len(rest) \in Nat /\ Len(list) \in Nat
      BY <2>1, <2>6
    <3> HIDE DEF frontier
    <3>3. \A i \in 1..Len(rest) : i \in 1..(Len(rest) + Len(list)) /\ i <= Len(rest)
      BY <3>2
    <3>4. \A i \in 1..Len(list) : /\ Len(rest) + i \in 1..(Len(rest) + Len(list))
                                  /\ ~(Len(rest) + i <= Len(rest))
                                  /\ (Len(rest) + i) - Len(rest) = i
      BY <3>2
    <3>5. QED
      BY <3>1, <3>3, <3>4
  <2> DEFINE a == Len(rest)  b == Len(list)
  <2>lens. a \in Nat /\ b \in Nat
    BY <2>1, <2>6
  <2> HIDE DEF frontier
  <2>8. \A i \in 1..Len(frontier) : i \in 1..Len(rest) \/ i - Len(rest) \in 1..Len(list)
    <3>1. \A i \in 1..(a + b) : i \in 1..a \/ i - a \in 1..b
      BY <2>lens
    <3>2. QED
      BY <2>7, <3>1
  <2>9. ASSUME NEW i \in 1..Len(frontier)
        PROVE  frontier[i] \in seen
    <3>1. CASE i \in 1..Len(rest)
      <4>1. i + 1 \in 1..Len(w.frontier) /\ frontier[i] = w.frontier[i + 1]
        BY <2>5, <2>6, <2>7, <3>1
      <4>2. QED
        BY <4>1 DEF WalkInv
    <3>2. CASE i - Len(rest) \in 1..Len(list)
      <4>1. Len(rest) + (i - Len(rest)) = i
        BY <2>lens, <2>7
      <4>2. frontier[i] = list[i - Len(rest)]
        BY <2>7, <3>2, <4>1
      <4>3. QED
        BY <2>1, <3>2, <4>2
    <3>3. QED
      BY <2>8, <3>1, <3>2
  <2>10. ASSUME NEW x \in topics, parent[x] \in seen, x \notin seen
         PROVE  \E i \in 1..Len(frontier) : frontier[i] = parent[x]
    <3>1. CASE parent[x] \in new
      <4>1. PICK j \in 1..Len(list) : list[j] = parent[x]
        BY <2>1, <3>1
      <4>2. Len(rest) + j \in 1..Len(frontier) /\ frontier[Len(rest) + j] = parent[x]
        BY <2>1, <2>6, <2>7, <4>1
      <4>3. QED
        BY <4>2
    <3>2. CASE parent[x] \notin new
      <4>1. PICK j \in 1..Len(w.frontier) : w.frontier[j] = parent[x]
        BY <2>10, <3>2 DEF WalkInv
      <4>2. j # 1
        BY <2>2, <2>6, <2>10, <4>1
      <4>3. j - 1 \in 1..Len(rest) /\ (j - 1) + 1 = j
        BY <2>5, <2>6, <4>2
      <4>4. j - 1 \in 1..Len(frontier) /\ frontier[j - 1] = parent[x]
        BY <2>1, <2>6, <2>7, <4>1, <4>3
      <4>5. QED
        BY <4>4
    <3>3. QED
      BY <3>1, <3>2
  <2>11. seen \subseteq Below(parent, t)
    <3>1. Head(w.frontier) \in Below(parent, t)
      <4>1. 1 \in 1..Len(w.frontier)
        BY <2>5
      <4>2. QED
        BY <2>6, <4>1 DEF WalkInv
    <3>2. t \in Topics /\ topics \subseteq Topics
      BY TableFacts
    <3>3. new \subseteq Below(parent, t)
      BY <2>1, <2>2, <3>1, <3>2, BelowClosed DEF Closed
    <3>4. QED
      BY <3>3 DEF WalkInv
  <2>12. Len(frontier) + (n + 1) = Cardinality(seen)
    <3>1. Len(w.frontier) + n = Cardinality(w.seen)
      BY <1>2 DEF WalkInv
    <3>2. IsFiniteSet(w.seen)
      BY <2>5, TableFacts, FS_Subset
    <3>3. Cardinality(w.seen \cap new) = 0
      BY <2>4, FS_EmptySet
    <3>4. Cardinality(w.seen) \in Nat /\ Cardinality(new) \in Nat
      BY <2>1, <3>2, FS_CardinalityType
    <3>5. Cardinality(seen) = Cardinality(w.seen) + Cardinality(new)
      <4>1. Cardinality(seen) =
               Cardinality(w.seen) + Cardinality(new) - Cardinality(w.seen \cap new)
        BY <2>1, <3>2, FS_Union
      <4>2. QED
        BY <3>3, <3>4, <4>1
    <3>6. Len(frontier) = (Len(w.frontier) - 1) + Cardinality(new)
      BY <2>1, <2>6, <2>7
    <3>7. QED
      BY <2>5, <3>1, <3>4, <3>5, <3>6
  <2>13. t \in seen
    BY DEF WalkInv
  <2> HIDE DEF seen
  <2>14. QED
    BY <2>3, <2>9, <2>10, <2>11, <2>12, <2>13 DEF WalkInv
<1>3. QED
  BY <1>1, <1>2

\* The walk ends within as many rounds as there are topics, and has then found
\* what is below the topic, whatever the shape of the table.
LEMMA WalkFindsBelow ==
    ASSUME Table, NEW t \in topics
    PROVE  descendant_ids(t) = Below(parent, t) /\ Walk(t)[Rounds].frontier = <<>>
<1> DEFINE walk == Walk(t)
           Good == {n \in Nat : WalkInv(t, n, walk[n])}
           w == walk[Rounds]
<1>1. /\ walk \in [Nat -> WalkStates]
      /\ walk[0] = [seen |-> {t}, frontier |-> <<t>>]
      /\ \A n \in Nat : walk[n + 1] = Visit(walk[n])
  BY WalkRuns
<1>2. t \in Topics /\ topics \subseteq Topics /\ IsFiniteSet(topics) /\ Rounds \in Nat
  BY TableFacts
<1> HIDE DEF walk
<1>3. 0 \in Good
  <2>1. Cardinality({t}) = 1
    BY FS_Singleton
  <2>2. {t} \subseteq Below(parent, t)
    BY <1>2, BelowSelf
  <2>3. <<t>> \in Seq({t}) /\ Len(<<t>>) = 1 /\ <<t>>[1] = t /\ 1 \in 1..1
    OBVIOUS
  <2>4. walk[0].seen = {t} /\ walk[0].frontier = <<t>>
    BY <1>1
  <2>5. \A i \in 1..1 : i = 1
    OBVIOUS
  <2>6. /\ t \in {t}
        /\ \A i \in 1..Len(<<t>>) : <<t>>[i] \in {t}
        /\ \A x \in topics : parent[x] \in {t} /\ x \notin {t} =>
              \E i \in 1..Len(<<t>>) : <<t>>[i] = parent[x]
        /\ Len(<<t>>) + 0 = Cardinality({t})
    BY <2>1, <2>3, <2>5
  <2>7. WalkInv(t, 0, walk[0])
    BY <2>2, <2>4, <2>6 DEF WalkInv
  <2>8. QED
    BY <2>7
<1>4. ASSUME NEW n \in Nat, n \in Good
      PROVE  n + 1 \in Good
  BY <1>1, <1>4, VisitKeepsInv
<1>5. Nat \subseteq Good
  <2> HIDE DEF Good
  <2>1. QED
    BY <1>3, <1>4, Counting
<1>6. w \in WalkStates /\ WalkInv(t, Rounds, w)
  BY <1>1, <1>2, <1>5
<1> HIDE DEF w
<1>7. w.seen \in SUBSET topics /\ w.frontier \in Seq(topics)
  BY <1>6 DEF WalkStates
<1>8. w.frontier = <<>>
  <2>1. Cardinality(w.seen) <= Rounds /\ Cardinality(w.seen) \in Nat
    BY <1>2, <1>7, FS_Subset, FS_CardinalityType DEF Rounds
  <2>2. Len(w.frontier) \in Nat /\ (Len(w.frontier) = 0 => w.frontier = <<>>)
    BY <1>7
  <2>3. QED
    BY <1>2, <1>6, <2>1, <2>2 DEF WalkInv
<1>9. Closed(parent, w.seen)
  <2>1. ASSUME NEW x \in Topics, parent[x] \in w.seen
        PROVE  x \in w.seen
    <3>1. x \in topics
      BY <1>7, <2>1, TableFacts
    <3>2. QED
      BY <1>6, <1>8, <2>1, <3>1 DEF WalkInv
  <2>2. QED
    BY <2>1 DEF Closed
<1>10. w.seen = Below(parent, t)
  <2>1. t \in w.seen /\ w.seen \subseteq Below(parent, t)
    BY <1>6 DEF WalkInv
  <2>2. QED
    BY <1>2, <1>7, <1>9, <2>1, BelowLeast
<1>11. QED
  BY <1>8, <1>10 DEF w, walk, descendant_ids

-----------------------------------------------------------------------------
(* ancestor_ids.                                                           *)

\* The states of its loop: the topic and the ancestors found so far.
Chains == {c \in Seq(topics) : Len(c) # 0}

\* The climb goes no further from here.
Stopped(c) == parent[c[Len(c)]] \in ToSet(c) \cup {NoTopic}

LEMMA AscendCases ==
    ASSUME Table, NEW c \in Chains
    PROVE  /\ Len(c) \in Nat \ {0} /\ c[Len(c)] \in topics /\ DOMAIN c = 1..Len(c)
           /\ Stopped(c) => Ascend(c) = c
           /\ ~Stopped(c) => /\ parent[c[Len(c)]] \in topics
                             /\ Ascend(c) = Append(c, parent[c[Len(c)]])
<1>1. Len(c) \in Nat \ {0} /\ c[Len(c)] \in topics /\ DOMAIN c = 1..Len(c)
  BY DEF Chains
<1>2. ~Stopped(c) => parent[c[Len(c)]] \in topics
  BY <1>1, TableFacts DEF Stopped
<1>3. QED
  BY <1>1, <1>2 DEF Ascend, Stopped, Last

LEMMA AscendType ==
    ASSUME Table, NEW c \in Chains
    PROVE  Ascend(c) \in Chains
<1>1. CASE Stopped(c)
  BY <1>1, AscendCases
<1>2. CASE ~Stopped(c)
  <2>1. c \in Seq(topics) /\ parent[c[Len(c)]] \in topics
    BY <1>2, AscendCases DEF Chains
  <2>2. /\ Append(c, parent[c[Len(c)]]) \in Seq(topics)
        /\ Len(Append(c, parent[c[Len(c)]])) = Len(c) + 1
    BY <2>1, AppendProperties
  <2>3. QED
    BY <1>2, <2>2, AscendCases DEF Chains
<1>3. QED
  BY <1>1, <1>2

\* The climb of the model is the sequence of these states.
LEMMA ClimbRuns ==
    ASSUME Table, NEW t \in topics
    PROVE  /\ Climb(t) \in [Nat -> Chains]
           /\ Climb(t)[0] = <<t>>
           /\ \A n \in Nat : Climb(t)[n + 1] = Ascend(Climb(t)[n])
<1> DEFINE first == <<t>>
           ascend == [n \in Nat |-> [c \in Chains |-> Ascend(c)]]
           Is(f) == f = [n \in Nat |-> IF n = 0 THEN first ELSE Ascend(f[n - 1])]
<1>1. first \in Chains
  BY DEF Chains
<1>2. ascend \in [Nat -> [Chains -> Chains]]
  BY AscendType
<1>3. Climb(t) = CHOOSE f : Is(f)
  BY DEF Climb
<1>4. \A n \in Nat, c \in Chains : ascend[n][c] = Ascend(c)
  OBVIOUS
<1> HIDE DEF first, ascend
<1>5. PICK run \in [Nat -> Chains] :
          run[0] = first /\ \A n \in Nat : run[n + 1] = ascend[n][run[n]]
  BY <1>1, <1>2, LoopExists
<1>6. Is(run)
  <2>1. ASSUME NEW n \in Nat, n # 0
        PROVE  run[n] = Ascend(run[n - 1])
    <3>1. n - 1 \in Nat /\ (n - 1) + 1 = n
      BY <2>1
    <3>2. run[n] = ascend[n - 1][run[n - 1]]
      BY <1>5, <3>1
    <3>3. QED
      BY <1>4, <3>1, <3>2
  <2>2. QED
    BY <1>5, <2>1
<1>7. Is(Climb(t))
  BY <1>3, <1>6
<1> DEFINE climb == Climb(t)
<1>8. climb = [n \in Nat |-> IF n = 0 THEN first ELSE Ascend(climb[n - 1])]
  BY <1>7
<1> HIDE DEF climb, Is
<1>9. climb[0] = first /\ \A n \in Nat : climb[n + 1] = Ascend(climb[n])
  <2>1. climb[0] = first
    BY <1>8
  <2>2. ASSUME NEW n \in Nat
        PROVE  climb[n + 1] = Ascend(climb[n])
    <3>1. n + 1 \in Nat /\ n + 1 # 0 /\ (n + 1) - 1 = n
      OBVIOUS
    <3>2. climb[n + 1] = IF n + 1 = 0 THEN first ELSE Ascend(climb[(n + 1) - 1])
      BY <1>8, <3>1
    <3>3. QED
      BY <3>1, <3>2
  <2>3. QED
    BY <2>1, <2>2
<1> DEFINE Typed == {n \in Nat : climb[n] \in Chains}
<1>10. Nat \subseteq Typed
  <2>1. 0 \in Typed
    BY <1>1, <1>9
  <2>2. ASSUME NEW n \in Nat, n \in Typed
        PROVE  n + 1 \in Typed
    BY <1>9, <2>2, AscendType
  <2> HIDE DEF Typed
  <2>3. QED
    BY <2>1, <2>2, Counting
<1>11. climb \in [Nat -> Chains]
  <2>1. climb = [n \in Nat |-> climb[n]]
    BY <1>8
  <2>2. QED
    BY <1>10, <2>1
<1>12. QED
  BY <1>9, <1>11 DEF climb, first

\* A chain of parents, nearest first, that has t below each of its members.
ChainFrom(t, c) ==
    /\ c[1] = t
    /\ \A i, j \in 1..Len(c) : c[i] = c[j] => i = j
    /\ \A i \in 1..Len(c) : i < Len(c) => c[i + 1] = parent[c[i]]
    /\ \A i \in 1..Len(c) : t \in Below(parent, c[i])

LEMMA AscendKeepsChain ==
    ASSUME Table, NEW t \in topics, NEW c \in Chains, ChainFrom(t, c), ~Stopped(c)
    PROVE  ChainFrom(t, Ascend(c)) /\ Len(Ascend(c)) = Len(c) + 1
<1> DEFINE last == c[Len(c)]
           d == Append(c, parent[last])
           k == Len(c)
<1>1. /\ k \in Nat \ {0} /\ last \in topics /\ parent[last] \in topics
      /\ Ascend(c) = d /\ DOMAIN c = 1..k /\ c \in Seq(topics)
  BY AscendCases DEF Chains
<1>2. /\ Len(d) = k + 1 /\ d[k + 1] = parent[last]
      /\ \A i \in 1..k : d[i] = c[i]
  BY <1>1, AppendProperties
<1>3. \A i \in 1..k : c[i] # parent[last]
  BY <1>1 DEF Stopped, ToSet
<1>4. \A i \in 1..k : c[i] \in topics
  BY <1>1
<1> HIDE DEF d, last, k
<1>5. \A i \in 1..(k + 1) : i \in 1..k \/ i = k + 1
  BY <1>1
<1>6. d[1] = t
  BY <1>1, <1>2 DEF ChainFrom, k
<1>7. \A i, j \in 1..(k + 1) : d[i] = d[j] => i = j
  BY <1>2, <1>3, <1>5 DEF ChainFrom, k
<1>8. ASSUME NEW i \in 1..(k + 1), i < k + 1
      PROVE  d[i + 1] = parent[d[i]]
  <2>1. CASE i = k
    BY <1>1, <1>2, <2>1 DEF last, k
  <2>2. CASE i # k
    <3>1. i \in 1..k /\ i < k /\ i + 1 \in 1..k
      BY <1>1, <1>8, <2>2
    <3>2. c[i + 1] = parent[c[i]]
      BY <3>1 DEF ChainFrom, k
    <3>3. QED
      BY <1>2, <3>1, <3>2
  <2>3. QED
    BY <2>1, <2>2
<1>9. t \in Below(parent, parent[last])
  <2>1. t \in Below(parent, last) /\ last \in Topics /\ parent[last] \in Topics
    BY <1>1, TableFacts DEF ChainFrom, last, k
  <2>2. last \in Below(parent, parent[last])
    BY <2>1, BelowSelf, BelowClosed DEF Closed
  <2>3. Below(parent, last) \subseteq Below(parent, parent[last])
    <3>1. Below(parent, parent[last]) \in SUBSET Topics
      BY DEF Below
    <3>2. QED
      BY <2>1, <2>2, <3>1, BelowLeast, BelowClosed
  <2>4. QED
    BY <2>1, <2>3
<1>10. \A i \in 1..(k + 1) : t \in Below(parent, d[i])
  BY <1>2, <1>5, <1>9 DEF ChainFrom, k
<1>11. QED
  BY <1>1, <1>2, <1>6, <1>7, <1>8, <1>10 DEF ChainFrom, k

\* A chain has no more members than there are topics.
LEMMA ChainLength ==
    ASSUME Table, NEW t \in topics, NEW c \in Chains, ChainFrom(t, c)
    PROVE  Len(c) <= Rounds
<1>1. /\ Len(c) \in Nat /\ DOMAIN c = 1..Len(c)
      /\ c \in [1..Len(c) -> topics]
  BY DEF Chains
<1>2. IsInjective(c)
  BY <1>1 DEF ChainFrom, IsInjective
<1>3. c \in Injection(1..Len(c), topics)
  BY <1>1, <1>2 DEF Injection
<1>4. IsFiniteSet(topics)
  BY TableFacts
<1>5. Cardinality(1..Len(c)) <= Cardinality(topics)
  BY <1>3, <1>4, FS_Injection
<1>6. Cardinality(1..Len(c)) = Len(c)
  BY <1>1, FS_Interval
<1>7. QED
  BY <1>5, <1>6 DEF Rounds

\* The climb ends within as many rounds as there are topics; it has then found
\* each topic that t is below, once.
LEMMA ClimbFindsAbove ==
    ASSUME Table, NEW t \in topics
    PROVE  LET c == Climb(t)[Rounds] IN
           /\ c \in Chains /\ ChainFrom(t, c) /\ Stopped(c)
           /\ \A y \in topics : t \in Below(parent, y) <=> \E i \in 1..Len(c) : c[i] = y
<1> DEFINE climb == Climb(t)
           Good == {n \in Nat : /\ ChainFrom(t, climb[n])
                                /\ Len(climb[n]) = n + 1 \/ Stopped(climb[n])}
           c == climb[Rounds]
<1>1. /\ climb \in [Nat -> Chains] /\ climb[0] = <<t>>
      /\ \A n \in Nat : climb[n + 1] = Ascend(climb[n])
  BY ClimbRuns
<1>2. t \in Topics /\ topics \subseteq Topics /\ Rounds \in Nat
  BY TableFacts
<1> HIDE DEF climb
<1>3. 0 \in Good
  <2>1. Len(<<t>>) = 1 /\ <<t>>[1] = t /\ \A i \in 1..1 : i = 1
    OBVIOUS
  <2>2. t \in Below(parent, t)
    BY <1>2, BelowSelf
  <2>3. ChainFrom(t, <<t>>)
    BY <2>1, <2>2 DEF ChainFrom
  <2>4. QED
    BY <1>1, <2>1, <2>3
<1>4. ASSUME NEW n \in Nat, n \in Good
      PROVE  n + 1 \in Good
  <2>1. climb[n] \in Chains /\ ChainFrom(t, climb[n]) /\ climb[n + 1] = Ascend(climb[n])
    BY <1>1, <1>4
  <2>2. CASE Stopped(climb[n])
    <3>1. climb[n + 1] = climb[n]
      BY <2>1, <2>2, AscendCases
    <3>2. QED
      BY <2>1, <2>2, <3>1
  <2>3. CASE ~Stopped(climb[n])
    <3>1. Len(climb[n]) = n + 1
      BY <1>4, <2>3
    <3>2. ChainFrom(t, climb[n + 1]) /\ Len(climb[n + 1]) = Len(climb[n]) + 1
      BY <2>1, <2>3, AscendKeepsChain
    <3>3. QED
      BY <3>1, <3>2
  <2>4. QED
    BY <2>2, <2>3
<1>5. Nat \subseteq Good
  <2> HIDE DEF Good
  <2>1. QED
    BY <1>3, <1>4, Counting
<1>6. c \in Chains /\ ChainFrom(t, c) /\ (Len(c) = Rounds + 1 \/ Stopped(c))
  BY <1>1, <1>2, <1>5
<1> HIDE DEF c
<1>7. Stopped(c)
  <2>1. Len(c) <= Rounds /\ Len(c) \in Nat
    BY <1>6, ChainLength DEF Chains
  <2>2. QED
    BY <1>2, <1>6, <2>1
<1>8. ASSUME NEW y \in topics, \A i \in 1..Len(c) : c[i] # y
      PROVE  t \notin Below(parent, y)
  <2> DEFINE S == {x \in Topics : \A i \in 1..Len(c) : c[i] # x}
  <2>1. Len(c) \in Nat \ {0} /\ DOMAIN c = 1..Len(c)
    BY <1>6, AscendCases
  <2>2. Closed(parent, S)
    <3> SUFFICES ASSUME NEW x \in Topics, parent[x] \in S, NEW i \in 1..Len(c), c[i] = x
                 PROVE  FALSE
      BY DEF Closed
    <3>1. CASE i < Len(c)
      <4>1. parent[x] = c[i + 1] /\ i + 1 \in 1..Len(c)
        BY <1>6, <2>1, <3>1 DEF ChainFrom
      <4>2. QED
        BY <4>1
    <3>2. CASE i = Len(c)
      <4>1. parent[x] \in ToSet(c) \cup {NoTopic} /\ parent[x] # NoTopic
        BY <1>7, <3>2, NoTopicAssumption DEF Stopped
      <4>2. QED
        BY <2>1, <4>1 DEF ToSet
    <3>3. QED
      BY <2>1, <3>1, <3>2
  <2>3. y \in S /\ S \in SUBSET Topics /\ y \in Topics
    BY <1>2, <1>8
  <2>4. Below(parent, y) \subseteq S
    BY <2>2, <2>3, BelowLeast
  <2>5. t \notin S
    BY <1>6, <2>1 DEF ChainFrom
  <2>6. QED
    BY <2>4, <2>5
<1>9. \A y \in topics : t \in Below(parent, y) <=> \E i \in 1..Len(c) : c[i] = y
  BY <1>6, <1>8 DEF ChainFrom
<1>10. QED
  BY <1>6, <1>7, <1>9 DEF c, climb

LEMMA AncestorsAreAbove ==
    ASSUME Table, NEW t \in topics
    PROVE  LET c == Climb(t)[Rounds]  above == ancestor_ids(t) IN
           /\ Len(c) \in Nat \ {0} /\ Len(above) = Len(c) - 1
           /\ \A k \in 1..(Len(c) - 1) : above[k] = c[k + 1]
           /\ IsInjective(above)
           /\ \A y \in topics \ {t} : y \in ToSet(above) <=> t \in Below(parent, y)
<1> DEFINE c == Climb(t)[Rounds]
           above == ancestor_ids(t)
<1>1. /\ c \in Chains /\ ChainFrom(t, c)
      /\ \A y \in topics : t \in Below(parent, y) <=> \E i \in 1..Len(c) : c[i] = y
  BY ClimbFindsAbove
<1>2. above = Tail(c)
  BY DEF ancestor_ids
<1> HIDE DEF c, above
<1>3. c \in Seq(topics) /\ Len(c) \in Nat \ {0} /\ c # <<>>
  BY <1>1 DEF Chains
<1>4. /\ above \in Seq(topics) /\ Len(above) = Len(c) - 1
      /\ \A k \in 1..Len(above) : above[k] = c[k + 1]
  BY <1>2, <1>3, HeadTailProperties
<1>5. DOMAIN above = 1..Len(above)
  BY <1>4
<1>6. \A k \in 1..Len(above) : k + 1 \in 1..Len(c)
  BY <1>3, <1>4
<1>7. IsInjective(above)
  <2> SUFFICES ASSUME NEW i \in 1..Len(above), NEW j \in 1..Len(above), above[i] = above[j]
               PROVE  i = j
    BY <1>5 DEF IsInjective
  <2>1. i + 1 = j + 1
    BY <1>1, <1>4, <1>6 DEF ChainFrom
  <2>2. QED
    BY <2>1
<1>8. ASSUME NEW y \in topics \ {t}
      PROVE  y \in ToSet(above) <=> \E i \in 1..Len(c) : c[i] = y
  <2>1. ASSUME NEW i \in 1..Len(c), c[i] = y
        PROVE  y \in ToSet(above)
    <3>1. i # 1
      BY <1>1, <2>1 DEF ChainFrom
    <3>2. i - 1 \in 1..Len(above) /\ (i - 1) + 1 = i
      BY <1>3, <1>4, <3>1
    <3>3. above[i - 1] = y
      BY <1>4, <2>1, <3>2
    <3>4. QED
      BY <1>5, <3>2, <3>3 DEF ToSet
  <2>2. ASSUME y \in ToSet(above)
        PROVE  \E i \in 1..Len(c) : c[i] = y
    BY <1>4, <1>5, <1>6, <2>2 DEF ToSet
  <2>3. QED
    BY <2>1, <2>2
<1>9. \A y \in topics \ {t} : y \in ToSet(above) <=> t \in Below(parent, y)
  BY <1>1, <1>8
<1>10. QED
  BY <1>3, <1>4, <1>7, <1>9 DEF c, above

-----------------------------------------------------------------------------
(* The recursive query of the topic filter.                                *)

LEMMA LevelRuns ==
    ASSUME Table, NEW t \in topics
    PROVE  /\ Level(t) \in [Nat -> SUBSET topics]
           /\ Level(t)[0] = {t}
           /\ \A d \in Nat : Level(t)[d + 1] = {x \in topics : parent[x] \in Level(t)[d]}
<1> DEFINE next(S) == {x \in topics : parent[x] \in S}
           step == [d \in Nat |-> [S \in SUBSET topics |-> next(S)]]
           Is(f) == f = [d \in Nat |-> IF d = 0 THEN {t} ELSE next(f[d - 1])]
<1>1. step \in [Nat -> [SUBSET topics -> SUBSET topics]]
  OBVIOUS
<1>2. \A d \in Nat, S \in SUBSET topics : step[d][S] = next(S)
  OBVIOUS
<1>3. Level(t) = CHOOSE f : Is(f)
  BY DEF Level
<1> HIDE DEF step
<1>4. PICK run \in [Nat -> SUBSET topics] :
          run[0] = {t} /\ \A n \in Nat : run[n + 1] = step[n][run[n]]
  <2> DEFINE S == SUBSET topics  first == {t}
  <2>1. first \in S /\ step \in [Nat -> [S -> S]]
    BY <1>1
  <2> HIDE DEF S, first
  <2>2. \E run \in [Nat -> S] : run[0] = first /\ \A n \in Nat : run[n + 1] = step[n][run[n]]
    BY <2>1, LoopExists
  <2>3. QED
    BY <2>2 DEF S, first
<1>5. Is(run)
  <2>1. ASSUME NEW n \in Nat, n # 0
        PROVE  run[n] = next(run[n - 1])
    <3>1. n - 1 \in Nat /\ (n - 1) + 1 = n
      BY <2>1
    <3>2. run[n] = step[n - 1][run[n - 1]]
      BY <1>4, <3>1
    <3>3. QED
      BY <1>2, <1>4, <3>1, <3>2
  <2>2. QED
    BY <1>4, <2>1
<1>6. Is(Level(t))
  BY <1>3, <1>5
<1> DEFINE level == Level(t)
<1> HIDE DEF next
<1>7. level = [d \in Nat |-> IF d = 0 THEN {t} ELSE next(level[d - 1])]
  BY <1>6
<1> HIDE DEF level, Is
<1>8. level[0] = {t} /\ \A d \in Nat : level[d + 1] = next(level[d])
  <2>1. level[0] = {t}
    BY <1>7
  <2>2. ASSUME NEW d \in Nat
        PROVE  level[d + 1] = next(level[d])
    <3>1. d + 1 \in Nat /\ d + 1 # 0 /\ (d + 1) - 1 = d
      OBVIOUS
    <3>2. level[d + 1] = IF d + 1 = 0 THEN {t} ELSE next(level[(d + 1) - 1])
      BY <1>7, <3>1
    <3>3. QED
      BY <3>1, <3>2
  <2>3. QED
    BY <2>1, <2>2
<1>9. ASSUME NEW d \in Nat
      PROVE  level[d] \in SUBSET topics
  <2>1. CASE d = 0
    BY <1>8, <2>1
  <2>2. CASE d # 0
    <3>1. d - 1 \in Nat /\ (d - 1) + 1 = d
      BY <2>2
    <3>2. level[d] = next(level[d - 1])
      BY <1>8, <3>1
    <3>3. QED
      BY <3>2 DEF next
  <2>3. QED
    BY <2>1, <2>2
<1>10. level \in [Nat -> SUBSET topics]
  <2>1. level = [d \in Nat |-> level[d]]
    BY <1>7
  <2>2. QED
    BY <1>9, <2>1
<1>11. QED
  BY <1>8, <1>10 DEF level, next

\* The query finds only topics below t.
LEMMA LevelBelow ==
    ASSUME Table, NEW t \in topics, NEW d \in Nat
    PROVE  Level(t)[d] \subseteq Below(parent, t)
<1> DEFINE level == Level(t)
           Good == {n \in Nat : level[n] \subseteq Below(parent, t)}
<1>1. /\ level[0] = {t}
      /\ \A n \in Nat : level[n + 1] = {x \in topics : parent[x] \in level[n]}
  BY LevelRuns
<1>2. t \in Topics /\ topics \subseteq Topics
  BY TableFacts
<1> HIDE DEF level
<1>3. 0 \in Good
  BY <1>1, <1>2, BelowSelf
<1>4. ASSUME NEW n \in Nat, n \in Good
      PROVE  n + 1 \in Good
  <2>1. \A x \in level[n + 1] : x \in Topics /\ parent[x] \in Below(parent, t)
    BY <1>1, <1>2, <1>4
  <2>2. level[n + 1] \subseteq Below(parent, t)
    BY <1>2, <2>1, BelowClosed DEF Closed
  <2>3. QED
    BY <2>2
<1>5. Nat \subseteq Good
  <2> HIDE DEF Good
  <2>1. QED
    BY <1>3, <1>4, Counting
<1>6. QED
  BY <1>5 DEF level

\* A topic is on the level of each of its ancestors that its distance says.
LEMMA LevelOfAncestor ==
    ASSUME Table, NEW x \in topics, NEW c \in Chains, ChainFrom(x, c), NEW k \in 1..Len(c)
    PROVE  c[k] \in topics /\ x \in Level(c[k])[k - 1]
<1> DEFINE level == Level(c[k])
           Good == {j \in Nat : j < k => c[k - j] \in level[j]}
<1>0. Len(c) \in Nat \ {0} /\ c[k] \in topics /\ \A i \in 1..Len(c) : c[i] \in topics
  BY DEF Chains
<1>1. /\ level[0] = {c[k]}
      /\ \A n \in Nat : level[n + 1] = {y \in topics : parent[y] \in level[n]}
  BY <1>0, LevelRuns
<1> HIDE DEF level
<1>2. 0 \in Good
  <2>1. k - 0 = k
    OBVIOUS
  <2>2. QED
    BY <1>1, <2>1
<1>3. ASSUME NEW j \in Nat, j \in Good
      PROVE  j + 1 \in Good
  <2>1. SUFFICES ASSUME j + 1 < k PROVE c[k - (j + 1)] \in level[j + 1]
    OBVIOUS
  <2> DEFINE i == k - (j + 1)
  <2>2. i \in 1..Len(c) /\ i < Len(c) /\ i + 1 = k - j /\ j < k
    BY <1>0, <2>1
  <2> HIDE DEF i
  <2>3. parent[c[i]] = c[k - j]
    BY <2>2 DEF ChainFrom
  <2>4. c[i] \in level[j + 1]
    BY <1>0, <1>1, <1>3, <2>2, <2>3
  <2>5. QED
    BY <2>4 DEF i
<1>4. Nat \subseteq Good
  <2> HIDE DEF Good
  <2>1. QED
    BY <1>2, <1>3, Counting
<1>5. k - 1 \in Nat /\ k - 1 < k /\ k - (k - 1) = 1
  OBVIOUS
<1>6. c[1] \in level[k - 1]
  BY <1>4, <1>5
<1>7. QED
  BY <1>0, <1>6 DEF ChainFrom, level

\* Conversely, t is among the nearest d ancestors of what is on its level d.
LEMMA AncestorOfLevel ==
    ASSUME Table, NEW t \in topics, NEW d \in Nat, NEW x \in Level(t)[d],
           NEW c \in Chains, ChainFrom(x, c),
           NEW m \in 1..Len(c), c[m] = t
    PROVE  \E i \in 1..Len(c) : c[i] = t /\ i - 1 <= d
<1> DEFINE level == Level(t)
           Good == {j \in Nat : j < Len(c) /\ j <= d => c[j + 1] \in level[d - j]}
<1>0. Len(c) \in Nat \ {0}
  BY DEF Chains
<1>1. /\ level[0] = {t}
      /\ \A n \in Nat : level[n + 1] = {y \in topics : parent[y] \in level[n]}
  BY LevelRuns
<1>2. x \in level[d]
  OBVIOUS
<1> HIDE DEF level
<1>3. 0 \in Good
  <2>1. d - 0 = d /\ 0 + 1 = 1
    OBVIOUS
  <2>2. QED
    BY <1>2, <2>1 DEF ChainFrom
<1>4. ASSUME NEW j \in Nat, j \in Good
      PROVE  j + 1 \in Good
  <2>1. SUFFICES ASSUME j + 1 < Len(c), j + 1 <= d
                 PROVE  c[(j + 1) + 1] \in level[d - (j + 1)]
    OBVIOUS
  <2> DEFINE r == d - (j + 1)
             i == j + 1
  <2>2. r \in Nat /\ d - j = r + 1 /\ i \in 1..Len(c) /\ i < Len(c) /\ j < Len(c) /\ j <= d
    BY <1>0, <2>1
  <2>3. c[i] \in level[r + 1]
    BY <1>4, <2>2
  <2> HIDE DEF r
  <2>4. parent[c[i]] \in level[r]
    BY <1>1, <2>2, <2>3
  <2>5. c[i + 1] = parent[c[i]]
    BY <2>2 DEF ChainFrom
  <2>6. QED
    BY <2>4, <2>5 DEF r
<1>5. Nat \subseteq Good
  <2> HIDE DEF Good
  <2>1. QED
    BY <1>3, <1>4, Counting
<1>6. CASE d < Len(c)
  <2>1. c[d + 1] \in level[d - d] /\ d - d = 0
    BY <1>5, <1>6
  <2>2. c[d + 1] = t
    BY <1>1, <2>1
  <2>3. d + 1 \in 1..Len(c) /\ (d + 1) - 1 <= d
    BY <1>0, <1>6
  <2>4. QED
    BY <2>2, <2>3
<1>7. CASE ~(d < Len(c))
  <2>1. m - 1 <= d
    BY <1>0, <1>7
  <2>2. QED
    BY <2>1
<1>8. QED
  BY <1>6, <1>7

\* The filter's topics are those below t, as far as its ceiling goes.
LEMMA ScopeIsReached ==
    ASSUME Table, NEW t \in topics
    PROVE  topic_scope(t) = {x \in Below(parent, t) : Reached(t, x)}
<1>1. t \in Topics /\ topics \subseteq Topics /\ Below(parent, t) \subseteq topics
  BY TableFacts, BelowInTable
<1>2. ASSUME NEW d \in 0..MaxTopicDepth, NEW x \in Level(t)[d]
      PROVE  x \in Below(parent, t) /\ Reached(t, x)
  <2> DEFINE c == Climb(x)[Rounds]
             above == ancestor_ids(x)
  <2>1. d \in Nat /\ d <= MaxTopicDepth
    BY <1>2, MaxTopicDepthAssumption
  <2>2. x \in Below(parent, t) /\ x \in topics
    BY <1>1, <2>1, LevelBelow
  <2>3. /\ c \in Chains /\ ChainFrom(x, c)
        /\ \A y \in topics : x \in Below(parent, y) <=> \E i \in 1..Len(c) : c[i] = y
    BY <2>2, ClimbFindsAbove
  <2>4. /\ Len(c) \in Nat \ {0} /\ Len(above) = Len(c) - 1
        /\ \A k \in 1..(Len(c) - 1) : above[k] = c[k + 1]
    BY <2>2, AncestorsAreAbove
  <2> HIDE DEF c
  <2>5. PICK m \in 1..Len(c) : c[m] = t
    BY <2>2, <2>3
  <2>6. PICK i \in 1..Len(c) : c[i] = t /\ i - 1 <= d
    BY <2>1, <2>3, <2>5, AncestorOfLevel
  <2>7. CASE i = 1
    BY <2>2, <2>3, <2>6, <2>7 DEF ChainFrom, Reached
  <2>8. CASE i # 1
    <3>1. /\ i - 1 \in 1..MaxTopicDepth /\ i - 1 \in 1..(Len(c) - 1)
          /\ (i - 1) + 1 = i /\ i - 1 <= Len(above)
      BY <2>1, <2>4, <2>6, <2>8, MaxTopicDepthAssumption
    <3>2. above[i - 1] = t
      BY <2>4, <2>6, <3>1
    <3>3. QED
      BY <2>2, <3>1, <3>2 DEF Reached
  <2>9. QED
    BY <2>7, <2>8
<1>3. ASSUME NEW x \in Below(parent, t), Reached(t, x)
      PROVE  x \in topic_scope(t)
  <2> DEFINE c == Climb(x)[Rounds]
             above == ancestor_ids(x)
  <2>1. CASE x = t
    <3>1. x \in Level(t)[0] /\ 0 \in 0..MaxTopicDepth
      BY <2>1, LevelRuns, MaxTopicDepthAssumption
    <3>2. QED
      BY <3>1 DEF topic_scope
  <2>2. CASE x # t
    <3>1. PICK k \in 1..MaxTopicDepth : k <= Len(above) /\ above[k] = t
      BY <1>3, <2>2 DEF Reached
    <3>2. x \in topics
      BY <1>1
    <3>3. c \in Chains /\ ChainFrom(x, c)
      BY <3>2, ClimbFindsAbove
    <3>4. /\ Len(c) \in Nat \ {0} /\ Len(above) = Len(c) - 1
          /\ \A i \in 1..(Len(c) - 1) : above[i] = c[i + 1]
      BY <3>2, AncestorsAreAbove
    <3> HIDE DEF c, above
    <3>5. k + 1 \in 1..Len(c) /\ k \in 1..(Len(c) - 1) /\ (k + 1) - 1 = k /\ k \in 0..MaxTopicDepth
      BY <3>1, <3>4, MaxTopicDepthAssumption
    <3>6. c[k + 1] = t
      BY <3>1, <3>4, <3>5
    <3>7. x \in Level(c[k + 1])[(k + 1) - 1]
      BY <3>2, <3>3, <3>5, LevelOfAncestor
    <3>8. x \in Level(t)[k]
      BY <3>5, <3>6, <3>7
    <3>9. QED
      BY <3>5, <3>8 DEF topic_scope
  <2>3. QED
    BY <2>1, <2>2
<1>4. QED
  BY <1>2, <1>3 DEF topic_scope

\* The readers agree on what is below a topic, in every state that any edits
\* of any number of requests reach, whether or not they made a cycle.
THEOREM ReadersAgree == Spec => []ScopesAgree
<1>1. Table => ScopesAgree
  <2> SUFFICES ASSUME Table, NEW t \in topics
               PROVE  /\ descendant_ids(t) = Below(parent, t)
                      /\ {x \in topics \ {t} : t \in ToSet(ancestor_ids(x))} =
                            Below(parent, t) \ {t}
                      /\ IsInjective(ancestor_ids(t))
                      /\ topic_scope(t) = {x \in Below(parent, t) : Reached(t, x)}
    BY DEF ScopesAgree
  <2>1. descendant_ids(t) = Below(parent, t)
    BY WalkFindsBelow
  <2>2. IsInjective(ancestor_ids(t))
    BY AncestorsAreAbove
  <2>3. \A x \in topics \ {t} : t \in ToSet(ancestor_ids(x)) <=> x \in Below(parent, t)
    BY AncestorsAreAbove
  <2>4. {x \in topics \ {t} : t \in ToSet(ancestor_ids(x))} = Below(parent, t) \ {t}
    BY <2>3, BelowInTable
  <2>5. QED
    BY <2>1, <2>2, <2>4, ScopeIsReached
<1>2. QED
  BY <1>1, TableInvariant, PTL

-----------------------------------------------------------------------------
(* The counts of build_topic_tree.                                         *)

Counts == [Topics -> SUBSET Papers]

LEMMA RolledRuns ==
    ASSUME Table
    PROVE  /\ \A x \in Topics : Rolled[0][x] = Direct(x)
           /\ \A n \in Nat, x \in Topics :
                 Rolled[n + 1][x] = Direct(x) \cup UNION {Rolled[n][c] : c \in Children(x)}
<1> DEFINE first == [x \in Topics |-> Direct(x)]
           next(b) == [x \in Topics |-> Direct(x) \cup UNION {b[c] : c \in Children(x)}]
           step == [n \in Nat |-> [b \in Counts |-> next(b)]]
           Is(f) == f = [n \in Nat |-> IF n = 0 THEN first ELSE next(f[n - 1])]
<1>1. first \in Counts
  BY DEF Counts, Direct
<1>2. \A b \in Counts : next(b) \in Counts
  <2>1. ASSUME NEW b \in Counts, NEW x \in Topics
        PROVE  Direct(x) \cup UNION {b[c] : c \in Children(x)} \in SUBSET Papers
    <3>1. \A c \in Children(x) : b[c] \subseteq Papers
      BY TableFacts DEF Children, Counts
    <3>2. QED
      BY <3>1 DEF Direct
  <2>2. QED
    BY <2>1 DEF Counts
<1>3. Rolled = CHOOSE f : Is(f)
  BY DEF Rolled
<1>4. /\ \A x \in Topics : first[x] = Direct(x)
      /\ \A b : \A x \in Topics :
            next(b)[x] = Direct(x) \cup UNION {b[c] : c \in Children(x)}
  OBVIOUS
<1> HIDE DEF next, first
<1>5. step \in [Nat -> [Counts -> Counts]]
  BY <1>2
<1>next. \A n \in Nat, b \in Counts : step[n][b] = next(b)
  OBVIOUS
<1> HIDE DEF step
<1>6. PICK run \in [Nat -> Counts] :
          run[0] = first /\ \A n \in Nat : run[n + 1] = step[n][run[n]]
  <2> DEFINE S == Counts
  <2>1. first \in S /\ step \in [Nat -> [S -> S]]
    BY <1>1, <1>5
  <2> HIDE DEF S, Is
  <2>2. \A a \in S, s \in [Nat -> [S -> S]] :
           \E run \in [Nat -> S] : run[0] = a /\ \A n \in Nat : run[n + 1] = s[n][run[n]]
    BY LoopExists
  <2>3. QED
    BY <2>1, <2>2 DEF S
<1>7. Is(run)
  <2>1. ASSUME NEW n \in Nat, n # 0
        PROVE  run[n] = next(run[n - 1])
    <3>1. n - 1 \in Nat /\ (n - 1) + 1 = n
      BY <2>1
    <3>2. run[n] = step[n - 1][run[n - 1]]
      BY <1>6, <3>1
    <3>3. QED
      BY <1>next, <1>6, <3>1, <3>2
  <2>2. QED
    BY <1>6, <2>1
<1>8. Is(Rolled)
  BY <1>3, <1>7
<1> DEFINE rolled == Rolled
<1>9. rolled = [n \in Nat |-> IF n = 0 THEN first ELSE next(rolled[n - 1])]
  BY <1>8
<1> HIDE DEF rolled, Is
<1>10. rolled[0] = first
  BY <1>9
<1>11. ASSUME NEW n \in Nat
       PROVE  rolled[n + 1] = next(rolled[n])
  <2>1. n + 1 \in Nat /\ n + 1 # 0 /\ (n + 1) - 1 = n
    OBVIOUS
  <2>2. rolled[n + 1] = IF n + 1 = 0 THEN first ELSE next(rolled[(n + 1) - 1])
    BY <1>9, <2>1
  <2>3. QED
    BY <2>1, <2>2
<1>12. QED
  BY <1>4, <1>10, <1>11 DEF rolled

\* The papers rolled up at a topic are the papers of what is below it.
LEMMA RolledIsBelow ==
    ASSUME Table, NEW t \in topics
    PROVE  Rolled[Rounds][t] = {p \in Papers : links[p] \cap Below(parent, t) # {}}
<1> DEFINE rolled == Rolled
<1>1. /\ \A x \in Topics : rolled[0][x] = Direct(x)
      /\ \A n \in Nat, x \in Topics :
            rolled[n + 1][x] = Direct(x) \cup UNION {rolled[n][c] : c \in Children(x)}
  BY RolledRuns
<1>2. t \in Topics /\ topics \subseteq Topics /\ Rounds \in Nat
  BY TableFacts
<1>3. \A x, c \in topics : c \in Children(x) <=> parent[c] = x
  BY DEF Children
<1>4. \A x \in Topics : Direct(x) = {p \in Papers : x \in links[p]}
  BY DEF Direct
<1> HIDE DEF rolled
<1>5. \A n \in Nat, x \in topics :
         rolled[n][x] \subseteq {p \in Papers : links[p] \cap Below(parent, x) # {}}
  <2> DEFINE Good == {n \in Nat : \A x \in topics :
                        rolled[n][x] \subseteq {p \in Papers : links[p] \cap Below(parent, x) # {}}}
  <2>1. \A x \in topics :
           Direct(x) \subseteq {p \in Papers : links[p] \cap Below(parent, x) # {}}
    BY <1>2, <1>4, BelowSelf
  <2>2. 0 \in Good
    BY <1>1, <1>2, <2>1
  <2>3. ASSUME NEW n \in Nat, n \in Good
        PROVE  n + 1 \in Good
    <3> SUFFICES ASSUME NEW x \in topics, NEW p \in rolled[n + 1][x]
                 PROVE  p \in Papers /\ links[p] \cap Below(parent, x) # {}
      OBVIOUS
    <3>1. CASE p \in Direct(x)
      BY <2>1, <3>1
    <3>2. CASE p \notin Direct(x)
      <4>1. PICK c \in Children(x) : p \in rolled[n][c]
        BY <1>1, <1>2, <3>2
      <4>2. c \in topics /\ c \in Topics /\ x \in Topics /\ parent[c] = x
        BY <1>2 DEF Children
      <4>3. p \in Papers /\ links[p] \cap Below(parent, c) # {}
        BY <2>3, <4>1, <4>2
      <4>4. Below(parent, x) \in SUBSET Topics /\ c \in Below(parent, x)
        BY <4>2, BelowSelf, BelowClosed DEF Closed, Below
      <4>5. Below(parent, c) \subseteq Below(parent, x)
        BY <4>2, <4>4, BelowLeast, BelowClosed
      <4>6. QED
        BY <4>3, <4>5
    <3>3. QED
      BY <3>1, <3>2
  <2>4. Nat \subseteq Good
    <3> HIDE DEF Good
    <3>1. QED
      BY <2>2, <2>3, Counting
  <2>5. QED
    BY <2>4
<1>6. ASSUME NEW y \in Below(parent, t), NEW p \in Papers, y \in links[p]
      PROVE  p \in rolled[Rounds][t]
  <2> DEFINE c == Climb(y)[Rounds]
             Good == {j \in Nat : j < Len(c) =>
                        \A n \in Nat : j <= n => p \in rolled[n][c[j + 1]]}
  <2>1. y \in topics
    BY BelowInTable
  <2>2. /\ c \in Chains /\ ChainFrom(y, c)
        /\ \A z \in topics : y \in Below(parent, z) <=> \E i \in 1..Len(c) : c[i] = z
    BY <2>1, ClimbFindsAbove
  <2>3. Len(c) <= Rounds
    BY <2>1, <2>2, ChainLength
  <2> HIDE DEF c
  <2>4. Len(c) \in Nat \ {0} /\ \A i \in 1..Len(c) : c[i] \in topics
    BY <2>2 DEF Chains
  <2>5. \A n \in Nat, x \in topics : Direct(x) \subseteq rolled[n][x]
    <3>1. ASSUME NEW n \in Nat, NEW x \in topics
          PROVE  Direct(x) \subseteq rolled[n][x]
      <4>1. CASE n = 0
        BY <1>1, <1>2, <4>1
      <4>2. CASE n # 0
        <5>1. n - 1 \in Nat /\ (n - 1) + 1 = n
          BY <4>2
        <5>2. rolled[n][x] = Direct(x) \cup UNION {rolled[n - 1][z] : z \in Children(x)}
          BY <1>1, <1>2, <5>1
        <5>3. QED
          BY <5>2
      <4>3. QED
        BY <4>1, <4>2
    <3>2. QED
      BY <3>1
  <2>6. 0 \in Good
    <3>1. c[0 + 1] = y /\ p \in Direct(y)
      BY <1>2, <1>4, <1>6, <2>1, <2>2 DEF ChainFrom
    <3>2. QED
      BY <2>1, <2>5, <3>1
  <2>7. ASSUME NEW j \in Nat, j \in Good
        PROVE  j + 1 \in Good
    <3> SUFFICES ASSUME j + 1 < Len(c), NEW n \in Nat, j + 1 <= n
                 PROVE  p \in rolled[n][c[(j + 1) + 1]]
      OBVIOUS
    <3> DEFINE i == j + 1
    <3>1. /\ n - 1 \in Nat /\ j <= n - 1 /\ (n - 1) + 1 = n
          /\ j < Len(c) /\ i \in 1..Len(c) /\ i < Len(c) /\ i + 1 \in 1..Len(c)
      BY <2>4
    <3>2. p \in rolled[n - 1][c[i]]
      BY <2>7, <3>1
    <3>3. c[i] \in topics /\ c[i + 1] \in topics /\ parent[c[i]] = c[i + 1]
      BY <2>2, <2>4, <3>1 DEF ChainFrom
    <3>4. c[i] \in Children(c[i + 1])
      BY <1>3, <3>3
    <3> HIDE DEF i
    <3>5. rolled[n][c[i + 1]] =
             Direct(c[i + 1]) \cup UNION {rolled[n - 1][z] : z \in Children(c[i + 1])}
      <4>1. c[i + 1] \in Topics
        BY <1>2, <3>3
      <4>2. rolled[(n - 1) + 1][c[i + 1]] =
               Direct(c[i + 1]) \cup UNION {rolled[n - 1][z] : z \in Children(c[i + 1])}
        BY <1>1, <3>1, <4>1
      <4>3. QED
        BY <3>1, <4>2
    <3>6. p \in rolled[n][c[i + 1]]
      BY <3>2, <3>4, <3>5
    <3>7. QED
      BY <3>6 DEF i
  <2>8. Nat \subseteq Good
    <3> HIDE DEF Good
    <3>1. QED
      BY <2>6, <2>7, Counting
  <2>9. PICK m \in 1..Len(c) : c[m] = t
    BY <2>2
  <2>10. m - 1 \in Nat /\ m - 1 < Len(c) /\ m - 1 <= Rounds /\ (m - 1) + 1 = m
    BY <1>2, <2>3, <2>4
  <2>11. \A n \in Nat : m - 1 <= n => p \in rolled[n][c[(m - 1) + 1]]
    BY <2>8, <2>10
  <2>12. QED
    BY <1>2, <2>9, <2>10, <2>11
<1>7. QED
  BY <1>2, <1>5, <1>6 DEF rolled

\* The tree shows every topic but those below one on a cycle.
LEMMA HiddenBelowCycle ==
    ASSUME Table
    PROVE  /\ Shown \subseteq topics
           /\ topics \ Shown =
                 UNION {Below(parent, m) : m \in {x \in topics : parent[x] \in Below(parent, x)}}
<1>1. topics \subseteq Topics /\ NoTopic \notin Topics
  BY TableFacts
<1>2. Shown = UNION {Below(parent, r) : r \in Roots}
  BY WalkFindsBelow DEF Shown, Roots
<1>3. \A m \in topics : Below(parent, m) \subseteq topics
  BY BelowInTable
<1>4. Shown \subseteq topics
  BY <1>2, <1>3 DEF Roots
<1>5. ASSUME NEW x \in topics, x \notin Shown
      PROVE  \E m \in topics : parent[m] \in Below(parent, m) /\ x \in Below(parent, m)
  <2> DEFINE c == Climb(x)[Rounds]
             k == Len(c)
             m == c[k]
             Good == {j \in Nat : j < k => c[k - j] \in Below(parent, m)}
  <2>1. c \in Chains /\ ChainFrom(x, c) /\ Stopped(c)
    BY ClimbFindsAbove
  <2> HIDE DEF c
  <2>2. /\ k \in Nat \ {0} /\ DOMAIN c = 1..k /\ m \in topics
        /\ \A i \in 1..k : c[i] \in topics
    BY <2>1 DEF Chains
  <2>3. x \in Below(parent, m)
    BY <2>1, <2>2 DEF ChainFrom
  <2>4. parent[m] \notin topics => m \in Roots
    BY <2>2 DEF Roots
  <2>5. parent[m] \in topics
    BY <1>2, <1>5, <2>3, <2>4
  <2>6. PICK i \in 1..k : parent[m] = c[i]
    BY <1>1, <2>1, <2>2, <2>5 DEF Stopped, ToSet
  <2> HIDE DEF k, m
  <2>7. 0 \in Good
    <3>1. c[k - 0] = m
      BY <2>2 DEF m
    <3>2. QED
      BY <1>1, <2>2, <3>1, BelowSelf
  <2>8. ASSUME NEW j \in Nat, j \in Good
        PROVE  j + 1 \in Good
    <3> SUFFICES ASSUME j + 1 < k
                 PROVE  c[k - (j + 1)] \in Below(parent, m)
      OBVIOUS
    <3> DEFINE l == k - (j + 1)
    <3>1. l \in 1..k /\ l < k /\ l + 1 = k - j /\ j < k
      BY <2>2
    <3> HIDE DEF l
    <3>2. parent[c[l]] = c[l + 1]
      BY <2>1, <3>1 DEF ChainFrom, k
    <3>3. parent[c[l]] \in Below(parent, m) /\ c[l] \in Topics /\ m \in Topics
      BY <1>1, <2>2, <2>8, <3>1, <3>2
    <3>4. c[l] \in Below(parent, m)
      BY <3>3, BelowClosed DEF Closed
    <3>5. QED
      BY <3>4 DEF l
  <2>9. Nat \subseteq Good
    <3> HIDE DEF Good
    <3>1. QED
      BY <2>7, <2>8, Counting
  <2>10. k - i \in Nat /\ k - i < k /\ k - (k - i) = i
    BY <2>2
  <2>11. c[i] \in Below(parent, m)
    BY <2>9, <2>10
  <2>12. QED
    BY <2>2, <2>3, <2>6, <2>11
<1>6. ASSUME NEW m \in topics, parent[m] \in Below(parent, m), NEW x \in Below(parent, m)
      PROVE  x \in topics /\ x \notin Shown
  <2>1. SUFFICES ASSUME NEW r \in Roots, x \in Below(parent, r) PROVE FALSE
    BY <1>2, <1>3
  <2> DEFINE S == Topics \ Below(parent, m)
  <2>2. \A z \in Below(parent, m) : parent[z] \in Below(parent, m)
    BY <1>1, <1>6, BelowParent
  <2>3. Closed(parent, S)
    BY <2>2 DEF Closed
  <2>4. r \in topics /\ parent[r] \notin topics
    BY DEF Roots
  <2>5. r \in S
    BY <1>1, <1>3, <2>2, <2>4
  <2>6. Below(parent, r) \subseteq S
    BY <1>1, <2>3, <2>4, <2>5, BelowLeast
  <2>7. QED
    BY <2>1, <2>6
<1>7. QED
  BY <1>4, <1>5, <1>6

\* What a topic of the tree says it holds is what a click on it finds, and the
\* tree hides nothing but what is on or below a cycle; after any edits.
THEOREM CountsAgree == Spec => []CountsMatchFilter
<1>1. Table => CountsMatchFilter
  <2> SUFFICES ASSUME Table PROVE CountsMatchFilter
    OBVIOUS
  <2>1. ASSUME NEW t \in Shown
        PROVE  /\ topic_scope(t) = Below(parent, t) =>
                     total_count(t) = Cardinality(TopicFilter(t))
               /\ TopicFilter(t) \subseteq Rolled[Rounds][t]
    <3>1. t \in topics
      BY HiddenBelowCycle
    <3>2. Rolled[Rounds][t] = {p \in Papers : links[p] \cap Below(parent, t) # {}}
      BY <3>1, RolledIsBelow
    <3>3. topic_scope(t) \subseteq Below(parent, t)
      BY <3>1, ScopeIsReached
    <3>4. TopicFilter(t) = {p \in Papers : links[p] \cap topic_scope(t) # {}}
      BY DEF TopicFilter
    <3>5. TopicFilter(t) \subseteq Rolled[Rounds][t]
      BY <3>2, <3>3, <3>4
    <3>6. topic_scope(t) = Below(parent, t) => TopicFilter(t) = Rolled[Rounds][t]
      BY <3>2, <3>4
    <3>7. QED
      BY <3>5, <3>6 DEF total_count
  <2>2. QED
    BY <2>1, HiddenBelowCycle DEF CountsMatchFilter
<1>2. QED
  BY <1>1, TableInvariant, PTL
=============================================================================
