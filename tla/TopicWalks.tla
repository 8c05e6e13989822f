----------------------------- MODULE TopicWalks -----------------------------
(***************************************************************************)
(* The readers of the topic hierarchy as they compute: the breadth-first   *)
(* descendant_ids and the climb of ancestor_ids, the counts of             *)
(* build_topic_tree (services/taxonomy.py), and the recursive query behind *)
(* the topic filter (services/search.py).  Each loads the table in one     *)
(* statement, so it is a function of a state of Taxonomy, of one that has  *)
(* a cycle too.  Siblings come in alphabetical order in the code; no       *)
(* result here depends on it.                                              *)
(***************************************************************************)
EXTENDS Taxonomy, Naturals, Sequences, SequencesExt, FiniteSets

CONSTANT MaxTopicDepth      \* MAX_TOPIC_DEPTH: levels below the topic

ASSUME MaxTopicDepthAssumption == MaxTopicDepth \in Nat

\* _children_map.  A topic whose parent is not in the table is a root.
Children(t) == {x \in topics : parent[x] = t}
Roots == {x \in topics : parent[x] \notin topics}

\* The loops below are functions from the number of rounds to the state of the
\* loop.  No loop takes more rounds than there are topics.
Rounds == Cardinality(topics)

\* A round of descendant_ids: each topic enters the frontier once.
Visit(walk) ==
    IF walk.frontier = <<>> THEN walk
    ELSE LET new == Children(Head(walk.frontier)) \ walk.seen
         IN  [seen |-> walk.seen \cup new, frontier |-> Tail(walk.frontier) \o SetToSeq(new)]

Walk(t) ==
    LET walk[n \in Nat] ==
            IF n = 0 THEN [seen |-> {t}, frontier |-> <<t>>] ELSE Visit(walk[n - 1])
    IN  walk

descendant_ids(t) == Walk(t)[Rounds].seen

\* A round of ancestor_ids, nearest first; it stops at a topic it has seen.
Ascend(chain) ==
    IF Last(chain) \in topics /\ parent[Last(chain)] \notin ToSet(chain) \cup {NoTopic}
    THEN Append(chain, parent[Last(chain)]) ELSE chain

Climb(t) ==
    LET chain[n \in Nat] == IF n = 0 THEN <<t>> ELSE Ascend(chain[n - 1])
    IN  chain

ancestor_ids(t) == Tail(Climb(t)[Rounds])

\* The rows of the recursive query, by depth.
Level(t) ==
    LET level[d \in Nat] ==
            IF d = 0 THEN {t} ELSE {x \in topics : parent[x] \in level[d - 1]}
    IN  level

\* Mutant: the ceiling is one level too low.
topic_scope_Low(t) == UNION {Level(t)[d] : d \in 0..(MaxTopicDepth - 1)}

topic_scope(t) == UNION {Level(t)[d] : d \in 0..MaxTopicDepth}

\* search_papers filtered by a topic: its rows.
TopicFilter(t) == {p \in Papers : links[p] \cap topic_scope(t) # {}}

\* The topics that the tree draws: those that the roots lead to.
Shown == UNION {descendant_ids(r) : r \in Roots}

\* build: the papers of a topic and of everything that the recursion finds in
\* it.  A shown topic is reached by one path, so build's visited set skips
\* nothing.
Direct(t) == {p \in Papers : t \in links[p]}

Rolled ==
    LET rolled[n \in Nat] ==
            IF n = 0 THEN [t \in Topics |-> Direct(t)]
            ELSE LET below == rolled[n - 1]
                 IN  [t \in Topics |-> Direct(t) \cup UNION {below[c] : c \in Children(t)}]
    IN  rolled

\* Mutant: the counts of the children are added up.
total_count_Sum(t) ==
    LET sum[n \in Nat] ==
            IF n = 0 THEN [x \in Topics |-> Cardinality(Direct(x))]
            ELSE LET below == sum[n - 1]
                 IN  [x \in Topics |-> FoldSet(LAMBDA c, k : k + below[c],
                                               Cardinality(Direct(x)), Children(x))]
    IN  sum[Rounds][t]

total_count(t) == Cardinality(Rolled[Rounds][t])

-----------------------------------------------------------------------------
(* Properties.                                                             *)

\* x is t or has it among its nearest ancestors, as far as the ceiling goes.
Reached(t, x) ==
    \/ x = t
    \/ \E k \in 1..MaxTopicDepth : k <= Len(ancestor_ids(x)) /\ ancestor_ids(x)[k] = t

\* The two rankings that question answering fuses, the cycle check and the
\* filter mean the same topics by a scope: those below it, each of which has
\* it as an ancestor.  Also after overlapping edits have made a cycle.  Only
\* the filter leaves out what is deeper than its ceiling, and no more.
ScopesAgree ==
    \A t \in topics :
        /\ descendant_ids(t) = Below(parent, t)
        /\ {x \in topics \ {t} : t \in ToSet(ancestor_ids(x))} = Below(parent, t) \ {t}
        /\ IsInjective(ancestor_ids(t))
        /\ topic_scope(t) = {x \in Below(parent, t) : Reached(t, x)}

\* "total_count includes every descendant and counts a paper once": the number
\* at a topic of the tree is the number of papers that a click on it finds, if
\* nothing below the topic is deeper than the filter's ceiling, and never less.
\* Every topic is shown but those that are below one on a cycle.
CountsMatchFilter ==
    /\ \A t \in Shown :
          /\ topic_scope(t) = Below(parent, t) =>
                total_count(t) = Cardinality(TopicFilter(t))
          /\ TopicFilter(t) \subseteq Rolled[Rounds][t]
    /\ topics \ Shown =
          UNION {Below(parent, c) : c \in {x \in topics : parent[x] \in Below(parent, x)}}
=============================================================================
