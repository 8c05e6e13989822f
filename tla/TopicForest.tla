----------------------------- MODULE TopicForest -----------------------------
(***************************************************************************)
(* What the curated topic hierarchy of services/taxonomy.py promises: a    *)
(* forest, edited one whole edit at a time.  Module Taxonomy, where an     *)
(* edit is a read, a check and a later write, implements this one as long  *)
(* as no two edits overlap.                                                *)
(***************************************************************************)
EXTENDS Forests

VARIABLES topics,           \* ids of the existing rows
          parent            \* parent_id of each of them

-----------------------------------------------------------------------------
Init ==
    /\ topics = {}
    /\ parent = [t \in Topics |-> NoTopic]

\* A new topic, at the root or under an existing one.
Grow(t, q) ==
    /\ t \in Topics \ topics
    /\ q \in topics \cup {NoTopic}
    /\ topics' = topics \cup {t}
    /\ parent' = [parent EXCEPT ![t] = q]

\* A topic moves with everything below it, never under itself.
Move(t, q) ==
    /\ t \in topics
    /\ q \in (topics \cup {NoTopic}) \ Below(parent, t)
    /\ parent' = [parent EXCEPT ![t] = q]
    /\ UNCHANGED topics

\* A deleted topic leaves its children to its parent.
Dissolve(t) ==
    /\ t \in topics
    /\ topics' = topics \ {t}
    /\ parent' = [x \in Topics |-> IF x = t THEN NoTopic
                                   ELSE IF parent[x] = t THEN parent[t]
                                   ELSE parent[x]]

\* Two topics become one.  A target from below the source takes its place.
Fuse(s, t) ==
    /\ s \in topics
    /\ t \in topics \ {s}
    /\ topics' = topics \ {s}
    /\ parent' = [x \in Topics |-> IF x = s THEN NoTopic
                                   ELSE IF x = t /\ t \in Below(parent, s) THEN parent[s]
                                   ELSE IF parent[x] = s THEN t
                                   ELSE parent[x]]

Next ==
    \/ \E t \in Topics, q \in Topics \cup {NoTopic} : Grow(t, q) \/ Move(t, q)
    \/ \E t \in Topics : Dissolve(t)
    \/ \E s, t \in Topics : Fuse(s, t)

Spec == Init /\ [][Next]_<<topics, parent>>
=============================================================================
