------------------------------- MODULE Forests -------------------------------
(***************************************************************************)
(* Parent pointers over topic ids, and the walks of services/taxonomy.py   *)
(* over them as sets.  The walks load the whole table once, so each is a   *)
(* function of the pointers it loaded.                                     *)
(***************************************************************************)
CONSTANTS Topics,           \* ids a row of topics may have
          NoTopic           \* parent_id NULL

ASSUME NoTopicAssumption == NoTopic \notin Topics

TopicOrNone == Topics \cup {NoTopic}

Parents == [Topics -> TopicOrNone]

\* S contains the children of its members.
Closed(par, S) == \A x \in Topics : par[x] \in S => x \in S

\* descendant_ids: t and everything below it, the least closed set with t.
Below(par, t) ==
    {x \in Topics : \A S \in SUBSET Topics : t \in S /\ Closed(par, S) => x \in S}

\* No chain of parents comes back to its start: every non-empty set of topics
\* has a member whose parent is outside of it.
IsForest(par) ==
    \A S \in SUBSET Topics : S # {} => \E x \in S : par[x] \notin S
=============================================================================
