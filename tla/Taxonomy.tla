------------------------------ MODULE Taxonomy ------------------------------
(***************************************************************************)
(* The topic taxonomy of Mouseion (services/taxonomy.py): the rows of      *)
(* topics and paper_topics, the edits that the handlers of api/topics.py,  *)
(* api/papers.py and api/ui.py make, and the batches of topic decisions    *)
(* that the worker applies.                                                *)
(*                                                                         *)
(* Granularity.  The handlers are plain functions, so FastAPI runs them in *)
(* a thread pool: requests interleave between any two statements.  An edit *)
(* that reads, checks and then writes is two actions, the second being its *)
(* UPDATE or its transaction() block; reads before the last one add        *)
(* nothing that survives to the write and are part of the first action.    *)
(* An edit whose outcome the database decides in one statement is one      *)
(* action.                                                                 *)
(*                                                                         *)
(* Abstractions.  Names that differ only in case or blanks are one name.   *)
(* A batch of the worker creates at most one topic.                        *)
(***************************************************************************)
EXTENDS Forests

CONSTANTS
    Names,      \* topic names, up to case
    NoName,     \* the name of no topic
    Papers,     \* rows of papers
    Editors     \* requests that may be in the middle of an edit together

ASSUME NamesAssumption == NoName \notin Names

VARIABLES
    topics,     \* ids of the rows of topics
    spent,      \* ids that were ever handed out: none is handed out twice
    parent,     \* topics.parent_id
    name,       \* topics.name
    links,      \* paper_topics, by paper
    edit        \* what each handler has read and is about to write

vars == <<topics, spent, parent, name, links, edit>>

Forest == INSTANCE TopicForest

-----------------------------------------------------------------------------
Ops == {"idle", "reparent", "merge", "delete", "split"}

\* topic: the topic of the URL; other: the parent or target asked for;
\* above: topic.parent_id as the handler read it.
Edit == [op : Ops, topic : TopicOrNone, other : TopicOrNone, above : TopicOrNone,
         papers : SUBSET Papers, name : Names \cup {NoName}]

Idle == [op |-> "idle", topic |-> NoTopic, other |-> NoTopic, above |-> NoTopic,
         papers |-> {}, name |-> NoName]

Begin(e, op, t, q) ==
    edit' = [edit EXCEPT ![e] = [op |-> op, topic |-> t, other |-> q, above |-> parent[t],
                                 papers |-> {}, name |-> NoName]]
Finish(e) == edit' = [edit EXCEPT ![e] = Idle]

NameTaken(n) == \E t \in topics : name[t] = n

\* Mutant: foreign keys are off, as they are by default in SQLite.
Exists_Unenforced(q) == TRUE

\* parent_id REFERENCES topics, with foreign keys on.
Exists(q) == q \in topics \cup {NoTopic}

\* DELETE FROM topics: ON DELETE SET NULL for children that are still there,
\* ON DELETE CASCADE for paper_topics.
DropParents(par, t) ==
    [x \in Topics |-> IF x = t \/ par[x] = t THEN NoTopic ELSE par[x]]
DropTopic(t) ==
    /\ topics' = topics \ {t}
    /\ name' = [name EXCEPT ![t] = NoName]
    /\ UNCHANGED spent

\* Mutant: an INTEGER PRIMARY KEY without AUTOINCREMENT hands ids out again.
NewTopic_Recycled(t, n, q) ==
    /\ t \in Topics \ topics
    /\ Exists(q)
    /\ topics' = topics \cup {t}
    /\ parent' = [parent EXCEPT ![t] = q]
    /\ name' = [name EXCEPT ![t] = n]
    /\ UNCHANGED spent

\* INSERT INTO topics.
NewTopic(t, n, q) ==
    /\ t \in Topics \ spent
    /\ Exists(q)
    /\ topics' = topics \cup {t}
    /\ spent' = spent \cup {t}
    /\ parent' = [parent EXCEPT ![t] = q]
    /\ name' = [name EXCEPT ![t] = n]

Init ==
    /\ topics = {}
    /\ spent = {}
    /\ parent = [t \in Topics |-> NoTopic]
    /\ name = [t \in Topics |-> NoName]
    /\ links = [p \in Papers |-> {}]
    /\ edit = [e \in Editors |-> Idle]

-----------------------------------------------------------------------------
(* Edits of one statement.                                                 *)

\* POST /topics with a new name.  With a taken one it returns that topic.
CreateTopic(t, n, q) ==
    /\ ~NameTaken(n)
    /\ NewTopic(t, n, q)
    /\ UNCHANGED <<links, edit>>

RenameTopic(t, n) ==
    /\ t \in topics
    /\ ~NameTaken(n)
    /\ name' = [name EXCEPT ![t] = n]
    /\ UNCHANGED <<topics, spent, parent, links, edit>>

AddPaperTopic(p, t) ==
    /\ t \in topics
    /\ links' = [links EXCEPT ![p] = @ \cup {t}]
    /\ UNCHANGED <<topics, spent, parent, name, edit>>

RemovePaperTopic(p, t) ==
    /\ t \in links[p]
    /\ links' = [links EXCEPT ![p] = @ \ {t}]
    /\ UNCHANGED <<topics, spent, parent, name, edit>>

\* apply_topic_assignments, one transaction.  The decisions were made on an
\* older list of topics: ids that are gone are dropped.  A proposal with a taken
\* name is a reuse of that topic, whatever parent it asks for.
ApplyReuse(p, chosen) ==
    /\ links' = [links EXCEPT ![p] = @ \cup (chosen \cap topics)]
    /\ UNCHANGED <<topics, spent, parent, name, edit>>

\* ...with a proposal that is new; a parent that is gone becomes the root.
ApplyProposal(p, chosen, t, n, q) ==
    /\ ~NameTaken(n)
    /\ NewTopic(t, n, IF q \in topics THEN q ELSE NoTopic)
    /\ links' = [links EXCEPT ![p] = @ \cup (chosen \cap topics) \cup {t}]
    /\ UNCHANGED edit

-----------------------------------------------------------------------------
(* Edits that read and check first.                                        *)

\* Mutant: the descendant check is missing.
CheckReparent_AnyParent(e, t, q) ==
    /\ edit[e] = Idle
    /\ t \in topics
    /\ Exists(q) /\ q # t
    /\ Begin(e, "reparent", t, q)
    /\ UNCHANGED <<topics, spent, parent, name, links>>

\* reparent_topic up to its UPDATE.
CheckReparent(e, t, q) ==
    /\ edit[e] = Idle
    /\ t \in topics
    /\ Exists(q) /\ q \notin Below(parent, t)
    /\ Begin(e, "reparent", t, q)
    /\ UNCHANGED <<topics, spent, parent, name, links>>

\* An UPDATE of a row that is gone changes nothing.
WriteReparent(e) ==
    LET t == edit[e].topic  q == edit[e].other IN
    /\ edit[e].op = "reparent"
    /\ t \in topics => Exists(q)
    /\ parent' = IF t \in topics THEN [parent EXCEPT ![t] = q] ELSE parent
    /\ Finish(e)
    /\ UNCHANGED <<topics, spent, name, links>>

\* merge_topics before its transaction.
ReadMerge(e, s, t) ==
    /\ edit[e] = Idle
    /\ s \in topics /\ t \in topics \ {s}
    /\ Begin(e, "merge", s, t)
    /\ UNCHANGED <<topics, spent, parent, name, links>>

\* Mutant: a target from below the source is not spliced into its place.
Spliced_Not(s, t, above) == parent

\* The target takes the source's place when it is below the source.
Spliced(s, t, above) ==
    IF t \in Below(parent, s) THEN [parent EXCEPT ![t] = above] ELSE parent

\* Mutant: the source's children are left to ON DELETE SET NULL.
Adopted_Not(par, s, t) == par

\* The source's children become the target's.
Adopted(par, s, t) == [x \in Topics |-> IF par[x] = s THEN t ELSE par[x]]

\* Mutant: paper_topics is left to the cascade.
Relink_Not(s, t) == [p \in Papers |-> links[p] \ {s}]

\* Relink, then lose the source's rows to the cascade.
Relink(s, t) ==
    [p \in Papers |-> IF s \in links[p] THEN (links[p] \ {s}) \cup {t} ELSE links[p]]

\* The transaction of merge_topics.  It fails on a foreign key that it would
\* break: a stale parent, or a target that is gone and would be pointed at.
CommitMerge(e) ==
    LET s == edit[e].topic  t == edit[e].other  above == edit[e].above
        placed == Spliced(s, t, above)
        moved == Adopted(placed, s, t)
    IN
    /\ edit[e].op = "merge"
    /\ t \in Below(parent, s) => Exists(above)
    /\ t \notin topics => s \notin UNION {links[p] : p \in Papers} /\ moved = placed
    /\ parent' = DropParents(moved, s)
    /\ links' = Relink(s, t)
    /\ DropTopic(s)
    /\ Finish(e)

ReadDelete(e, t) ==
    /\ edit[e] = Idle
    /\ t \in topics
    /\ Begin(e, "delete", t, NoTopic)
    /\ UNCHANGED <<topics, spent, parent, name, links>>

\* Mutant: the children are left to ON DELETE SET NULL.
Promoted_Not(t, above) == parent

\* The children go to the parent that the handler read.
Promoted(t, above) == [x \in Topics |-> IF parent[x] = t THEN above ELSE parent[x]]

CommitDelete(e) ==
    LET t == edit[e].topic  above == edit[e].above IN
    /\ edit[e].op = "delete"
    /\ (\E x \in topics : parent[x] = t) => Exists(above)
    /\ parent' = DropParents(Promoted(t, above), t)
    /\ links' = [p \in Papers |-> links[p] \ {t}]
    /\ DropTopic(t)
    /\ Finish(e)

\* split_topic before its transaction: every paper is linked, the name free.
CheckSplit(e, t, n, selected) ==
    /\ edit[e] = Idle
    /\ t \in topics
    /\ selected # {} /\ \A p \in selected : t \in links[p]
    /\ ~NameTaken(n)
    /\ edit' = [edit EXCEPT ![e] = [op |-> "split", topic |-> t, other |-> NoTopic,
                                    above |-> parent[t], papers |-> selected, name |-> n]]
    /\ UNCHANGED <<topics, spent, parent, name, links>>

\* get_or_create_topic must create, or the split is rolled back.
CommitSplit(e, t) ==
    LET s == edit[e].topic IN
    /\ edit[e].op = "split"
    /\ ~NameTaken(edit[e].name)
    /\ NewTopic(t, edit[e].name, edit[e].above)
    /\ links' = [p \in Papers |->
                    IF p \in edit[e].papers THEN (links[p] \ {s}) \cup {t} ELSE links[p]]
    /\ Finish(e)

\* A broken foreign key, a name that was taken meanwhile, or the end of the
\* process: the transaction is rolled back.
Rollback(e) ==
    /\ edit[e] # Idle
    /\ Finish(e)
    /\ UNCHANGED <<topics, spent, parent, name, links>>

-----------------------------------------------------------------------------
Tagging ==
    \E p \in Papers, chosen \in SUBSET Topics :
        \/ ApplyReuse(p, chosen)
        \/ \E t \in Topics \ spent, n \in Names, q \in TopicOrNone :
              ApplyProposal(p, chosen, t, n, q)

SmallEdit ==
    \/ \E t \in Topics \ spent, n \in Names, q \in TopicOrNone : CreateTopic(t, n, q)
    \/ \E t \in Topics, n \in Names : RenameTopic(t, n)
    \/ \E p \in Papers, t \in Topics : AddPaperTopic(p, t) \/ RemovePaperTopic(p, t)

CheckedEdit(e) ==
    \/ \E t \in Topics, q \in TopicOrNone : CheckReparent(e, t, q)
    \/ WriteReparent(e)
    \/ \E s, t \in Topics : ReadMerge(e, s, t)
    \/ CommitMerge(e)
    \/ \E t \in Topics : ReadDelete(e, t)
    \/ CommitDelete(e)
    \/ \E t \in Topics, n \in Names, selected \in SUBSET Papers :
          CheckSplit(e, t, n, selected)
    \/ \E t \in Topics : CommitSplit(e, t)
    \/ Rollback(e)

Next == Tagging \/ SmallEdit \/ \E e \in Editors : CheckedEdit(e)

Spec == Init /\ [][Next]_vars

-----------------------------------------------------------------------------
(* Properties.                                                             *)

TypeOK ==
    /\ topics \subseteq spent /\ spent \subseteq Topics
    /\ parent \in [Topics -> TopicOrNone]
    /\ name \in [Topics -> Names \cup {NoName}]
    /\ links \in [Papers -> SUBSET Topics]
    /\ edit \in [Editors -> Edit]

\* "Cycle-safe" (reparent_topic, patch_topic): no topic is its own ancestor,
\* so the tree that build_topic_tree draws from the roots shows every topic.
Acyclic == IsForest(parent)

\* The edits, the worker's batches between them included, are whole edits of a
\* forest: moves, merges, deletions and additions and nothing in between.
ForestSpec == Forest!Spec

\* The foreign keys and the UNIQUE name hold together with the bookkeeping of
\* the edits: no link and no parent pointer survives the row it points to.
NoDangling ==
    /\ \A t \in Topics : parent[t] # NoTopic => t \in topics /\ parent[t] \in topics
    /\ \A p \in Papers : links[p] \subseteq topics
    /\ \A t, u \in topics : name[t] = name[u] => t = u

\* merge_topic: "no paper loses a topic in the process".  More: no edit but a
\* removal or a deletion leaves a paper without a topic, whatever overlaps.
NoPaperLosesItsTopics ==
    [][\A p \in Papers :
          links[p] # {} /\ links'[p] = {} =>
              \/ \E t \in Topics : RemovePaperTopic(p, t)
              \/ \E e \in Editors : CommitDelete(e)]_vars

\* merge_topics: "nothing that referred to it has been lost".  What was below
\* the source is below the target, also when other edits fell between the
\* reads and the transaction.
MergeKeepsSubtree ==
    [][\A e \in Editors :
          edit[e].op = "merge" /\ edit[e].topic \in topics \ topics' /\ edit'[e] = Idle =>
              \A x \in Below(parent, edit[e].topic) \ {edit[e].topic} :
                  x \in Below(parent', edit[e].other)]_vars

\* delete_topic: the "rest of the curated hierarchy stays intact".  Among the
\* topics that remain, who is below whom does not change.
DeleteKeepsRest ==
    [][\A e \in Editors :
          edit[e].op = "delete" /\ edit[e].topic \in topics \ topics' /\ edit'[e] = Idle =>
              \A x, y \in topics' :
                  y \in Below(parent, x) <=> y \in Below(parent', x)]_vars
=============================================================================
