--------------------------- MODULE TaxonomyProofs ---------------------------
(***************************************************************************)
(* Theorems about Taxonomy.  Foreign keys and paper links hold whatever    *)
(* edits overlap; the forest holds as long as one request edits at a time  *)
(* (SerialEdits): the worker's batches and the one-statement edits may     *)
(* fall anywhere between the read and the write of that request.           *)
(***************************************************************************)
EXTENDS Taxonomy, TLAPS

\* At most one request is in the middle of an edit.
SerialEdits == \A e, f \in Editors : e = f

\* A handler's claims about the rows it has read still hold when it writes.
EditInv ==
    \A e \in Editors :
        LET t == edit[e].topic  q == edit[e].other IN
        /\ edit[e].op = "reparent" => t \in topics /\ Exists(q) /\ q \notin Below(parent, t)
        /\ edit[e].op = "merge" => t \in topics /\ q \in topics \ {t}
                                    /\ edit[e].above = parent[t]
        /\ edit[e].op = "delete" => t \in topics /\ edit[e].above = parent[t]

-----------------------------------------------------------------------------
(* What the walks return, and that each kind of edit of module TopicForest *)
(* keeps a forest.  The proofs are about sets that their members' parents  *)
(* never leave: an edit that let one appear would have had one before.     *)

\* The walk starts with the topic itself.
LEMMA BelowSelf ==
    ASSUME NEW par, NEW t \in Topics
    PROVE  t \in Below(par, t)
BY DEF Below

\* Nothing below a topic has a child that is not below it.
LEMMA BelowClosed ==
    ASSUME NEW par, NEW t \in Topics
    PROVE  Closed(par, Below(par, t))
BY DEF Below, Closed

\* The walk returns nothing else: it is contained in every closed set.
LEMMA BelowLeast ==
    ASSUME NEW par, NEW t \in Topics, NEW S \in SUBSET Topics,
           t \in S, Closed(par, S)
    PROVE  Below(par, t) \subseteq S
BY DEF Below

\* Whatever is properly below a topic got there through its parent.
LEMMA BelowParent ==
    ASSUME NEW par, NEW t \in Topics, NEW x \in Below(par, t), x # t
    PROVE  par[x] \in Below(par, t)
<1> DEFINE S == {y \in Below(par, t) : y = t \/ par[y] \in Below(par, t)}
<1>1. t \in S
  BY BelowSelf
<1>2. Closed(par, S)
  BY BelowClosed DEF Closed
<1>3. S \in SUBSET Topics
  BY DEF Below
<1>4. Below(par, t) \subseteq S
  BY <1>1, <1>2, <1>3, BelowLeast
<1> QED
  BY <1>4

\* In a forest, a topic's parent is not below it.
LEMMA ParentNotBelow ==
    ASSUME NEW par, NEW t \in Topics, IsForest(par)
    PROVE  par[t] \notin Below(par, t)
<1> SUFFICES ASSUME par[t] \in Below(par, t)
             PROVE  FALSE
  OBVIOUS
<1>1. \A x \in Below(par, t) : par[x] \in Below(par, t)
  BY BelowParent
<1>2. Below(par, t) \in SUBSET Topics /\ Below(par, t) # {}
  BY BelowSelf DEF Below
<1> QED
  BY <1>1, <1>2 DEF IsForest

\* A topic without children may get any other parent.
LEMMA LeafForest ==
    ASSUME NEW par \in Parents, IsForest(par), NEW t \in Topics, NEW q, q # t,
           \A x \in Topics : par[x] # t
    PROVE  IsForest([par EXCEPT ![t] = q])
<1> DEFINE new == [par EXCEPT ![t] = q]
<1> SUFFICES ASSUME NEW S \in SUBSET Topics, \A x \in S : new[x] \in S
             PROVE  S = {}
  BY DEF IsForest
<1>1. \A x \in S \ {t} : par[x] \in S \ {t}
  BY DEF Parents
<1>2. S \ {t} = {}
  BY <1>1 DEF IsForest
<1>3. t \notin S
  BY <1>2 DEF Parents
<1> QED
  BY <1>2, <1>3

\* A topic may move to any place that is not below it.
LEMMA MoveForest ==
    ASSUME NEW par \in Parents, IsForest(par), NEW t \in Topics,
           NEW q, q \notin Below(par, t)
    PROVE  IsForest([par EXCEPT ![t] = q])
<1> DEFINE new == [par EXCEPT ![t] = q]
           D == Below(par, t)
<1> SUFFICES ASSUME NEW S \in SUBSET Topics, \A x \in S : new[x] \in S
             PROVE  S = {}
  BY DEF IsForest
<1>1. t \in D /\ \A x \in Topics : par[x] \in D => x \in D
  BY BelowSelf, BelowClosed DEF Closed
<1>2. \A x \in S \ D : par[x] \in S \ D
  BY <1>1 DEF Parents
<1>3. S \ D = {}
  BY <1>2 DEF IsForest
<1>4. t \notin S
  BY <1>3 DEF Parents
<1>5. \A x \in S : par[x] \in S
  BY <1>4 DEF Parents
<1> QED
  BY <1>5 DEF IsForest

\* The children of a topic may go to its parent, and the topic away.
LEMMA DissolveForest ==
    ASSUME NEW par \in Parents, IsForest(par), NEW t \in Topics
    PROVE  IsForest([x \in Topics |-> IF x = t THEN NoTopic
                                      ELSE IF par[x] = t THEN par[t] ELSE par[x]])
<1> DEFINE new == [x \in Topics |-> IF x = t THEN NoTopic
                                    ELSE IF par[x] = t THEN par[t] ELSE par[x]]
<1> SUFFICES ASSUME NEW S \in SUBSET Topics, \A x \in S : new[x] \in S
             PROVE  S = {}
  BY DEF IsForest
<1>1. t \notin S
  BY NoTopicAssumption
<1>2. CASE \E c \in S : par[c] = t
  <2>1. par[t] \in S
    BY <1>1, <1>2
  <2>2. \A x \in S \cup {t} : par[x] \in S \cup {t}
    BY <1>1, <2>1
  <2> QED
    BY <2>2 DEF IsForest
<1>3. CASE \A c \in S : par[c] # t
  <2>1. \A x \in S : par[x] \in S
    BY <1>1, <1>3
  <2> QED
    BY <2>1 DEF IsForest
<1> QED
  BY <1>2, <1>3

\* A topic may be merged into any other, from below it or not.
LEMMA FuseForest ==
    ASSUME NEW par \in Parents, IsForest(par), NEW s \in Topics, NEW t \in Topics, s # t
    PROVE  IsForest([x \in Topics |->
                        IF x = s THEN NoTopic
                        ELSE IF x = t /\ t \in Below(par, s) THEN par[s]
                        ELSE IF par[x] = s THEN t
                        ELSE par[x]])
<1> DEFINE new == [x \in Topics |->
                      IF x = s THEN NoTopic
                      ELSE IF x = t /\ t \in Below(par, s) THEN par[s]
                      ELSE IF par[x] = s THEN t
                      ELSE par[x]]
           D == Below(par, s)
<1> SUFFICES ASSUME NEW S \in SUBSET Topics, \A x \in S : new[x] \in S
             PROVE  S = {}
  BY DEF IsForest
<1>1. s \notin S
  BY NoTopicAssumption
<1>2. s \in D /\ \A x \in Topics : par[x] \in D => x \in D
  BY BelowSelf, BelowClosed DEF Closed
<1>3. t \in D \/ \A x \in S \ D : par[x] # s
  BY <1>2
<1>4. \A x \in S \ D : par[x] \in S \ D
  BY <1>1, <1>2
<1>5. S \ D = {}
  BY <1>4 DEF IsForest
<1>6. CASE t \in S
  <2>1. t \in D
    BY <1>5, <1>6
  <2>2. par[s] \in S
    BY <1>1, <1>6, <2>1
  <2>3. par[s] \notin D
    BY ParentNotBelow
  <2> QED
    BY <1>5, <2>2, <2>3
<1>7. CASE t \notin S
  <2>1. \A x \in S : par[x] \in S
    BY <1>1, <1>7
  <2> QED
    BY <2>1 DEF IsForest
<1> QED
  BY <1>6, <1>7

\* A new leaf adds only itself to what is below a topic.
LEMMA BelowGrow ==
    ASSUME NEW par \in Parents, NEW t \in Topics, NEW u \in Topics, NEW q,
           \A x \in Topics : par[x] # t
    PROVE  Below([par EXCEPT ![t] = q], u) \subseteq Below(par, u) \cup {t}
<1> DEFINE new == [par EXCEPT ![t] = q]
           S == Below(par, u) \cup {t}
<1>1. S \in SUBSET Topics /\ u \in S
  BY BelowSelf DEF Below
<1>2. Closed(new, S)
  <2> SUFFICES ASSUME NEW x \in Topics, new[x] \in S
               PROVE  x \in S
    BY DEF Closed
  <2>1. CASE x = t
    BY <2>1
  <2>2. CASE x # t
    <3>1. par[x] \in Below(par, u)
      BY <2>2 DEF Parents
    <3> QED
      BY <3>1, BelowClosed DEF Closed
  <2> QED
    BY <2>1, <2>2
<1> QED
  BY <1>1, <1>2, BelowLeast

-----------------------------------------------------------------------------
(* Types and references, for any number of editors.                        *)

LEMMA IdleEdit == Idle \in Edit
BY DEF Idle, Edit, Ops, TopicOrNone

\* What a handler keeps of its reads is a well-typed edit.
LEMMA BeginType ==
    ASSUME TypeOK, NEW e \in Editors, NEW op \in Ops, NEW t \in Topics,
           NEW q \in TopicOrNone, Begin(e, op, t, q)
    PROVE  edit' \in [Editors -> Edit]
<1>1. parent[t] \in TopicOrNone
  BY DEF TypeOK
<1>2. [op |-> op, topic |-> t, other |-> q, above |-> parent[t],
       papers |-> {}, name |-> NoName] \in Edit
  BY <1>1 DEF Edit, TopicOrNone
<1> QED
  BY <1>2 DEF TypeOK, Begin

LEMMA FinishType ==
    ASSUME TypeOK, NEW e \in Editors, Finish(e)
    PROVE  edit' \in [Editors -> Edit]
BY IdleEdit DEF TypeOK, Finish

\* The INSERT of a topic keeps the table well typed.
LEMMA NewTopicType ==
    ASSUME TypeOK, NEW t, NEW n \in Names, NEW q, NewTopic(t, n, q)
    PROVE  /\ topics' \subseteq spent' /\ spent' \subseteq Topics
           /\ parent' \in [Topics -> TopicOrNone]
           /\ name' \in [Topics -> Names \cup {NoName}]
BY DEF TypeOK, NewTopic, Exists, TopicOrNone

\* So does a DELETE.
LEMMA DropTopicType ==
    ASSUME TypeOK, NEW t, DropTopic(t)
    PROVE  /\ topics' \subseteq spent' /\ spent' \subseteq Topics
           /\ name' \in [Topics -> Names \cup {NoName}]
BY DEF TypeOK, DropTopic

LEMMA DropParentsType ==
    ASSUME NEW par \in Parents, NEW t
    PROVE  DropParents(par, t) \in Parents
BY DEF DropParents, Parents, TopicOrNone

LEMMA TypeStep == TypeOK /\ [Next]_vars => TypeOK'
<1> SUFFICES ASSUME TypeOK, [Next]_vars
             PROVE  TypeOK'
  OBVIOUS
<1>1. CASE Tagging
  <2>1. ASSUME NEW p \in Papers, NEW chosen \in SUBSET Topics, ApplyReuse(p, chosen)
        PROVE  TypeOK'
    BY <2>1 DEF ApplyReuse, TypeOK
  <2>2. ASSUME NEW p \in Papers, NEW chosen \in SUBSET Topics, NEW t \in Topics \ spent,
               NEW n \in Names, NEW q \in TopicOrNone, ApplyProposal(p, chosen, t, n, q)
        PROVE  TypeOK'
    <3>1. NewTopic(t, n, IF q \in topics THEN q ELSE NoTopic)
      BY <2>2 DEF ApplyProposal
    <3>2. links' \in [Papers -> SUBSET Topics] /\ edit' = edit
      BY <2>2 DEF ApplyProposal, TypeOK
    <3> QED
      BY <3>1, <3>2, NewTopicType DEF TypeOK
  <2> QED
    BY <1>1, <2>1, <2>2 DEF Tagging
<1>2. CASE SmallEdit
  <2>1. ASSUME NEW t \in Topics \ spent, NEW n \in Names, NEW q \in TopicOrNone,
               CreateTopic(t, n, q)
        PROVE  TypeOK'
    BY <2>1, NewTopicType DEF CreateTopic, TypeOK
  <2>2. ASSUME NEW t \in Topics, NEW n \in Names, RenameTopic(t, n)
        PROVE  TypeOK'
    BY <2>2 DEF RenameTopic, TypeOK
  <2>3. ASSUME NEW p \in Papers, NEW t \in Topics,
               AddPaperTopic(p, t) \/ RemovePaperTopic(p, t)
        PROVE  TypeOK'
    BY <2>3 DEF AddPaperTopic, RemovePaperTopic, TypeOK
  <2> QED
    BY <1>2, <2>1, <2>2, <2>3 DEF SmallEdit
<1>3. ASSUME NEW e \in Editors, CheckedEdit(e)
      PROVE  TypeOK'
  <2>0. edit[e] \in Edit
    BY DEF TypeOK
  <2>1. ASSUME NEW t \in Topics, NEW q \in TopicOrNone, CheckReparent(e, t, q)
        PROVE  TypeOK'
    <3>1. edit' \in [Editors -> Edit]
      BY <2>1, BeginType DEF CheckReparent, Ops
    <3> QED
      BY <2>1, <3>1 DEF CheckReparent, TypeOK
  <2>2. CASE WriteReparent(e)
    <3>1. edit' \in [Editors -> Edit]
      BY <2>2, FinishType DEF WriteReparent
    <3>2. parent' \in [Topics -> TopicOrNone]
      BY <2>0, <2>2 DEF WriteReparent, TypeOK, Edit
    <3> QED
      BY <2>2, <3>1, <3>2 DEF WriteReparent, TypeOK
  <2>3. ASSUME NEW s \in Topics, NEW t \in Topics, ReadMerge(e, s, t)
        PROVE  TypeOK'
    <3>1. edit' \in [Editors -> Edit]
      BY <2>3, BeginType DEF ReadMerge, Ops, TopicOrNone
    <3> QED
      BY <2>3, <3>1 DEF ReadMerge, TypeOK
  <2>4. CASE CommitMerge(e)
    <3> DEFINE s == edit[e].topic
               t == edit[e].other
               placed == Spliced(s, t, edit[e].above)
               moved == Adopted(placed, s, t)
    <3>1. edit' \in [Editors -> Edit]
      BY <2>4, FinishType DEF CommitMerge
    <3>2. parent \in Parents /\ t \in TopicOrNone /\ edit[e].above \in TopicOrNone
      BY <2>0 DEF Edit, TypeOK, Parents
    <3>3. placed \in Parents
      BY <3>2 DEF Spliced, Parents
    <3>4. moved \in Parents
      BY <3>2, <3>3 DEF Adopted, Parents
    <3>5. parent' = DropParents(moved, s) /\ DropTopic(s)
      BY <2>4 DEF CommitMerge
    <3>6. parent' \in Parents
      BY <3>4, <3>5, DropParentsType
    <3>7. links' = Relink(s, t) /\ (t \notin topics => s \notin UNION {links[p] : p \in Papers})
      BY <2>4 DEF CommitMerge
    <3>8. links' \in [Papers -> SUBSET Topics]
      BY <3>7 DEF Relink, TypeOK
    <3> QED
      BY <3>1, <3>5, <3>6, <3>8, DropTopicType DEF TypeOK, Parents
  <2>5. ASSUME NEW t \in Topics, ReadDelete(e, t)
        PROVE  TypeOK'
    <3>1. edit' \in [Editors -> Edit]
      BY <2>5, BeginType DEF ReadDelete, Ops, TopicOrNone
    <3> QED
      BY <2>5, <3>1 DEF ReadDelete, TypeOK
  <2>6. CASE CommitDelete(e)
    <3> DEFINE t == edit[e].topic
               promoted == Promoted(t, edit[e].above)
    <3>1. edit' \in [Editors -> Edit]
      BY <2>6, FinishType DEF CommitDelete
    <3>2. promoted \in Parents
      BY <2>0 DEF Promoted, Parents, TypeOK, Edit
    <3>3. parent' = DropParents(promoted, t) /\ DropTopic(t)
      BY <2>6 DEF CommitDelete
    <3>4. parent' \in Parents
      BY <3>2, <3>3, DropParentsType
    <3>5. links' \in [Papers -> SUBSET Topics]
      BY <2>6 DEF CommitDelete, TypeOK
    <3> QED
      BY <3>1, <3>3, <3>4, <3>5, DropTopicType DEF TypeOK, Parents
  <2>7. ASSUME NEW t \in Topics, NEW n \in Names, NEW selected \in SUBSET Papers,
               CheckSplit(e, t, n, selected)
        PROVE  TypeOK'
    <3>1. [op |-> "split", topic |-> t, other |-> NoTopic, above |-> parent[t],
           papers |-> selected, name |-> n] \in Edit
      BY DEF Edit, Ops, TypeOK, TopicOrNone
    <3>2. edit' \in [Editors -> Edit]
      BY <2>7, <3>1 DEF CheckSplit, TypeOK
    <3> QED
      BY <2>7, <3>2 DEF CheckSplit, TypeOK
  <2>8. ASSUME NEW t \in Topics, CommitSplit(e, t)
        PROVE  TypeOK'
    <3>1. edit' \in [Editors -> Edit]
      BY <2>8, FinishType DEF CommitSplit
    <3>2. NewTopic(t, edit[e].name, edit[e].above)
      BY <2>8 DEF CommitSplit
    <3>3. links' \in [Papers -> SUBSET Topics]
      BY <2>8 DEF CommitSplit, TypeOK
    <3>4. edit[e].name \in Names \cup {NoName}
      BY <2>0 DEF Edit
    <3>5. name' \in [Topics -> Names \cup {NoName}]
      BY <3>2, <3>4 DEF NewTopic, TypeOK
    <3> QED
      BY <3>1, <3>2, <3>3, <3>5 DEF NewTopic, Exists, TypeOK, TopicOrNone
  <2>9. CASE Rollback(e)
    BY <2>9, FinishType DEF Rollback, TypeOK
  <2> QED
    BY <1>3, <2>1, <2>2, <2>3, <2>4, <2>5, <2>6, <2>7, <2>8, <2>9 DEF CheckedEdit
<1>4. CASE UNCHANGED vars
  BY <1>4 DEF vars, TypeOK
<1> QED
  BY <1>1, <1>2, <1>3, <1>4 DEF Next

\* Every reachable state is well typed, whatever edits overlap.
THEOREM TypeCorrect == Spec => []TypeOK
<1>1. Init => TypeOK
  BY IdleEdit DEF Init, TypeOK, TopicOrNone
<1> QED
  BY <1>1, TypeStep, PTL DEF Spec
-----------------------------------------------------------------------------
(* References, for any number of editors.                                  *)

\* An edit that is going on names a topic, and a merge names two.
EditShape ==
    \A e \in Editors :
        /\ edit[e].op # "idle" => edit[e].topic \in Topics
        /\ edit[e].op = "merge" => edit[e].other # edit[e].topic

RefInv == TypeOK /\ EditShape /\ NoDangling

\* parent_id of NoDangling, for a table of parents and a set of rows.
Refers(par, rows) ==
    \A x \in Topics : par[x] # NoTopic => x \in rows /\ par[x] \in rows

LEMMA EditShapeStep == TypeOK /\ EditShape /\ [Next]_vars => EditShape'
<1> SUFFICES ASSUME TypeOK, EditShape, [Next]_vars
             PROVE  EditShape'
  OBVIOUS
<1> USE DEF EditShape
<1>1. ASSUME NEW e \in Editors, Finish(e)
      PROVE  EditShape'
  BY <1>1 DEF Finish, Idle, TypeOK
<1>2. ASSUME NEW e \in Editors, NEW op, NEW t \in Topics, NEW q, Begin(e, op, t, q),
             op = "merge" => q # t
      PROVE  EditShape'
  BY <1>2 DEF Begin, TypeOK
<1>3. CASE Tagging \/ SmallEdit \/ UNCHANGED vars
  <2>1. edit' = edit
    BY <1>3 DEF Tagging, SmallEdit, ApplyReuse, ApplyProposal, CreateTopic, RenameTopic,
                AddPaperTopic, RemovePaperTopic, vars
  <2> QED
    BY <2>1
<1>4. ASSUME NEW e \in Editors, CheckedEdit(e)
      PROVE  EditShape'
  <2>1. ASSUME NEW t \in Topics, NEW q \in TopicOrNone, CheckReparent(e, t, q)
        PROVE  EditShape'
    <3>1. Begin(e, "reparent", t, q)
      BY <2>1 DEF CheckReparent
    <3> QED
      BY <3>1, <1>2
  <2>2. ASSUME NEW s \in Topics, NEW t \in Topics, ReadMerge(e, s, t)
        PROVE  EditShape'
    <3>1. Begin(e, "merge", s, t) /\ t # s
      BY <2>2 DEF ReadMerge
    <3> QED
      BY <3>1, <1>2
  <2>3. ASSUME NEW t \in Topics, ReadDelete(e, t)
        PROVE  EditShape'
    <3>1. Begin(e, "delete", t, NoTopic)
      BY <2>3 DEF ReadDelete
    <3> QED
      BY <3>1, <1>2
  <2>4. ASSUME NEW t \in Topics, NEW n \in Names, NEW selected \in SUBSET Papers,
               CheckSplit(e, t, n, selected)
        PROVE  EditShape'
    BY <2>4 DEF CheckSplit, TypeOK
  <2>5. CASE \/ WriteReparent(e) \/ CommitMerge(e) \/ CommitDelete(e) \/ Rollback(e)
             \/ \E t \in Topics : CommitSplit(e, t)
    BY <2>5, <1>1 DEF WriteReparent, CommitMerge, CommitDelete, Rollback, CommitSplit
  <2> QED
    BY <1>4, <2>1, <2>2, <2>3, <2>4, <2>5 DEF CheckedEdit
<1> QED
  BY <1>3, <1>4 DEF Next

\* An INSERT refers to rows only, and takes a name that is free.
LEMMA NewTopicRefs ==
    ASSUME TypeOK, NoDangling, NEW t \in Topics, NEW n, NEW q, ~NameTaken(n),
           NewTopic(t, n, q)
    PROVE  /\ Refers(parent', topics')
           /\ \A x, y \in topics' : name'[x] = name'[y] => x = y
           /\ topics \subseteq topics' /\ t \in topics'
<1>1. t \notin topics /\ topics' = topics \cup {t} /\ topics \subseteq Topics
  BY DEF NewTopic, TypeOK
<1>2. Refers(parent', topics')
  BY <1>1 DEF NewTopic, Refers, NoDangling, TypeOK, Exists
<1>3. ASSUME NEW x \in topics', NEW y \in topics', name'[x] = name'[y]
      PROVE  x = y
  BY <1>1, <1>3 DEF NewTopic, NameTaken, NoDangling, TypeOK
<1> QED
  BY <1>1, <1>2, <1>3

\* A DELETE of a row that every pointer and link has left, or is made to leave.
LEMMA DropTopicRefs ==
    ASSUME TypeOK, NoDangling, NEW t \in Topics, DropTopic(t), NEW par \in Parents,
           Refers(par, topics), parent' = DropParents(par, t)
    PROVE  /\ Refers(parent', topics')
           /\ \A x, y \in topics' : name'[x] = name'[y] => x = y
<1>1. topics' = topics \ {t} /\ topics \subseteq Topics
  BY DEF DropTopic, TypeOK
<1>2. Refers(parent', topics')
  BY <1>1 DEF DropParents, Refers
<1>3. ASSUME NEW x \in topics', NEW y \in topics', name'[x] = name'[y]
      PROVE  x = y
  BY <1>1, <1>3 DEF DropTopic, NoDangling, TypeOK
<1> QED
  BY <1>2, <1>3

LEMMA RefStep == RefInv /\ [Next]_vars => NoDangling'
<1> SUFFICES ASSUME TypeOK, EditShape, NoDangling, [Next]_vars
             PROVE  NoDangling'
  BY DEF RefInv
<1>0. Refers(parent, topics)
  BY DEF Refers, NoDangling
<1>1. CASE Tagging
  <2>1. ASSUME NEW p \in Papers, NEW chosen \in SUBSET Topics, ApplyReuse(p, chosen)
        PROVE  NoDangling'
    BY <2>1 DEF ApplyReuse, NoDangling, TypeOK
  <2>2. ASSUME NEW p \in Papers, NEW chosen \in SUBSET Topics, NEW t \in Topics \ spent,
               NEW n \in Names, NEW q \in TopicOrNone, ApplyProposal(p, chosen, t, n, q)
        PROVE  NoDangling'
    <3>1. /\ Refers(parent', topics')
          /\ \A x, y \in topics' : name'[x] = name'[y] => x = y
          /\ topics \subseteq topics' /\ t \in topics'
      BY <2>2, NewTopicRefs DEF ApplyProposal
    <3>2. \A r \in Papers : links'[r] \subseteq topics'
      BY <2>2, <3>1 DEF ApplyProposal, NoDangling, TypeOK
    <3> QED
      BY <3>1, <3>2 DEF NoDangling, Refers
  <2> QED
    BY <1>1, <2>1, <2>2 DEF Tagging
<1>2. CASE SmallEdit
  <2>1. ASSUME NEW t \in Topics \ spent, NEW n \in Names, NEW q \in TopicOrNone,
               CreateTopic(t, n, q)
        PROVE  NoDangling'
    <3>1. /\ Refers(parent', topics')
          /\ \A x, y \in topics' : name'[x] = name'[y] => x = y
          /\ topics \subseteq topics' /\ t \in topics'
      BY <2>1, NewTopicRefs DEF CreateTopic
    <3>2. \A r \in Papers : links'[r] \subseteq topics'
      BY <2>1, <3>1 DEF CreateTopic, NoDangling
    <3> QED
      BY <3>1, <3>2 DEF NoDangling, Refers
  <2>2. ASSUME NEW t \in Topics, NEW n \in Names, RenameTopic(t, n)
        PROVE  NoDangling'
    BY <2>2 DEF RenameTopic, NoDangling, NameTaken, TypeOK
  <2>3. ASSUME NEW p \in Papers, NEW t \in Topics,
               AddPaperTopic(p, t) \/ RemovePaperTopic(p, t)
        PROVE  NoDangling'
    BY <2>3 DEF AddPaperTopic, RemovePaperTopic, NoDangling, TypeOK
  <2> QED
    BY <1>2, <2>1, <2>2, <2>3 DEF SmallEdit
<1>3. ASSUME NEW e \in Editors, CheckedEdit(e)
      PROVE  NoDangling'
  <2>1. CASE WriteReparent(e)
    BY <2>1 DEF WriteReparent, NoDangling, Exists, TypeOK
  <2>2. CASE CommitMerge(e)
    <3> DEFINE s == edit[e].topic
               t == edit[e].other
               above == edit[e].above
               placed == Spliced(s, t, above)
               moved == Adopted(placed, s, t)
    <3>0. edit[e] \in Edit /\ edit[e].op = "merge"
      BY <2>2 DEF CommitMerge, TypeOK
    <3>1. s \in Topics /\ s # NoTopic /\ t # s /\ t \in TopicOrNone /\ above \in TopicOrNone
      <4>1. s \in Topics /\ t # s
        BY <3>0 DEF EditShape
      <4>2. t \in TopicOrNone /\ above \in TopicOrNone
        BY <3>0 DEF Edit
      <4> QED
        BY <4>1, <4>2, NoTopicAssumption
    <3>2. /\ t \in Below(parent, s) => Exists(above)
          /\ t \notin topics => s \notin UNION {links[p] : p \in Papers} /\ moved = placed
          /\ parent' = DropParents(moved, s)
          /\ links' = Relink(s, t)
          /\ DropTopic(s)
      BY <2>2 DEF CommitMerge
    <3>3. t \in Below(parent, s) => t \in topics
      <4> SUFFICES ASSUME t \in Below(parent, s)
                   PROVE  t \in topics
        OBVIOUS
      <4>1. parent[t] \in Topics /\ t \in Topics
        BY <3>1, BelowParent DEF Below
      <4> QED
        BY <4>1, NoTopicAssumption DEF NoDangling
    <3>4. placed \in Parents /\ Refers(placed, topics)
      BY <3>1, <3>2, <3>3, <1>0 DEF Spliced, Parents, TypeOK, Refers, Exists
    <3>5. moved \in Parents /\ Refers(moved, topics)
      <4>1. moved \in Parents
        BY <3>1, <3>4 DEF Adopted, Parents
      <4>2. CASE t \in topics
        <5>1. \A x \in Topics : moved[x] = IF placed[x] = s THEN t ELSE placed[x]
          BY DEF Adopted
        <5>2. ASSUME NEW x \in Topics, moved[x] # NoTopic
              PROVE  x \in topics /\ moved[x] \in topics
          <6>1. CASE placed[x] = s
            BY <3>1, <3>4, <4>2, <5>1, <6>1 DEF Refers
          <6>2. CASE placed[x] # s
            BY <3>4, <5>1, <5>2, <6>2 DEF Refers
          <6> QED
            BY <6>1, <6>2
        <5> QED
          BY <4>1, <5>2 DEF Refers
      <4>3. CASE t \notin topics
        BY <3>2, <3>4, <4>3
      <4> QED
        BY <4>1, <4>2, <4>3
    <3>6. /\ Refers(parent', topics')
          /\ \A x, y \in topics' : name'[x] = name'[y] => x = y
      BY <3>1, <3>2, <3>5, DropTopicRefs
    <3>7. \A p \in Papers : links'[p] \subseteq topics'
      BY <3>1, <3>2 DEF Relink, DropTopic, NoDangling
    <3> QED
      BY <3>6, <3>7 DEF NoDangling, Refers
  <2>3. CASE CommitDelete(e)
    <3> DEFINE t == edit[e].topic
               above == edit[e].above
               promoted == Promoted(t, above)
    <3>0. edit[e] \in Edit /\ edit[e].op = "delete"
      BY <2>3 DEF CommitDelete, TypeOK
    <3>1. t \in Topics /\ t # NoTopic /\ above \in TopicOrNone
      <4>1. t \in Topics
        BY <3>0 DEF EditShape
      <4>2. above \in TopicOrNone
        BY <3>0 DEF Edit
      <4> QED
        BY <4>1, <4>2, NoTopicAssumption
    <3>2. /\ (\E x \in topics : parent[x] = t) => Exists(above)
          /\ parent' = DropParents(promoted, t)
          /\ links' = [p \in Papers |-> links[p] \ {t}]
          /\ DropTopic(t)
      BY <2>3 DEF CommitDelete
    <3>3. promoted \in Parents /\ Refers(promoted, topics)
      BY <3>1, <3>2, <1>0 DEF Promoted, Parents, TypeOK, Refers, Exists
    <3>4. /\ Refers(parent', topics')
          /\ \A x, y \in topics' : name'[x] = name'[y] => x = y
      BY <3>1, <3>2, <3>3, DropTopicRefs
    <3>5. \A p \in Papers : links'[p] \subseteq topics'
      BY <3>2 DEF DropTopic, NoDangling
    <3> QED
      BY <3>4, <3>5 DEF NoDangling, Refers
  <2>4. ASSUME NEW t \in Topics, CommitSplit(e, t)
        PROVE  NoDangling'
    <3>1. /\ Refers(parent', topics')
          /\ \A x, y \in topics' : name'[x] = name'[y] => x = y
          /\ topics \subseteq topics' /\ t \in topics'
      BY <2>4, NewTopicRefs DEF CommitSplit
    <3>2. \A r \in Papers : links'[r] \subseteq topics'
      BY <2>4, <3>1 DEF CommitSplit, NoDangling
    <3> QED
      BY <3>1, <3>2 DEF NoDangling, Refers
  <2>5. CASE \/ \E t \in Topics, q \in TopicOrNone : CheckReparent(e, t, q)
             \/ \E s, t \in Topics : ReadMerge(e, s, t)
             \/ \E t \in Topics : ReadDelete(e, t)
             \/ \E t \in Topics, n \in Names, selected \in SUBSET Papers :
                   CheckSplit(e, t, n, selected)
             \/ Rollback(e)
    <3>1. UNCHANGED <<topics, parent, name, links>>
      BY <2>5 DEF CheckReparent, ReadMerge, ReadDelete, CheckSplit, Rollback
    <3> QED
      BY <3>1 DEF NoDangling
  <2> QED
    BY <1>3, <2>1, <2>2, <2>3, <2>4, <2>5 DEF CheckedEdit
<1>4. CASE UNCHANGED vars
  BY <1>4 DEF vars, NoDangling
<1> QED
  BY <1>1, <1>2, <1>3, <1>4 DEF Next

LEMMA InitRefs == Init => RefInv
<1> SUFFICES ASSUME Init PROVE RefInv
  OBVIOUS
<1>1. TypeOK
  BY IdleEdit DEF Init, TypeOK, TopicOrNone
<1>2. EditShape
  BY DEF Init, EditShape, Idle
<1>3. NoDangling
  BY DEF Init, NoDangling
<1> QED
  BY <1>1, <1>2, <1>3 DEF RefInv

LEMMA RefInvariant == Spec => []RefInv
<1>1. Init => RefInv
  BY InitRefs
<1>2. RefInv /\ [Next]_vars => RefInv'
  BY TypeStep, EditShapeStep, RefStep DEF RefInv
<1> QED
  BY <1>1, <1>2, PTL DEF Spec

\* No parent pointer and no paper link outlives its row, whatever overlaps.
THEOREM NeverDangling == Spec => []NoDangling
BY RefInvariant, PTL DEF RefInv

\* merge_topic: "no paper loses a topic in the process".  Whatever edits overlap,
\* only a removal or a deletion leaves a paper without a topic.
THEOREM PapersStayFiled == Spec => NoPaperLosesItsTopics
<1>1. ASSUME TypeOK, [Next]_vars, NEW p \in Papers, links[p] # {}, links'[p] = {}
      PROVE  \/ \E t \in Topics : RemovePaperTopic(p, t)
             \/ \E e \in Editors : CommitDelete(e)
  <2>1. CASE UNCHANGED links
    BY <1>1, <2>1
  <2>2. CASE Tagging
    <3>1. PICK r \in Papers, chosen \in SUBSET Topics :
              \/ ApplyReuse(r, chosen)
              \/ \E t \in Topics \ spent, n \in Names, q \in TopicOrNone :
                    ApplyProposal(r, chosen, t, n, q)
      BY <2>2 DEF Tagging
    <3>2. \E more : links' = [links EXCEPT ![r] = @ \cup more]
      <4>1. CASE ApplyReuse(r, chosen)
        BY <4>1 DEF ApplyReuse
      <4>2. ASSUME NEW t \in Topics \ spent, NEW n \in Names, NEW q \in TopicOrNone,
                   ApplyProposal(r, chosen, t, n, q)
            PROVE  \E more : links' = [links EXCEPT ![r] = @ \cup more]
        <5>1. links' = [links EXCEPT ![r] = @ \cup ((chosen \cap topics) \cup {t})]
          BY <4>2 DEF ApplyProposal
        <5>2. QED
          BY <5>1
      <4>3. QED
        BY <3>1, <4>1, <4>2
    <3>3. QED
      BY <1>1, <3>2 DEF TypeOK
  <2>3. CASE SmallEdit
    <3>1. PICK r \in Papers, t \in Topics :
              UNCHANGED links \/ AddPaperTopic(r, t) \/ RemovePaperTopic(r, t)
      BY <1>1, <2>3 DEF SmallEdit, CreateTopic, RenameTopic, AddPaperTopic, RemovePaperTopic
    <3>2. CASE AddPaperTopic(r, t)
      BY <1>1, <3>2 DEF AddPaperTopic, TypeOK
    <3>3. CASE RemovePaperTopic(r, t)
      <4>1. r = p
        BY <1>1, <3>3 DEF RemovePaperTopic, TypeOK
      <4>2. QED
        BY <3>3, <4>1
    <3>4. QED
      BY <3>1, <3>2, <3>3, <2>1
  <2>4. ASSUME NEW e \in Editors, CheckedEdit(e)
        PROVE  \/ UNCHANGED links
               \/ CommitDelete(e)
    <3>1. CASE CommitMerge(e)
      <4>1. links' = Relink(edit[e].topic, edit[e].other)
        BY <3>1 DEF CommitMerge
      <4>2. QED
        BY <1>1, <4>1 DEF Relink
    <3>2. ASSUME NEW t \in Topics, CommitSplit(e, t)
          PROVE  FALSE
      <4>1. links'[p] = IF p \in edit[e].papers
                        THEN (links[p] \ {edit[e].topic}) \cup {t} ELSE links[p]
        BY <3>2 DEF CommitSplit
      <4>2. QED
        BY <1>1, <4>1
    <3>3. QED
      BY <2>4, <3>1, <3>2 DEF CheckedEdit, CheckReparent, WriteReparent, ReadMerge,
         ReadDelete, CheckSplit, Rollback
  <2>5. QED
    BY <1>1, <2>1, <2>2, <2>3, <2>4 DEF Next, vars
<1>2. TypeOK /\ [Next]_vars =>
        [\A p \in Papers :
            links[p] # {} /\ links'[p] = {} =>
                \/ \E t \in Topics : RemovePaperTopic(p, t)
                \/ \E e \in Editors : CommitDelete(e)]_vars
  BY <1>1
<1> QED
  BY <1>2, TypeCorrect, PTL DEF Spec, NoPaperLosesItsTopics

\* Only the request itself ends its edit.
LEMMA OwnEnding ==
    ASSUME TypeOK, [Next]_vars, NEW e \in Editors, edit[e] # Idle, edit'[e] = Idle,
           topics' # topics
    PROVE  CommitMerge(e) \/ CommitDelete(e) \/ \E t \in Topics : CommitSplit(e, t)
<1>1. edit' # edit
  OBVIOUS
<1>2. PICK f \in Editors : CheckedEdit(f)
  BY <1>1 DEF Next, vars, Tagging, SmallEdit, ApplyReuse, ApplyProposal, CreateTopic,
     RenameTopic, AddPaperTopic, RemovePaperTopic
<1>3. CommitMerge(f) \/ CommitDelete(f) \/ \E t \in Topics : CommitSplit(f, t)
  BY <1>2 DEF CheckedEdit, CheckReparent, WriteReparent, ReadMerge, ReadDelete, CheckSplit,
     Rollback
<1>4. Finish(f)
  BY <1>3 DEF CommitMerge, CommitDelete, CommitSplit
<1>5. f = e
  BY <1>4 DEF Finish, TypeOK
<1> QED
  BY <1>3, <1>5

\* A merge that commits, on rows however stale.
LEMMA CommitMergeAdopts ==
    ASSUME RefInv, NEW e \in Editors, CommitMerge(e),
           NEW x \in Below(parent, edit[e].topic), x # edit[e].topic
    PROVE  x \in Below(parent', edit[e].other)
<1> DEFINE s == edit[e].topic
           t == edit[e].other
           placed == Spliced(s, t, edit[e].above)
           moved == Adopted(placed, s, t)
<1>1. s \in Topics /\ t # s /\ parent \in [Topics -> TopicOrNone]
  BY DEF RefInv, EditShape, TypeOK, CommitMerge
<1>2. parent' = DropParents(moved, s)
  BY DEF CommitMerge
<1>3. ASSUME NEW y \in Topics, y # t
      PROVE  placed[y] = parent[y]
  BY <1>1, <1>3 DEF Spliced
<1>4. ASSUME NEW y \in Topics, y # s, y # t
      PROVE  parent'[y] = IF parent[y] = s THEN t ELSE parent[y]
  <2>1. moved[y] = IF parent[y] = s THEN t ELSE parent[y]
    BY <1>3, <1>4 DEF Adopted
  <2>2. moved[y] # s
    BY <2>1, <1>1
  <2>3. QED
    BY <1>2, <1>4, <2>1, <2>2 DEF DropParents
<1>5. SUFFICES ASSUME NEW S \in SUBSET Topics, t \in S, Closed(parent', S)
               PROVE  x \in S
  BY DEF Below
<1>6. Closed(parent, S \cup {s})
  BY <1>4, <1>5 DEF Closed
<1>7. x \in S \cup {s}
  BY <1>1, <1>6, BelowLeast
<1> QED
  BY <1>7

\* merge_topics: "nothing that referred to it has been lost".  What was below
\* the source when the transaction commits is below the target, for any number
\* of editors between its reads and its transaction.
THEOREM MergeLosesNothing == Spec => MergeKeepsSubtree
<1>1. ASSUME RefInv, [Next]_vars, NEW e \in Editors, edit[e].op = "merge",
             edit[e].topic \in topics \ topics', edit'[e] = Idle
      PROVE  CommitMerge(e)
  <2>1. edit[e] # Idle /\ topics' # topics
    BY <1>1 DEF Idle
  <2>2. CommitMerge(e) \/ CommitDelete(e) \/ \E t \in Topics : CommitSplit(e, t)
    BY <1>1, <2>1, OwnEnding DEF RefInv
  <2>3. QED
    BY <1>1, <2>2 DEF CommitDelete, CommitSplit
<1>2. RefInv /\ [Next]_vars =>
        [\A e \in Editors :
            edit[e].op = "merge" /\ edit[e].topic \in topics \ topics' /\ edit'[e] = Idle =>
                \A x \in Below(parent, edit[e].topic) \ {edit[e].topic} :
                    x \in Below(parent', edit[e].other)]_vars
  BY <1>1, CommitMergeAdopts
<1> QED
  BY <1>2, RefInvariant, PTL DEF Spec, MergeKeepsSubtree

-----------------------------------------------------------------------------
(* The forest, when one request edits at a time.                           *)

SerialInv == RefInv /\ EditInv /\ IsForest(parent)

\* The walks that module TopicForest speaks of are the same.
LEMMA SameBelow == \A par, t : Forest!Below(par, t) = Below(par, t)
BY DEF Forest!Below, Below, Forest!Closed, Closed

\* Whole edits keep a forest.
LEMMA WholeEdits ==
    ASSUME TypeOK, NoDangling, IsForest(parent), Forest!Next
    PROVE  IsForest(parent')
<1>1. parent \in Parents /\ topics \subseteq Topics
  BY DEF TypeOK, Parents
<1>2. ASSUME NEW t \in Topics, NEW q \in TopicOrNone, Forest!Grow(t, q)
      PROVE  IsForest(parent')
  <2>1. t \notin topics /\ t # NoTopic /\ q # t
    BY <1>2, NoTopicAssumption DEF Forest!Grow
  <2>2. \A x \in Topics : parent[x] # t
    BY <2>1 DEF NoDangling
  <2> QED
    BY <1>1, <1>2, <2>1, <2>2, LeafForest DEF Forest!Grow
<1>3. ASSUME NEW t \in Topics, NEW q \in TopicOrNone, Forest!Move(t, q)
      PROVE  IsForest(parent')
  BY <1>1, <1>3, MoveForest, SameBelow DEF Forest!Move
<1>4. ASSUME NEW t \in Topics, Forest!Dissolve(t)
      PROVE  IsForest(parent')
  BY <1>1, <1>4, DissolveForest DEF Forest!Dissolve
<1>5. ASSUME NEW s \in Topics, NEW t \in Topics, Forest!Fuse(s, t)
      PROVE  IsForest(parent')
  BY <1>1, <1>5, FuseForest, SameBelow DEF Forest!Fuse
<1> QED
  BY <1>2, <1>3, <1>4, <1>5 DEF Forest!Next, TopicOrNone

\* When a merge commits on what it has read, it is one whole merge.
LEMMA CommitMergeFuses ==
    ASSUME SerialInv, NEW e \in Editors, CommitMerge(e)
    PROVE  Forest!Next
<1> DEFINE s == edit[e].topic
           t == edit[e].other
           above == edit[e].above
           placed == Spliced(s, t, above)
           moved == Adopted(placed, s, t)
<1>1. s \in topics /\ t \in topics \ {s} /\ above = parent[s] /\ topics \subseteq Topics
  BY DEF SerialInv, EditInv, CommitMerge, RefInv, TypeOK
<1>2. parent' = DropParents(moved, s) /\ topics' = topics \ {s}
  BY DEF CommitMerge, DropTopic
<1>3. parent \in [Topics -> TopicOrNone]
  BY DEF SerialInv, RefInv, TypeOK
<1>4. parent[s] # s
  BY <1>1, ParentNotBelow, BelowSelf DEF SerialInv
<1>5. t \notin Below(parent, s) => parent[t] # s
  BY <1>1, BelowSelf, BelowClosed DEF Closed
<1>6. \A x \in Topics : placed[x] = IF x = t /\ t \in Below(parent, s) THEN parent[s]
                                   ELSE parent[x]
  BY <1>1, <1>3 DEF Spliced
<1>7. parent' = [x \in Topics |-> IF x = s THEN NoTopic
                                  ELSE IF x = t /\ t \in Below(parent, s) THEN parent[s]
                                  ELSE IF parent[x] = s THEN t
                                  ELSE parent[x]]
  <2>1. parent' = [x \in Topics |-> IF x = s \/ moved[x] = s THEN NoTopic ELSE moved[x]]
    BY <1>2 DEF DropParents
  <2>2. moved = [x \in Topics |-> IF placed[x] = s THEN t ELSE placed[x]]
    BY DEF Adopted
  <2> QED
    BY <2>1, <2>2, <1>1, <1>4, <1>5, <1>6
<1>8. Forest!Fuse(s, t)
  BY <1>1, <1>2, <1>7, SameBelow DEF Forest!Fuse
<1> QED
  BY <1>1, <1>8 DEF Forest!Next

LEMMA CommitDeleteDissolves ==
    ASSUME SerialInv, NEW e \in Editors, CommitDelete(e)
    PROVE  Forest!Next
<1> DEFINE t == edit[e].topic
           above == edit[e].above
           promoted == Promoted(t, above)
<1>1. t \in topics /\ above = parent[t] /\ topics \subseteq Topics
  BY DEF SerialInv, EditInv, CommitDelete, RefInv, TypeOK
<1>2. parent' = DropParents(promoted, t) /\ topics' = topics \ {t}
  BY DEF CommitDelete, DropTopic
<1>3. parent[t] # t
  BY <1>1, ParentNotBelow, BelowSelf DEF SerialInv
<1>4. parent' = [x \in Topics |-> IF x = t THEN NoTopic
                                  ELSE IF parent[x] = t THEN parent[t] ELSE parent[x]]
  BY <1>1, <1>2, <1>3 DEF DropParents, Promoted
<1>5. Forest!Dissolve(t)
  BY <1>1, <1>2, <1>4 DEF Forest!Dissolve
<1> QED
  BY <1>1, <1>5 DEF Forest!Next

\* An INSERT is a whole edit, and spoils nothing that a handler has checked.
LEMMA NewTopicGrows ==
    ASSUME SerialInv, NEW t \in Topics, NEW n, NEW q, NewTopic(t, n, q)
    PROVE  Forest!Next
<1>1. t \in Topics \ topics /\ q \in topics \cup {NoTopic} /\ topics \subseteq Topics
  BY DEF NewTopic, Exists, SerialInv, RefInv, TypeOK
<1>2. Forest!Grow(t, q)
  BY <1>1 DEF NewTopic, Forest!Grow
<1> QED
  BY <1>1, <1>2 DEF Forest!Next

LEMMA NewTopicChecks ==
    ASSUME SerialInv, NEW t \in Topics, NEW n, NEW q, NewTopic(t, n, q), edit' = edit
    PROVE  EditInv'
<1>1. /\ t \notin topics /\ t # NoTopic
      /\ topics' = topics \cup {t}
      /\ parent' = [parent EXCEPT ![t] = q]
      /\ parent \in Parents /\ topics \subseteq Topics
  BY NoTopicAssumption DEF NewTopic, SerialInv, RefInv, TypeOK, Parents
<1>2. \A x \in Topics : parent[x] # t
  BY <1>1 DEF SerialInv, RefInv, NoDangling
<1>3. \A u \in Topics : Below(parent', u) \subseteq Below(parent, u) \cup {t}
  BY <1>1, <1>2, BelowGrow
<1>4. \A u \in topics : parent'[u] = parent[u]
  BY <1>1 DEF Parents
<1>5. ASSUME NEW e \in Editors, edit[e].op = "reparent"
      PROVE  /\ edit[e].topic \in topics'
             /\ edit[e].other \in topics' \cup {NoTopic}
             /\ edit[e].other \notin Below(parent', edit[e].topic)
  <2>1. /\ edit[e].topic \in topics /\ edit[e].other \in topics \cup {NoTopic}
        /\ edit[e].other \notin Below(parent, edit[e].topic)
    BY <1>5 DEF SerialInv, EditInv, Exists
  <2> QED
    BY <1>1, <1>3, <2>1
<1>6. ASSUME NEW e \in Editors, edit[e].op \in {"merge", "delete"}
      PROVE  /\ edit[e].topic \in topics' /\ edit[e].above = parent'[edit[e].topic]
             /\ edit[e].op = "merge" => edit[e].other \in topics' \ {edit[e].topic}
  BY <1>1, <1>4, <1>6 DEF SerialInv, EditInv
<1> QED
  BY <1>5, <1>6 DEF EditInv, Exists

\* Every step of the handlers and the worker is a whole edit or changes no row
\* of topics, and leaves the checks of the other handlers true.
LEMMA SerialStep ==
    ASSUME SerialEdits, SerialInv, [Next]_vars
    PROVE  /\ Forest!Next \/ UNCHANGED <<topics, parent>>
           /\ EditInv'
<1>1. \A e \in Editors : Finish(e) => EditInv'
  BY DEF Finish, Idle, EditInv, SerialEdits, SerialInv, RefInv, TypeOK
<1>2. UNCHANGED <<topics, parent, edit>> => EditInv'
  BY DEF SerialInv, EditInv, Exists
<1>3. CASE Tagging
  <2>1. ASSUME NEW p \in Papers, NEW chosen \in SUBSET Topics, ApplyReuse(p, chosen)
        PROVE  UNCHANGED <<topics, parent, edit>>
    BY <2>1 DEF ApplyReuse
  <2>2. ASSUME NEW p \in Papers, NEW chosen \in SUBSET Topics, NEW t \in Topics \ spent,
               NEW n \in Names, NEW q \in TopicOrNone, ApplyProposal(p, chosen, t, n, q)
        PROVE  Forest!Next /\ EditInv'
    BY <2>2, NewTopicGrows, NewTopicChecks DEF ApplyProposal
  <2> QED
    BY <1>2, <1>3, <2>1, <2>2 DEF Tagging
<1>4. CASE SmallEdit
  <2>1. ASSUME NEW t \in Topics \ spent, NEW n \in Names, NEW q \in TopicOrNone,
               CreateTopic(t, n, q)
        PROVE  Forest!Next /\ EditInv'
    BY <2>1, NewTopicGrows, NewTopicChecks DEF CreateTopic
  <2>2. CASE \/ \E t \in Topics, n \in Names : RenameTopic(t, n)
             \/ \E p \in Papers, t \in Topics : AddPaperTopic(p, t) \/ RemovePaperTopic(p, t)
    BY <1>2, <2>2 DEF RenameTopic, AddPaperTopic, RemovePaperTopic
  <2> QED
    BY <1>4, <2>1, <2>2 DEF SmallEdit
<1>5. ASSUME NEW e \in Editors, CheckedEdit(e)
      PROVE  /\ Forest!Next \/ UNCHANGED <<topics, parent>>
             /\ EditInv'
  <2>0. \A f \in Editors : f = e
    BY DEF SerialEdits
  <2>1. ASSUME NEW t \in Topics, NEW q \in TopicOrNone, CheckReparent(e, t, q)
        PROVE  UNCHANGED <<topics, parent>> /\ EditInv'
    <3>1. edit'[e].op = "reparent" /\ edit'[e].topic = t /\ edit'[e].other = q
      BY <2>1 DEF CheckReparent, Begin, SerialInv, RefInv, TypeOK
    <3>2. UNCHANGED <<topics, parent>> /\ t \in topics /\ Exists(q) /\ q \notin Below(parent, t)
      BY <2>1 DEF CheckReparent
    <3> QED
      BY <2>0, <3>1, <3>2 DEF EditInv, Exists
  <2>2. CASE WriteReparent(e)
    <3> DEFINE t == edit[e].topic
               q == edit[e].other
    <3>1. t \in topics /\ q \in (topics \cup {NoTopic}) \ Below(parent, t) /\ topics \subseteq Topics
      BY <2>2 DEF WriteReparent, SerialInv, EditInv, Exists, RefInv, TypeOK
    <3>2. Forest!Move(t, q)
      BY <2>2, <3>1, SameBelow DEF WriteReparent, Forest!Move
    <3>3. Forest!Next
      BY <3>1, <3>2 DEF Forest!Next
    <3> QED
      BY <1>1, <2>2, <3>3 DEF WriteReparent
  <2>3. ASSUME NEW s \in Topics, NEW t \in Topics, ReadMerge(e, s, t)
        PROVE  UNCHANGED <<topics, parent>> /\ EditInv'
    <3>1. /\ edit'[e].op = "merge" /\ edit'[e].topic = s /\ edit'[e].other = t
          /\ edit'[e].above = parent[s]
      BY <2>3 DEF ReadMerge, Begin, SerialInv, RefInv, TypeOK
    <3>2. UNCHANGED <<topics, parent>> /\ s \in topics /\ t \in topics \ {s}
      BY <2>3 DEF ReadMerge
    <3> QED
      BY <2>0, <3>1, <3>2 DEF EditInv
  <2>4. CASE CommitMerge(e)
    BY <1>1, <2>4, CommitMergeFuses DEF CommitMerge
  <2>5. ASSUME NEW t \in Topics, ReadDelete(e, t)
        PROVE  UNCHANGED <<topics, parent>> /\ EditInv'
    <3>1. edit'[e].op = "delete" /\ edit'[e].topic = t /\ edit'[e].above = parent[t]
      BY <2>5 DEF ReadDelete, Begin, SerialInv, RefInv, TypeOK
    <3>2. UNCHANGED <<topics, parent>> /\ t \in topics
      BY <2>5 DEF ReadDelete
    <3> QED
      BY <2>0, <3>1, <3>2 DEF EditInv
  <2>6. CASE CommitDelete(e)
    BY <1>1, <2>6, CommitDeleteDissolves DEF CommitDelete
  <2>7. ASSUME NEW t \in Topics, NEW n \in Names, NEW selected \in SUBSET Papers,
               CheckSplit(e, t, n, selected)
        PROVE  UNCHANGED <<topics, parent>> /\ EditInv'
    <3>1. edit'[e].op = "split" /\ UNCHANGED <<topics, parent>>
      BY <2>7 DEF CheckSplit, SerialInv, RefInv, TypeOK
    <3> QED
      BY <2>0, <3>1 DEF EditInv
  <2>8. ASSUME NEW t \in Topics, CommitSplit(e, t)
        PROVE  Forest!Next /\ EditInv'
    BY <1>1, <2>8, NewTopicGrows DEF CommitSplit
  <2>9. CASE Rollback(e)
    BY <1>1, <2>9 DEF Rollback
  <2> QED
    BY <1>5, <2>1, <2>2, <2>3, <2>4, <2>5, <2>6, <2>7, <2>8, <2>9 DEF CheckedEdit
<1>6. CASE UNCHANGED vars
  BY <1>2, <1>6 DEF vars
<1> QED
  BY <1>3, <1>4, <1>5, <1>6 DEF Next

LEMMA SerialInvariant == ASSUME SerialEdits PROVE Spec => []SerialInv
<1>1. Init => SerialInv
  <2> SUFFICES ASSUME Init PROVE SerialInv
    OBVIOUS
  <2>1. RefInv
    BY InitRefs
  <2>2. EditInv
    BY DEF Init, EditInv, Idle
  <2>3. IsForest(parent)
    BY NoTopicAssumption DEF Init, IsForest
  <2> QED
    BY <2>1, <2>2, <2>3 DEF SerialInv
<1>2. SerialInv /\ [Next]_vars => SerialInv'
  <2> SUFFICES ASSUME SerialInv, [Next]_vars PROVE SerialInv'
    OBVIOUS
  <2>1. RefInv'
    BY TypeStep, EditShapeStep, RefStep DEF RefInv, SerialInv
  <2>2. (Forest!Next \/ UNCHANGED <<topics, parent>>) /\ EditInv'
    BY SerialStep
  <2>3. IsForest(parent')
    BY <2>2, WholeEdits DEF SerialInv, RefInv
  <2> QED
    BY <2>1, <2>2, <2>3 DEF SerialInv
<1> QED
  BY <1>1, <1>2, PTL DEF Spec

\* reparent_topic is "cycle-safe", and so are merges, deletions and splits, as
\* long as one request edits at a time.
THEOREM SerialAcyclic == ASSUME SerialEdits PROVE Spec => []Acyclic
<1>1. SerialInv => Acyclic
  BY DEF SerialInv, Acyclic
<1> QED
  BY <1>1, SerialInvariant, PTL

\* One request at a time, the handlers and the worker implement whole edits of
\* a forest, although each edit is a read, a check and a later write.
THEOREM ImplementsForest == ASSUME SerialEdits PROVE Spec => ForestSpec
<1>1. Init => Forest!Init
  BY DEF Init, Forest!Init
<1>2. SerialInv /\ [Next]_vars => [Forest!Next]_<<topics, parent>>
  BY SerialStep
<1> QED
  BY <1>1, <1>2, SerialInvariant, PTL DEF Spec, ForestSpec, Forest!Spec

\* A forest without one topic, whose children went to its parent: the others
\* are below each other as they were.
LEMMA DissolveKeepsBelow ==
    ASSUME NEW par \in Parents, NEW t \in Topics, par[t] # t, NEW new,
           new = [x \in Topics |-> IF x = t THEN NoTopic
                                   ELSE IF par[x] = t THEN par[t] ELSE par[x]],
           NEW x \in Topics \ {t}, NEW y \in Topics \ {t}
    PROVE  y \in Below(par, x) <=> y \in Below(new, x)
<1>1. ASSUME y \in Below(par, x), NEW S \in SUBSET Topics, x \in S, Closed(new, S)
      PROVE  y \in S
  <2> DEFINE rest == S \ {t}
             whole == rest \cup (IF par[t] \in rest THEN {t} ELSE {})
  <2>1. whole \in SUBSET Topics /\ x \in whole
    BY <1>1
  <2>2. ASSUME NEW z \in Topics \ {t}, new[z] \in rest
        PROVE  z \in rest
    BY <1>1, <2>2 DEF Closed
  <2>3. ASSUME NEW z \in Topics, par[z] \in whole
        PROVE  z \in whole
    <3>1. CASE z = t
      BY <2>3, <3>1
    <3>2. CASE z # t /\ par[z] = t
      <4>1. par[t] \in rest /\ new[z] = par[t]
        BY <2>3, <3>2
      <4>2. QED
        BY <4>1, <2>2, <3>2
    <3>3. CASE z # t /\ par[z] # t
      <4>1. par[z] \in rest /\ new[z] = par[z]
        BY <2>3, <3>3
      <4>2. QED
        BY <4>1, <2>2, <3>3
    <3>4. QED
      BY <3>1, <3>2, <3>3
  <2>4. Closed(par, whole)
    BY <2>3 DEF Closed
  <2>5. y \in whole
    BY <1>1, <2>1, <2>4 DEF Below
  <2>6. QED
    BY <2>5
<1>2. ASSUME y \in Below(new, x), NEW S \in SUBSET Topics, x \in S, Closed(par, S)
      PROVE  y \in S
  <2>1. ASSUME NEW z \in Topics, new[z] \in S
        PROVE  z \in S
    <3>1. z # t
      BY <2>1, NoTopicAssumption
    <3>2. CASE par[z] = t
      BY <1>2, <2>1, <3>1, <3>2 DEF Closed
    <3>3. CASE par[z] # t
      BY <1>2, <2>1, <3>1, <3>3 DEF Closed
    <3>4. QED
      BY <3>2, <3>3
  <2>2. QED
    BY <1>2, <2>1 DEF Below, Closed
<1> QED
  BY <1>1, <1>2 DEF Below

\* delete_topic: the "rest of the curated hierarchy stays intact", with one
\* checked edit at a time and any one-statement edits and batches in between.
THEOREM DeleteIsLocal == ASSUME SerialEdits PROVE Spec => DeleteKeepsRest
<1>1. ASSUME SerialInv, [Next]_vars, NEW e \in Editors, edit[e].op = "delete",
             edit[e].topic \in topics \ topics', edit'[e] = Idle,
             NEW x \in topics', NEW y \in topics'
      PROVE  y \in Below(parent, x) <=> y \in Below(parent', x)
  <2> DEFINE t == edit[e].topic
  <2>1. edit[e] # Idle /\ topics' # topics
    BY <1>1 DEF Idle
  <2>2. CommitMerge(e) \/ CommitDelete(e) \/ \E u \in Topics : CommitSplit(e, u)
    BY <1>1, <2>1, OwnEnding DEF SerialInv, RefInv
  <2>3. CommitDelete(e)
    BY <1>1, <2>2 DEF CommitMerge, CommitSplit
  <2>4. /\ t \in topics /\ edit[e].above = parent[t] /\ topics \subseteq Topics
        /\ parent \in Parents
    BY <1>1 DEF SerialInv, EditInv, RefInv, TypeOK, Parents
  <2>5. parent[t] # t
    BY <1>1, <2>4, ParentNotBelow, BelowSelf DEF SerialInv
  <2>6. /\ parent' = DropParents(Promoted(t, edit[e].above), t)
        /\ topics' = topics \ {t}
    BY <2>3 DEF CommitDelete, DropTopic
  <2>7. parent' = [z \in Topics |-> IF z = t THEN NoTopic
                                    ELSE IF parent[z] = t THEN parent[t] ELSE parent[z]]
    BY <2>4, <2>5, <2>6 DEF DropParents, Promoted
  <2>8. x \in Topics \ {t} /\ y \in Topics \ {t}
    BY <1>1, <2>4, <2>6
  <2> QED
    BY <2>4, <2>5, <2>7, <2>8, DissolveKeepsBelow
<1>2. SerialInv /\ [Next]_vars =>
        [\A e \in Editors :
            edit[e].op = "delete" /\ edit[e].topic \in topics \ topics' /\ edit'[e] = Idle =>
                \A x, y \in topics' :
                    y \in Below(parent, x) <=> y \in Below(parent', x)]_vars
  BY <1>1
<1> QED
  BY <1>2, SerialInvariant, PTL DEF Spec, DeleteKeepsRest
=============================================================================
