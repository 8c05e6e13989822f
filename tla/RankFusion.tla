------------------------------ MODULE RankFusion ------------------------------
(***************************************************************************)
(* Ranking and budgets of services/qa.py as operators: the vector ranking  *)
(* under a topic scope, reciprocal-rank fusion, the context budget and the *)
(* bound on the conversation.  A text is its length.                       *)
(***************************************************************************)
EXTENDS Lists, SequencesExt

CONSTANT Scale      \* a common multiple of the denominators of all ranks

RRF_RANK_CONSTANT == 60

FirstOf(s, n) == SubSeq(s, 1, Smaller(n, Len(s)))

-----------------------------------------------------------------------------
\* Mutant: a global top-k is filtered by the topic.
VectorRanking_GlobalTopK(nearest, scoped, tagged, limit) ==
    LET rows == FirstOf(nearest, limit)
        allowed == At(rows, {i \in DOMAIN rows : ~scoped \/ rows[i] \in tagged})
    IN  FirstOf(allowed, limit)

\* _vector_ranking: the whole distance ordering when there is a topic.
VectorRanking(nearest, scoped, tagged, limit) ==
    LET rows == FirstOf(nearest, IF scoped THEN Len(nearest) ELSE limit)
        allowed == At(rows, {i \in DOMAIN rows : ~scoped \/ rows[i] \in tagged})
    IN  FirstOf(allowed, limit)

RankIn(ranking, p) == SelectInSeq(ranking, LAMBDA x : x = p)
IsIn(ranking, p) == p \in ToSet(ranking)

\* One list's share in a score: 1 / (60 + rank), in units of 1 / Scale.
Share(ranking, p) ==
    IF IsIn(ranking, p) THEN Scale \div (RRF_RANK_CONSTANT + RankIn(ranking, p)) ELSE 0

Score(vector, fts, p) == Share(vector, p) + Share(fts, p)

BestRank(vector, fts, p) ==
    Min({RankIn(r, p) : r \in {r \in {vector, fts} : IsIn(r, p)}})

\* reciprocal_rank_fusion: by score, then best rank, then id.
Fused(vector, fts, limit) ==
    LET Before(p, r) ==
            LET sp == Score(vector, fts, p)  sr == Score(vector, fts, r)
                bp == BestRank(vector, fts, p)  br == BestRank(vector, fts, r)
            IN  sp > sr \/ (sp = sr /\ (bp < br \/ (bp = br /\ p < r)))
    IN  FirstOf(InOrder(ToSet(vector) \cup ToSet(fts), Before), limit)

-----------------------------------------------------------------------------
(* A section is its length; a paper's material its score and sections.     *)

Overhead == 48      \* added to title, section and text by context_chars

ContextChars(material, label) ==
    TotalOf([k \in DOMAIN material.sections |-> material.sections[k] + label + Overhead])

Total(materials, label) ==
    TotalOf([i \in DOMAIN materials |-> ContextChars(materials[i], label)])

\* The papers that are kept are a set of places in the list.  min by
\* (score, -index): of two equal papers the later one goes.
Weakest(materials, kept) ==
    CHOOSE i \in kept :
        \A j \in kept :
            \/ materials[i].score < materials[j].score
            \/ materials[i].score = materials[j].score /\ i >= j

Evict(materials, kept, label, budget) ==
    IF Cardinality(kept) > 1 /\ Total(At(materials, kept), label) > budget
    THEN kept \ {Weakest(materials, kept)} ELSE kept

\* The while loop: it takes no more rounds than there are papers.
Survivors(materials, label, budget) ==
    LET kept[n \in 0..Len(materials)] ==
            IF n = 0 THEN DOMAIN materials ELSE Evict(materials, kept[n - 1], label, budget)
    IN  kept[Len(materials)]

\* One section of the paper that is cut, with what remains of the budget.
TakeSection(state, chars, label) ==
    LET available == state.remaining - label - Overhead
        text == Smaller(chars, available)
    IN  IF state.full \/ available <= 0 THEN [state EXCEPT !.full = TRUE]
        ELSE [remaining |-> available - text, sections |-> Append(state.sections, text),
              full |-> FALSE]

\* Mutant: the last paper is evicted like the others instead of cut.
Trimmed_Drops(material, label, budget) == <<>>

\* The sections of the one paper left, in order, as far as they fit.
Trimmed(material, label, budget) ==
    LET fit[n \in 0..Len(material.sections)] ==
            IF n = 0 THEN [remaining |-> budget, sections |-> <<>>, full |-> FALSE]
            ELSE TakeSection(fit[n - 1], material.sections[n], label)
        sections == fit[Len(material.sections)].sections
    IN  IF sections = <<>> THEN <<>> ELSE <<[material EXCEPT !.sections = sections]>>

\* budget_grounding_material.
Budgeted(materials, label, budget) ==
    LET kept == At(materials, Survivors(materials, label, budget))
    IN  IF kept = <<>> \/ Total(kept, label) <= budget THEN kept
        ELSE Trimmed(kept[1], label, budget)

\* A message, newer ones first; one that does not fit is cut from the front.
KeepMessage(state, chars) ==
    LET text == Smaller(chars, state.remaining)
    IN  IF chars = 0 \/ state.remaining = 0 THEN state
        ELSE [remaining |-> state.remaining - text, kept |-> <<text>> \o state.kept]

KeptOf(messages, budget) ==
    LET back[n \in 0..Len(messages)] ==
            IF n = 0 THEN [remaining |-> budget, kept |-> <<>>]
            ELSE KeepMessage(back[n - 1], messages[Len(messages) - n + 1])
    IN  back[Len(messages)].kept

\* Mutant: the number of messages is not limited.
BoundHistory_AllMessages(messages, most, budget) == KeptOf(messages, budget)

\* _bound_history: the newest messages.
BoundHistory(messages, most, budget) ==
    LET recent == SubSeq(messages, IF Len(messages) > most THEN Len(messages) - most + 1 ELSE 1,
                         Len(messages))
    IN  IF most = 0 \/ budget = 0 THEN <<>> ELSE KeptOf(recent, budget)
=============================================================================
