------------------------------ MODULE Grounding ------------------------------
(***************************************************************************)
(* The preparation of a grounded answer (services/qa.py): the candidates   *)
(* of a collection question, or the tree of one paper and the sections the *)
(* model picks from it, the material gathered, and the prompt's budgets.   *)
(*                                                                         *)
(* One question, one step per stage; AnswerStream has the interleaving.    *)
(* Papers are 1..NPapers.  A text is its length in characters, all labels  *)
(* (a title and a section's name) have one length, and white space that    *)
(* strip removes is not counted.                                           *)
(***************************************************************************)
EXTENDS TreeIndex, RankFusion

CONSTANTS
    NPapers,            \* papers of the library
    CandidateK,         \* qa_candidate_k
    MaxNavigations,     \* qa_max_navigations
    SectionsPerPaper,   \* qa_sections_per_paper
    SectionBudget,      \* qa_section_budget_chars
    ContextBudget,      \* qa_context_budget_chars
    HistoryMessages,    \* qa_history_messages
    HistoryBudget,      \* qa_history_budget_chars
    MaxEntries,         \* bookmarks of a paper
    Levels,             \* levels of bookmarks
    TargetPages,        \* pages that bookmarks point to
    HeadingCounts,      \* for each page, the headings found on it
    Replies,            \* node ids that the model may reply with
    NPages,             \* pages of the paper
    PageTexts,          \* for each page, the length of its text
    SummaryChars,       \* length of a summary or an abstract
    LabelChars,         \* characters of a title and a section's name
    Evidence,           \* sections that a candidate's paper may give
    Histories           \* earlier messages of the conversation

ASSUME BoundsAssumption ==
    {NPapers, CandidateK, MaxNavigations, SectionsPerPaper, SectionBudget, ContextBudget,
     HistoryMessages, HistoryBudget, MaxEntries, NPages, SummaryChars, LabelChars} \subseteq Nat

\* A share in a score is a number of parts of 1 / Scale.
ASSUME ScaleAssumption ==
    /\ Scale \in Nat \ {0}
    /\ \A k \in 1..CandidateK : Scale % (RRF_RANK_CONSTANT + k) = 0

ASSUME PagesAssumption == HeadingCounts \cup PageTexts \subseteq [1..NPages -> Nat]

ASSUME InputsAssumption ==
    /\ Levels \subseteq Nat /\ TargetPages \subseteq Int
    /\ Replies \subseteq Seq(Nat) /\ Histories \subseteq Seq(Nat)
    /\ Evidence \subseteq Seq(Nat \ {0})

Papers == 1..NPapers

VARIABLES
    stage,      \* what has been done for the question
    ranking,    \* the rankings that the candidates come from
    candidates, \* the papers to consult, with their scores
    outline,    \* the bookmarks of the paper asked about
    tree,       \* its stored tree, or the nodes picked from it
    paper,      \* what the library holds about it
    materials,  \* for each paper its score and sections, as their lengths
    history     \* earlier messages in the prompt, as their lengths

vars == <<stage, ranking, candidates, outline, tree, paper, materials, history>>

NoRanking == [vector |-> <<>>, fts |-> <<>>, nearest |-> <<>>, allowed |-> {}]
NoPaper == [pdf |-> FALSE, page |-> <<>>, full |-> 0, summary |-> 0, abstract |-> 0]

Init ==
    /\ stage = "asked"
    /\ ranking = NoRanking
    /\ candidates = <<>> /\ outline = <<>> /\ tree = <<>>
    /\ paper = NoPaper
    /\ materials = <<>> /\ history = <<>>

Reach(from, to) == stage = from /\ stage' = to

RankingsOf(set) == UNION {SetToSeqs(s) : s \in SUBSET set}

-----------------------------------------------------------------------------
(* A question to the collection.                                           *)

\* hybrid_candidates: a paper has a vector or not, matches the words or not,
\* and is below the topic of the scope or not.
hybrid_candidates ==
    /\ Reach("asked", "ranked")
    /\ \E scoped \in BOOLEAN, tagged \in SUBSET Papers :
       \E nearest \in RankingsOf(Papers) :
       \E fts \in RankingsOf(IF scoped THEN tagged ELSE Papers) :
          LET vector == VectorRanking(nearest, scoped, tagged, CandidateK)
              words == FirstOf(fts, CandidateK)
          IN  /\ scoped \/ tagged = {}
              /\ ranking' = [vector |-> vector, fts |-> words, nearest |-> nearest,
                             allowed |-> IF scoped THEN tagged ELSE Papers]
              /\ candidates' = [i \in DOMAIN Fused(vector, words, CandidateK) |->
                    LET p == Fused(vector, words, CandidateK)[i]
                    IN  [id |-> p, score |-> Score(vector, words, p)]]
    /\ UNCHANGED <<outline, tree, paper, materials, history>>

\* gather_grounding_material_for_paper for the first of the candidates, one
\* after the other.  What a paper gives is GatherPaper's subject.
GatherCollection ==
    /\ stage = "ranked"
    /\ IF Len(materials) = Smaller(MaxNavigations, Len(candidates))
       THEN /\ stage' = "gathered"
            /\ UNCHANGED materials
       ELSE /\ \E sections \in Evidence :
                  materials' = Append(materials,
                      [score |-> candidates[Len(materials) + 1].score,
                       sections |-> sections])
            /\ UNCHANGED stage
    /\ ranking' = NoRanking
    /\ UNCHANGED <<candidates, outline, tree, paper, history>>

-----------------------------------------------------------------------------
(* A question about one paper.                                             *)

\* The tree that HeuristicTreeIndexer made of the paper's PDF when it was
\* ingested.  A bookmark without a title is skipped, so levels may be skipped.
BuildPaperTree ==
    /\ Reach("asked", "indexed")
    /\ \E n \in 0..MaxEntries :
       \E bookmarks \in [1..n -> {Entry(l, p) : l \in Levels, p \in TargetPages}] :
       \E found \in HeadingCounts :
          /\ outline' = bookmarks
          /\ tree' = BuildTree(bookmarks, found)
    /\ UNCHANGED <<ranking, candidates, paper, materials, history>>

\* The model's selection, or the nodes that share a word with the question.
NavigatePaper ==
    /\ Reach("indexed", "navigated")
    /\ \E reply \in Replies, hit \in {{}, DOMAIN tree, {Len(tree)} \ {0}} :
          LET words == [i \in DOMAIN tree |-> IF i \in hit THEN i ELSE 0]
              picked == navigate(reply, words, tree, SectionsPerPaper)
          IN  tree' = [k \in DOMAIN picked |->
                          [tree[picked[k]] EXCEPT !.parent = 0]]
    /\ outline' = <<>>
    /\ UNCHANGED <<ranking, candidates, paper, materials, history>>

\* A paper that has no tree, or no node, is not navigated.
NoTree ==
    /\ Reach("asked", "navigated")
    /\ UNCHANGED <<ranking, candidates, outline, tree, paper, materials, history>>

NonEmpty(texts) == At(texts, {k \in DOMAIN texts : texts[k] > 0})

PerSection(n) == Larger(500, SectionBudget \div n)

\* _pages_for_nodes: the pages of each node, as far as its share goes.
PagesForNodes(nodes, page) ==
    NonEmpty([k \in DOMAIN nodes |->
        Smaller(PerSection(Len(nodes)),
                TotalOf(At(page, PagesOf(nodes[k], Len(page)))))])

\* _text_for_nodes: the stored text from the node's title on, or from its
\* start if the title does not occur in it.
TextForNodes(nodes, full, found) ==
    NonEmpty([k \in DOMAIN nodes |->
        Smaller(PerSection(Len(nodes)), IF k \in found THEN full \div 2 ELSE full)])

\* Mutant: with a PDF at hand the stored text is not tried.
Excerpts_PdfOnly(nodes, held, found) ==
    IF nodes # <<>> /\ held.pdf THEN PagesForNodes(nodes, held.page)
    ELSE IF nodes # <<>> THEN TextForNodes(nodes, held.full, found)
    ELSE IF held.full > 0 THEN <<Smaller(held.full, SectionBudget)>>
    ELSE <<>>

\* The PDF's pages, else the stored text at the nodes, else its beginning.
Excerpts(nodes, held, found) ==
    LET pages == IF held.pdf THEN PagesForNodes(nodes, held.page) ELSE <<>>
        text == TextForNodes(nodes, held.full, found)
    IN  IF nodes # <<>> /\ pages # <<>> THEN pages
        ELSE IF nodes # <<>> /\ text # <<>> THEN text
        ELSE NonEmpty(<<Smaller(held.full, SectionBudget)>>)

\* gather_grounding_material_for_paper: the long summary comes first, the
\* abstract stands in for everything else.
Sections(nodes, held, found) ==
    LET excerpts == NonEmpty(<<held.summary>>) \o Excerpts(nodes, held, found)
    IN  IF excerpts = <<>> THEN NonEmpty(<<held.abstract>>) ELSE excerpts

\* What is held of a paper: a PDF that may be gone, the text that was extracted
\* from it unless its ingest failed before, a summary and an abstract.
HoldPaper ==
    /\ Reach("navigated", "held")
    /\ \E page \in PageTexts, pdf, extracted \in BOOLEAN :
       \E summary, abstract \in {0, SummaryChars} :
          paper' = [pdf |-> pdf, page |-> page,
                    full |-> IF extracted THEN TotalOf(page) ELSE 0,
                    summary |-> summary, abstract |-> abstract]
    /\ UNCHANGED <<ranking, candidates, outline, tree, materials, history>>

GatherPaper ==
    /\ Reach("held", "gathered")
    /\ \E found \in SUBSET DOMAIN tree :
          materials' = <<[score |-> Scale, sections |-> Sections(tree, paper, found)]>>
    /\ UNCHANGED <<ranking, candidates, outline, tree, paper, history>>

\* A PDF that is there but cannot be opened makes extract_text raise, for the
\* paper asked about or for a candidate, and the question fails with it.
UnreadablePdf ==
    /\ \/ stage = "held" /\ tree # <<>> /\ paper.pdf
       \/ stage = "ranked" /\ Len(materials) < Smaller(MaxNavigations, Len(candidates))
    /\ stage' = "failed"
    /\ ranking' = NoRanking /\ candidates' = <<>> /\ tree' = <<>>
    /\ paper' = NoPaper /\ materials' = <<>>
    /\ UNCHANGED <<outline, history>>

-----------------------------------------------------------------------------
(* The prompt.                                                             *)

\* budget_grounding_material and _bound_history.
BuildPrompt ==
    /\ Reach("gathered", "prepared")
    /\ materials' = Budgeted(materials, LabelChars, ContextBudget)
    /\ \E messages \in Histories :
          history' = BoundHistory(messages, HistoryMessages, HistoryBudget)
    /\ tree' = <<>> /\ paper' = NoPaper /\ candidates' = <<>>
    /\ UNCHANGED <<ranking, outline>>

Next ==
    \/ hybrid_candidates \/ GatherCollection
    \/ BuildPaperTree \/ NavigatePaper \/ NoTree \/ HoldPaper \/ GatherPaper
    \/ UnreadablePdf \/ BuildPrompt

Spec == Init /\ [][Next]_vars

-----------------------------------------------------------------------------
(* Properties.                                                             *)

Stages == {"asked", "ranked", "indexed", "navigated", "held", "gathered", "failed",
           "prepared"}
Material == [score : Nat, sections : Seq(Nat \ {0})]

TypeOK ==
    /\ stage \in Stages
    /\ ranking.vector \in Seq(Papers) /\ ranking.fts \in Seq(Papers)
    /\ ranking.nearest \in Seq(Papers) /\ ranking.allowed \subseteq Papers
    /\ candidates \in Seq([id : Papers, score : Nat \ {0}])
    /\ outline \in Seq([level : Levels, page : TargetPages])
    /\ tree \in Seq([parent : 0..Len(tree), start : Int, end : Int])
    /\ paper.pdf \in BOOLEAN /\ paper.full \in Nat
    /\ materials \in Seq(Material)
    /\ Len(materials) <= Larger(1, MaxNavigations)
    /\ history \in Seq(Nat \ {0}) /\ Len(history) <= HistoryMessages

\* The stack of _from_outline nests sections as their levels say, also when
\* levels are skipped, and the page ranges of _close_page_ranges leave out no
\* page between sections, also when bookmarks share a page, go backwards or
\* have no page.  Where a range ends is less than the docstring of
\* _close_page_ranges says: EndsBeforeNextSibling.
IndexFollowsOutline ==
    stage = "indexed" =>
        /\ outline # <<>> =>
              \A i \in DOMAIN tree : tree[i].parent = NearestAbove(outline, i)
        /\ CoversPages(tree, NPages)
        /\ \A i \in DOMAIN tree :
              tree[i].start \in 1..NPages => tree[i].start \in PagesOf(tree[i], NPages)

\* The docstring of _close_page_ranges: "Give each node an end_page: the page
\* before its next sibling starts", here only for bookmarks in the order of their
\* pages.  The code ends a section before the next one of any level, which for a
\* section with children is its own first child.
EndsBeforeNextSibling ==
    stage = "indexed" /\ (\A i, j \in DOMAIN outline : i < j =>
                              /\ 1 <= outline[i].page
                              /\ outline[i].page <= outline[j].page) =>
        \A i, j \in DOMAIN outline :
            IsNextSibling(tree, i, j) =>
                tree[i].end = Larger(tree[i].start, tree[j].start - 1)

\* Place of a paper among those in a ranking that the topic allows, or behind
\* them all.
Place(order, allowed, p) ==
    LET inside == At(order, {k \in DOMAIN order : order[k] \in allowed})
    IN  IF IsIn(inside, p) THEN RankIn(inside, p) ELSE NPapers + CandidateK + 1

\* A choice among the allowed papers is the best by two orders: one of both
\* comes before those of one, and none that both orders put further down is
\* preferred to one further up.
BestChoice(choice, near, words, allowed) ==
    LET chosen == {choice[i].id : i \in DOMAIN choice}
        Near(p) == Place(near, allowed, p)
        Worded(p) == Place(words, allowed, p)
        found == {p \in allowed : Near(p) <= CandidateK \/ Worded(p) <= CandidateK}
        Better(p, r) == Near(p) < Near(r) /\ Worded(p) < Worded(r)
        both == {p \in found : Near(p) <= CandidateK /\ Worded(p) <= CandidateK}
    IN
    /\ chosen \subseteq found
    /\ Cardinality(chosen) = Len(choice)
    /\ Len(choice) = Smaller(CandidateK, Cardinality(found))
    /\ \A i, j \in DOMAIN choice :
          i < j => /\ ~Better(choice[j].id, choice[i].id)
                   /\ choice[j].id \in both => choice[i].id \in both
    /\ \A p \in found \ chosen, r \in chosen : ~Better(p, r)

\* "The true top-k inside the subtree instead of filtering a global top-k":
\* the topic's papers are ranked as if there were no others.
CandidatesAreBest ==
    stage = "ranked" /\ materials = <<>> /\ ranking # NoRanking =>
        BestChoice(candidates, ranking.nearest, ranking.fts, ranking.allowed)

\* A question about a paper is answered from nothing only if the library holds
\* no text of it, neither extracted nor a summary nor the abstract, whatever
\* became of its tree and its PDF; and what it is answered from is limited.  (With
\* a PDF that cannot be opened it is not answered at all: UnreadablePdf.)
EvidenceIsUsed ==
    stage = "gathered" /\ paper # NoPaper =>
        LET sections == materials[1].sections
        IN  /\ sections = <<>> => paper.full + paper.summary + paper.abstract = 0
            /\ paper.summary > 0 => sections[1] = paper.summary
            /\ TotalOf(sections) <=
                  Larger(SectionBudget, 500 * SectionsPerPaper) + 2 * SummaryChars

\* The text that build_grounding_prompt makes of a section: the headings, the
\* line ends and the texts.
RenderedChars(kept) ==
    TotalOf([i \in DOMAIN kept |->
        TotalOf([k \in DOMAIN kept[i].sections |->
                        30 + LabelChars + kept[i].sections[k]])])

\* What budget_grounding_material makes of one paper that is too long: its first
\* sections, whole but for the last of them, which is cut only to fill the budget;
\* the rest is left out when the budget has no room for more than the labels of
\* another section, and the paper with it if that is so of the first.
IsCut(kept, whole) ==
    LET label == LabelChars + Overhead
    IN
    \/ kept = <<>> /\ ContextBudget <= label
    \/ /\ Len(kept) = 1 /\ kept[1].score = whole.score
       /\ LET cut == kept[1].sections
              n == Len(cut)
              chars == ContextChars(kept[1], LabelChars)
          IN
          /\ n \in 1..Len(whole.sections)
          /\ \A k \in 1..(n - 1) : cut[k] = whole.sections[k]
          /\ cut[n] = whole.sections[n] \/ (cut[n] < whole.sections[n] /\ chars = ContextBudget)
          /\ chars <= ContextBudget /\ ContextBudget <= chars + label

\* "Fit context by evicting weakest papers before trimming the strongest": the
\* prompt stays within its budget; no paper left out is stronger than one kept,
\* and the strongest of those left out did not fit beside the ones kept (a weaker
\* one that would fit is left out with it).  A paper is cut only when it is the
\* only one left, and then cut and not dropped, unless the budget has no room for
\* more than the labels of a section.  The conversation keeps within its budget.
StrongestFit ==
    [][ stage = "gathered" /\ stage' = "prepared" =>
        /\ RenderedChars(materials') <= ContextBudget
        /\ \E chosen \in SUBSET DOMAIN materials :
              LET left == DOMAIN materials \ chosen
                  whole == At(materials, chosen)
                  Weaker(i, j) == \/ materials[i].score < materials[j].score
                                  \/ materials[i].score = materials[j].score /\ i > j
              IN
              /\ materials # <<>> => chosen # {}
              /\ \A i \in chosen, j \in left : materials[i].score >= materials[j].score
              /\ \A j \in left :
                    (\A i \in left \ {j} : Weaker(i, j)) =>
                        Total(At(materials, chosen \cup {j}), LabelChars)
                            > ContextBudget
              /\ IF Total(whole, LabelChars) <= ContextBudget
                 THEN materials' = whole
                 ELSE Cardinality(chosen) = 1 /\ IsCut(materials', whole[1])
        /\ TotalOf(history') <= HistoryBudget
      ]_vars
=============================================================================
