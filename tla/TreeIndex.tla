------------------------------ MODULE TreeIndex ------------------------------
(***************************************************************************)
(* The section tree of a paper (services/tree_indexer.py): built from the  *)
(* bookmarks of the PDF, closed to page ranges, navigated by the model.    *)
(*                                                                         *)
(* A node is its position in the outline, which is also its id and its     *)
(* place in the preorder of iter_nodes.  Titles and summaries are left out.*)
(***************************************************************************)
EXTENDS Lists, SequencesExt

\* end_page before it is known; as in the code, a page 0 reads as none too.
NoPage == 0

\* OutlineEntry: extract_outline gives page -1 to a bookmark without target.
Entry(level, page) == [level |-> level, page |-> page]

NodeLevel(entry) == Larger(0, entry.level - 1)

\* The open nodes are popped as long as the last is not above the new one.
PopTo(outline, stack, i) ==
    LET open == {k \in DOMAIN stack : NodeLevel(outline[stack[k]]) < NodeLevel(outline[i])}
    IN  SubSeq(stack, 1, Max(open \cup {0}))

\* One entry of the outline: it goes below the last open node and is open.
Nest(outline, state, i) ==
    LET stack == PopTo(outline, state.stack, i)
    IN  [stack |-> Append(stack, i),
         parent |-> Append(state.parent, IF stack = <<>> THEN 0 ELSE Last(stack))]

\* _from_outline: the parent of each node, 0 for a root.
Parents(outline) ==
    LET nest[n \in 0..Len(outline)] ==
            IF n = 0 THEN [stack |-> <<>>, parent |-> <<>>] ELSE Nest(outline, nest[n - 1], n)
    IN  nest[Len(outline)].parent

\* Position of j after i when the nodes are sorted by page, which is stable.
Follows(outline, i, j) ==
    \/ outline[i].page < outline[j].page
    \/ outline[i].page = outline[j].page /\ i < j

\* Mutant: the page before the next start is left out as well.
EndPage_OffByOne(outline, i) ==
    LET later == {j \in DOMAIN outline : Follows(outline, i, j)}
        next == Min({outline[j].page : j \in later})
    IN  IF later = {} THEN NoPage
        ELSE Larger(outline[i].page, (IF next = 0 THEN 1 ELSE next) - 2)

\* _close_page_ranges: up to the page before the next start in page order,
\* whichever level that is on.  The last node keeps an open end.
EndPage(outline, i) ==
    LET later == {j \in DOMAIN outline : Follows(outline, i, j)}
        next == Min({outline[j].page : j \in later})
    IN  IF later = {} THEN NoPage
        ELSE Larger(outline[i].page, (IF next = 0 THEN 1 ELSE next) - 1)

Tree(outline) ==
    LET parent == Parents(outline)
    IN  [i \in DOMAIN outline |->
            [parent |-> parent[i], start |-> outline[i].page, end |-> EndPage(outline, i)]]

\* _from_headings: a root for each heading, with the page it was found on.
Headings(headingsOn) ==
    LET upTo[p \in 0..Len(headingsOn)] ==
            IF p = 0 THEN <<>>
            ELSE upTo[p - 1] \o [k \in 1..headingsOn[p] |-> Entry(1, p)]
    IN  upTo[Len(headingsOn)]

PagesPerNode == 5   \* PAGES_PER_FALLBACK_NODE

\* _from_pages: blocks of pages, where there is no structure at all.
PageBlocks(nPages) ==
    [b \in 1..((nPages + PagesPerNode - 1) \div PagesPerNode) |->
        [parent |-> 0, start |-> (b - 1) * PagesPerNode + 1,
         end |-> Smaller(b * PagesPerNode, nPages)]]

\* HeuristicTreeIndexer._build: bookmarks, else headings, else blocks of pages.
BuildTree(outline, headingsOn) ==
    IF outline # <<>> THEN Tree(outline)
    ELSE IF Headings(headingsOn) # <<>> THEN Tree(Headings(headingsOn))
    ELSE PageBlocks(Len(headingsOn))

\* The pages that a chosen node stands for (_pages_for_nodes).
PagesOf(node, nPages) ==
    LET start == Larger(1, IF node.start = 0 THEN 1 ELSE node.start)
        end == Smaller(nPages, IF node.end = NoPage THEN start ELSE node.end)
    IN  {p \in 1..nPages : start <= p /\ p <= Larger(start, end)}

\* navigate: the model's ids in its order, without unknown and repeated ones.
Selected(reply, tree, limit) ==
    LET chosen[n \in 0..Len(reply)] ==
            IF n = 0 THEN <<>>
            ELSE LET before == chosen[n - 1]  id == reply[n]
                 IN  IF id \in DOMAIN tree /\ ~Contains(before, id) /\ Len(before) < limit
                     THEN Append(before, id) ELSE before
    IN  chosen[Len(reply)]

\* _navigate_lexically: nodes that share a word with the question, best first.
Lexical(words, limit) ==
    LET Better(i, j) == words[i] > words[j] \/ (words[i] = words[j] /\ i < j)
        ranked == InOrder({i \in DOMAIN words : words[i] > 0}, Better)
    IN  SubSeq(ranked, 1, Smaller(limit, Len(ranked)))

navigate(reply, words, tree, limit) ==
    LET chosen == Selected(reply, tree, limit)
    IN  IF chosen = <<>> THEN Lexical(words, limit) ELSE chosen
-----------------------------------------------------------------------------
(* What the tree should be, said without the stack and the sorting.        *)

\* A section belongs to the last one before it on a higher level.
NearestAbove(outline, i) ==
    Max({0} \cup {j \in 1..(i - 1) : NodeLevel(outline[j]) < NodeLevel(outline[i])})

\* The first section behind i that belongs to the same section as i.
IsNextSibling(tree, i, j) ==
    /\ i < j /\ tree[i].parent = tree[j].parent
    /\ \A k \in (i + 1)..(j - 1) : tree[k].parent # tree[i].parent

\* No page between two sections is lost: it belongs to some section's range.
CoversPages(tree, nPages) ==
    \A p \in 1..nPages :
        (\E i, j \in DOMAIN tree : tree[i].start <= p /\ p <= tree[j].start)
            => \E i \in DOMAIN tree : p \in PagesOf(tree[i], nPages)
=============================================================================
