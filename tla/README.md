# Mouseion in TLA+

A verification project for the Mouseion service (`src/backend/src/mouseion`): TLA+ models
of its stateful parts, TLC runs over small instances, and TLAPS proofs for every size.

Mouseion keeps a personal library of papers. An API process (FastAPI) takes uploads and
URLs, a worker process (arq on Redis) runs the ingest pipeline, both over one SQLite file and
one directory of PDFs; a browser UI and Open WebUI pipes are clients of the API.

## 1. The system

| component | state it keeps | operations | hard behaviours | what makes it correct |
|---|---|---|---|---|
| **Ingest pipeline and jobs** (`services/ingest.py`, `services/jobs.py`, `services/queue.py`, `worker.py`, `api/papers.py`, `api/jobs.py`) | `ingest_jobs` rows (state, recorded steps, attempts, paper), `papers`, texts, topics, vectors, PDF files, arq ids in Redis | submit, recognise a duplicate, enqueue, retry, download, extract, index, tag, embed | two processes on one row; crash, timeout or error between an effect and its record; ids that arq drops silently; two jobs with one PDF | one owner per job; the documented state machine; recorded progress is backed by data; one ingestion per PDF; no job is let go of before it is at rest, but by a fault |
| **Topic taxonomy** (`services/taxonomy.py`, `api/topics.py`, `api/ui.py`) | `topics` with `parent_id`, `paper_topics` | create, rename, re-parent, merge, split, delete, tag by hand, tagging batches of the worker | handlers in a thread pool that read and check before they write; stale ids in a tagging answer; merging into a descendant | no cycle, nothing dangles, unique names, no paper silently untagged, an edit keeps the rest of the hierarchy |
| **Oral examiner** (`services/examiner.py`, `api/test_mode.py`) | `test_sessions` rows (phase, turns, transcript, plan) | start, answer, reload, expire, plan probes, grade | a copy of the row held across a model call; expiry against a late answer; dropped streams and answers sent again | a row one can resume from, one push per probe, the cap on turns, nothing said or decided is taken back, an exam that ends |
| **LLM client** (`services/llm.py`) | one HTTP pool per process | complete, stream, retry, drop a suspect pool | a pool closed under other calls; a cancelled task in the middle of closing it; replay of a stream | no text twice, a closed pool never stays behind, every call ends |
| **Question answering** (`services/qa.py`, `api/qa.py`) | `qa_log` | resolve the scope, retrieve, fuse, gather, fit a budget, stream, log | a reader that leaves in the middle of a stream; a topic that is deleted while its answer is streamed; errors before and after the first token | the log tells how each answer ended; the best papers of the scope; stored text is used; budgets hold and the weakest paper goes first |
| **Tree indexer** (`services/tree_indexer.py`) | one tree file per paper | build from bookmarks, headings or pages; close page ranges; navigate | bookmarks that skip levels, go backwards or have no target; replies of the model with unknown or repeated ids | sections nest as the bookmarks do; no page between two sections is lost |
| PDF store (`services/pdfs.py`) | files by hash | store, extract | two writers of one temporary name | a file at its hash is complete |
| Embeddings, search, papers, notes, arXiv | rows and files written by the pipeline or by single-row upserts | algorithms and queries | none of their own | results as specified |
| UI, pipes, auth, config, migrations, health | none, or browser state | views, HTTP clients, wiring | a poller that waits for a terminal job | |

Interactions. The API writes a job row and puts an arq id into Redis; the worker runs the
pipeline for that id and writes the row as it goes; the UI polls the row; the retry endpoint
looks at the row alone. The worker's tagging step writes topics while a user edits them. The
examiner calls the model and the retrieval of question answering, and writes its session. Every
call of the model in the API process goes through one client with one connection pool. Question
answering reads what the pipeline stored (texts, trees, summaries, vectors), and its log refers to
topics that other requests delete.

`PROJECT.json` lists every component with its status, and the hazards of the code at their
lines, those that no property covers yet included.

## 2. Modules

```
JobLifecycle   what a job promises            Forests        parent pointers, walks as sets
   ^ refines                                     ^ EXTENDS
Ingest  <- MCIngest                           TopicForest    whole edits of a forest
   ^ EXTENDS                                     ^ refines
IngestProofs <- IngestDataProofs              Taxonomy <- TopicWalks <- MCTaxonomy
                                                 ^ EXTENDS
Examiner <- MCExaminer                        TaxonomyProofs <- TopicWalksProofs
   ^ EXTENDS
ExaminerProofs                                AnswerPromise  what a question promises
       Lists                                     ^ refines
   ^ EXTENDS   ^                              AnswerStream -> LlmClient
TreeIndex    RankFusion                          ^ EXTENDS
   ^ EXTENDS   ^                              AnswerStreamProofs, MCAnswers
Grounding <- MCGrounding
   ^ EXTENDS                                  LoopLemmas   induction over loops, used by
GroundingProofs                               GroundingProofs and TopicWalksProofs
```

Operators named `X_Something` with the comment "Mutant" are plausible bugs in the
operator `X`. No specification uses them. `PROJECT.json` pairs each with the property that
fails when it takes the place of `X`; this is how we know that the property can fail.

### Ingest

`Ingest` models the API handlers, Redis and the worker. A connection is in autocommit mode
(`db.py`), so one action is one SQL statement or one `transaction()` block, plus the reads
that nobody can invalidate before it. The worker is one event loop: a run yields only where it
awaits (`fetch`, `building`, `llm`), and `LoopFree` keeps other runs out elsewhere. The API
process and crashes come in between any two statements.

- `state`, `steps`, `attempts`, `attached`, `duplicate` are the columns of `ingest_jobs`;
  `origin` and `has` are the paper's row and what the library holds about it; `files` is the
  PDF directory; `queue` and `seen` are Redis; `api` and `pc` say where each handler and each
  run stands. Handlers and runs are indexed by job **and attempt**, because two attempts of one
  job can be alive together when things go wrong.
- One action per statement of `_run` and its steps, in their order, with `Fail` for the
  `except` clause, which can fire at any of them (not in `building`, whose errors are only
  logged). The result of a failed or successful extraction is the same row with or without
  its text.
- Errors that no `except` clause records. `StartFails`: `session`, `get_job` and `bump_attempts`
  stand before the `try` of the run, so an error there ends the arq task with the row queued.
  `SubmitFails` and `AbandonDuplicate`: the rows of a submission are made in several commits
  (`AttachDuplicate`, `CloseDuplicate`), and the request ends at the one that fails.
  `FailUnrecorded` and `ReportUnrecorded`: the `set_state` with which an `except` clause records
  a failure raises in its turn.
- The environment: `WorkerCrash`, `JobTimeout` (arq cancels the task; `CancelledError` passes
  by the `except Exception`), `BrokerRestart` (Redis keeps nothing on disk), `ApiCrash`,
  `LostAck` (the connection drops after Redis took the id), `ResultExpires`. The constant
  `Faults` says which of them, and of the unrecorded errors (`db_error` for those outside the
  `except` clauses, `unrecorded` for those in them), an instance admits.
- Papers are identified with their bytes. The URL jobs of a paper share one canonical URL.

`JobLifecycle` is the state machine that `services/jobs.py` draws above its code, with the
edge that retry adds. `Ingest` implements it (`LifecycleSpec`).

### Taxonomy

The handlers are plain functions, so FastAPI runs them in a thread pool. Re-parent, merge,
delete and split read and check first and write later: each is a `Check…`/`Read…` action and a
`Write…`/`Commit…` action, with what the handler has read in `edit`. The other edits are one
statement. `ApplyReuse` and `ApplyProposal` are the worker's batch, one transaction made from
decisions on an older list of topics. Foreign keys are on: `Exists` guards inserts and updates,
`DropParents` and the cascade follow a DELETE, and `Rollback` ends an edit that the database
refuses. Ids are AUTOINCREMENT: `spent` remembers them.

`Forests` states `descendant_ids` as a set (`Below`, the least set closed under children) and
acyclicity as "every non-empty set of topics has a member whose parent is outside". Both avoid
recursion, which keeps them within reach of the provers. `TopicForest` is the abstract
specification: grow, move, dissolve, fuse, each at once.

`TopicWalks` has the readers of the table as they compute: the breadth-first walk, the climb to
the ancestors, the recursive SQL of the topic filter with its depth ceiling, and the counts of
the tree. Each loop is a function from the number of rounds to the state of the loop, the form
in which the provers can reason about it. They are compared with `Below` in every state that the
edits reach, those with a cycle included.

### Examiner

One session and the requests on it. The handlers run on the event loop, so what a request does
between two awaits is one action. Only the model is awaited: to plan probes (`at = "plan"`)
and to grade (`at = "grade"`). Meanwhile the request holds a copy of turns and transcript in
`req`. `Planned` and `Graded` write that copy by session id over whatever the row says by then,
as the code does. An answer is what the code can tell of it: a done phrase, vague, or clear.
`Fail` is a model error, a dropped stream or the end of the process: nothing was stored.

### LlmClient and AnswerStream

`LlmClient` has the shared pool (`client`) and the steps of one call (`call`): send, emit, return,
give up, retry, drop the pool, be cancelled. It has no next-state relation of its own;
`AnswerStream` composes it with the tasks that call. Retries follow
`_prepare_transport_retry`: the call that finds the pool open closes it and awaits that, another
one that fails meanwhile drops it at once, and the first one then drops **whatever pool is there**
(`Drop`). A call that is sent on a closed pool gets a `RuntimeError`, which is no `LLMError`
(`Reject`).

`AnswerStream` models the two handlers of `api/qa.py` and their generator, per question:

- `question` holds the stage (preparation, the yield at which the server sends an event, the
  stream of the model, one of five endings), the topic resolved at the start, whether there was
  material, and the calls made. `shown` is the text that reached the reader, each token as the
  number of the reply it comes from. `log` is the question's part of `qa_log`, `topics` the table.
- `Post`/`Posted` are the calls of a preparation (`navigate` and the correction of
  `complete_json`), `Refuse` its errors (a PDF that cannot be opened is one). `Conclude` writes the row and names the closing event. When
  the topic is gone the INSERT violates the foreign key and the stream breaks off.
- A reader can leave at any await. At an await of the call the generator is cancelled and its
  `finally` writes the row (`LeaveStream`). While the server waits to send an event nothing runs
  (`LeaveSending`): the generator stays at its `yield` until the event loop closes the abandoned
  object, and its `finally` may then still write the row, or not. The model has both outcomes.
- `DeleteTopic` is what a deletion or a merge does to `qa_log`: `ON DELETE SET NULL`.

`AnswerPromise` is what a reader and the log see of it: tokens of one reply, at most one row, the
row before the closing event. `AnswerStream` implements it (`PromiseSpec`), with the rows counted
and the stages mapped to endings.

### TreeIndex, RankFusion and Grounding

`TreeIndex` and `RankFusion` hold algorithms as operators: a loop is a recursive function of the
number of rounds, and sorting and filtering (`Lists`) say which element comes at which place. A
node of a tree is its position in the outline, a text its length, a score an integer (`Scale` is a
common multiple of the denominators `60 + rank`; the code adds floating-point numbers, whose
rounding matters only between papers whose exact scores are equal, and no property depends on their
order). `Grounding` is the preparation of one question as a sequence of stages: the candidates of a collection question (`hybrid_candidates`), the stored tree of a paper
and its navigation, the gathering of material, and the budgets of prompt and history. One step per
function, since nothing else writes what it reads; the interleaving is in `AnswerStream`.

The reference definitions beside the algorithms do without their stacks, sorting and loops: the
parent of a section is the nearest one before it on a higher level (`NearestAbove`), the
candidates are those that no other paper beats (`CandidatesAreBest`), the budget keeps a set of
papers (`StrongestFit`).

A PDF that is gone and one that cannot be opened are two things. For the first the code falls back
to the stored text (`Excerpts`); for the second `extract_text` raises out of
`gather_grounding_material_for_paper` and the question fails (`UnreadablePdf`), for a paper asked
about and for a candidate of a collection question.

`StrongestFit` states the budget without the loops. The papers kept are a non-empty set; nothing
left out is stronger than one kept; the strongest of those left out did not fit beside them. If what
is kept fits, the prompt has it whole. If not, it is one paper, and `IsCut` says what becomes of it:
its sections in order, whole but for the last, which may be shorter only when the budget is then used
up; further sections are left out only when there is room for no more than their labels. It disappears
altogether only when the budget is not greater than the labels of one section. The property
does **not** say that whatever would fit is in the prompt, since the code does not promise it (see 5).

A paper that neither of two rankings has must be ranked behind all that they have (`Place`): a number
of papers is not far enough when fewer papers than candidates exist. A proof that failed showed it.

## 3. Runs

All pass runs finish within a minute on two workers. `CHECK_DEADLOCK FALSE` everywhere,
because the systems really may stop: every job is at rest with no retry left, all ids of topics
are spent and nobody edits, a session has its verdict and has expired, every question has ended, the
prompt is prepared.

| run | instance | properties | what it shows |
|---|---|---|---|
| `ingest_owner` | an upload and a URL job of one PDF, one retry each, worker and API crashes, timeouts, Redis restarts, errors outside `except` clauses | `TypeOK` `OneOwner` `RetryAccepted` `SoleIngester` `NeverRetagged` `LifecycleSpec` `HeldUntilRest` `JobsSettle` | a job is held by at most one handler, queued id or run, and by none at rest; a retry is never refused by arq; one of the two jobs ingests; tagging is never applied twice; rows follow the state machine; whoever holds a job lets go of it when it is done or failed, or by a crash, a timeout, a Redis restart or an error that no `except` clause records; nobody holds a job for ever |
| `ingest_data` | one URL job, one retry, every fault: two runs of it can overlap | `ProgressIsBacked` `DoneIsIngested` | a step is recorded after its effects and after the steps before it; done means ingested or recognised |
| `ingest_self_duplicate` | one job | `ResumeKeepsPaper` **violated** | see 5 |
| `ingest_stranded` | one job, worker crashes | `NoStrandedJob` **violated** | see 5 |
| `taxonomy_serial` | 4 topics, 4 names, 1 paper, 1 editor and the worker | `TypeOK` `Acyclic` `ForestSpec` `DeleteKeepsRest` | every edit is one whole edit of a forest |
| `taxonomy_overlap` | 3 topics, 2 editors, 1 paper and the worker | `NoDangling` `NoPaperLosesItsTopics` `MergeKeepsSubtree` `ScopesAgree` `CountsMatchFilter` | what survives arbitrary overlaps; the walks, the counts of the tree and the filter agree |
| `taxonomy_cycle` | 2 topics, 2 editors | `Acyclic` **violated** | see 5 |
| `exam` | 2 requests, cap of 6 turns, plans of 2 or 3 probes, fairness | `TypeOK` `RowMatchesTranscript` `PushedOnce` `CapIsKept` `OnlyOvertakenOverwrite` `ExamEnds` | any write order, failure, drop or expiry leaves a row to resume from; a turn or a verdict is lost only to a request that others overtook while it waited; the exam ends |
| `exam_overwrite` | 2 requests, cap of 3 | `VerdictIsFinal` **violated** | see 5 |
| `answers` | 2 questions on one pool, 1 topic, 2 attempts, 2 calls before the answer, 2 tokens, fairness | `TypeOK` `ClosedIsBeingReplaced` `RowTellsEnding` `PromiseSpec` `AnswersEnd` | failures of several calls never leave a closed pool; the log agrees with the ending; no replayed text; every question ends |
| `grounding` | 4 papers, 3 candidates, 4 bookmarks on 3 levels, 6 pages | `TypeOK` `IndexFollowsOutline` `CandidatesAreBest` `EvidenceIsUsed` `StrongestFit` | ranking, outline, material and budgets against their reference definitions |
| `index_ranges` | 3 bookmarks on 3 levels | `EndsBeforeNextSibling` **violated** | see 5 |

Bounds, and why they are enough.

- `MaxRuns = 1`: no retry is issued after more than one run. It gives every job two runs: the smallest
  number at which attempts can be confused. Two jobs of one PDF, an upload and a URL, are the
  smallest set in which one job's paper is another's duplicate, for both ways of recognising it.
  With the lost acknowledgement, two runs of one job overlap, which is all the overlap there is.
  Errors inside the `except` clauses are in the run with one job; `HeldTillRest` is proved with them.
- Four topics give a chain of four: a topic, its parent, what is above and what is below. That
  is every shape that re-parenting, splicing and promoting look at. Two editors and three topics give
  every pair of overlapping edits; the sets are symmetric, as ids, names and papers are only
  compared.
- `MaxTopicDepth` is the code's ceiling of 32 levels below a topic, scaled to the instance: with
  three topics and a ceiling of 1 the last level is reached in some states and cut off in others.
  Nothing in the code prevents a hierarchy deeper than the ceiling.
- Six turns are more than the longest path of a plan of two probes with all its pushes
  (explanation, two pushes, two answers), and less than that of three probes: both ends, by plan
  and by cap, occur. Two requests are all that a lost update needs.
- Two questions are what it takes for one call to close the pool under another and for the two
  to drop each other's. Two attempts give a retry and a last attempt, two calls before the answer a
  navigation with its correction, two tokens a stream that fails in the middle.
- Every ranking of every subset of four papers, one more than the candidates taken, under every
  topic scope. Outlines of up to four bookmarks on three levels reach a pop of several levels and
  a skipped level; the target pages have none (-1), equal and descending ones. The lengths of texts are chosen
  around the budgets: empty, within, over for one paper, over for all. `Scale = 61 * 62 * 63`.

Fairness. `ingest_owner`: a handler that has begun gets its reply from Redis or an error and goes on
with its next commit, and the worker's loop gives every runnable task its turn, so weak fairness
per job and attempt; nobody must submit or retry. `JobsSettle` assumes nothing of the faults: every
handler, queued id and run is let go again. That the job is then done or failed is `HeldUntilRest`,
which names the faults after which it is not (finding 2). `answers`: the event loop
gives every task its turn and the client has a timeout (`llm_timeout_seconds`), so weak fairness of
the steps of a question together; nobody is obliged to ask, to leave or to delete a topic. `exam`: the
model client has a timeout, so a request that awaits it ends
(weak fairness of `Planned \/ Graded \/ Fail`). `ExamEnds` assumes in its statement, not in
the specification, that the user keeps answering and that failures stop.

## 4. Proofs

TLAPS proves the following for every value of the constants. Backends: SMT, Zenon and LS4.

| theorem | says | argument |
|---|---|---|
| `IngestProofs!TypeCorrect` | `[]TypeOK` | by action |
| `IngestProofs!SingleOwner` | `[]OneOwner` | from `OwnerInv` |
| `IngestProofs!RetryNeverRefused` | `[]RetryAccepted` | from `OwnerInv` |
| `IngestProofs!ImplementsLifecycle` | `LifecycleSpec` | from `OwnerInv` |
| `IngestDataProofs!ProgressBacked` | `[]ProgressIsBacked`, every fault | `DataInv` |
| `IngestDataProofs!DoneMeansIngested` | `[]DoneIsIngested`, every fault | `DataInv` |
| `IngestDataProofs!OneIngester` | `[]SoleIngester`, every fault | `DataInv` |
| `IngestDataProofs!NeverTaggedTwice` | `NeverRetagged` | `OwnerInv`, `TagInv` |
| `IngestDataProofs!HeldTillRest` | `HeldUntilRest`, every fault, errors outside and inside `except` clauses included | action by action |
| `TaxonomyProofs!TypeCorrect` | `[]TypeOK` | by action |
| `TaxonomyProofs!NeverDangling` | `[]NoDangling`, any number of editors | `RefInv` |
| `TaxonomyProofs!SerialAcyclic` | `[]Acyclic`, one checked edit at a time | `SerialInv` |
| `TaxonomyProofs!ImplementsForest` | `ForestSpec`, one checked edit at a time | `SerialInv` |
| `TaxonomyProofs!PapersStayFiled` | `NoPaperLosesItsTopics`, any number of editors | action by action |
| `TaxonomyProofs!MergeLosesNothing` | `MergeKeepsSubtree`, any number of editors | `RefInv` |
| `TaxonomyProofs!DeleteIsLocal` | `DeleteKeepsRest`, one checked edit at a time | `SerialInv` |
| `ExaminerProofs!TypeCorrect` | `[]TypeOK`, any number of requests | by action |
| `ExaminerProofs!CapKept` | `[]CapIsKept`, any number of requests | `CapInv` |
| `ExaminerProofs!RowTellsTranscript` | `[]RowMatchesTranscript`, any number of requests | `TalkInv` |
| `ExaminerProofs!OnePushPerProbe` | `[]PushedOnce`, any number of requests | `TalkInv` |
| `ExaminerProofs!OnlyOvertakenTakesBack` | `OnlyOvertakenOverwrite`, any number of requests | `TalkInv` |
| `TopicWalksProofs!ReadersAgree` | `[]ScopesAgree`, any number of editors, any ceiling | `Table`, loops |
| `TopicWalksProofs!CountsAgree` | `[]CountsMatchFilter`, any number of editors, any ceiling | `Table`, loops |
| `AnswerStreamProofs!TypeCorrect` | `[]TypeOK`, any number of questions | with `CallInv` |
| `AnswerStreamProofs!PoolIsReplaced` | `[]ClosedIsBeingReplaced`, any number of calls | inductive as it stands |
| `AnswerStreamProofs!LogTellsEnding` | `[]RowTellsEnding` | `RowsInv`, `StageInv` |
| `AnswerStreamProofs!ImplementsPromise` | `PromiseSpec` | `RowsInv`, `RepliesInv`, `CallInv` |
| `GroundingProofs!TypeCorrect` | `[]TypeOK` | `PaperInv`, `Gathering` |
| `GroundingProofs!IndexIsFaithful` | `[]IndexFollowsOutline`, any outline and paper | loop of the stack |
| `GroundingProofs!BestAreCandidates` | `[]CandidatesAreBest`, `CandidateK <= 61` | ranks and shares |
| `GroundingProofs!EvidenceOfPaper` | `[]EvidenceIsUsed`, `SectionBudget > 0` | `PaperInv` |
| `GroundingProofs!StrongestAreKept` | `StrongestFit`, any materials and budgets | loops of eviction and cutting |

Assumptions. Those of the constants are named in the modules and TLC evaluates them. Four
theorems on `Ingest` (`SingleOwner`, `RetryNeverRefused`, `ImplementsLifecycle`,
`NeverTaggedTwice`) assume that no enqueue acknowledgement is lost: with it, the handler
reports a failure for a job that is queued, a retry starts a second run, and `OneOwner` is
false. The others hold under every fault, lost acknowledgements included. `SerialEdits` is needed in the
same way: finding 3 is the counterexample without it. The theorems on `Examiner` assume nothing of the
requests; `OnlyOvertakenOverwrite` says in its statement when a verdict may change (finding 4).

Two theorems on `Grounding` assume something of a setting. `BestAreCandidates` takes at most 61
candidates from a ranking (the default is 8): a paper that both rankings put at place k has a
score of `2/(60 + k)` and one that a single ranking puts first has `1/61`. At k = 62 the two are
equal and the paper of one ranking goes first, by its best rank; beyond, its score is greater.
`EvidenceOfPaper` takes a section budget that is not zero (the default is 12,000): with zero a
paper without a tree contributes `full_text[:0]`, and its stored text is indeed not used. The settings come from the environment
without a lower bound; the named assumptions of `Grounding` only say that they are natural numbers,
that page texts and headings are given for each page, and that `Scale` is a common multiple.

Inductive invariants.

- `OwnerInv`. That the retry endpoint starts no second run depends on what attempt numbers
  say: the number in a queued or pending id is the number of runs so far, that of a run that has
  started is smaller, Redis knows no id of a later attempt, and the row's state is at most as
  far as the statement where the run stands (`Reach`). None of these is in `OneOwner`.
- `DataInv` says what the data properties leave open: of all runs of the worker one at most is
  between two statements of a step (`LoopInv`); what a run has read or done where it stands
  (`StandInv`); what a row's progress, attachment and duplicate flag say about the paper, in
  particular that a duplicate has extracted nothing (`RowInv`); and that nobody works on
  a job that has no row yet or was recognised as a duplicate by the API (`SubmitInv`). `SoleInv` is part of the induction and not a consequence of
  it: the steps of one job delete and rewrite the vector of a shared paper, and they can only take
  away what another job has recorded if two jobs ingest one paper. `TagInv` says that a
  run which tags finds the step unrecorded.
- `RefInv` adds to `NoDangling` that an edit names a topic and a merge two different ones.
  `SerialInv` adds that what the one editor has read is still true when it writes (`EditInv`).
  The worker's batches and the one-statement edits keep it, because they only add topics and
  names below existing ones. The first lemmas of `TaxonomyProofs` say what the walks give without induction, by
  closed sets: a topic is below itself, below is transitive, moving a topic to a place that is not
  below it keeps a forest.
  The transactions are read the same way: a set closed under the pointers that a merge or a deletion
  writes, with the source or the deleted topic added where it belongs, is closed under those it
  found.
- `CapInv` says that a waiting copy obeys the cap: `Planned` and `Graded` write the copy, not
  the row. `TalkInv` says the same of what was said: a waiting copy counts its answers, has
  no verdict, and has heard no probe if it waits for the plan. Its induction is over steps only: how
  one more turn changes a count is a lemma about the cardinality of a set of places. Because a waiting
  copy has no verdict, a request that waits while the row gets one has been overtaken
  (`VerdictOvertakes`).
- For `AnswerStream`: `CallInv` says that a call which waits to be retried has an attempt left and
  has emitted nothing, which bounds the attempts and is why a retry can repeat no text.
  `StageInv` says that a question has no call of the model open where the server sends an event,
  except in the middle of a stream. `RowsInv` fixes the number of rows at every stage, not only
  at the ends, and `RepliesInv` that all tokens shown come from the reply that is being read. The
  refinement needs the last two: a step of the stream is a `Show`, `Log` or `End` of the promise
  only because there is no row yet and the tokens agree.
- For `Grounding`: `PaperInv` says what is held of the paper asked about at each stage: a
  tree whose parents are among its nodes (`Trees`), then no more of its nodes than are asked for,
  then what the library has. `Gathering` says that no more papers are consulted than the
  navigations allow and the candidates give. TLC checked both before they were proved.

Algorithms. The library's induction theorems take a predicate as a parameter, which the provers
cannot instantiate. `LoopLemmas` states induction with a set in place of the predicate: a set of
numbers that has 0 and is closed under successors is `Nat` (`Counting`, from the well-foundedness
of `<`), a loop that is a function of the number of its rounds exists (`LoopExists`), and if
`Good(n)` are the sets of states that are right after n rounds, the loop stays in them
(`InvariantLoop`). A proof about a loop then is a proof about one round:

- `NestKeeps`: after n bookmarks the stack holds those whose section is still open, and each
  parent is the nearest one above. `OutlineCovers` finds for a page the section that starts last
  at or before it.
- `RanksAreDense`, `RankedIsSorted`: in a strict order on a finite set, the number of members before
  an element is a bijection to the places. Sorting, filtering (`At`) and the fusion rest on it.
  `PartsFall` turns ranks into shares of a score: the better rank has the greater share.
- `EvictKeeps`: what has been evicted is weaker than what is kept, the strongest of it did not
  fit beside what is kept, and each round that leaves the list too long shortens it.
  `TakeKeeps` and `KeepsBudget`: what is taken and what remains make the budget; only the last
  section taken may be cut, and then nothing remains; taking ends early only when the rest of the
  budget has room for no more than labels.
- `TopicWalksProofs`: the frontier's topics are seen and every child of a seen one is seen or will be, the
  rounds used and the frontier count the topics seen, and a chain of ancestors repeats no topic; so
  no loop takes more rounds than there are topics, on a cycle neither. The counts of the tree
  are proved by the set of topics whose rolled-up papers are complete after n rounds.

With TLC only: liveness (`JobsSettle`, `AnswersEnd`, `ExamEnds`), which the provers do not reach.
Every other property that a passing run checks is a theorem.

## 5. Where code and documents disagree

1. **A resumed job becomes a duplicate of itself** (`ingest_self_duplicate`). A job that made
   its paper row and then failed at extraction is retried: the row is found by hash, extraction is
   not recorded, so the job is marked as a duplicate and done. The paper stays empty.
2. **A stranded job cannot be retried** (`ingest_stranded`). After a worker crash or a job
   timeout the row says for ever that it is being worked on, and retry answers 409.
3. **Two re-parent requests make a cycle** (`taxonomy_cycle`). Check and UPDATE are separate
   statements, so two moves that are each fine alone make two topics each other's ancestors. Both
   vanish from the tree view.
4. **A late model answer overwrites a verdict** (`exam_overwrite`). The updates are by id only,
   so a second request that was let in before the verdict replaces it, or reopens the session.
5. **A section ends before its own first child** (`index_ranges`). The docstring of
   `_close_page_ranges` (`tree_indexer.py:209`) gives each node "an end_page: the page before its next
   sibling starts". The code ends a node before the next start in page order on any level, so a parent
   stands for the pages before its first child only, and the last node gets no end and is read as
   its first page alone. `IndexFollowsOutline` says what does hold: no page between two starts is in
   no section.

Observations that are part of the models:

- The context budget removes papers by score, from the weakest on, until the rest fits: of three papers
  of 300, 2,500 and 300 characters and a budget of 1,000 the two weaker ones go, though the weakest
  would have fitted beside the first. Papers that contribute no text are removed in the same order, and
  a paper whose text is too long stays when it is stronger than one that would fit.
- A PDF that exists and cannot be opened fails every question that consults its paper, although the
  extracted text is stored; one that is gone does not.
- A reader who leaves while the server waits to send the metadata leaves no log row; one who
  leaves at a token leaves one if the generator is closed before the connection of the request. A topic
  that is deleted during the stream costs the row, and then there is no closing event either, where
  `PROJECT_NOTES.md:570` lets one expect a row for every question.
- A request that is sent while another call closes the pool fails at once. The stream breaks off
  without a closing event, but with its row.

## 6. Not modelled

- The temporary file of the PDF store (see the hazards), notes and the user's edits of papers:
  single statements that nothing else depends on. Stale embeddings have no caller.
- The adapter over the optional PageIndex package, tokenisation, the matching of a title in a
  question (`resolve_paper_from_text`) and the citation warnings: they compare strings.
- Search, arXiv parsing, the UI's views, the pipes, configuration, authentication and
  migrations: queries, parsers, clients and wiring without state of their own. What they feed into
  the modelled parts (an outcome of the arXiv lookup, a constraint of the schema, a poll that waits
  for a terminal job) is there.
- Of the modelled parts: the metadata of a paper, the wording of prompts, answers and summaries,
  the order of a tagging batch that creates several topics, the section grounding of the
  examiner, the closing of the model client when the process stops.

`PROJECT.json` gives the reason for each component.

## 7. Plan

1. `PdfStore`: two processes and one temporary name; then composed with `Ingest` in place of
   the one-step `Fetch`.
2. Theorems that more than one property would rest on: what a step of the LLM client gives to any
   task that calls it, and the safety halves of the liveness properties (what the measure of
   `ExamEnds` and of `AnswersEnd` is, and that no step increases it).
3. The examiner's acceptance of an understanding score from the UI, and the reuse of a session's
   reread links.
