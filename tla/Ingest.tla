------------------------------- MODULE Ingest -------------------------------
(***************************************************************************)
(* The ingest pipeline of Mouseion: the API process that accepts, enqueues *)
(* and retries jobs (api/papers.py, api/jobs.py), the arq queue in Redis   *)
(* (services/queue.py, worker.py) and the worker that runs a job           *)
(* (services/ingest.py) over the SQLite rows of services/jobs.py,          *)
(* services/papers.py and services/embeddings.py.                          *)
(*                                                                         *)
(* Granularity.  A connection is in autocommit mode (db.py), so each SQL   *)
(* statement, and each transaction() block, is one action: the API process *)
(* runs between any two of them, and a crash can fall between them.  The   *)
(* worker is one asyncio loop: two runs interleave only where a run awaits *)
(* (pc in Awaits), and a run that is past its await holds the loop.        *)
(* Reads that no other actor can invalidate before the next statement are  *)
(* part of the action they precede.                                        *)
(*                                                                         *)
(* Abstractions.  A paper is identified with the bytes of its PDF (papers  *)
(* .sha256 is UNIQUE and rows are never deleted); the URL jobs of a paper  *)
(* share one canonical URL, which serves the same bytes each time.         *)
(***************************************************************************)
EXTENDS Naturals

CONSTANTS
    Jobs,       \* job ids that create_job may hand out
    Papers,     \* PDFs, by content
    Kind,       \* Kind[j]: an "upload" or a "url" job
    Content,    \* Content[j]: the PDF that the job's upload or URL resolves to
    VecLoaded,  \* whether load_sqlite_vec succeeds in this deployment
    Faults,     \* the faults this instance lets happen
    MaxRuns     \* bound: no retry is issued after this many runs of a job

\* "db_error": a statement raises (locked database, full disk) where no except
\* clause covers it.  "unrecorded": the statement with which an except clause
\* records an exception raises in its turn.
FaultKinds == {"worker_crash", "job_timeout", "broker_restart", "api_crash",
               "lost_ack", "db_error", "unrecorded"}

ASSUME KindAssumption == Kind \in [Jobs -> {"upload", "url"}]
ASSUME ContentAssumption == Content \in [Jobs -> Papers]
ASSUME VecAssumption == VecLoaded \in BOOLEAN
ASSUME FaultsAssumption == Faults \subseteq FaultKinds
ASSUME MaxRunsAssumption == MaxRuns \in Nat

VARIABLES
    \* ---- the SQLite file and the PDF directory, shared and durable -------
    state,      \* ingest_jobs.state, "none" before the row exists
    steps,      \* ingest_jobs.progress_json["steps"]
    attempts,   \* ingest_jobs.attempts
    attached,   \* ingest_jobs.paper_id is set (to the row of Content[j])
    duplicate,  \* ingest_jobs.duplicate
    origin,     \* papers row: "absent", or the kind of job that created it
    has,        \* what the library holds about a paper besides its row
    files,      \* data/pdfs/<sha256>.pdf
    \* ---- Redis ----------------------------------------------------------
    queue,      \* attempt numbers of a job waiting under ingest:{job}:{attempt}
    seen,       \* attempt numbers whose arq id Redis still knows
    \* ---- processes -------------------------------------------------------
    api,        \* request handlers between two statements, by job and attempt
    pc          \* pipeline runs of the worker, by job and attempt

dbVars == <<state, steps, attempts, attached, duplicate, origin, has, files>>
brokerVars == <<queue, seen>>
vars == <<state, steps, attempts, attached, duplicate, origin, has, files,
          queue, seen, api, pc>>

-----------------------------------------------------------------------------
Step == {"download", "extract", "index", "tag", "embed"}
Working == {"downloading", "extracting", "indexing", "tagging", "embedding"}
Active == {"queued"} \cup Working
TERMINAL_STATES == {"done", "failed"}
JobState == Active \cup TERMINAL_STATES

Facets == {"text", "tree", "summary", "topics", "vector", "model"}

Attempts == 0 .. MaxRuns

\* Where a handler stands: about to call Redis, holding the exception of a
\* failed enqueue, or about to attach the paper of a duplicate submission and
\* then to close its row.
ApiState == {"off", "enqueue", "failed", "dup", "close"}

\* Where a run stands: the statement it executes next, or what it awaits.
Awaits == {"fetch", "building", "llm"}
Statements == {"download", "markDownload", "dedup", "attach", "extract", "text",
               "markExtract", "index", "markIndex", "tag", "topics", "markTag",
               "embed", "delete", "insert", "model", "markEmbed", "finish"}
RunState == {"off"} \cup Awaits \cup Statements

\* The event loop is free: no run stands between two of its statements.
LoopFree == \A j \in Jobs, a \in Attempts : pc[j][a] \notin Statements

GoTo(j, a, next) == pc' = [pc EXCEPT ![j][a] = next]
set_state(j, s) == state' = [state EXCEPT ![j] = s]
\* Mutant: what the job is doing is recorded as what it has done.
mark_step_done_State(j, s) == steps' = [steps EXCEPT ![j] = @ \cup {state[j]}]
mark_step_done(j, s) == steps' = [steps EXCEPT ![j] = @ \cup {s}]
store(j, facet) == has' = [has EXCEPT ![Content[j]] = @ \cup {facet}]

Init ==
    /\ state = [j \in Jobs |-> "none"]
    /\ steps = [j \in Jobs |-> {}]
    /\ attempts = [j \in Jobs |-> 0]
    /\ attached = [j \in Jobs |-> FALSE]
    /\ duplicate = [j \in Jobs |-> FALSE]
    /\ origin = [p \in Papers |-> "absent"]
    /\ has = [p \in Papers |-> {}]
    /\ files = {}
    /\ queue = [j \in Jobs |-> {}]
    /\ seen = [j \in Jobs |-> {}]
    /\ api = [j \in Jobs |-> [a \in Attempts |-> "off"]]
    /\ pc = [j \in Jobs |-> [a \in Attempts |-> "off"]]

-----------------------------------------------------------------------------
(* The API process.                                                        *)

\* The submission is recognised before any job runs: an upload by its hash,
\* a URL by the source_url of an existing row.
KnownPaper(j) ==
    IF Kind[j] = "upload" THEN origin[Content[j]] # "absent"
                          ELSE origin[Content[j]] = "url"

\* create_job for a new submission; an upload has stored its bytes first.
Submit(j) ==
    /\ state[j] = "none"
    /\ ~KnownPaper(j)
    /\ files' = IF Kind[j] = "upload" THEN files \cup {Content[j]} ELSE files
    /\ set_state(j, "queued")
    /\ api' = [api EXCEPT ![j][0] = "enqueue"]
    /\ UNCHANGED <<steps, attempts, attached, duplicate, origin, has, brokerVars, pc>>

\* create_job of _duplicate_response: a row even for what is already known.
SubmitDuplicate(j) ==
    /\ state[j] = "none"
    /\ KnownPaper(j)
    /\ set_state(j, "queued")
    /\ api' = [api EXCEPT ![j][0] = "dup"]
    /\ UNCHANGED <<steps, attempts, attached, duplicate, origin, has, files,
                   brokerVars, pc>>

\* create_job committed, but the attach() of the hash after it raises: the
\* request ends with an error and nobody is told of the job.
SubmitFails(j) ==
    /\ "db_error" \in Faults
    /\ state[j] = "none" /\ ~KnownPaper(j)
    /\ Kind[j] = "upload"
    /\ files' = files \cup {Content[j]}
    /\ set_state(j, "queued")
    /\ UNCHANGED <<steps, attempts, attached, duplicate, origin, has, brokerVars,
                   api, pc>>

\* The rest of _duplicate_response, two commits: attach() and set_state().
AttachDuplicate(j) ==
    /\ api[j][0] = "dup"
    /\ attached' = [attached EXCEPT ![j] = TRUE]
    /\ duplicate' = [duplicate EXCEPT ![j] = TRUE]
    /\ api' = [api EXCEPT ![j][0] = "close"]
    /\ UNCHANGED <<state, steps, attempts, origin, has, files, brokerVars, pc>>

CloseDuplicate(j) ==
    /\ api[j][0] = "close"
    /\ set_state(j, "done")
    /\ api' = [api EXCEPT ![j][0] = "off"]
    /\ UNCHANGED <<steps, attempts, attached, duplicate, origin, has, files,
                   brokerVars, pc>>

\* Either of them raises; the row of the duplicate stays "queued".
AbandonDuplicate(j) ==
    /\ "db_error" \in Faults
    /\ api[j][0] \in {"dup", "close"}
    /\ api' = [api EXCEPT ![j][0] = "off"]
    /\ UNCHANGED <<dbVars, brokerVars, pc>>

\* Mutant: the 409 for a job that has not failed is gone.
Retry_AnyState(j) ==
    /\ state[j] # "none"
    /\ attempts[j] <= MaxRuns
    /\ set_state(j, "queued")
    /\ api' = [api EXCEPT ![j][attempts[j]] = "enqueue"]
    /\ UNCHANGED <<steps, attempts, attached, duplicate, origin, has, files,
                   brokerVars, pc>>

\* Mutant: the arq id of a retry does not carry the attempt.
Retry_SameId(j) ==
    /\ state[j] = "failed"
    /\ attempts[j] <= MaxRuns
    /\ set_state(j, "queued")
    /\ api' = [api EXCEPT ![j][0] = "enqueue"]
    /\ UNCHANGED <<steps, attempts, attached, duplicate, origin, has, files,
                   brokerVars, pc>>

\* POST /jobs/{id}/retry up to its await: only a failed job is queued again,
\* under the number of runs it has had.
Retry(j) ==
    /\ state[j] = "failed"
    /\ attempts[j] <= MaxRuns
    /\ set_state(j, "queued")
    /\ api' = [api EXCEPT ![j][attempts[j]] = "enqueue"]
    /\ UNCHANGED <<steps, attempts, attached, duplicate, origin, has, files,
                   brokerVars, pc>>

\* enqueue_job: Redis takes an id it does not know.
Enqueue(j, a) ==
    /\ api[j][a] = "enqueue"
    /\ a \notin seen[j]
    /\ queue' = [queue EXCEPT ![j] = @ \cup {a}]
    /\ seen' = [seen EXCEPT ![j] = @ \cup {a}]
    /\ api' = [api EXCEPT ![j][a] = "off"]
    /\ UNCHANGED <<dbVars, pc>>

\* arq returns None for an id it knows: EnqueueError.
Refuse(j, a) ==
    /\ api[j][a] = "enqueue"
    /\ a \in seen[j]
    /\ api' = [api EXCEPT ![j][a] = "failed"]
    /\ UNCHANGED <<dbVars, brokerVars, pc>>

\* Redis cannot be reached: the call raises and nothing was queued.
Outage(j, a) ==
    /\ api[j][a] = "enqueue"
    /\ api' = [api EXCEPT ![j][a] = "failed"]
    /\ UNCHANGED <<dbVars, brokerVars, pc>>

\* The connection drops after Redis took the id: the call raises all the same.
LostAck(j, a) ==
    /\ "lost_ack" \in Faults
    /\ api[j][a] = "enqueue"
    /\ a \notin seen[j]
    /\ queue' = [queue EXCEPT ![j] = @ \cup {a}]
    /\ seen' = [seen EXCEPT ![j] = @ \cup {a}]
    /\ api' = [api EXCEPT ![j][a] = "failed"]
    /\ UNCHANGED <<dbVars, pc>>

\* The handler's except clause: "could not enqueue", whatever the row says now.
ReportFailure(j, a) ==
    /\ api[j][a] = "failed"
    /\ set_state(j, "failed")
    /\ api' = [api EXCEPT ![j][a] = "off"]
    /\ UNCHANGED <<steps, attempts, attached, duplicate, origin, has, files,
                   brokerVars, pc>>

\* That write raises in its turn: the row stays as the handler left it.
ReportUnrecorded(j, a) ==
    /\ "unrecorded" \in Faults
    /\ api[j][a] = "failed"
    /\ api' = [api EXCEPT ![j][a] = "off"]
    /\ UNCHANGED <<dbVars, brokerVars, pc>>

Handler(j) ==
    \/ Submit(j) \/ SubmitDuplicate(j) \/ AttachDuplicate(j) \/ CloseDuplicate(j)
    \/ Retry(j)
    \/ \E a \in Attempts : \/ Enqueue(j, a) \/ Refuse(j, a) \/ Outage(j, a)
                           \/ LostAck(j, a) \/ ReportFailure(j, a)

-----------------------------------------------------------------------------
(* The worker: one run of _run() per arq id.                               *)

\* Mutant: the embedding is not part of the pipeline.
NextStep_NoEmbed(done) ==
    IF "index" \notin done THEN "index"
    ELSE IF "tag" \notin done THEN "tag"
    ELSE "finish"

\* The step a run goes to when those in done are marked in the job row.
NextStep(done) ==
    IF "index" \notin done THEN "index"
    ELSE IF "tag" \notin done THEN "tag"
    ELSE IF "embed" \notin done THEN "embed"
    ELSE "finish"

\* A statement of the run that holds the loop.
At(j, a, here) == pc[j][a] = here

\* arq starts the task; the run counts itself and looks whether the download
\* of an earlier attempt is still on disk.
Start(j, a) ==
    /\ a \in queue[j]
    /\ LoopFree
    /\ queue' = [queue EXCEPT ![j] = @ \ {a}]
    /\ attempts' = [attempts EXCEPT ![j] = @ + 1]
    /\ GoTo(j, a, IF "download" \in steps[j] /\ Content[j] \in files
                  THEN "dedup" ELSE "download")
    /\ UNCHANGED <<state, steps, attached, duplicate, origin, has, files, seen, api>>

\* _run raises before its try block: the session cannot be opened, or a
\* statement of get_job or bump_attempts fails, whose UPDATE may be committed.
\* arq keeps the exception as the result of the id; the row is not told.
StartFails(j, a) ==
    /\ "db_error" \in Faults
    /\ a \in queue[j]
    /\ LoopFree
    /\ queue' = [queue EXCEPT ![j] = @ \ {a}]
    /\ attempts' = [attempts EXCEPT ![j] = @ + 1] \/ UNCHANGED attempts
    /\ UNCHANGED <<state, steps, attached, duplicate, origin, has, files, seen,
                   api, pc>>

\* An upload finds its file in the store; a URL is fetched.
SetDownloading(j, a) ==
    /\ At(j, a, "download")
    /\ set_state(j, "downloading")
    /\ \/ Kind[j] = "url" /\ GoTo(j, a, "fetch")
       \/ Kind[j] = "upload" /\ Content[j] \in files /\ GoTo(j, a, "markDownload")
    /\ UNCHANGED <<steps, attempts, attached, duplicate, origin, has, files,
                   brokerVars, api>>

\* The bytes arrive and store_pdf writes them.
Fetch(j, a) ==
    /\ At(j, a, "fetch")
    /\ LoopFree
    /\ files' = files \cup {Content[j]}
    /\ GoTo(j, a, "markDownload")
    /\ UNCHANGED <<state, steps, attempts, attached, duplicate, origin, has,
                   brokerVars, api>>

MarkDownload(j, a) ==
    /\ At(j, a, "markDownload")
    /\ mark_step_done(j, "download")
    /\ GoTo(j, a, "dedup")
    /\ UNCHANGED <<state, attempts, attached, duplicate, origin, has, files,
                   brokerVars, api>>

\* Mutant: the worker trusts the check made at submission.
IsDuplicate_Never(j) == FALSE

\* The hash is known now: does the library hold these bytes already?
IsDuplicate(j) == origin[Content[j]] # "absent" /\ "extract" \notin steps[j]

ShortCircuit(j, a) ==
    /\ At(j, a, "dedup")
    /\ IsDuplicate(j)
    /\ attached' = [attached EXCEPT ![j] = TRUE]
    /\ duplicate' = [duplicate EXCEPT ![j] = TRUE]
    /\ GoTo(j, a, "finish")
    /\ UNCHANGED <<state, steps, attempts, origin, has, files, brokerVars, api>>

GetOrCreatePaper(j, a) ==
    /\ At(j, a, "dedup")
    /\ ~IsDuplicate(j)
    /\ origin' = [origin EXCEPT ![Content[j]] = IF @ = "absent" THEN Kind[j] ELSE @]
    /\ GoTo(j, a, "attach")
    /\ UNCHANGED <<state, steps, attempts, attached, duplicate, has, files,
                   brokerVars, api>>

Attach(j, a) ==
    /\ At(j, a, "attach")
    /\ attached' = [attached EXCEPT ![j] = TRUE]
    /\ duplicate' = [duplicate EXCEPT ![j] = FALSE]
    /\ GoTo(j, a, "extract")
    /\ UNCHANGED <<state, steps, attempts, origin, has, files, brokerVars, api>>

\* Extraction runs in every attempt: later steps need the text in memory.
SetExtracting(j, a) ==
    /\ At(j, a, "extract")
    /\ set_state(j, "extracting")
    /\ GoTo(j, a, "text")
    /\ UNCHANGED <<steps, attempts, attached, duplicate, origin, has, files,
                   brokerVars, api>>

SetFullText(j, a) ==
    /\ At(j, a, "text")
    /\ store(j, "text")
    /\ GoTo(j, a, "markExtract")
    /\ UNCHANGED <<state, steps, attempts, attached, duplicate, origin, files,
                   brokerVars, api>>

\* Mutant: the tag step does not look whether it was done.
MarkExtract_Retags(j, a) ==
    /\ At(j, a, "markExtract")
    /\ mark_step_done(j, "extract")
    /\ GoTo(j, a, IF "index" \notin steps[j] THEN "index" ELSE "tag")
    /\ UNCHANGED <<state, attempts, attached, duplicate, origin, has, files,
                   brokerVars, api>>

MarkExtract(j, a) ==
    /\ At(j, a, "markExtract")
    /\ mark_step_done(j, "extract")
    /\ GoTo(j, a, NextStep(steps[j]))
    /\ UNCHANGED <<state, attempts, attached, duplicate, origin, has, files,
                   brokerVars, api>>

SetIndexing(j, a) ==
    /\ At(j, a, "index")
    /\ set_state(j, "indexing")
    /\ GoTo(j, a, "building")
    /\ UNCHANGED <<steps, attempts, attached, duplicate, origin, has, files,
                   brokerVars, api>>

\* A tree that cannot be built or saved is a warning, never a failed job.
BuildTree(j, a) ==
    /\ At(j, a, "building")
    /\ LoopFree
    /\ store(j, "tree") \/ UNCHANGED has
    /\ GoTo(j, a, "markIndex")
    /\ UNCHANGED <<state, steps, attempts, attached, duplicate, origin, files,
                   brokerVars, api>>

MarkIndex(j, a) ==
    /\ At(j, a, "markIndex")
    /\ mark_step_done(j, "index")
    /\ GoTo(j, a, NextStep(steps[j] \cup {"index"}))
    /\ UNCHANGED <<state, attempts, attached, duplicate, origin, has, files,
                   brokerVars, api>>

\* Mutant: the step is recorded before its call is made.
SetTagging_MarksFirst(j, a) ==
    /\ At(j, a, "tag")
    /\ set_state(j, "tagging")
    /\ mark_step_done(j, "tag")
    /\ GoTo(j, a, "llm")
    /\ UNCHANGED <<attempts, attached, duplicate, origin, has, files, brokerVars, api>>

\* The prompt is built and the run awaits the one combined LLM call.
SetTagging(j, a) ==
    /\ At(j, a, "tag")
    /\ set_state(j, "tagging")
    /\ GoTo(j, a, "llm")
    /\ UNCHANGED <<steps, attempts, attached, duplicate, origin, has, files,
                   brokerVars, api>>

\* Mutant: a malformed answer is asked for again, as often as it takes.
UpdatePaper_AsksAgain(j, a) ==
    /\ At(j, a, "llm")
    /\ LoopFree
    /\ \/ store(j, "summary") /\ GoTo(j, a, "topics")
       \/ UNCHANGED has /\ GoTo(j, a, "tag")
    /\ UNCHANGED <<state, steps, attempts, attached, duplicate, origin, files,
                   brokerVars, api>>

\* The answer arrives: metadata and summaries first, in a commit of their own.
UpdatePaper(j, a) ==
    /\ At(j, a, "llm")
    /\ LoopFree
    /\ store(j, "summary")
    /\ GoTo(j, a, "topics")
    /\ UNCHANGED <<state, steps, attempts, attached, duplicate, origin, files,
                   brokerVars, api>>

\* The topics of the answer, in a transaction.
ApplyTopics(j, a) ==
    /\ At(j, a, "topics")
    /\ store(j, "topics")
    /\ GoTo(j, a, "markTag")
    /\ UNCHANGED <<state, steps, attempts, attached, duplicate, origin, files,
                   brokerVars, api>>

MarkTag(j, a) ==
    /\ At(j, a, "markTag")
    /\ mark_step_done(j, "tag")
    /\ GoTo(j, a, NextStep(steps[j] \cup {"tag"}))
    /\ UNCHANGED <<state, attempts, attached, duplicate, origin, has, files,
                   brokerVars, api>>

SetEmbedding(j, a) ==
    /\ At(j, a, "embed")
    /\ set_state(j, "embedding")
    /\ GoTo(j, a, IF VecLoaded THEN "delete" ELSE "markEmbed")
    /\ UNCHANGED <<steps, attempts, attached, duplicate, origin, has, files,
                   brokerVars, api>>

\* store_embedding, three commits: vec0 has no upsert.
DeleteVector(j, a) ==
    /\ At(j, a, "delete")
    /\ has' = [has EXCEPT ![Content[j]] = @ \ {"vector"}]
    /\ GoTo(j, a, "insert")
    /\ UNCHANGED <<state, steps, attempts, attached, duplicate, origin, files,
                   brokerVars, api>>

InsertVector(j, a) ==
    /\ At(j, a, "insert")
    /\ store(j, "vector")
    /\ GoTo(j, a, "model")
    /\ UNCHANGED <<state, steps, attempts, attached, duplicate, origin, files,
                   brokerVars, api>>

RecordModel(j, a) ==
    /\ At(j, a, "model")
    /\ store(j, "model")
    /\ GoTo(j, a, "markEmbed")
    /\ UNCHANGED <<state, steps, attempts, attached, duplicate, origin, files,
                   brokerVars, api>>

MarkEmbed(j, a) ==
    /\ At(j, a, "markEmbed")
    /\ mark_step_done(j, "embed")
    /\ GoTo(j, a, "finish")
    /\ UNCHANGED <<state, attempts, attached, duplicate, origin, has, files,
                   brokerVars, api>>

SetDone(j, a) ==
    /\ At(j, a, "finish")
    /\ set_state(j, "done")
    /\ GoTo(j, a, "off")
    /\ UNCHANGED <<steps, attempts, attached, duplicate, origin, has, files,
                   brokerVars, api>>

\* Where the try block may raise: a failed download or LLM call, an unreadable
\* PDF, a locked database.  Only build_tree's exceptions are caught before.
Raises(j, a) ==
    \/ pc[j][a] \in Statements
    \/ pc[j][a] \in Awaits \ {"building"} /\ LoopFree

\* Mutant: the exception is logged and the row is left as it is.
Fail_OnlyLogs(j, a) ==
    /\ Raises(j, a)
    /\ GoTo(j, a, "off")
    /\ UNCHANGED <<dbVars, brokerVars, api>>

\* The except clause records the exception in the row.
Fail(j, a) ==
    /\ Raises(j, a)
    /\ set_state(j, "failed")
    /\ GoTo(j, a, "off")
    /\ UNCHANGED <<steps, attempts, attached, duplicate, origin, has, files,
                   brokerVars, api>>

\* The set_state of the except clause raises as well, for instance because the
\* database is still locked: the task ends and the row says it is going on.
FailUnrecorded(j, a) ==
    /\ "unrecorded" \in Faults
    /\ Raises(j, a)
    /\ GoTo(j, a, "off")
    /\ UNCHANGED <<dbVars, brokerVars, api>>

_run(j, a) ==
    \/ Start(j, a)
    \/ SetDownloading(j, a) \/ Fetch(j, a) \/ MarkDownload(j, a)
    \/ ShortCircuit(j, a) \/ GetOrCreatePaper(j, a) \/ Attach(j, a)
    \/ SetExtracting(j, a) \/ SetFullText(j, a) \/ MarkExtract(j, a)
    \/ SetIndexing(j, a) \/ BuildTree(j, a) \/ MarkIndex(j, a)
    \/ SetTagging(j, a) \/ UpdatePaper(j, a) \/ ApplyTopics(j, a) \/ MarkTag(j, a)
    \/ SetEmbedding(j, a) \/ DeleteVector(j, a) \/ InsertVector(j, a)
    \/ RecordModel(j, a) \/ MarkEmbed(j, a)
    \/ SetDone(j, a) \/ Fail(j, a)

-----------------------------------------------------------------------------
(* What happens to the processes.                                          *)

\* The worker process dies.  max_tries = 1: the arq ids it held are never run
\* again, and the rows stay as they are.
WorkerCrash ==
    /\ "worker_crash" \in Faults
    /\ \E j \in Jobs, a \in Attempts : pc[j][a] # "off"
    /\ pc' = [j \in Jobs |-> [a \in Attempts |-> "off"]]
    /\ UNCHANGED <<dbVars, brokerVars, api>>

\* job_timeout: arq cancels the task at its await.  CancelledError is not an
\* Exception, so no handler of the pipeline sees it.
JobTimeout(j, a) ==
    /\ "job_timeout" \in Faults
    /\ pc[j][a] \in Awaits
    /\ LoopFree
    /\ GoTo(j, a, "off")
    /\ UNCHANGED <<dbVars, brokerVars, api>>

\* Redis keeps nothing on disk (docker-compose.yml: --save "" --appendonly no).
\* A run that is going goes on; its id comes back with its result, and no
\* later attempt has that number.
BrokerRestart ==
    /\ "broker_restart" \in Faults
    /\ \E j \in Jobs : seen[j] # {}
    /\ queue' = [j \in Jobs |-> {}]
    /\ seen' = [j \in Jobs |-> {}]
    /\ UNCHANGED <<dbVars, api, pc>>

\* The API process dies between two statements of its handlers.
ApiCrash ==
    /\ "api_crash" \in Faults
    /\ \E j \in Jobs, a \in Attempts : api[j][a] # "off"
    /\ api' = [j \in Jobs |-> [a \in Attempts |-> "off"]]
    /\ UNCHANGED <<dbVars, brokerVars, pc>>

\* keep_result is over: Redis forgets the id of a finished run.
ResultExpires(j, a) ==
    /\ a \in seen[j] \ queue[j]
    /\ pc[j][a] = "off"
    /\ seen' = [seen EXCEPT ![j] = @ \ {a}]
    /\ UNCHANGED <<dbVars, queue, api, pc>>

Environment ==
    \/ WorkerCrash \/ BrokerRestart \/ ApiCrash
    \/ \E j \in Jobs, a \in Attempts : JobTimeout(j, a) \/ ResultExpires(j, a)

\* The errors that nothing records.
DbError ==
    \/ \E j \in Jobs : SubmitFails(j) \/ AbandonDuplicate(j)
    \/ \E j \in Jobs, a \in Attempts :
          ReportUnrecorded(j, a) \/ StartFails(j, a) \/ FailUnrecorded(j, a)

Next ==
    \/ \E j \in Jobs : Handler(j)
    \/ \E j \in Jobs, a \in Attempts : _run(j, a)
    \/ Environment
    \/ DbError

Spec == Init /\ [][Next]_vars

\* A handler that has begun answers its request, and the worker's loop gives
\* every runnable task its turn.  Nobody is obliged to submit or to retry.
Fairness ==
    /\ \A j \in Jobs, a \in Attempts :
          /\ WF_vars(Enqueue(j, a) \/ Refuse(j, a) \/ Outage(j, a))
          /\ WF_vars(ReportFailure(j, a))
          /\ WF_vars(_run(j, a))
    /\ \A j \in Jobs : WF_vars(AttachDuplicate(j) \/ CloseDuplicate(j))

FairSpec == Spec /\ Fairness
-----------------------------------------------------------------------------
(* Properties.                                                             *)

Life == INSTANCE JobLifecycle

TypeOK ==
    /\ state \in [Jobs -> JobState \cup {"none"}]
    /\ steps \in [Jobs -> SUBSET Step]
    /\ attempts \in [Jobs -> Nat]
    /\ attached \in [Jobs -> BOOLEAN]
    /\ duplicate \in [Jobs -> BOOLEAN]
    /\ origin \in [Papers -> {"absent", "upload", "url"}]
    /\ has \in [Papers -> SUBSET Facets]
    /\ files \subseteq Papers
    /\ queue \in [Jobs -> SUBSET Attempts]
    /\ seen \in [Jobs -> SUBSET Attempts]
    /\ api \in [Jobs -> [Attempts -> ApiState]]
    /\ pc \in [Jobs -> [Attempts -> RunState]]

\* Whoever will still move a job: a handler, a queued id or a run.
Owners(j) ==
    [at : {"api"}, attempt : {a \in Attempts : api[j][a] # "off"}]
    \cup [at : {"queue"}, attempt : queue[j]]
    \cup [at : {"run"}, attempt : {a \in Attempts : pc[j][a] # "off"}]

\* A job is in one place at a time: at most one handler, queued id or run
\* holds it, and none does once its row says done or failed.  So the retry
\* endpoint, which looks at the row alone, cannot start a second run.
OneOwner ==
    \A j \in Jobs :
        /\ \A o1, o2 \in Owners(j) : o1 = o2
        /\ Owners(j) # {} => state[j] \in Active

\* The attempt number in the arq id does its work: Redis never knows the id
\* that a submission or a retry is about to use, so none is refused.
RetryAccepted ==
    \A j \in Jobs, a \in Attempts : api[j][a] = "enqueue" => a \notin seen[j]

\* The tagging call is not paid for twice: no answer of the LLM is applied
\* for a job whose progress already records the tag step.
NeverRetagged ==
    [][\A j \in Jobs, a \in Attempts :
          pc[j][a] = "llm" /\ pc'[j][a] = "topics" => "tag" \notin steps[j]]_vars

\* The job row moves only as the state machine of services/jobs.py says.
LifecycleSpec == Life!Spec

\* progress_json never claims more than the library holds: a step is recorded
\* after its effects and after the steps before it, whatever fails or dies in
\* between, so a resumed run may skip what is recorded.
ProgressIsBacked ==
    \A j \in Jobs :
        LET p == Content[j] IN
        /\ "download" \in steps[j] => p \in files
        /\ "extract" \in steps[j] =>
              "download" \in steps[j] /\ origin[p] # "absent" /\ "text" \in has[p]
        /\ "index" \in steps[j] => "extract" \in steps[j]
        /\ "tag" \in steps[j] => "index" \in steps[j] /\ {"summary", "topics"} \subseteq has[p]
        /\ "embed" \in steps[j] =>
              /\ "tag" \in steps[j]
              /\ VecLoaded => {"vector", "model"} \subseteq has[p]

\* What "done" means: the job points at a paper, and unless it was recognised
\* as a duplicate it has been through every step.
DoneIsIngested ==
    \A j \in Jobs :
        state[j] = "done" =>
            /\ attached[j] /\ origin[Content[j]] # "absent"
            /\ duplicate[j] \/ steps[j] = Step

\* Two submissions of one PDF, in any mix of uploads and URLs: at most one
\* job ingests it, every other one ends as a duplicate.
SoleIngester ==
    \A j, k \in Jobs :
        /\ j # k /\ Content[j] = Content[k]
        /\ attached[j] /\ ~duplicate[j]
        => ~(attached[k] /\ ~duplicate[k])

\* What takes a job away from whoever holds it and does not tell the row.
Fault ==
    \/ WorkerCrash \/ BrokerRestart \/ ApiCrash \/ DbError
    \/ \E j \in Jobs, a \in Attempts : JobTimeout(j, a)

\* app.js's watchJob and every other poller wait for done or failed.  An
\* exception in the try block of a run, and one of an enqueue, is recorded in
\* the row; so whoever holds a job lets go of it in one of the two, except
\* that: a process dies, a job times out, Redis restarts, or a statement
\* raises where no except clause covers it or in the except clause itself.
\* An instance without "unrecorded" shows that no path forgets that write.
HeldUntilRest ==
    [][\A j \in Jobs :
          Owners(j) # {} /\ Owners(j)' = {} => state'[j] \in TERMINAL_STATES \/ Fault]_vars

\* Nobody holds a job for ever, whatever fails: every handler, queued id and
\* run is let go again (with HeldUntilRest: at rest, or by a fault).
JobsSettle == \A j \in Jobs : []<>(Owners(j) = {})

\* api/jobs.py: a retry "resumes from the last completed step".  So a job that
\* has its own paper is not turned into a duplicate of it.
ResumeKeepsPaper ==
    [][\A j \in Jobs : attached[j] /\ ~duplicate[j] => ~duplicate'[j]]_vars

\* worker.py: queued work survives container restarts, and retries live in the
\* row.  So a job that is not at rest is held by somebody who will move it.
NoStrandedJob ==
    \A j \in Jobs : state[j] \in Active => Owners(j) # {}

=============================================================================
