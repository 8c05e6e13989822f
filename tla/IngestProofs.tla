---------------------------- MODULE IngestProofs ----------------------------
(***************************************************************************)
(* What holds of module Ingest for every set of jobs and papers and every  *)
(* bound on retries.                                                       *)
(***************************************************************************)
EXTENDS Ingest, TLAPS

LEMMA ZeroIsAttempt == 0 \in Attempts
  BY MaxRunsAssumption DEF Attempts

(***************************************************************************)
(* Type correctness.                                                       *)
(***************************************************************************)
LEMMA InitTypeOK == Init => TypeOK
  BY DEF Init, TypeOK, JobState, Active, ApiState, RunState

LEMMA HandlerTypeOK ==
    ASSUME TypeOK, NEW j \in Jobs, Handler(j)
    PROVE  TypeOK'
<1> USE ZeroIsAttempt DEF TypeOK, set_state, brokerVars, JobState, Active,
        TERMINAL_STATES, ApiState
<1>1. CASE Submit(j)
  BY <1>1, ContentAssumption DEF Submit
<1>2. CASE SubmitDuplicate(j)
  BY <1>2 DEF SubmitDuplicate
<1>3. CASE AttachDuplicate(j)
  BY <1>3 DEF AttachDuplicate
<1>3c. CASE CloseDuplicate(j)
  BY <1>3c DEF CloseDuplicate
<1>4. CASE Retry(j)
  BY <1>4 DEF Retry
<1>5. ASSUME NEW a \in Attempts, Enqueue(j, a) PROVE TypeOK'
  BY <1>5 DEF Enqueue, dbVars
<1>6. ASSUME NEW a \in Attempts, Refuse(j, a) PROVE TypeOK'
  BY <1>6 DEF Refuse, dbVars
<1>7. ASSUME NEW a \in Attempts, Outage(j, a) PROVE TypeOK'
  BY <1>7 DEF Outage, dbVars
<1>8. ASSUME NEW a \in Attempts, LostAck(j, a) PROVE TypeOK'
  BY <1>8 DEF LostAck, dbVars
<1>9. ASSUME NEW a \in Attempts, ReportFailure(j, a) PROVE TypeOK'
  BY <1>9 DEF ReportFailure
<1>10. QED
  BY <1>1, <1>2, <1>3, <1>3c, <1>4, <1>5, <1>6, <1>7, <1>8, <1>9 DEF Handler

LEMMA NextStepType == \A done : NextStep(done) \in RunState
  BY DEF NextStep, RunState, Statements

LEMMA RunTypeOK ==
    ASSUME TypeOK, NEW j \in Jobs, NEW a \in Attempts, _run(j, a)
    PROVE  TypeOK'
<1> USE DEF TypeOK, brokerVars, GoTo, RunState, Statements, Awaits
<1>p. Content[j] \in Papers
  BY ContentAssumption
<1>1. CASE Start(j, a)
  BY <1>1 DEF Start
<1>2. CASE SetDownloading(j, a)
  <2>1. state' \in [Jobs -> JobState \cup {"none"}]
    BY <1>2 DEF SetDownloading, set_state, JobState, Active, Working
  <2>2. pc' \in [Jobs -> [Attempts -> RunState]]
    <3>1. CASE GoTo(j, a, "fetch")
      BY <3>1
    <3>2. CASE GoTo(j, a, "markDownload")
      BY <3>2
    <3>3. QED
      BY <1>2, <3>1, <3>2 DEF SetDownloading
  <2>3. QED
    BY <1>2, <2>1, <2>2 DEF SetDownloading
<1>3. CASE Fetch(j, a)
  BY <1>3, <1>p DEF Fetch
<1>4. CASE MarkDownload(j, a)
  BY <1>4 DEF MarkDownload, mark_step_done, Step
<1>5. CASE ShortCircuit(j, a)
  BY <1>5 DEF ShortCircuit
<1>6. CASE GetOrCreatePaper(j, a)
  BY <1>6, <1>p, KindAssumption DEF GetOrCreatePaper
<1>7. CASE Attach(j, a)
  BY <1>7 DEF Attach
<1>8. CASE SetExtracting(j, a)
  BY <1>8 DEF SetExtracting, set_state, JobState, Active, Working
<1>9. CASE SetFullText(j, a)
  BY <1>9, <1>p DEF SetFullText, store, Facets
<1>10. CASE MarkExtract(j, a)
  BY <1>10, NextStepType DEF MarkExtract, mark_step_done, Step
<1>11. CASE SetIndexing(j, a)
  BY <1>11 DEF SetIndexing, set_state, JobState, Active, Working
<1>12. CASE BuildTree(j, a)
  BY <1>12, <1>p DEF BuildTree, store, Facets
<1>13. CASE MarkIndex(j, a)
  BY <1>13, NextStepType DEF MarkIndex, mark_step_done, Step
<1>14. CASE SetTagging(j, a)
  BY <1>14 DEF SetTagging, set_state, JobState, Active, Working
<1>15. CASE UpdatePaper(j, a)
  BY <1>15, <1>p DEF UpdatePaper, store, Facets
<1>16. CASE ApplyTopics(j, a)
  BY <1>16, <1>p DEF ApplyTopics, store, Facets
<1>17. CASE MarkTag(j, a)
  BY <1>17, NextStepType DEF MarkTag, mark_step_done, Step
<1>18. CASE SetEmbedding(j, a)
  BY <1>18 DEF SetEmbedding, set_state, JobState, Active, Working
<1>19. CASE DeleteVector(j, a)
  BY <1>19, <1>p DEF DeleteVector
<1>20. CASE InsertVector(j, a)
  BY <1>20, <1>p DEF InsertVector, store, Facets
<1>21. CASE RecordModel(j, a)
  BY <1>21, <1>p DEF RecordModel, store, Facets
<1>22. CASE MarkEmbed(j, a)
  BY <1>22 DEF MarkEmbed, mark_step_done, Step
<1>23. CASE SetDone(j, a)
  BY <1>23 DEF SetDone, set_state, JobState, TERMINAL_STATES
<1>24. CASE Fail(j, a)
  BY <1>24 DEF Fail, set_state, JobState, TERMINAL_STATES
<1>25. QED
  BY <1>1, <1>2, <1>3, <1>4, <1>5, <1>6, <1>7, <1>8, <1>9, <1>10, <1>11,
     <1>12, <1>13, <1>14, <1>15, <1>16, <1>17, <1>18, <1>19, <1>20, <1>21,
     <1>22, <1>23, <1>24
  DEF _run

LEMMA EnvironmentTypeOK ==
    ASSUME TypeOK, Environment
    PROVE  TypeOK'
<1> USE DEF TypeOK, dbVars, brokerVars, RunState, ApiState
<1>1. CASE WorkerCrash
  BY <1>1 DEF WorkerCrash
<1>2. CASE BrokerRestart
  BY <1>2 DEF BrokerRestart
<1>3. CASE ApiCrash
  BY <1>3 DEF ApiCrash
<1>4. ASSUME NEW j \in Jobs, NEW a \in Attempts, JobTimeout(j, a)
      PROVE  TypeOK'
  BY <1>4 DEF JobTimeout, GoTo
<1>5. ASSUME NEW j \in Jobs, NEW a \in Attempts, ResultExpires(j, a)
      PROVE  TypeOK'
  BY <1>5 DEF ResultExpires
<1>6. QED
  BY <1>1, <1>2, <1>3, <1>4, <1>5 DEF Environment

LEMMA DbErrorTypeOK ==
    ASSUME TypeOK, DbError
    PROVE  TypeOK'
<1> USE ZeroIsAttempt DEF TypeOK, dbVars, brokerVars, RunState, ApiState
<1>1. ASSUME NEW j \in Jobs, SubmitFails(j) PROVE TypeOK'
  BY <1>1, ContentAssumption DEF SubmitFails, set_state, JobState, Active
<1>2. ASSUME NEW j \in Jobs, AbandonDuplicate(j) PROVE TypeOK'
  BY <1>2 DEF AbandonDuplicate
<1>3. ASSUME NEW j \in Jobs, NEW a \in Attempts, ReportUnrecorded(j, a)
      PROVE  TypeOK'
  BY <1>3 DEF ReportUnrecorded
<1>4. ASSUME NEW j \in Jobs, NEW a \in Attempts, StartFails(j, a)
      PROVE  TypeOK'
  BY <1>4 DEF StartFails
<1>5. ASSUME NEW j \in Jobs, NEW a \in Attempts, FailUnrecorded(j, a)
      PROVE  TypeOK'
  BY <1>5 DEF FailUnrecorded, GoTo
<1>6. QED
  BY <1>1, <1>2, <1>3, <1>4, <1>5 DEF DbError

LEMMA NextTypeOK == TypeOK /\ [Next]_vars => TypeOK'
<1> SUFFICES ASSUME TypeOK, [Next]_vars PROVE TypeOK'
  OBVIOUS
<1>1. CASE Next
  BY <1>1, HandlerTypeOK, RunTypeOK, EnvironmentTypeOK, DbErrorTypeOK DEF Next
<1>2. CASE UNCHANGED vars
  BY <1>2 DEF TypeOK, vars
<1>3. QED
  BY <1>1, <1>2

\* Every variable keeps its type, whatever the faults.
THEOREM TypeCorrect == Spec => []TypeOK
  BY InitTypeOK, NextTypeOK, PTL DEF Spec
(***************************************************************************)
(* One owner per job, and the state machine.                               *)
(*                                                                         *)
(* OneOwner is not inductive: that the retry endpoint starts no second run *)
(* depends on what the attempt numbers say.  The number in an arq id that  *)
(* is queued, or about to be, is the number of runs so far; the number of  *)
(* a run that has started is smaller; and Redis knows no id that a later   *)
(* attempt will use, unless no attempt can follow: a run that ended before *)
(* it counted itself leaves an active row that nobody holds (Stranded).    *)
(***************************************************************************)
Reach(at) ==
    IF at = "download" THEN 0
    ELSE IF at \in {"fetch", "markDownload", "dedup", "attach", "extract"} THEN 1
    ELSE IF at \in {"text", "markExtract", "index"} THEN 2
    ELSE IF at \in {"building", "markIndex", "tag"} THEN 3
    ELSE IF at \in {"llm", "topics", "markTag", "embed"} THEN 4
    ELSE 5

\* A run has a number below the count, and its row is in a state the pipeline
\* has reached by then.
RunInv(j) ==
    \A a \in Attempts : pc[j][a] # "off" =>
        /\ a < attempts[j]
        /\ state[j] \in Active
        /\ Life!Rank[state[j]] <= Reach(pc[j][a])
        /\ pc[j][a] \in {"tag", "llm", "topics", "markTag"} => "index" \in steps[j]
        /\ \A b \in Attempts : pc[j][b] # "off" => b = a

\* A queued id carries the count, and nothing else holds the job.
QueueInv(j) ==
    \A a \in queue[j] :
        /\ a = attempts[j]
        /\ state[j] = "queued"
        /\ \A b \in Attempts : pc[j][b] = "off" /\ api[j][b] = "off"

\* So does the id a handler is about to use, which Redis does not know.
ApiInv(j) ==
    \A a \in Attempts : api[j][a] # "off" =>
        /\ a = attempts[j]
        /\ state[j] = "queued"
        /\ a \notin seen[j]
        /\ \A b \in Attempts : pc[j][b] = "off"

Stranded(j) ==
    /\ state[j] \in Active /\ queue[j] = {}
    /\ \A a \in Attempts : api[j][a] = "off" /\ pc[j][a] = "off"

SeenInv(j) ==
    /\ queue[j] \subseteq seen[j]
    /\ \A a \in seen[j] : a < attempts[j] \/ a \in queue[j] \/ Stranded(j)

NewInv(j) == state[j] = "none" => attempts[j] = 0

JobInv(j) == RunInv(j) /\ QueueInv(j) /\ ApiInv(j) /\ SeenInv(j) /\ NewInv(j)

OwnerInv == \A j \in Jobs : JobInv(j)
\* What every statement of a run but its first and its last does: it moves on
\* and leaves the row's state alone, or sets a state further down the pipeline.
ProceedTo(j, a, n) ==
    /\ pc[j][a] # "off" /\ n # "off" /\ GoTo(j, a, n)
    /\ UNCHANGED <<attempts, queue, seen, api>>
    /\ \A k \in Jobs : steps[k] \subseteq steps'[k]
    /\ n \in {"tag", "llm", "topics", "markTag"} => "index" \in steps'[j]
    /\ \/ Reach(pc[j][a]) <= Reach(n) /\ UNCHANGED state
       \/ \E s \in Working : /\ set_state(j, s)
                             /\ Reach(pc[j][a]) < Life!Rank[s]
                             /\ Life!Rank[s] <= Reach(n)

Proceed(j, a) == \E n \in RunState : ProceedTo(j, a, n)

LEMMA RankValues ==
    /\ Life!Rank["queued"] = 0 /\ Life!Rank["downloading"] = 1
    /\ Life!Rank["extracting"] = 2 /\ Life!Rank["indexing"] = 3
    /\ Life!Rank["tagging"] = 4 /\ Life!Rank["embedding"] = 5
    /\ Life!Rank["done"] = 6
  BY DEF Life!Rank

LEMMA MarkOnlyAdds ==
    ASSUME TypeOK, NEW j \in Jobs, NEW s, mark_step_done(j, s)
    PROVE  /\ \A k \in Jobs : steps[k] \subseteq steps'[k]
           /\ steps'[j] = steps[j] \cup {s}
  BY DEF TypeOK, mark_step_done

LEMMA RunProceeds ==
    ASSUME TypeOK, NEW j \in Jobs, NEW a \in Attempts, RunInv(j),
           _run(j, a), ~Start(j, a), ~SetDone(j, a), ~Fail(j, a)
    PROVE  Proceed(j, a)
<1> USE DEF ProceedTo, At, brokerVars, Reach
<1>1. CASE SetDownloading(j, a)
  <2>1. ProceedTo(j, a, "fetch") \/ ProceedTo(j, a, "markDownload")
    BY <1>1, RankValues DEF SetDownloading, Working
  <2>2. QED
    BY <2>1 DEF Proceed, RunState, Statements, Awaits
<1>2. CASE Fetch(j, a)
  <2>1. ProceedTo(j, a, "markDownload")
    BY <1>2 DEF Fetch
  <2>2. QED
    BY <2>1 DEF Proceed, RunState, Statements, Awaits
<1>3. CASE MarkDownload(j, a)
  <2>1. ProceedTo(j, a, "dedup")
    BY <1>3, MarkOnlyAdds DEF MarkDownload
  <2>2. QED
    BY <2>1 DEF Proceed, RunState, Statements, Awaits
<1>4. CASE ShortCircuit(j, a)
  <2>1. ProceedTo(j, a, "finish")
    BY <1>4 DEF ShortCircuit
  <2>2. QED
    BY <2>1 DEF Proceed, RunState, Statements, Awaits
<1>5. CASE GetOrCreatePaper(j, a)
  <2>1. ProceedTo(j, a, "attach")
    BY <1>5 DEF GetOrCreatePaper
  <2>2. QED
    BY <2>1 DEF Proceed, RunState, Statements, Awaits
<1>6. CASE Attach(j, a)
  <2>1. ProceedTo(j, a, "extract")
    BY <1>6 DEF Attach
  <2>2. QED
    BY <2>1 DEF Proceed, RunState, Statements, Awaits
<1>7. CASE SetExtracting(j, a)
  <2>1. ProceedTo(j, a, "text")
    BY <1>7, RankValues DEF SetExtracting, Working
  <2>2. QED
    BY <2>1 DEF Proceed, RunState, Statements, Awaits
<1>8. CASE SetFullText(j, a)
  <2>1. ProceedTo(j, a, "markExtract")
    BY <1>8 DEF SetFullText
  <2>2. QED
    BY <2>1 DEF Proceed, RunState, Statements, Awaits
<1>9. CASE MarkExtract(j, a)
  <2>1. ProceedTo(j, a, NextStep(steps[j]))
    BY <1>9, MarkOnlyAdds DEF MarkExtract, NextStep
  <2>2. QED
    BY <2>1, NextStepType DEF Proceed, RunState, Statements, Awaits
<1>10. CASE SetIndexing(j, a)
  <2>1. ProceedTo(j, a, "building")
    BY <1>10, RankValues DEF SetIndexing, Working
  <2>2. QED
    BY <2>1 DEF Proceed, RunState, Statements, Awaits
<1>11. CASE BuildTree(j, a)
  <2>1. ProceedTo(j, a, "markIndex")
    BY <1>11 DEF BuildTree
  <2>2. QED
    BY <2>1 DEF Proceed, RunState, Statements, Awaits
<1>12. CASE MarkIndex(j, a)
  <2>1. ProceedTo(j, a, NextStep(steps[j] \cup {"index"}))
    BY <1>12, MarkOnlyAdds DEF MarkIndex, NextStep, RunInv
  <2>2. QED
    BY <2>1, NextStepType DEF Proceed, RunState, Statements, Awaits
<1>13. CASE SetTagging(j, a)
  <2>1. ProceedTo(j, a, "llm")
    BY <1>13, RankValues DEF SetTagging, Working, RunInv
  <2>2. QED
    BY <2>1 DEF Proceed, RunState, Statements, Awaits
<1>14. CASE UpdatePaper(j, a)
  <2>1. ProceedTo(j, a, "topics")
    BY <1>14 DEF UpdatePaper, RunInv
  <2>2. QED
    BY <2>1 DEF Proceed, RunState, Statements, Awaits
<1>15. CASE ApplyTopics(j, a)
  <2>1. ProceedTo(j, a, "markTag")
    BY <1>15 DEF ApplyTopics, RunInv
  <2>2. QED
    BY <2>1 DEF Proceed, RunState, Statements, Awaits
<1>16. CASE MarkTag(j, a)
  <2>1. ProceedTo(j, a, NextStep(steps[j] \cup {"tag"}))
    BY <1>16, MarkOnlyAdds DEF MarkTag, NextStep, RunInv
  <2>2. QED
    BY <2>1, NextStepType DEF Proceed, RunState, Statements, Awaits
<1>17. CASE SetEmbedding(j, a)
  <2>1. ProceedTo(j, a, "delete") \/ ProceedTo(j, a, "markEmbed")
    BY <1>17, RankValues DEF SetEmbedding, Working
  <2>2. QED
    BY <2>1 DEF Proceed, RunState, Statements, Awaits
<1>18. CASE DeleteVector(j, a)
  <2>1. ProceedTo(j, a, "insert")
    BY <1>18 DEF DeleteVector
  <2>2. QED
    BY <2>1 DEF Proceed, RunState, Statements, Awaits
<1>19. CASE InsertVector(j, a)
  <2>1. ProceedTo(j, a, "model")
    BY <1>19 DEF InsertVector
  <2>2. QED
    BY <2>1 DEF Proceed, RunState, Statements, Awaits
<1>20. CASE RecordModel(j, a)
  <2>1. ProceedTo(j, a, "markEmbed")
    BY <1>20 DEF RecordModel
  <2>2. QED
    BY <2>1 DEF Proceed, RunState, Statements, Awaits
<1>21. CASE MarkEmbed(j, a)
  <2>1. ProceedTo(j, a, "finish")
    BY <1>21, MarkOnlyAdds DEF MarkEmbed
  <2>2. QED
    BY <2>1 DEF Proceed, RunState, Statements, Awaits
<1>22. QED
  BY <1>1, <1>2, <1>3, <1>4, <1>5, <1>6, <1>7, <1>8, <1>9, <1>10, <1>11,
     <1>12, <1>13, <1>14, <1>15, <1>16, <1>17, <1>18, <1>19, <1>20, <1>21
  DEF _run

LEMMA InitOwnerInv == Init => OwnerInv
<1> SUFFICES ASSUME Init, NEW j \in Jobs PROVE JobInv(j)
  BY DEF OwnerInv
<1>1. /\ attempts[j] = 0 /\ queue[j] = {} /\ seen[j] = {}
      /\ \A a \in Attempts : api[j][a] = "off" /\ pc[j][a] = "off"
  BY DEF Init
<1>2. QED
  BY <1>1 DEF JobInv, RunInv, QueueInv, ApiInv, SeenInv, Stranded, NewInv

\* A step that leaves a job's row, ids, handlers and runs alone.
Spares(k) ==
    /\ state'[k] = state[k] /\ attempts'[k] = attempts[k]
    /\ steps[k] \subseteq steps'[k]
    /\ queue'[k] = queue[k] /\ seen'[k] = seen[k]
    /\ api'[k] = api[k] /\ pc'[k] = pc[k]

LEMMA SparedJob ==
    ASSUME NEW k \in Jobs, JobInv(k), Spares(k)
    PROVE  JobInv(k)'
  BY DEF Spares, JobInv, RunInv, QueueInv, ApiInv, SeenInv, Stranded, NewInv

LEMMA HandlerOwnerInv ==
    ASSUME TypeOK, "lost_ack" \notin Faults, OwnerInv, NEW j \in Jobs, Handler(j)
    PROVE  OwnerInv'
<1> USE DEF TypeOK, set_state, brokerVars, dbVars
<1>i. JobInv(j)
  BY DEF OwnerInv
<1>o. ASSUME JobInv(j)', \A k \in Jobs \ {j} : Spares(k)
      PROVE  OwnerInv'
  BY <1>o, SparedJob DEF OwnerInv
<1>n. ASSUME state[j] = "none"
      PROVE  /\ attempts[j] = 0 /\ queue[j] = {} /\ seen[j] = {}
             /\ \A a \in Attempts : api[j][a] = "off" /\ pc[j][a] = "off"
  <2>1. /\ attempts[j] = 0 /\ queue[j] = {} /\ state[j] \notin Active
        /\ \A a \in Attempts : api[j][a] = "off" /\ pc[j][a] = "off"
    BY <1>i, <1>n DEF JobInv, RunInv, QueueInv, ApiInv, NewInv, Active, Working
  <2>2. ASSUME NEW a \in seen[j] PROVE FALSE
    BY <2>1, <1>i DEF JobInv, SeenInv, Stranded, Attempts
  <2>3. QED
    BY <2>1, <2>2
<1>1. CASE Submit(j)
  <2>1. JobInv(j)'
    BY <1>1, <1>n, ZeroIsAttempt, <1>i
    DEF Submit, JobInv, RunInv, QueueInv, ApiInv, SeenInv, Stranded, NewInv
  <2>2. QED
    BY <1>1, <1>o, <2>1 DEF Submit, Spares
<1>2. CASE SubmitDuplicate(j)
  <2>1. JobInv(j)'
    BY <1>2, <1>n, ZeroIsAttempt, <1>i
    DEF SubmitDuplicate, JobInv, RunInv, QueueInv, ApiInv, SeenInv, Stranded, NewInv
  <2>2. QED
    BY <1>2, <1>o, <2>1 DEF SubmitDuplicate, Spares
<1>3. CASE AttachDuplicate(j)
  <2>1. JobInv(j)'
    BY <1>3, ZeroIsAttempt, <1>i
    DEF AttachDuplicate, JobInv, RunInv, QueueInv, ApiInv, SeenInv, Stranded, NewInv
  <2>2. QED
    BY <1>3, <1>o, <2>1 DEF AttachDuplicate, Spares
<1>3c. CASE CloseDuplicate(j)
  <2>1. JobInv(j)'
    BY <1>3c, ZeroIsAttempt, <1>i
    DEF CloseDuplicate, JobInv, RunInv, QueueInv, ApiInv, SeenInv, Stranded, NewInv
  <2>2. QED
    BY <1>3c, <1>o, <2>1 DEF CloseDuplicate, Spares
<1>4. CASE Retry(j)
  <2>1. /\ attempts[j] \in Attempts
        /\ queue[j] = {} /\ \A b \in seen[j] : b < attempts[j]
        /\ \A a \in Attempts : api[j][a] = "off" /\ pc[j][a] = "off"
    BY <1>4, <1>i, MaxRunsAssumption
    DEF Retry, Attempts, JobInv, RunInv, QueueInv, ApiInv, SeenInv, Stranded, Active, Working
  <2>2. JobInv(j)'
    BY <1>4, <2>1, <1>i
    DEF Retry, JobInv, RunInv, QueueInv, ApiInv, SeenInv, Stranded, NewInv
  <2>3. QED
    BY <1>4, <1>o, <2>2 DEF Retry, Spares
<1>5. ASSUME NEW a \in Attempts, Enqueue(j, a) PROVE OwnerInv'
  <2>1. JobInv(j)'
    BY <1>5, <1>i
    DEF Enqueue, JobInv, RunInv, QueueInv, ApiInv, SeenInv, Stranded, NewInv
  <2>2. QED
    BY <1>5, <1>o, <2>1 DEF Enqueue, Spares
<1>6. ASSUME NEW a \in Attempts, Refuse(j, a) PROVE OwnerInv'
  BY <1>6, <1>i DEF Refuse, JobInv, ApiInv
<1>7. ASSUME NEW a \in Attempts, Outage(j, a) PROVE OwnerInv'
  <2>1. JobInv(j)'
    BY <1>7, <1>i
    DEF Outage, JobInv, RunInv, QueueInv, ApiInv, SeenInv, Stranded, NewInv
  <2>2. QED
    BY <1>7, <1>o, <2>1 DEF Outage, Spares
<1>8. ASSUME NEW a \in Attempts, ReportFailure(j, a) PROVE OwnerInv'
  <2>1. JobInv(j)'
    BY <1>8, <1>i
    DEF ReportFailure, JobInv, RunInv, QueueInv, ApiInv, SeenInv, Stranded, NewInv
  <2>2. QED
    BY <1>8, <1>o, <2>1 DEF ReportFailure, Spares
<1>9. QED
  BY <1>1, <1>2, <1>3, <1>3c, <1>4, <1>5, <1>6, <1>7, <1>8 DEF Handler, LostAck

LEMMA RunOwnerInv ==
    ASSUME TypeOK, OwnerInv, NEW j \in Jobs, NEW a \in Attempts, _run(j, a)
    PROVE  OwnerInv'
<1> USE DEF TypeOK, GoTo, set_state, brokerVars
<1>i. JobInv(j)
  BY DEF OwnerInv
<1>o. ASSUME JobInv(j)', \A k \in Jobs \ {j} : Spares(k)
      PROVE  OwnerInv'
  BY <1>o, SparedJob DEF OwnerInv
<1>1. CASE Start(j, a)
  <2>1. /\ a = attempts[j] /\ state[j] = "queued"
        /\ \A b \in Attempts : pc[j][b] = "off" /\ api[j][b] = "off"
    BY <1>1, <1>i DEF Start, JobInv, QueueInv
  <2>s. \A b \in seen[j] : b <= attempts[j]
    <3> SUFFICES ASSUME NEW b \in seen[j] PROVE b <= attempts[j]
      OBVIOUS
    <3>1. b \in Nat /\ attempts[j] \in Nat
      BY DEF Attempts
    <3>2. b < attempts[j] \/ b \in queue[j]
      BY <1>1, <1>i DEF Start, JobInv, SeenInv, Stranded
    <3>3. b \in queue[j] => b = attempts[j]
      BY <1>i DEF JobInv, QueueInv
    <3>4. QED
      BY <3>1, <3>2, <3>3
  <2>2. /\ attempts'[j] = attempts[j] + 1 /\ state'[j] = "queued"
        /\ queue'[j] = {} /\ seen'[j] = seen[j] /\ api'[j] = api[j]
    BY <1>1, <2>1, <1>i DEF Start, JobInv, QueueInv
  <2>3. \A b \in Attempts : pc'[j][b] # "off" =>
              b = a /\ pc'[j][b] \in {"dedup", "download"}
    BY <1>1, <2>1 DEF Start
  <2>4. RunInv(j)'
    <3>1. attempts[j] < attempts'[j] /\ state'[j] \in Active
      BY <2>2 DEF Active
    <3>2. Life!Rank[state'[j]] = 0
      BY <2>2, RankValues
    <3>3. \A b \in Attempts : pc'[j][b] # "off" => 0 <= Reach(pc'[j][b])
      BY <2>3 DEF Reach
    <3>4. QED
      BY <2>1, <2>3, <3>1, <3>2, <3>3 DEF RunInv
  <2>5. QueueInv(j)' /\ ApiInv(j)' /\ NewInv(j)'
    BY <2>1, <2>2 DEF QueueInv, ApiInv, NewInv
  <2>6. SeenInv(j)'
    BY <2>1, <2>s, <2>2 DEF SeenInv, Attempts
  <2>7. QED
    BY <1>1, <1>o, <2>4, <2>5, <2>6 DEF Start, Spares, JobInv
<1>2. CASE SetDone(j, a)
  <2>1. JobInv(j)'
    BY <1>2, <1>i
    DEF SetDone, At, JobInv, RunInv, QueueInv, ApiInv, SeenInv, Stranded, NewInv
  <2>2. QED
    BY <1>2, <1>o, <2>1 DEF SetDone, Spares
<1>3. CASE Fail(j, a)
  <2>1. pc[j][a] # "off"
    BY <1>3 DEF Fail, Raises, Statements, Awaits
  <2>2. JobInv(j)'
    BY <1>3, <2>1, <1>i
    DEF Fail, JobInv, RunInv, QueueInv, ApiInv, SeenInv, Stranded, NewInv
  <2>3. QED
    BY <1>3, <1>o, <2>2 DEF Fail, Spares
<1>4. CASE ~Start(j, a) /\ ~SetDone(j, a) /\ ~Fail(j, a)
  <2>1. PICK n \in RunState : ProceedTo(j, a, n)
    BY <1>4, <1>i, RunProceeds DEF Proceed, JobInv
  <2>2. state'[j] \in Active /\ Life!Rank[state'[j]] <= Reach(n)
    <3>1. /\ state[j] \in Active
          /\ Life!Rank[state[j]] <= Reach(pc[j][a])
      BY <2>1, <1>i DEF ProceedTo, JobInv, RunInv
    <3>2. Life!Rank[state[j]] \in Nat /\ Reach(pc[j][a]) \in Nat /\ Reach(n) \in Nat
      BY <3>1, RankValues DEF Active, Working, Reach
    <3>3. CASE Reach(pc[j][a]) <= Reach(n) /\ UNCHANGED state
      BY <3>1, <3>2, <3>3
    <3>4. ASSUME NEW s \in Working, set_state(j, s), Life!Rank[s] <= Reach(n)
          PROVE  state'[j] \in Active /\ Life!Rank[state'[j]] <= Reach(n)
      BY <3>4 DEF Active
    <3>5. QED
      BY <2>1, <3>3, <3>4 DEF ProceedTo
  <2>3. JobInv(j)'
    BY <2>1, <2>2, <1>i
    DEF ProceedTo, JobInv, RunInv, QueueInv, ApiInv, SeenInv, Stranded, NewInv, Active, Working
  <2>4. QED
    BY <2>1, <1>o, <2>3 DEF ProceedTo, Spares
<1>5. QED
  BY <1>1, <1>2, <1>3, <1>4

LEMMA EnvironmentOwnerInv ==
    ASSUME TypeOK, OwnerInv, Environment
    PROVE  OwnerInv'
<1> USE DEF TypeOK, OwnerInv, JobInv, RunInv, QueueInv, ApiInv, SeenInv, Stranded, NewInv,
        dbVars, brokerVars
<1>1. CASE WorkerCrash
  BY <1>1 DEF WorkerCrash
<1>2. CASE BrokerRestart
  BY <1>2 DEF BrokerRestart
<1>3. CASE ApiCrash
  BY <1>3 DEF ApiCrash
<1>4. ASSUME NEW j \in Jobs, NEW a \in Attempts, JobTimeout(j, a)
      PROVE  OwnerInv'
  BY <1>4 DEF JobTimeout, GoTo
<1>5. ASSUME NEW j \in Jobs, NEW a \in Attempts, ResultExpires(j, a)
      PROVE  OwnerInv'
  BY <1>5 DEF ResultExpires
<1>6. QED
  BY <1>1, <1>2, <1>3, <1>4, <1>5 DEF Environment

LEMMA DbErrorOwnerInv ==
    ASSUME TypeOK, OwnerInv, DbError
    PROVE  OwnerInv'
<1> USE DEF TypeOK, dbVars, brokerVars
<1>o. ASSUME NEW j \in Jobs, JobInv(j)', \A k \in Jobs \ {j} : Spares(k)
      PROVE  OwnerInv'
  BY <1>o, SparedJob DEF OwnerInv
<1>i. \A j \in Jobs : JobInv(j)
  BY DEF OwnerInv
<1>1. ASSUME NEW j \in Jobs, SubmitFails(j) PROVE OwnerInv'
  <2>1. JobInv(j)'
    BY <1>1, <1>i DEF SubmitFails, set_state, JobInv, RunInv, QueueInv, ApiInv, SeenInv,
       Stranded, NewInv, Active, Working
  <2>2. QED
    BY <1>1, <1>o, <2>1 DEF SubmitFails, set_state, Spares
<1>2. ASSUME NEW j \in Jobs, AbandonDuplicate(j) PROVE OwnerInv'
  <2>1. JobInv(j)'
    BY <1>2, <1>i DEF AbandonDuplicate, JobInv, RunInv, QueueInv, ApiInv, SeenInv,
       Stranded, NewInv
  <2>2. QED
    BY <1>2, <1>o, <2>1 DEF AbandonDuplicate, Spares
<1>3. ASSUME NEW j \in Jobs, NEW a \in Attempts, ReportUnrecorded(j, a)
      PROVE  OwnerInv'
  <2>1. JobInv(j)'
    BY <1>3, <1>i DEF ReportUnrecorded, JobInv, RunInv, QueueInv, ApiInv, SeenInv,
       Stranded, NewInv
  <2>2. QED
    BY <1>3, <1>o, <2>1 DEF ReportUnrecorded, Spares
<1>4. ASSUME NEW j \in Jobs, NEW a \in Attempts, StartFails(j, a)
      PROVE  OwnerInv'
  <2>1. /\ a = attempts[j] /\ state[j] = "queued"
        /\ \A b \in Attempts : pc[j][b] = "off" /\ api[j][b] = "off"
        /\ queue[j] = {a}
    BY <1>4, <1>i DEF StartFails, JobInv, QueueInv
  <2>2. /\ state' = state /\ queue'[j] = {} /\ seen' = seen /\ api' = api /\ pc' = pc
        /\ attempts'[j] \in {attempts[j], attempts[j] + 1}
    BY <1>4, <2>1 DEF StartFails
  <2>3. Stranded(j)'
    BY <2>1, <2>2 DEF Stranded, Active
  <2>4. RunInv(j)' /\ QueueInv(j)' /\ ApiInv(j)' /\ SeenInv(j)' /\ NewInv(j)'
    BY <2>1, <2>2, <2>3 DEF RunInv, QueueInv, ApiInv, SeenInv, NewInv
  <2>5. QED
    BY <1>4, <1>o, <2>4 DEF StartFails, Spares, JobInv
<1>5. ASSUME NEW j \in Jobs, NEW a \in Attempts, FailUnrecorded(j, a)
      PROVE  OwnerInv'
  <2>1. JobInv(j)'
    BY <1>5, <1>i DEF FailUnrecorded, GoTo, JobInv, RunInv, QueueInv, ApiInv, SeenInv,
       Stranded, NewInv
  <2>2. QED
    BY <1>5, <1>o, <2>1 DEF FailUnrecorded, GoTo, Spares
<1>6. QED
  BY <1>1, <1>2, <1>3, <1>4, <1>5 DEF DbError

LEMMA NextOwnerInv ==
    "lost_ack" \notin Faults /\ TypeOK /\ OwnerInv /\ [Next]_vars => OwnerInv'
<1> SUFFICES ASSUME "lost_ack" \notin Faults, TypeOK, OwnerInv, [Next]_vars
             PROVE  OwnerInv'
  OBVIOUS
<1>1. CASE Next
  BY <1>1, HandlerOwnerInv, RunOwnerInv, EnvironmentOwnerInv, DbErrorOwnerInv DEF Next
<1>2. CASE UNCHANGED vars
  BY <1>2 DEF vars, OwnerInv, JobInv, RunInv, QueueInv, ApiInv, SeenInv, Stranded, NewInv
<1>3. QED
  BY <1>1, <1>2

THEOREM OwnerInvariant ==
    ASSUME "lost_ack" \notin Faults
    PROVE  Spec => []OwnerInv
  BY InitOwnerInv, NextOwnerInv, TypeCorrect, PTL DEF Spec

\* Unless an enqueue that Redis took can look like one it did not take, a job
\* is held by at most one handler, queued id or run, and by none at rest.
THEOREM SingleOwner ==
    ASSUME "lost_ack" \notin Faults
    PROVE  Spec => []OneOwner
<1>1. TypeOK /\ OwnerInv => OneOwner
  <2> SUFFICES ASSUME TypeOK, OwnerInv, NEW j \in Jobs
               PROVE  /\ \A o1, o2 \in Owners(j) : o1 = o2
                      /\ Owners(j) # {} => state[j] \in Active
    BY DEF OneOwner
  <2>1. JobInv(j)
    BY DEF OwnerInv
  <2>2. ASSUME NEW o1 \in Owners(j), NEW o2 \in Owners(j) PROVE o1 = o2
    <3> DEFINE Holds(o) ==
            \/ o.at = "api" /\ api[j][o.attempt] # "off"
            \/ o.at = "queue" /\ o.attempt \in queue[j]
            \/ o.at = "run" /\ pc[j][o.attempt] # "off"
    <3>1. \A o \in Owners(j) :
              /\ o = [at |-> o.at, attempt |-> o.attempt]
              /\ o.attempt \in Attempts /\ Holds(o)
      BY DEF Owners, TypeOK
    <3>2. o1.at = o2.at /\ o1.attempt = o2.attempt
      BY <2>1, <3>1 DEF JobInv, RunInv, QueueInv, ApiInv
    <3>3. QED
      BY <3>1, <3>2
  <2>3. ASSUME NEW o \in Owners(j) PROVE state[j] \in Active
    BY <2>1 DEF Owners, JobInv, RunInv, QueueInv, ApiInv, Active
  <2>4. QED
    BY <2>2, <2>3
<1>2. QED
  BY <1>1, OwnerInvariant, TypeCorrect, PTL

\* No submission and no retry is refused because Redis still knows its id.
THEOREM RetryNeverRefused ==
    ASSUME "lost_ack" \notin Faults
    PROVE  Spec => []RetryAccepted
<1>1. OwnerInv => RetryAccepted
  BY DEF OwnerInv, JobInv, ApiInv, RetryAccepted
<1>2. QED
  BY <1>1, OwnerInvariant, PTL
(***************************************************************************)
(* The pipeline implements the state machine of services/jobs.py.          *)
(***************************************************************************)
LEMMA HandlerImplements ==
    ASSUME TypeOK, OwnerInv, NEW j \in Jobs, Handler(j)
    PROVE  [Life!Next]_state
<1> USE DEF set_state, dbVars
<1>i. JobInv(j)
  BY DEF OwnerInv
<1>1. CASE Submit(j) \/ SubmitDuplicate(j)
  BY <1>1 DEF Submit, SubmitDuplicate, Life!Next, Life!Submit
<1>2. CASE CloseDuplicate(j)
  <2>1. state[j] = "queued"
    BY <1>2, <1>i, ZeroIsAttempt DEF CloseDuplicate, JobInv, ApiInv
  <2>2. Life!Advance(j)
    <3>1. Life!Rank["done"] > Life!Rank[state[j]]
      BY <2>1, RankValues
    <3>2. state' = [state EXCEPT ![j] = "done"]
      BY <1>2 DEF CloseDuplicate
    <3>3. QED
      BY <2>1, <3>1, <3>2 DEF Life!Advance, Life!Active
  <2>3. QED
    BY <2>2 DEF Life!Next
<1>3. CASE Retry(j)
  BY <1>3 DEF Retry, Life!Next, Life!Retry
<1>4. ASSUME NEW a \in Attempts, ReportFailure(j, a)
      PROVE  [Life!Next]_state
  <2>1. state[j] = "queued"
    BY <1>4, <1>i DEF ReportFailure, JobInv, ApiInv
  <2>2. QED
    BY <1>4, <2>1 DEF ReportFailure, Life!Next, Life!Fail, Life!Active
<1>5. ASSUME NEW a \in Attempts,
             Enqueue(j, a) \/ Refuse(j, a) \/ Outage(j, a) \/ LostAck(j, a)
      PROVE  [Life!Next]_state
  BY <1>5 DEF Enqueue, Refuse, Outage, LostAck
<1>6. CASE AttachDuplicate(j)
  BY <1>6 DEF AttachDuplicate
<1>7. QED
  BY <1>1, <1>2, <1>3, <1>4, <1>5, <1>6 DEF Handler

LEMMA RunImplements ==
    ASSUME TypeOK, OwnerInv, NEW j \in Jobs, NEW a \in Attempts, _run(j, a)
    PROVE  [Life!Next]_state
<1> USE DEF set_state
<1>i. RunInv(j)
  BY DEF OwnerInv, JobInv
<1>r. ASSUME pc[j][a] # "off"
      PROVE  /\ state[j] \in Active
             /\ Life!Rank[state[j]] \in Nat
             /\ Life!Rank[state[j]] <= Reach(pc[j][a])
             /\ Reach(pc[j][a]) \in 0 .. 5
  BY <1>r, <1>i, RankValues DEF RunInv, Active, Working, Reach
<1>1. CASE Start(j, a)
  BY <1>1 DEF Start
<1>2. CASE SetDone(j, a)
  <2>1. Life!Advance(j)
    BY <1>2, <1>r, RankValues
    DEF SetDone, At, Life!Advance, Active, Working, Life!Active, Life!Working
  <2>2. QED
    BY <2>1 DEF Life!Next
<1>3. CASE Fail(j, a)
  BY <1>3, <1>r DEF Fail, Raises, Statements, Awaits, Life!Next, Life!Fail, Active, Working,
     Life!Active, Life!Working
<1>4. CASE ~Start(j, a) /\ ~SetDone(j, a) /\ ~Fail(j, a)
  <2>1. PICK n \in RunState : ProceedTo(j, a, n)
    BY <1>4, <1>i, RunProceeds DEF Proceed
  <2>2. ASSUME NEW s \in Working, set_state(j, s), Reach(pc[j][a]) < Life!Rank[s]
        PROVE  Life!Advance(j)
    <3>1. Life!Rank[s] \in Nat
      BY RankValues DEF Working
    <3>2. Life!Rank[s] > Life!Rank[state[j]]
      BY <2>1, <2>2, <3>1, <1>r DEF ProceedTo
    <3>3. QED
      BY <2>1, <2>2, <3>2, <1>r DEF ProceedTo, Life!Advance, Active, Working,
         Life!Active, Life!Working
  <2>3. QED
    BY <2>1, <2>2 DEF ProceedTo, Life!Next
<1>5. QED
  BY <1>1, <1>2, <1>3, <1>4

LEMMA NextImplements == TypeOK /\ OwnerInv /\ [Next]_vars => [Life!Next]_state
<1> SUFFICES ASSUME TypeOK, OwnerInv, [Next]_vars
             PROVE  [Life!Next]_state
  OBVIOUS
<1>1. CASE Environment
  BY <1>1 DEF Environment, WorkerCrash, BrokerRestart, ApiCrash, JobTimeout,
     ResultExpires, dbVars
<1>d. CASE DbError
  BY <1>d DEF DbError, SubmitFails, AbandonDuplicate, ReportUnrecorded, StartFails,
     FailUnrecorded, set_state, dbVars, Life!Next, Life!Submit
<1>2. CASE UNCHANGED vars
  BY <1>2 DEF vars
<1>3. QED
  BY <1>1, <1>d, <1>2, HandlerImplements, RunImplements DEF Next

\* Unless an acknowledgement is lost, the row of every job walks the states of
\* services/jobs.py in their order, and goes back to "queued" only from "failed".
THEOREM ImplementsLifecycle ==
    ASSUME "lost_ack" \notin Faults
    PROVE  Spec => LifecycleSpec
<1>1. Init => Life!Init
  BY DEF Init, Life!Init
<1>2. QED
  BY <1>1, NextImplements, OwnerInvariant, TypeCorrect, PTL
  DEF Spec, LifecycleSpec, Life!Spec
=============================================================================
