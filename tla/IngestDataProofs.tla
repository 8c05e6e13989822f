-------------------------- MODULE IngestDataProofs --------------------------
(***************************************************************************)
(* What the rows and the library say of each other, for every set of jobs  *)
(* and papers, every bound on retries and every fault of module Ingest.    *)
(*                                                                         *)
(* ProgressIsBacked, DoneIsIngested and SoleIngester are not inductive.    *)
(* What a run still has to record depends on where it stands (Stand), and  *)
(* that nothing comes in between depends on the loop that it holds         *)
(* (LoopInv).  None of this counts the runs of a job, so that it also      *)
(* holds where two of them overlap.                                        *)
(***************************************************************************)
EXTENDS IngestProofs

Embedding == {"embed", "delete", "insert", "model", "markEmbed"}
Tagged == {"tag", "llm", "topics", "markTag"} \cup Embedding
Indexed == {"index", "building", "markIndex"} \cup Tagged
Ingesting == {"attach", "extract", "text", "markExtract"} \cup Indexed

\* What a run of job j that stands at `at` relies on.
Stand(j, at) ==
    LET p == Content[j] IN
    /\ at = "markDownload" => p \in files
    /\ at \in Ingesting \cup {"dedup"} => "download" \in steps[j]
    /\ at \in Ingesting => origin[p] # "absent" /\ ~duplicate[j]
    /\ at \in Ingesting \ {"attach"} => attached[j]
    /\ at = "markExtract" => "text" \in has[p]
    /\ at \in Indexed => "extract" \in steps[j]
    /\ at \in Tagged => "index" \in steps[j]
    /\ at \in {"topics", "markTag"} => "summary" \in has[p]
    /\ at = "markTag" => "topics" \in has[p]
    /\ at \in Embedding => "tag" \in steps[j] /\ "embed" \notin steps[j]
    /\ at \in {"model", "markEmbed"} /\ VecLoaded => "vector" \in has[p]
    /\ at = "markEmbed" /\ VecLoaded => "model" \in has[p]
    /\ at = "finish" =>
          attached[j] /\ origin[p] # "absent" /\ (duplicate[j] \/ steps[j] = Step)

StandInv == \A j \in Jobs, a \in Attempts : Stand(j, pc[j][a])

\* The worker's loop has one run between two of its statements at most.
LoopInv ==
    \A j, k \in Jobs, a, b \in Attempts :
        pc[j][a] \in Statements /\ pc[k][b] \in Statements => j = k /\ a = b

\* What a job's row says, whoever is working on it: the invariants to be
\* proved, and that a duplicate has extracted nothing.
Backed(j) ==
    LET p == Content[j] IN
    /\ "download" \in steps[j] => p \in files
    /\ "extract" \in steps[j] =>
          "download" \in steps[j] /\ origin[p] # "absent" /\ "text" \in has[p]
    /\ "index" \in steps[j] => "extract" \in steps[j]
    /\ "tag" \in steps[j] => "index" \in steps[j] /\ {"summary", "topics"} \subseteq has[p]
    /\ "embed" \in steps[j] => /\ "tag" \in steps[j]
                               /\ VecLoaded => {"vector", "model"} \subseteq has[p]

Row(j) ==
    /\ Backed(j)
    /\ state[j] = "done" => attached[j] /\ (duplicate[j] \/ steps[j] = Step)
    /\ attached[j] => origin[Content[j]] # "absent"
    /\ duplicate[j] => "extract" \notin steps[j] /\ origin[Content[j]] # "absent"

RowInv == \A j \in Jobs : Row(j)

\* Nobody works on a job that is not there yet, or that was recognised as a
\* duplicate when it was submitted.
Untouched(j) ==
    /\ steps[j] = {} /\ queue[j] = {}
    /\ \A a \in Attempts : pc[j][a] = "off"

DupInv(j) ==
    /\ state[j] = "none" => Untouched(j) /\ \A a \in Attempts : api[j][a] = "off"
    /\ \A a \in Attempts : api[j][a] \in {"dup", "close"} =>
          /\ a = 0 /\ Untouched(j)
          /\ api[j][a] = "close" => attached[j] /\ duplicate[j]
          /\ origin[Content[j]] # "absent" /\ state[j] = "queued"
          /\ \A b \in Attempts \ {a} : api[j][b] = "off"

SubmitInv == \A j \in Jobs : DupInv(j)

\* A job that puts the bytes of its paper into the library.
Ingests(j) ==
    \/ attached[j] /\ ~duplicate[j]
    \/ "extract" \in steps[j]
    \/ \E a \in Attempts : pc[j][a] \in Ingesting

SoleInv ==
    \A j, k \in Jobs : Content[j] = Content[k] /\ Ingests(j) /\ Ingests(k) => j = k

DataInv == LoopInv /\ StandInv /\ RowInv /\ SubmitInv /\ SoleInv
-----------------------------------------------------------------------------
LEMMA InitDataInv == Init => DataInv
<1> SUFFICES ASSUME Init PROVE DataInv
  OBVIOUS
<1>1. \A j \in Jobs :
          /\ state[j] = "none" /\ steps[j] = {} /\ queue[j] = {}
          /\ attached[j] = FALSE /\ duplicate[j] = FALSE
          /\ \A a \in Attempts : api[j][a] = "off" /\ pc[j][a] = "off"
  BY DEF Init
<1>2. LoopInv
  BY <1>1 DEF LoopInv, Statements
<1>3. StandInv
  BY <1>1 DEF StandInv, Stand, Ingesting, Indexed, Tagged, Embedding
<1>4. RowInv
  BY <1>1 DEF RowInv, Row, Backed
<1>5. SubmitInv
  BY <1>1 DEF SubmitInv, DupInv, Untouched
<1>6. SoleInv
  BY <1>1 DEF SoleInv, Ingests, Ingesting, Indexed, Tagged, Embedding
<1>7. QED
  BY <1>2, <1>3, <1>4, <1>5, <1>6 DEF DataInv

\* A step that takes nothing from the library and leaves the runs, the rows'
\* progress and papers alone, and makes no job "done".
Harmless ==
    /\ UNCHANGED <<steps, attached, duplicate, origin, has>>
    /\ files \subseteq files'
    /\ \A j \in Jobs : state'[j] = "done" => state[j] = "done"

LEMMA HarmlessRows ==
    ASSUME TypeOK, RowInv, Harmless
    PROVE  RowInv'
  BY DEF RowInv, Row, Backed, Harmless

\* Requests that only queue, refuse or give up, and everything that stops a run.
LEMMA HarmlessStep ==
    ASSUME TypeOK, DataInv, Harmless, SubmitInv',
           \A j \in Jobs, a \in Attempts : pc'[j][a] \in {pc[j][a], "off"}
    PROVE  DataInv'
<1> USE DEF DataInv
<1>1. LoopInv'
  BY DEF LoopInv, Statements
<1>2. StandInv'
  <2> SUFFICES ASSUME NEW j \in Jobs, NEW a \in Attempts
               PROVE  Stand(j, pc[j][a])'
    BY DEF StandInv
  <2>1. Stand(j, "off")'
    BY DEF Stand, Ingesting, Indexed, Tagged, Embedding
  <2>2. CASE pc'[j][a] = pc[j][a]
    <3>1. Stand(j, pc[j][a])
      BY DEF StandInv
    <3>2. QED
      BY <2>2, <3>1 DEF Stand, Harmless
  <2>3. CASE pc'[j][a] = "off"
    BY <2>1, <2>3 DEF Stand
  <2>4. QED
    BY <2>2, <2>3
<1>3. RowInv'
  BY HarmlessRows
<1>4. SoleInv'
  <2>1. \A j \in Jobs : Ingests(j)' => Ingests(j)
    BY DEF Ingests, Harmless, Ingesting, Indexed, Tagged, Embedding
  <2>2. QED
    BY <2>1 DEF SoleInv
<1>5. QED
  BY <1>1, <1>2, <1>3, <1>4

LEMMA HandlerDataInv ==
    ASSUME TypeOK, DataInv, NEW j \in Jobs, Handler(j)
    PROVE  DataInv'
<1> USE DEF set_state, brokerVars, dbVars
<1>s. SubmitInv /\ DupInv(j)
  BY DEF DataInv, SubmitInv
<1>o. ASSUME DupInv(j)',
             \A k \in Jobs \ {j} :
                /\ state'[k] = state[k] /\ steps'[k] = steps[k] /\ queue'[k] = queue[k]
                /\ pc'[k] = pc[k] /\ api'[k] = api[k] /\ origin' = origin
                /\ attached'[k] = attached[k] /\ duplicate'[k] = duplicate[k]
      PROVE  SubmitInv'
  BY <1>o, <1>s DEF SubmitInv, DupInv, Untouched
<1>1. CASE Submit(j)
  <2>1. DupInv(j)'
    BY <1>1, <1>s DEF Submit, DupInv, TypeOK
  <2>2. SubmitInv'
    BY <1>1, <1>o, <2>1 DEF Submit, TypeOK
  <2>3. Harmless
    BY <1>1 DEF Submit, Harmless, TypeOK
  <2>4. QED
    BY <1>1, <2>2, <2>3, HarmlessStep DEF Submit
<1>2. CASE SubmitDuplicate(j)
  <2>1. origin[Content[j]] # "absent"
    BY <1>2 DEF SubmitDuplicate, KnownPaper
  <2>2. DupInv(j)'
    BY <1>2, <2>1, <1>s, ZeroIsAttempt DEF SubmitDuplicate, DupInv, Untouched, TypeOK
  <2>3. SubmitInv'
    BY <1>2, <1>o, <2>2 DEF SubmitDuplicate, TypeOK
  <2>4. Harmless
    BY <1>2 DEF SubmitDuplicate, Harmless, TypeOK
  <2>5. QED
    BY <1>2, <2>3, <2>4, HarmlessStep DEF SubmitDuplicate
<1>3. CASE AttachDuplicate(j)
  <2>1. /\ Untouched(j) /\ origin[Content[j]] # "absent"
        /\ \A b \in Attempts \ {0} : api[j][b] = "off"
        /\ state[j] = "queued"
    BY <1>3, <1>s, ZeroIsAttempt DEF AttachDuplicate, DupInv
  <2>2. DupInv(j)'
    <3>1. Untouched(j)' /\ origin' = origin /\ state'[j] = "queued"
      BY <1>3, <2>1 DEF AttachDuplicate, Untouched
    <3>2. attached'[j] /\ duplicate'[j]
      BY <1>3 DEF AttachDuplicate, TypeOK
    <3>3. \A b \in Attempts \ {0} : api'[j][b] = "off"
      BY <1>3, <2>1 DEF AttachDuplicate, TypeOK
    <3>4. QED
      BY <2>1, <3>1, <3>2, <3>3 DEF DupInv
  <2>3. SubmitInv'
    BY <1>3, <1>o, <2>2 DEF AttachDuplicate, TypeOK
  <2>4. RowInv'
    <3>1. \A k \in Jobs \ {j} : Row(k)'
      BY <1>3 DEF AttachDuplicate, DataInv, RowInv, Row, Backed, TypeOK
    <3>2. Row(j)'
      BY <1>3, <2>1 DEF AttachDuplicate, Row, Backed, Untouched, TypeOK
    <3>3. QED
      BY <3>1, <3>2 DEF RowInv
  <2>5. StandInv'
    <3>1. ASSUME NEW k \in Jobs \ {j}, NEW a \in Attempts PROVE Stand(k, pc[k][a])'
      BY <1>3 DEF AttachDuplicate, DataInv, StandInv, Stand, TypeOK
    <3>2. ASSUME NEW a \in Attempts PROVE Stand(j, pc[j][a])'
      BY <1>3, <2>1 DEF AttachDuplicate, Untouched, Stand, Ingesting, Indexed, Tagged,
         Embedding
    <3>3. QED
      BY <3>1, <3>2 DEF StandInv
  <2>6. LoopInv'
    BY <1>3 DEF AttachDuplicate, DataInv, LoopInv
  <2>7. SoleInv'
    <3>1. \A k \in Jobs : Ingests(k)' => Ingests(k)
      BY <1>3 DEF AttachDuplicate, Ingests, TypeOK
    <3>2. QED
      BY <3>1 DEF DataInv, SoleInv
  <2>8. QED
    BY <2>3, <2>4, <2>5, <2>6, <2>7 DEF DataInv
<1>c. CASE CloseDuplicate(j)
  <2>1. /\ Untouched(j) /\ origin[Content[j]] # "absent"
        /\ attached[j] /\ duplicate[j]
        /\ \A b \in Attempts \ {0} : api[j][b] = "off"
    BY <1>c, <1>s, ZeroIsAttempt DEF CloseDuplicate, DupInv
  <2>2. DupInv(j)'
    BY <1>c, <2>1 DEF CloseDuplicate, DupInv, TypeOK
  <2>3. SubmitInv'
    BY <1>c, <1>o, <2>2 DEF CloseDuplicate, TypeOK
  <2>4. RowInv'
    <3>1. \A k \in Jobs \ {j} : Row(k)'
      BY <1>c DEF CloseDuplicate, DataInv, RowInv, Row, Backed, TypeOK
    <3>2. Row(j)'
      BY <1>c, <2>1 DEF CloseDuplicate, Row, Backed, Untouched, TypeOK
    <3>3. QED
      BY <3>1, <3>2 DEF RowInv
  <2>5. StandInv'
    <3>1. ASSUME NEW k \in Jobs \ {j}, NEW a \in Attempts PROVE Stand(k, pc[k][a])'
      BY <1>c DEF CloseDuplicate, DataInv, StandInv, Stand, TypeOK
    <3>2. ASSUME NEW a \in Attempts PROVE Stand(j, pc[j][a])'
      BY <1>c, <2>1 DEF CloseDuplicate, Untouched, Stand, Ingesting, Indexed, Tagged,
         Embedding
    <3>3. QED
      BY <3>1, <3>2 DEF StandInv
  <2>6. LoopInv'
    BY <1>c DEF CloseDuplicate, DataInv, LoopInv
  <2>7. SoleInv'
    <3>1. \A k \in Jobs : Ingests(k)' => Ingests(k)
      BY <1>c DEF CloseDuplicate, Ingests, TypeOK
    <3>2. QED
      BY <3>1 DEF DataInv, SoleInv
  <2>8. QED
    BY <2>3, <2>4, <2>5, <2>6, <2>7 DEF DataInv
<1>4. CASE Retry(j)
  <2>1. DupInv(j)'
    <3>1. \A b \in Attempts : api[j][b] \notin {"dup", "close"}
      BY <1>4, <1>s DEF Retry, DupInv
    <3>2. QED
      BY <1>4, <3>1 DEF Retry, DupInv, TypeOK
  <2>2. SubmitInv'
    BY <1>4, <1>o, <2>1 DEF Retry, TypeOK
  <2>3. Harmless
    BY <1>4 DEF Retry, Harmless, TypeOK
  <2>4. QED
    BY <1>4, <2>2, <2>3, HarmlessStep DEF Retry
<1>5. ASSUME NEW a \in Attempts,
             \/ Enqueue(j, a) \/ Refuse(j, a) \/ Outage(j, a) \/ LostAck(j, a)
             \/ ReportFailure(j, a)
      PROVE  DataInv'
  <2>1. /\ state[j] # "none"
        /\ \A b \in Attempts : api[j][b] \notin {"dup", "close"}
    BY <1>5, <1>s DEF DupInv, Enqueue, Refuse, Outage, LostAck, ReportFailure
  <2>2. /\ state'[j] # "none"
        /\ \A b \in Attempts : api'[j][b] \notin {"dup", "close"}
    BY <1>5, <2>1 DEF Enqueue, Refuse, Outage, LostAck, ReportFailure, TypeOK
  <2>3. DupInv(j)'
    BY <2>2 DEF DupInv
  <2>4. SubmitInv'
    BY <1>5, <1>o, <2>3 DEF Enqueue, Refuse, Outage, LostAck, ReportFailure, TypeOK
  <2>5. Harmless /\ UNCHANGED pc
    BY <1>5 DEF Enqueue, Refuse, Outage, LostAck, ReportFailure, Harmless, TypeOK
  <2>6. QED
    BY <2>4, <2>5, HarmlessStep
<1>6. QED
  BY <1>1, <1>2, <1>3, <1>c, <1>4, <1>5 DEF Handler

LEMMA EnvironmentDataInv ==
    ASSUME TypeOK, DataInv, Environment
    PROVE  DataInv'
<1> USE DEF dbVars, brokerVars
<1>1. CASE WorkerCrash
  BY <1>1, HarmlessStep
  DEF WorkerCrash, Harmless, DataInv, SubmitInv, DupInv, Untouched, TypeOK
<1>2. CASE BrokerRestart
  BY <1>2, HarmlessStep
  DEF BrokerRestart, Harmless, DataInv, SubmitInv, DupInv, Untouched, TypeOK
<1>3. CASE ApiCrash
  BY <1>3, HarmlessStep
  DEF ApiCrash, Harmless, DataInv, SubmitInv, DupInv, Untouched, TypeOK
<1>4. ASSUME NEW j \in Jobs, NEW a \in Attempts, JobTimeout(j, a)
      PROVE  DataInv'
  BY <1>4, HarmlessStep
  DEF JobTimeout, GoTo, Harmless, DataInv, SubmitInv, DupInv, Untouched, TypeOK
<1>5. ASSUME NEW j \in Jobs, NEW a \in Attempts, ResultExpires(j, a)
      PROVE  DataInv'
  BY <1>5, HarmlessStep
  DEF ResultExpires, Harmless, DataInv, SubmitInv, DupInv, Untouched, TypeOK
<1>6. QED
  BY <1>1, <1>2, <1>3, <1>4, <1>5 DEF Environment

LEMMA DbErrorDataInv ==
    ASSUME TypeOK, DataInv, DbError
    PROVE  DataInv'
<1> USE DEF dbVars, brokerVars
<1>s. SubmitInv
  BY DEF DataInv
<1>1. ASSUME NEW j \in Jobs, SubmitFails(j) PROVE DataInv'
  <2>1. SubmitInv'
    BY <1>1, <1>s DEF SubmitFails, set_state, SubmitInv, DupInv, Untouched, TypeOK
  <2>2. Harmless
    BY <1>1 DEF SubmitFails, set_state, Harmless, TypeOK
  <2>3. QED
    BY <1>1, <2>1, <2>2, HarmlessStep DEF SubmitFails
<1>2. ASSUME NEW j \in Jobs, AbandonDuplicate(j) PROVE DataInv'
  BY <1>2, HarmlessStep
  DEF AbandonDuplicate, Harmless, DataInv, SubmitInv, DupInv, Untouched, TypeOK
<1>3. ASSUME NEW j \in Jobs, NEW a \in Attempts, ReportUnrecorded(j, a)
      PROVE  DataInv'
  BY <1>3, HarmlessStep
  DEF ReportUnrecorded, Harmless, DataInv, SubmitInv, DupInv, Untouched, TypeOK
<1>4. ASSUME NEW j \in Jobs, NEW a \in Attempts, StartFails(j, a)
      PROVE  DataInv'
  BY <1>4, HarmlessStep
  DEF StartFails, Harmless, DataInv, SubmitInv, DupInv, Untouched, TypeOK
<1>5. ASSUME NEW j \in Jobs, NEW a \in Attempts, FailUnrecorded(j, a)
      PROVE  DataInv'
  BY <1>5, HarmlessStep
  DEF FailUnrecorded, GoTo, Harmless, DataInv, SubmitInv, DupInv, Untouched, TypeOK
<1>6. QED
  BY <1>1, <1>2, <1>3, <1>4, <1>5 DEF DbError

(***************************************************************************)
(* A step of a run, seen by the invariant: it moves the run from where it  *)
(* holds the loop or may take it to n, and changes the row of its own job  *)
(* only.  What it needs to show is that n may rely on what it says and     *)
(* that its own row is fine.                                               *)
(***************************************************************************)
RunMoves(j, a, n) ==
    /\ LoopFree \/ pc[j][a] \in Statements
    /\ pc[j][a] # "off" \/ a \in queue[j]
    /\ GoTo(j, a, n)
    /\ \A k \in Jobs : queue'[k] \subseteq queue[k]
    /\ UNCHANGED api
    /\ files \subseteq files'
    /\ state'[j] # "none"
    /\ \A k \in Jobs \ {j} :
          /\ state'[k] = state[k] /\ steps'[k] = steps[k]
          /\ attached'[k] = attached[k] /\ duplicate'[k] = duplicate[k]
    /\ steps[j] \subseteq steps'[j]
    /\ attached[j] => attached'[j]
    /\ duplicate'[j] => duplicate[j] \/ "extract" \notin steps[j]
    /\ \A p \in Papers : origin[p] # "absent" => origin'[p] # "absent"
    /\ Ingests(j)' => Ingests(j) \/ origin[Content[j]] = "absent"

\* Nothing is taken from the library, or a vector that no row speaks of.
Keeps ==
    \A k \in Jobs :
        \/ has[Content[k]] \subseteq has'[Content[k]]
        \/ "embed" \notin steps[k] /\ has[Content[k]] \ {"vector"} \subseteq has'[Content[k]]

LEMMA RunMovesDataInv ==
    ASSUME TypeOK, DataInv, NEW j \in Jobs, NEW a \in Attempts, NEW n \in RunState,
           RunMoves(j, a, n), Keeps, Stand(j, n)', Row(j)'
    PROVE  DataInv'
<1> USE DEF RunMoves, DataInv
<1>t. /\ \A k \in Jobs : Content[k] \in Papers
      /\ \A k \in Jobs, b \in Attempts :
            pc'[k][b] = IF k = j /\ b = a THEN n ELSE pc[k][b]
  BY ContentAssumption DEF GoTo, TypeOK
<1>e. ASSUME NEW k \in Jobs, NEW b \in Attempts, k # j \/ b # a
      PROVE  pc[k][b] \in {"off"} \cup Awaits
  BY <1>e DEF LoopFree, LoopInv, TypeOK, RunState
<1>1. LoopInv'
  BY <1>t, <1>e DEF LoopInv, Statements, Awaits
<1>2. StandInv'
  <2>1. ASSUME NEW k \in Jobs, NEW b \in Attempts, k # j \/ b # a
        PROVE  Stand(k, pc[k][b])'
    <3>1. pc'[k][b] = pc[k][b] /\ pc[k][b] \in {"off"} \cup Awaits
      BY <2>1, <1>t, <1>e
    <3>2. Stand(k, pc[k][b])
      BY DEF StandInv
    <3>3. /\ steps[k] \subseteq steps'[k] /\ (attached[k] => attached'[k])
          /\ origin[Content[k]] # "absent" => origin'[Content[k]] # "absent"
          /\ "extract" \in steps[k] /\ ~duplicate[k] => ~duplicate'[k]
      BY <1>t
    <3>4. QED
      BY <3>1, <3>2, <3>3 DEF Stand, Ingesting, Indexed, Tagged, Embedding, Awaits
  <2>2. Stand(j, pc[j][a])'
    BY <1>t DEF Stand
  <2>3. QED
    BY <2>1, <2>2 DEF StandInv
<1>3. RowInv'
  <2>1. ASSUME NEW k \in Jobs \ {j} PROVE Row(k)'
    <3>1. Row(k) /\ k \in Jobs /\ Content[k] \in Papers
      BY <1>t DEF RowInv
    <3>2. \/ has[Content[k]] \subseteq has'[Content[k]]
          \/ "embed" \notin steps[k] /\ has[Content[k]] \ {"vector"} \subseteq has'[Content[k]]
      BY DEF Keeps
    <3>3. Backed(k)'
      BY <3>1, <3>2 DEF Row, Backed
    <3>4. QED
      BY <3>1, <3>3 DEF Row
  <2>2. QED
    BY <2>1 DEF RowInv
<1>4. SubmitInv'
  <2>1. ~Untouched(j)
    BY DEF Untouched
  <2>2. ASSUME NEW k \in Jobs \ {j} PROVE DupInv(k)'
    <3>1. DupInv(k) /\ Content[k] \in Papers
      BY <1>t DEF SubmitInv
    <3>2. Untouched(k) => Untouched(k)'
      BY <1>t DEF Untouched
    <3>3. QED
      BY <3>1, <3>2 DEF DupInv
  <2>3. DupInv(j)'
    BY <2>1 DEF SubmitInv, DupInv
  <2>4. QED
    BY <2>2, <2>3 DEF SubmitInv
<1>5. SoleInv'
  <2>1. ASSUME NEW k \in Jobs \ {j}
        PROVE  /\ Ingests(k)' => Ingests(k)
               /\ Ingests(k) => origin[Content[k]] # "absent"
    <3>1. Ingests(k)' => Ingests(k)
      BY <1>t DEF Ingests
    <3>2. Ingests(k) => origin[Content[k]] # "absent"
      BY DEF Ingests, RowInv, Row, Backed, StandInv, Stand
    <3>3. QED
      BY <3>1, <3>2
  <2>2. QED
    BY <2>1 DEF SoleInv
<1>6. QED
  BY <1>1, <1>2, <1>3, <1>4, <1>5

\* What is common to the steps that leave the papers and the job's link alone.
LEMMA PlainMove ==
    ASSUME TypeOK, DataInv, NEW j \in Jobs, NEW a \in Attempts, NEW n \in RunState,
           LoopFree \/ pc[j][a] \in Statements, pc[j][a] # "off" \/ a \in queue[j],
           GoTo(j, a, n), n \in Ingesting => Ingests(j),
           \A k \in Jobs : queue'[k] \subseteq queue[k],
           UNCHANGED <<attached, duplicate, origin, api>>, files \subseteq files',
           state' = state \/ \E s \in JobState : set_state(j, s),
           steps' = steps \/ \E s \in Step : mark_step_done(j, s),
           "extract" \in steps'[j] => Ingests(j)
    PROVE  RunMoves(j, a, n)
<1>1. state[j] # "none"
  BY DEF DataInv, SubmitInv, DupInv, Untouched
<1>2. /\ state'[j] # "none"
      /\ \A k \in Jobs \ {j} : state'[k] = state[k]
  BY <1>1 DEF set_state, TypeOK, JobState, Active, Working, TERMINAL_STATES
<1>3. /\ steps[j] \subseteq steps'[j]
      /\ \A k \in Jobs \ {j} : steps'[k] = steps[k]
  BY DEF mark_step_done, TypeOK
<1>4. Ingests(j)' => Ingests(j)
  BY DEF Ingests, GoTo, TypeOK
<1>5. QED
  BY <1>2, <1>3, <1>4 DEF RunMoves

\* A statement that takes nothing from the library.
LEMMA StoreKeeps ==
    ASSUME TypeOK, NEW j \in Jobs, UNCHANGED has \/ \E f \in Facets : store(j, f)
    PROVE  Keeps
  BY ContentAssumption DEF Keeps, store, TypeOK

LEMMA RunDataInv ==
    ASSUME TypeOK, DataInv, NEW j \in Jobs, NEW a \in Attempts, _run(j, a)
    PROVE  DataInv'
<1> USE DEF brokerVars, At, Ingesting, Indexed, Tagged, Embedding
<1>p. Content[j] \in Papers
  BY ContentAssumption
<1>i. Stand(j, pc[j][a]) /\ Row(j)
  BY DEF DataInv, StandInv, RowInv
<1>s. /\ Statements \subseteq RunState /\ Awaits \subseteq RunState
      /\ \A s \in Statements \cup Awaits : s # "off"
      /\ Working \subseteq JobState
  BY DEF RunState, Statements, Awaits, JobState, Active
<1>n. pc[j][a] \in Ingesting \/ "extract" \in steps[j] => Ingests(j)
  BY DEF Ingests
<1>1. CASE Fetch(j, a)
  <2>1. RunMoves(j, a, "markDownload")
    BY <1>1, <1>i, <1>s, <1>n, PlainMove
    DEF Fetch, Stand, Row, Backed, Statements, Awaits
  <2>2. Keeps
    BY <1>1, StoreKeeps DEF Fetch
  <2>3. Stand(j, "markDownload")'
    BY <1>1, <1>i, <1>p DEF Fetch, Stand, Row, Backed, TypeOK
  <2>4. Row(j)'
    BY <1>1, <1>i, <1>p DEF Fetch, Stand, Row, Backed, TypeOK
  <2>5. QED
    BY <1>s, <2>1, <2>2, <2>3, <2>4, RunMovesDataInv DEF Statements, Awaits
<1>2. CASE MarkDownload(j, a)
  <2>m. steps'[j] = steps[j] \cup {"download"}
    BY <1>2 DEF MarkDownload, mark_step_done, TypeOK
  <2>1. RunMoves(j, a, "dedup")
    BY <1>2, <2>m, <1>s, <1>n, PlainMove
    DEF MarkDownload, Step, Statements
  <2>2. Keeps
    BY <1>2, StoreKeeps DEF MarkDownload
  <2>3. Stand(j, "dedup")'
    BY <2>m DEF Stand
  <2>4. Row(j)'
    BY <1>2, <2>m, <1>i DEF MarkDownload, Stand, Row, Backed, Step, TypeOK
  <2>5. QED
    BY <1>s, <2>1, <2>2, <2>3, <2>4, RunMovesDataInv DEF Statements
<1>3. CASE SetExtracting(j, a)
  <2>1. RunMoves(j, a, "text")
    BY <1>3, <1>i, <1>s, <1>n, PlainMove
    DEF SetExtracting, set_state, Working, JobState, Active, Stand, Row, Backed,
       Statements, Awaits
  <2>2. Keeps
    BY <1>3, StoreKeeps DEF SetExtracting
  <2>3. Stand(j, "text")'
    BY <1>3, <1>i, <1>p
    DEF SetExtracting, set_state, Working, JobState, Active, Stand, Row, Backed, TypeOK
  <2>4. Row(j)'
    BY <1>3, <1>i, <1>p
    DEF SetExtracting, set_state, Working, JobState, Active, Stand, Row, Backed, TypeOK
  <2>5. QED
    BY <1>s, <2>1, <2>2, <2>3, <2>4, RunMovesDataInv DEF Statements, Awaits
<1>4. CASE SetFullText(j, a)
  <2>1. RunMoves(j, a, "markExtract")
    BY <1>4, <1>i, <1>s, <1>n, PlainMove
    DEF SetFullText, store, Facets, Stand, Row, Backed, Statements, Awaits
  <2>2. Keeps
    BY <1>4, StoreKeeps DEF SetFullText, Facets
  <2>3. Stand(j, "markExtract")'
    BY <1>4, <1>i, <1>p DEF SetFullText, store, Facets, Stand, Row, Backed, TypeOK
  <2>4. Row(j)'
    BY <1>4, <1>i, <1>p DEF SetFullText, store, Facets, Stand, Row, Backed, TypeOK
  <2>5. QED
    BY <1>s, <2>1, <2>2, <2>3, <2>4, RunMovesDataInv DEF Statements, Awaits
<1>5. CASE SetIndexing(j, a)
  <2>1. RunMoves(j, a, "building")
    BY <1>5, <1>i, <1>s, <1>n, PlainMove
    DEF SetIndexing, set_state, Working, JobState, Active, Stand, Row, Backed,
       Statements, Awaits
  <2>2. Keeps
    BY <1>5, StoreKeeps DEF SetIndexing
  <2>3. Stand(j, "building")'
    BY <1>5, <1>i, <1>p
    DEF SetIndexing, set_state, Working, JobState, Active, Stand, Row, Backed, TypeOK
  <2>4. Row(j)'
    BY <1>5, <1>i, <1>p
    DEF SetIndexing, set_state, Working, JobState, Active, Stand, Row, Backed, TypeOK
  <2>5. QED
    BY <1>s, <2>1, <2>2, <2>3, <2>4, RunMovesDataInv DEF Statements, Awaits
<1>6. CASE BuildTree(j, a)
  <2>1. RunMoves(j, a, "markIndex")
    BY <1>6, <1>i, <1>s, <1>n, PlainMove
    DEF BuildTree, store, Facets, Stand, Row, Backed, Statements, Awaits
  <2>2. Keeps
    BY <1>6, StoreKeeps DEF BuildTree, Facets
  <2>3. Stand(j, "markIndex")'
    BY <1>6, <1>i, <1>p DEF BuildTree, store, Facets, Stand, Row, Backed, TypeOK
  <2>4. Row(j)'
    BY <1>6, <1>i, <1>p DEF BuildTree, store, Facets, Stand, Row, Backed, TypeOK
  <2>5. QED
    BY <1>s, <2>1, <2>2, <2>3, <2>4, RunMovesDataInv DEF Statements, Awaits
<1>7. CASE SetTagging(j, a)
  <2>1. RunMoves(j, a, "llm")
    BY <1>7, <1>i, <1>s, <1>n, PlainMove
    DEF SetTagging, set_state, Working, JobState, Active, Stand, Row, Backed,
       Statements, Awaits
  <2>2. Keeps
    BY <1>7, StoreKeeps DEF SetTagging
  <2>3. Stand(j, "llm")'
    BY <1>7, <1>i, <1>p
    DEF SetTagging, set_state, Working, JobState, Active, Stand, Row, Backed, TypeOK
  <2>4. Row(j)'
    BY <1>7, <1>i, <1>p
    DEF SetTagging, set_state, Working, JobState, Active, Stand, Row, Backed, TypeOK
  <2>5. QED
    BY <1>s, <2>1, <2>2, <2>3, <2>4, RunMovesDataInv DEF Statements, Awaits
<1>8. CASE UpdatePaper(j, a)
  <2>1. RunMoves(j, a, "topics")
    BY <1>8, <1>i, <1>s, <1>n, PlainMove
    DEF UpdatePaper, store, Facets, Stand, Row, Backed, Statements, Awaits
  <2>2. Keeps
    BY <1>8, StoreKeeps DEF UpdatePaper, Facets
  <2>3. Stand(j, "topics")'
    BY <1>8, <1>i, <1>p DEF UpdatePaper, store, Facets, Stand, Row, Backed, TypeOK
  <2>4. Row(j)'
    BY <1>8, <1>i, <1>p DEF UpdatePaper, store, Facets, Stand, Row, Backed, TypeOK
  <2>5. QED
    BY <1>s, <2>1, <2>2, <2>3, <2>4, RunMovesDataInv DEF Statements, Awaits
<1>9. CASE ApplyTopics(j, a)
  <2>1. RunMoves(j, a, "markTag")
    BY <1>9, <1>i, <1>s, <1>n, PlainMove
    DEF ApplyTopics, store, Facets, Stand, Row, Backed, Statements, Awaits
  <2>2. Keeps
    BY <1>9, StoreKeeps DEF ApplyTopics, Facets
  <2>3. Stand(j, "markTag")'
    BY <1>9, <1>i, <1>p DEF ApplyTopics, store, Facets, Stand, Row, Backed, TypeOK
  <2>4. Row(j)'
    BY <1>9, <1>i, <1>p DEF ApplyTopics, store, Facets, Stand, Row, Backed, TypeOK
  <2>5. QED
    BY <1>s, <2>1, <2>2, <2>3, <2>4, RunMovesDataInv DEF Statements, Awaits
<1>10. CASE InsertVector(j, a)
  <2>1. RunMoves(j, a, "model")
    BY <1>10, <1>i, <1>s, <1>n, PlainMove
    DEF InsertVector, store, Facets, Stand, Row, Backed, Statements, Awaits
  <2>2. Keeps
    BY <1>10, StoreKeeps DEF InsertVector, Facets
  <2>3. Stand(j, "model")'
    BY <1>10, <1>i, <1>p DEF InsertVector, store, Facets, Stand, Row, Backed, TypeOK
  <2>4. Row(j)'
    BY <1>10, <1>i, <1>p DEF InsertVector, store, Facets, Stand, Row, Backed, TypeOK
  <2>5. QED
    BY <1>s, <2>1, <2>2, <2>3, <2>4, RunMovesDataInv DEF Statements, Awaits
<1>11. CASE RecordModel(j, a)
  <2>1. RunMoves(j, a, "markEmbed")
    BY <1>11, <1>i, <1>s, <1>n, PlainMove
    DEF RecordModel, store, Facets, Stand, Row, Backed, Statements, Awaits
  <2>2. Keeps
    BY <1>11, StoreKeeps DEF RecordModel, Facets
  <2>3. Stand(j, "markEmbed")'
    BY <1>11, <1>i, <1>p DEF RecordModel, store, Facets, Stand, Row, Backed, TypeOK
  <2>4. Row(j)'
    BY <1>11, <1>i, <1>p DEF RecordModel, store, Facets, Stand, Row, Backed, TypeOK
  <2>5. QED
    BY <1>s, <2>1, <2>2, <2>3, <2>4, RunMovesDataInv DEF Statements, Awaits
<1>12. CASE MarkEmbed(j, a)
  <2>1. RunMoves(j, a, "finish")
    BY <1>12, <1>i, <1>s, <1>n, PlainMove
    DEF MarkEmbed, mark_step_done, Step, Stand, Row, Backed, Statements, Awaits
  <2>2. Keeps
    BY <1>12, StoreKeeps DEF MarkEmbed
  <2>3. Stand(j, "finish")'
    BY <1>12, <1>i, <1>p DEF MarkEmbed, mark_step_done, Step, Stand, Row, Backed, TypeOK
  <2>4. Row(j)'
    BY <1>12, <1>i, <1>p DEF MarkEmbed, mark_step_done, Step, Stand, Row, Backed, TypeOK
  <2>5. QED
    BY <1>s, <2>1, <2>2, <2>3, <2>4, RunMovesDataInv DEF Statements, Awaits
<1>13. CASE SetDownloading(j, a)
  <2>n. PICK n \in {"fetch", "markDownload"} : GoTo(j, a, n)
    BY <1>13 DEF SetDownloading
  <2>1. RunMoves(j, a, n)
    BY <1>13, <2>n, <1>i, <1>s, <1>n, PlainMove
    DEF SetDownloading, set_state, Working, JobState, Active, Stand, Row, Backed,
       Statements, Awaits
  <2>2. Keeps
    BY <1>13, StoreKeeps DEF SetDownloading
  <2>3. Stand(j, n)'
    BY <1>13, <2>n, <1>i, <1>p
    DEF SetDownloading, GoTo, Stand, Row, Backed, TypeOK, Statements
  <2>4. Row(j)'
    BY <1>13, <1>i, <1>p DEF SetDownloading, set_state, Working, Row, Backed, TypeOK
  <2>5. QED
    BY <1>s, <2>1, <2>2, <2>3, <2>4, RunMovesDataInv DEF Statements, Awaits
<1>14. CASE SetEmbedding(j, a)
  <2>n. PICK n \in {"delete", "markEmbed"} : GoTo(j, a, n)
    BY <1>14 DEF SetEmbedding
  <2>1. RunMoves(j, a, n)
    BY <1>14, <2>n, <1>i, <1>s, <1>n, PlainMove
    DEF SetEmbedding, set_state, Working, JobState, Active, Stand, Row, Backed,
       Statements, Awaits
  <2>2. Keeps
    BY <1>14, StoreKeeps DEF SetEmbedding
  <2>3. Stand(j, n)'
    BY <1>14, <2>n, <1>i, <1>p
    DEF SetEmbedding, GoTo, Stand, Row, Backed, TypeOK, Statements
  <2>4. Row(j)'
    BY <1>14, <1>i, <1>p DEF SetEmbedding, set_state, Working, Row, Backed, TypeOK
  <2>5. QED
    BY <1>s, <2>1, <2>2, <2>3, <2>4, RunMovesDataInv DEF Statements, Awaits
<1>15. CASE MarkExtract(j, a)
  <2>n. PICK n \in Statements : n = NextStep(steps[j])
    BY DEF NextStep, Statements
  <2>m. steps'[j] = steps[j] \cup {"extract"}
    BY <1>15 DEF MarkExtract, mark_step_done, TypeOK
  <2>1. RunMoves(j, a, n)
    BY <1>15, <2>n, <2>m, <1>i, <1>s, <1>n, PlainMove
    DEF MarkExtract, Step, Stand, Row, Backed, Statements, Awaits
  <2>2. Keeps
    BY <1>15, StoreKeeps DEF MarkExtract
  <2>3. Row(j)'
    BY <1>15, <2>m, <1>i, <1>p DEF MarkExtract, Stand, Row, Backed, Step, TypeOK
  <2>4. Stand(j, n)'
    BY <1>15, <2>n, <2>m, <1>i, <1>p
    DEF MarkExtract, NextStep, Stand, Row, Backed, Step, TypeOK
  <2>5. QED
    BY <1>s, <2>n, <2>1, <2>2, <2>3, <2>4, RunMovesDataInv
<1>16. CASE MarkIndex(j, a)
  <2>n. PICK n \in Statements : n = NextStep(steps[j] \cup {"index"})
    BY DEF NextStep, Statements
  <2>m. steps'[j] = steps[j] \cup {"index"}
    BY <1>16 DEF MarkIndex, mark_step_done, TypeOK
  <2>1. RunMoves(j, a, n)
    BY <1>16, <2>n, <2>m, <1>i, <1>s, <1>n, PlainMove
    DEF MarkIndex, Step, Stand, Row, Backed, Statements, Awaits
  <2>2. Keeps
    BY <1>16, StoreKeeps DEF MarkIndex
  <2>3. Row(j)'
    BY <1>16, <2>m, <1>i, <1>p DEF MarkIndex, Stand, Row, Backed, Step, TypeOK
  <2>4. Stand(j, n)'
    BY <1>16, <2>n, <2>m, <1>i, <1>p
    DEF MarkIndex, NextStep, Stand, Row, Backed, Step, TypeOK
  <2>5. QED
    BY <1>s, <2>n, <2>1, <2>2, <2>3, <2>4, RunMovesDataInv
<1>17. CASE MarkTag(j, a)
  <2>n. PICK n \in Statements : n = NextStep(steps[j] \cup {"tag"})
    BY DEF NextStep, Statements
  <2>m. steps'[j] = steps[j] \cup {"tag"}
    BY <1>17 DEF MarkTag, mark_step_done, TypeOK
  <2>1. RunMoves(j, a, n)
    BY <1>17, <2>n, <2>m, <1>i, <1>s, <1>n, PlainMove
    DEF MarkTag, Step, Stand, Row, Backed, Statements, Awaits
  <2>2. Keeps
    BY <1>17, StoreKeeps DEF MarkTag
  <2>3. Row(j)'
    BY <1>17, <2>m, <1>i, <1>p DEF MarkTag, Stand, Row, Backed, Step, TypeOK
  <2>4. Stand(j, n)'
    BY <1>17, <2>n, <2>m, <1>i, <1>p
    DEF MarkTag, NextStep, Stand, Row, Backed, Step, TypeOK
  <2>5. QED
    BY <1>s, <2>n, <2>1, <2>2, <2>3, <2>4, RunMovesDataInv
<1>18. CASE DeleteVector(j, a)
  <2>1. RunMoves(j, a, "insert")
    BY <1>18, <1>i, <1>s, <1>n, PlainMove
    DEF DeleteVector, Stand, Row, Backed, Statements, Awaits
  <2>2. Keeps
    <3> SUFFICES ASSUME NEW k \in Jobs, Content[k] = Content[j]
                 PROVE  "embed" \notin steps[k]
      BY <1>18, ContentAssumption DEF DeleteVector, Keeps, TypeOK
    <3>1. "embed" \in steps[k] => "extract" \in steps[k]
      BY DEF DataInv, RowInv, Row, Backed
    <3>2. "embed" \in steps[k] => k = j
      BY <1>18, <3>1, <1>n DEF DeleteVector, DataInv, SoleInv, Ingests
    <3>3. "embed" \notin steps[j]
      BY <1>18, <1>i DEF DeleteVector, Stand, Embedding
    <3>4. QED
      BY <3>2, <3>3
  <2>3. Stand(j, "insert")'
    BY <1>18, <1>i, <1>p DEF DeleteVector, Stand, Row, Backed, TypeOK
  <2>4. Row(j)'
    BY <1>18, <1>i, <1>p DEF DeleteVector, Stand, Row, Backed, TypeOK
  <2>5. QED
    BY <1>s, <2>1, <2>2, <2>3, <2>4, RunMovesDataInv DEF Statements, Awaits
<1>19. CASE ShortCircuit(j, a)
  <2>1. RunMoves(j, a, "finish")
    <3>1. state[j] # "none"
      BY <1>19 DEF ShortCircuit, DataInv, SubmitInv, DupInv, Untouched
    <3>2. Ingests(j)' => Ingests(j)
      BY <1>19 DEF ShortCircuit, GoTo, Ingests, TypeOK
    <3>3. QED
      BY <1>19, <3>1, <3>2 DEF ShortCircuit, IsDuplicate, RunMoves, Statements, TypeOK
  <2>2. Keeps
    BY <1>19, StoreKeeps DEF ShortCircuit
  <2>3. Stand(j, "finish")'
    BY <1>19, <1>i, <1>p DEF ShortCircuit, IsDuplicate, Stand, TypeOK
  <2>4. Row(j)'
    BY <1>19, <1>i, <1>p DEF ShortCircuit, IsDuplicate, Row, Backed, TypeOK
  <2>5. QED
    BY <1>s, <2>1, <2>2, <2>3, <2>4, RunMovesDataInv DEF Statements, Awaits
<1>20. CASE GetOrCreatePaper(j, a)
  <2>0. \A q \in Papers : origin[q] # "absent" => origin'[q] = origin[q]
    BY <1>20, <1>p DEF GetOrCreatePaper, TypeOK
  <2>p. origin'[Content[j]] # "absent"
    BY <1>20, <1>p, KindAssumption DEF GetOrCreatePaper, TypeOK
  <2>1. RunMoves(j, a, "attach")
    <3>1. state[j] # "none"
      BY <1>20 DEF GetOrCreatePaper, DataInv, SubmitInv, DupInv, Untouched
    <3>2. Ingests(j)' => Ingests(j) \/ origin[Content[j]] = "absent"
      BY <1>20, <1>n DEF GetOrCreatePaper, IsDuplicate
    <3>3. QED
      BY <1>20, <2>0, <3>1, <3>2 DEF GetOrCreatePaper, RunMoves, Statements, TypeOK
  <2>2. Keeps
    BY <1>20, StoreKeeps DEF GetOrCreatePaper
  <2>3. Stand(j, "attach")'
    BY <1>20, <2>p, <1>i DEF GetOrCreatePaper, IsDuplicate, Stand, Row
  <2>4. Row(j)'
    BY <1>20, <2>0, <1>i, <1>p DEF GetOrCreatePaper, Row, Backed
  <2>5. QED
    BY <1>s, <2>1, <2>2, <2>3, <2>4, RunMovesDataInv DEF Statements, Awaits
<1>21. CASE Attach(j, a)
  <2>1. RunMoves(j, a, "extract")
    <3>1. state[j] # "none"
      BY <1>21 DEF Attach, DataInv, SubmitInv, DupInv, Untouched
    <3>2. Ingests(j)
      BY <1>21, <1>n DEF Attach
    <3>3. QED
      BY <1>21, <3>1, <3>2 DEF Attach, RunMoves, Statements, TypeOK
  <2>2. Keeps
    BY <1>21, StoreKeeps DEF Attach
  <2>3. Stand(j, "extract")'
    BY <1>21, <1>i DEF Attach, Stand, TypeOK
  <2>4. Row(j)'
    BY <1>21, <1>i DEF Attach, Stand, Row, Backed, TypeOK
  <2>5. QED
    BY <1>s, <2>1, <2>2, <2>3, <2>4, RunMovesDataInv DEF Statements, Awaits
<1>22. CASE SetDone(j, a)
  <2>1. RunMoves(j, a, "off")
    BY <1>22, <1>s, <1>n, <1>i, PlainMove
    DEF SetDone, set_state, JobState, TERMINAL_STATES, Row, Backed, Statements, RunState
  <2>2. Keeps
    BY <1>22, StoreKeeps DEF SetDone
  <2>3. Stand(j, "off")'
    BY DEF Stand
  <2>4. Row(j)'
    BY <1>22, <1>i DEF SetDone, Stand, Row, Backed, TypeOK
  <2>5. QED
    BY <2>1, <2>2, <2>3, <2>4, RunMovesDataInv DEF RunState
<1>23. CASE Fail(j, a)
  <2>1. RunMoves(j, a, "off")
    BY <1>23, <1>s, <1>n, <1>i, PlainMove
    DEF Fail, Raises, set_state, JobState, TERMINAL_STATES, Row, Backed, RunState
  <2>2. Keeps
    BY <1>23, StoreKeeps DEF Fail
  <2>3. Stand(j, "off")'
    BY DEF Stand
  <2>4. Row(j)'
    BY <1>23, <1>i DEF Fail, set_state, Row, Backed, TypeOK
  <2>5. QED
    BY <2>1, <2>2, <2>3, <2>4, RunMovesDataInv DEF RunState
<1>24. CASE Start(j, a)
  <2>n. PICK n \in {"dedup", "download"} :
             GoTo(j, a, n) /\ (n = "dedup" => "download" \in steps[j])
    BY <1>24 DEF Start
  <2>1. RunMoves(j, a, n)
    <3>1. \A k \in Jobs : queue'[k] \subseteq queue[k]
      BY <1>24 DEF Start, TypeOK
    <3>2. QED
      BY <1>24, <2>n, <3>1, <1>s, <1>n, <1>i, PlainMove
      DEF Start, Row, Backed, Statements
  <2>2. Keeps
    BY <1>24, StoreKeeps DEF Start
  <2>3. Stand(j, n)'
    BY <1>24, <2>n DEF Start, Stand
  <2>4. Row(j)'
    BY <1>24, <1>i DEF Start, Row, Backed
  <2>5. QED
    BY <1>s, <2>1, <2>2, <2>3, <2>4, RunMovesDataInv DEF Statements
<1>25. QED
  BY <1>1, <1>2, <1>3, <1>4, <1>5, <1>6, <1>7, <1>8, <1>9, <1>10, <1>11, <1>12,
     <1>13, <1>14, <1>15, <1>16, <1>17, <1>18, <1>19, <1>20, <1>21, <1>22,
     <1>23, <1>24
  DEF _run

LEMMA NextDataInv == TypeOK /\ DataInv /\ [Next]_vars => DataInv'
<1> SUFFICES ASSUME TypeOK, DataInv, [Next]_vars PROVE DataInv'
  OBVIOUS
<1>1. CASE Next
  BY <1>1, HandlerDataInv, RunDataInv, EnvironmentDataInv, DbErrorDataInv DEF Next
<1>2. CASE UNCHANGED vars
  <2>1. Harmless /\ SubmitInv' /\ UNCHANGED pc
    BY <1>2 DEF vars, Harmless, DataInv, SubmitInv, DupInv, Untouched
  <2>2. QED
    BY <2>1, HarmlessStep
<1>3. QED
  BY <1>1, <1>2

\* Where every run stands, what the library holds for it and who ingests a paper
\* (DataInv), in every reachable state.
THEOREM DataInvariant == Spec => []DataInv
  BY InitDataInv, NextDataInv, TypeCorrect, PTL DEF Spec

\* What a resumed run may skip is there: progress_json never claims more than
\* the library holds, whatever fails, dies or overlaps.
THEOREM ProgressBacked == Spec => []ProgressIsBacked
<1>1. DataInv => ProgressIsBacked
  BY DEF DataInv, RowInv, Row, Backed, ProgressIsBacked
<1>2. QED
  BY <1>1, DataInvariant, PTL

\* A job that is done has a paper, and has been through every step of the
\* pipeline unless it is a duplicate.
THEOREM DoneMeansIngested == Spec => []DoneIsIngested
<1>1. DataInv => DoneIsIngested
  BY DEF DataInv, RowInv, Row, DoneIsIngested
<1>2. QED
  BY <1>1, DataInvariant, PTL

\* Of any number of submissions of one PDF at most one ingests it.
THEOREM OneIngester == Spec => []SoleIngester
<1>1. DataInv => SoleIngester
  BY DEF DataInv, SoleInv, Ingests, SoleIngester
<1>2. QED
  BY <1>1, DataInvariant, PTL

(***************************************************************************)
(* Two properties of steps.                                                *)
(***************************************************************************)
\* A run that tags finds the step unrecorded, as long as it is alone.
TagInv ==
    \A j \in Jobs, a \in Attempts :
        pc[j][a] \in {"tag", "llm", "topics", "markTag"} => "tag" \notin steps[j]

LEMMA NextTagInv ==
    TypeOK /\ OwnerInv /\ TagInv /\ [Next]_vars => TagInv'
<1> SUFFICES ASSUME TypeOK, OwnerInv, TagInv, [Next]_vars,
                    NEW j \in Jobs, NEW a \in Attempts,
                    pc'[j][a] \in {"tag", "llm", "topics", "markTag"}
             PROVE  "tag" \notin steps'[j]
  BY DEF TagInv
<1> USE DEF TypeOK, set_state, dbVars, brokerVars
<1>1. ASSUME NEW k \in Jobs, Handler(k) PROVE "tag" \notin steps'[j]
  BY <1>1 DEF Handler, Submit, SubmitDuplicate, AttachDuplicate, CloseDuplicate, Retry, Enqueue, Refuse,
     Outage, LostAck, ReportFailure, TagInv
<1>2. ASSUME NEW k \in Jobs, NEW b \in Attempts, _run(k, b)
      PROVE  "tag" \notin steps'[j]
  <2> USE DEF GoTo, At
  <2>1. CASE Start(k, b)
    BY <1>2, <2>1 DEF Start, TagInv
  <2>2. CASE \/ SetDownloading(k, b) \/ Fetch(k, b) \/ ShortCircuit(k, b)
             \/ GetOrCreatePaper(k, b) \/ Attach(k, b) \/ SetExtracting(k, b)
             \/ SetFullText(k, b) \/ SetIndexing(k, b) \/ BuildTree(k, b)
             \/ SetTagging(k, b) \/ UpdatePaper(k, b) \/ ApplyTopics(k, b)
             \/ SetEmbedding(k, b) \/ DeleteVector(k, b) \/ InsertVector(k, b)
             \/ RecordModel(k, b) \/ SetDone(k, b) \/ Fail(k, b)
    BY <2>2 DEF SetDownloading, Fetch, ShortCircuit, GetOrCreatePaper, Attach,
       SetExtracting, SetFullText, SetIndexing, BuildTree, SetTagging, UpdatePaper,
       ApplyTopics, SetEmbedding, DeleteVector, InsertVector, RecordModel, SetDone, Fail,
       TagInv
  <2>3. CASE MarkDownload(k, b) \/ MarkEmbed(k, b)
    <3>1. PICK s \in {"download", "embed"} : mark_step_done(k, s)
      BY <2>3 DEF MarkDownload, MarkEmbed
    <3>2. PICK n \in {"dedup", "finish"} : GoTo(k, b, n)
      BY <2>3 DEF MarkDownload, MarkEmbed
    <3>3. QED
      BY <3>1, <3>2 DEF mark_step_done, TagInv
  <2>4. CASE MarkExtract(k, b)
    BY <2>4 DEF MarkExtract, mark_step_done, NextStep, TagInv
  <2>5. CASE MarkIndex(k, b)
    BY <2>5 DEF MarkIndex, mark_step_done, NextStep, TagInv
  <2>6. CASE MarkTag(k, b)
    <3>1. \A c \in Attempts : pc[k][c] # "off" => c = b
      BY <2>6 DEF MarkTag, OwnerInv, JobInv, RunInv
    <3>2. pc'[k][b] \in {"embed", "finish", "index"}
      BY <2>6 DEF MarkTag, NextStep
    <3>3. j # k
      BY <2>6, <3>1, <3>2 DEF MarkTag
    <3>4. QED
      BY <2>6, <3>3 DEF MarkTag, mark_step_done, TagInv
  <2>7. QED
    BY <1>2, <2>1, <2>2, <2>3, <2>4, <2>5, <2>6 DEF _run
<1>3. CASE Environment \/ DbError \/ UNCHANGED vars
  <2> USE DEF Environment, WorkerCrash, BrokerRestart, ApiCrash, JobTimeout, ResultExpires,
          DbError, SubmitFails, AbandonDuplicate, ReportUnrecorded, StartFails,
          FailUnrecorded
  <2>1. steps' = steps
    BY <1>3 DEF vars
  <2>2. pc'[j][a] \in {pc[j][a], "off"}
    <3>1. CASE Environment \/ UNCHANGED vars
      BY <3>1 DEF GoTo, vars
    <3>2. CASE DbError
      <4>1. ASSUME NEW k \in Jobs, NEW b \in Attempts, FailUnrecorded(k, b)
            PROVE  pc'[j][a] \in {pc[j][a], "off"}
        BY <4>1 DEF GoTo
      <4>2. CASE pc' = pc
        BY <4>2
      <4>3. QED
        BY <3>2, <4>1, <4>2
    <3>3. QED
      BY <1>3, <3>1, <3>2
  <2>3. QED
    BY <2>1, <2>2 DEF TagInv
<1>4. QED
  BY <1>1, <1>2, <1>3 DEF Next

\* Unless an acknowledgement is lost, the tagging call of a job is applied once:
\* a resumed run never asks the model again for what is recorded.
THEOREM NeverTaggedTwice ==
    ASSUME "lost_ack" \notin Faults
    PROVE  Spec => NeverRetagged
<1>1. Init => TagInv
  BY DEF Init, TagInv
<1>2. TagInv => \A j \in Jobs, a \in Attempts :
                    pc[j][a] = "llm" => "tag" \notin steps[j]
  BY DEF TagInv
<1>3. TagInv /\ [Next]_vars =>
        [\A j \in Jobs, a \in Attempts :
            pc[j][a] = "llm" /\ pc'[j][a] = "topics" => "tag" \notin steps[j]]_vars
  BY <1>2
<1>4. QED
  BY <1>1, <1>3, NextTagInv, OwnerInvariant, TypeCorrect, PTL DEF Spec, NeverRetagged

\* Whoever holds job j, in other words.
Held(j) ==
    \E a \in Attempts : api[j][a] # "off" \/ a \in queue[j] \/ pc[j][a] # "off"

LEMMA OwnersHold ==
    ASSUME TypeOK, NEW j \in Jobs, Owners(j) # {}
    PROVE  Held(j)
<1>1. PICK o : o \in Owners(j)
  OBVIOUS
<1>2. CASE o \in [at : {"queue"}, attempt : queue[j]]
  BY <1>2 DEF Held, TypeOK
<1>3. CASE o \notin [at : {"queue"}, attempt : queue[j]]
  BY <1>1, <1>3 DEF Owners, Held
<1>4. QED
  BY <1>2, <1>3

LEMMA HandlerHolds ==
    ASSUME TypeOK, NEW j \in Jobs, Handler(j)
    PROVE  Held(j)' \/ state'[j] \in TERMINAL_STATES
<1> USE DEF TypeOK, set_state, Held, TERMINAL_STATES
<1>1. CASE Submit(j) \/ SubmitDuplicate(j)
  BY <1>1, ZeroIsAttempt DEF Submit, SubmitDuplicate
<1>2. CASE AttachDuplicate(j)
  BY <1>2, ZeroIsAttempt DEF AttachDuplicate
<1>2c. CASE CloseDuplicate(j)
  BY <1>2c DEF CloseDuplicate
<1>3. CASE Retry(j)
  <2>1. attempts[j] \in Attempts
    BY <1>3, MaxRunsAssumption DEF Retry, Attempts
  <2>2. QED
    BY <1>3, <2>1 DEF Retry
<1>4. ASSUME NEW a \in Attempts,
             \/ Enqueue(j, a) \/ Refuse(j, a) \/ Outage(j, a) \/ LostAck(j, a)
             \/ ReportFailure(j, a)
      PROVE  Held(j)' \/ state'[j] \in TERMINAL_STATES
  BY <1>4 DEF Enqueue, Refuse, Outage, LostAck, ReportFailure
<1>5. QED
  BY <1>1, <1>2, <1>2c, <1>3, <1>4 DEF Handler

LEMMA RunHolds ==
    ASSUME TypeOK, NEW j \in Jobs, NEW a \in Attempts, _run(j, a)
    PROVE  Held(j)' \/ state'[j] \in TERMINAL_STATES
<1>1. CASE SetDone(j, a) \/ Fail(j, a)
  BY <1>1 DEF SetDone, Fail, set_state, TERMINAL_STATES, TypeOK
<1>2. CASE ~SetDone(j, a) /\ ~Fail(j, a)
  <2>1. PICK n : GoTo(j, a, n) /\ n # "off"
    <3>1. \A done : NextStep(done) # "off"
      BY DEF NextStep
    <3>2. QED
      BY <1>2, <3>1 DEF _run, Start, SetDownloading, Fetch, MarkDownload, ShortCircuit,
         GetOrCreatePaper, Attach, SetExtracting, SetFullText, MarkExtract, SetIndexing,
         BuildTree, MarkIndex, SetTagging, UpdatePaper, ApplyTopics, MarkTag,
         SetEmbedding, DeleteVector, InsertVector, RecordModel, MarkEmbed
  <2>2. QED
    BY <2>1 DEF GoTo, Held, TypeOK
<1>3. QED
  BY <1>1, <1>2

\* Whatever happens in a run or a handler, it keeps its job or closes its row:
\* only a crash, a timeout, a Redis restart or a failed statement that nothing
\* records strands a job, and each of these only where Faults has it.
THEOREM HeldTillRest == Spec => HeldUntilRest
<1>1. ASSUME TypeOK, TypeOK', [Next]_vars, NEW j \in Jobs,
             Owners(j) # {}, Owners(j)' = {}
      PROVE  state'[j] \in TERMINAL_STATES \/ Fault
  <2> USE DEF dbVars, brokerVars, TypeOK
  <2>1. Held(j) /\ ~Held(j)'
    <3>1. ASSUME NEW a \in Attempts, api'[j][a] # "off" PROVE FALSE
      <4>1. [at |-> "api", attempt |-> a] \in Owners(j)'
        BY <3>1 DEF Owners
      <4>2. QED
        BY <1>1, <4>1
    <3>2. ASSUME NEW a \in Attempts, a \in queue'[j] PROVE FALSE
      <4>1. [at |-> "queue", attempt |-> a] \in Owners(j)'
        BY <3>2 DEF Owners
      <4>2. QED
        BY <1>1, <4>1
    <3>3. ASSUME NEW a \in Attempts, pc'[j][a] # "off" PROVE FALSE
      <4>1. [at |-> "run", attempt |-> a] \in Owners(j)'
        BY <3>3 DEF Owners
      <4>2. QED
        BY <1>1, <4>1
    <3>4. QED
      BY <1>1, <3>1, <3>2, <3>3, OwnersHold DEF Held
  <2>2. ASSUME NEW k \in Jobs, Handler(k) PROVE state'[j] \in TERMINAL_STATES
    <3>1. k # j => Held(j)' = Held(j)
      BY <1>1, <2>2
      DEF Handler, Submit, SubmitDuplicate, AttachDuplicate, CloseDuplicate, Retry, Enqueue,
         Refuse, Outage, LostAck, ReportFailure, Held
    <3>2. QED
      BY <1>1, <2>1, <2>2, <3>1, HandlerHolds
  <2>3. ASSUME NEW k \in Jobs, NEW a \in Attempts, _run(k, a)
        PROVE  state'[j] \in TERMINAL_STATES
    <3>1. k # j => api'[j] = api[j] /\ queue'[j] = queue[j] /\ pc'[j] = pc[j]
      BY <1>1, <2>3
      DEF _run, Start, SetDownloading, Fetch, MarkDownload, ShortCircuit,
         GetOrCreatePaper, Attach, SetExtracting, SetFullText, MarkExtract, SetIndexing,
         BuildTree, MarkIndex, SetTagging, UpdatePaper, ApplyTopics, MarkTag,
         SetEmbedding, DeleteVector, InsertVector, RecordModel, MarkEmbed, SetDone, Fail,
         GoTo
    <3>2. QED
      BY <1>1, <2>1, <2>3, <3>1, RunHolds DEF Held
  <2>4. ASSUME NEW k \in Jobs, NEW a \in Attempts, ResultExpires(k, a)
        PROVE  FALSE
    BY <2>1, <2>4 DEF ResultExpires, Held
  <2>5. CASE UNCHANGED vars
    BY <2>1, <2>5 DEF vars, Held
  <2>6. QED
    BY <1>1, <2>2, <2>3, <2>4, <2>5 DEF Next, Environment, Fault
<1>2. TypeOK /\ TypeOK' /\ [Next]_vars =>
        [\A j \in Jobs : Owners(j) # {} /\ Owners(j)' = {}
            => state'[j] \in TERMINAL_STATES \/ Fault]_vars
  BY <1>1
<1>3. QED
  BY <1>2, TypeCorrect, PTL DEF Spec, HeldUntilRest
=============================================================================
