----------------------------- MODULE AnswerStream -----------------------------
(***************************************************************************)
(* Questions to the library (api/qa.py over services/qa.py): preparation   *)
(* with calls of the model, the stream of the answer to a reader who may   *)
(* leave, and the row in qa_log, with topics that are deleted meanwhile.   *)
(*                                                                         *)
(* Granularity.  The handlers and the generator of the stream run on the   *)
(* event loop.  The generator stops at the awaits of its call and at every *)
(* yield, where the server sends an event; sqlite is called in between.    *)
(*                                                                         *)
(* Abstractions.  A token is the number of the reply it comes from.  What  *)
(* is retrieved, the prompt and the citations are Grounding's business.    *)
(* Writing the log fails only for a foreign key.                           *)
(***************************************************************************)
EXTENDS LlmClient, Sequences

CONSTANTS
    Questions,      \* requests; the calls of the model are theirs
    Topics,         \* ids of topics
    NoTopic,        \* the question has no topic scope
    MaxPosts,       \* calls that one preparation makes
    MaxTokens       \* tokens of a reply

ASSUME CallsAssumption == Calls = Questions
ASSUME NoTopicAssumption == NoTopic \notin Topics
ASSUME BoundsAssumption == MaxPosts \in Nat /\ MaxTokens \in Nat

VARIABLES
    topics,         \* ids in the topics table
    question,       \* where each question stands, with its scope and its calls
    shown,          \* the replies that the tokens sent so far come from
    log             \* the rows of qa_log about each question

vars == <<client, call, topics, question, shown, log>>

Sending == {"metadata", "token", "done_event", "error_event"}
Ended == {"done", "error", "broken", "refused", "left"}
Stages == {"off", "prepare", "stream"} \cup Sending \cup Ended

Question(stage, topic, grounded, posts) ==
    [stage |-> stage, topic |-> topic, grounded |-> grounded, posts |-> posts]

Init ==
    /\ LlmInit
    /\ topics = Topics
    /\ question = [q \in Questions |-> Question("off", NoTopic, FALSE, 0)]
    /\ shown = [q \in Questions |-> <<>>]
    /\ log = [q \in Questions |-> <<>>]

At(q, stage) == question[q].stage = stage
GoTo(q, stage) == question' = [question EXCEPT ![q].stage = stage]

-----------------------------------------------------------------------------
(* Preparation: prepare_collection_qa, prepare_paper_qa.                   *)

\* The topic scope is resolved; without one, or for a paper, there is none.
Ask(q) ==
    /\ At(q, "off")
    /\ \E t \in topics \cup {NoTopic} :
          question' = [question EXCEPT ![q] = Question("prepare", t, FALSE, 0)]
    /\ UNCHANGED <<client, call, topics, shown, log>>

MayPost(q) == call[q] = Idle /\ question[q].posts < MaxPosts

\* navigate: a reply with the relevant sections of a paper, or its correction.
Post(q) ==
    /\ At(q, "prepare") /\ MayPost(q)
    /\ Send(q, 1)
    /\ question' = [question EXCEPT ![q].posts = @ + 1]
    /\ UNCHANGED <<topics, shown, log>>

Posted(q) ==
    /\ At(q, "prepare")
    /\ Return(q)
    /\ UNCHANGED <<topics, question, shown, log>>

\* An unknown paper is answered with 404 before any call, an LLMError with 502,
\* a rejected request and a PDF that cannot be opened after navigating with 500.
Refuse(q) ==
    /\ At(q, "prepare")
    /\ \/ question[q].posts = 0 /\ question[q].topic = NoTopic /\ UNCHANGED llmVars
       \/ question[q].posts > 0 /\ call[q] = Idle /\ UNCHANGED llmVars
       \/ Return(q)
       \/ GiveUp(q)
       \/ MayPost(q) /\ Reject(q)
       \/ call[q].at = "asleep" /\ Reject(q)
    /\ GoTo(q, "refused")
    /\ UNCHANGED <<topics, shown, log>>

\* The material is there, or there is none; the first event is sent.
Prepared(q) ==
    /\ At(q, "prepare") /\ call[q] = Idle
    /\ \E grounded \in BOOLEAN :
          question' = [question EXCEPT ![q].stage = "metadata", ![q].grounded = grounded]
    /\ UNCHANGED <<client, call, topics, shown, log>>

-----------------------------------------------------------------------------
(* _answer_stream.                                                         *)

\* qa_log.topic_id references topics.
CanLog(q) == question[q].topic \in topics \cup {NoTopic}

LogRow(q, failed) == [topic |-> question[q].topic, failed |-> failed]

\* record_qa_log: an INSERT, or an IntegrityError that nothing here handles.
\* The finally clause tries again and fails in the same way.
record_qa_log(q, failed) ==
    log' = IF CanLog(q) THEN [log EXCEPT ![q] = Append(@, LogRow(q, failed))] ELSE log

\* The answer ends with a closing event, after its row.
Conclude(q, failed, event) ==
    /\ record_qa_log(q, failed)
    /\ GoTo(q, IF CanLog(q) THEN event ELSE "broken")
    /\ UNCHANGED <<topics, shown>>

\* The metadata are sent: the model is asked, or the fixed answer given.
MetadataSent(q) ==
    /\ At(q, "metadata")
    /\ \/ /\ question[q].grounded
          /\ Send(q, 1)
          /\ GoTo(q, "stream")
          /\ UNCHANGED shown
       \/ /\ ~question[q].grounded
          /\ shown' = [shown EXCEPT ![q] = Append(@, 0)]
          /\ GoTo(q, "token")
          /\ UNCHANGED llmVars
    /\ UNCHANGED <<topics, log>>

\* A token of the reply, which the server sends on.
Token(q) ==
    /\ At(q, "stream")
    /\ Len(shown[q]) < MaxTokens
    /\ Emit(q)
    /\ shown' = [shown EXCEPT ![q] = Append(@, call[q].attempt)]
    /\ GoTo(q, "token")
    /\ UNCHANGED <<topics, log>>

TokenSent(q) ==
    /\ At(q, "token")
    /\ UNCHANGED llmVars
    /\ \/ /\ question[q].grounded
          /\ GoTo(q, "stream")
          /\ UNCHANGED <<topics, shown, log>>
       \/ /\ ~question[q].grounded
          /\ Conclude(q, FALSE, "done_event")

\* The reply is complete: the row, then the done event.
Answered(q) == At(q, "stream") /\ Return(q) /\ Conclude(q, FALSE, "done_event")

\* An LLMError: an error status or chunk, or a transport that failed for good.
StreamError(q) ==
    /\ At(q, "stream")
    /\ Return(q) \/ GiveUp(q)
    /\ Conclude(q, TRUE, "error_event")

\* Mutant: only an LLMError is logged.
StreamCrash_Unlogged(q) ==
    /\ \/ At(q, "metadata") /\ question[q].grounded
       \/ At(q, "stream") /\ call[q].at = "asleep"
    /\ Reject(q)
    /\ GoTo(q, "broken")
    /\ UNCHANGED <<topics, shown, log>>

\* The request is rejected: no handler but the finally clause, so the row is
\* written and the stream breaks off without a closing event.
StreamCrash(q) ==
    /\ \/ At(q, "metadata") /\ question[q].grounded
       \/ At(q, "stream") /\ call[q].at = "asleep"
    /\ Reject(q)
    /\ Conclude(q, TRUE, "broken")

EventSent(q) ==
    /\ \/ At(q, "done_event") /\ GoTo(q, "done")
       \/ At(q, "error_event") /\ GoTo(q, "error")
    /\ UNCHANGED <<client, call, topics, shown, log>>

\* The reader has left and the generator is cancelled at an await of its call.
LeaveStream(q) ==
    /\ At(q, "stream")
    /\ Cancel(q)
    /\ Conclude(q, TRUE, "left")

\* The reader leaves while the server waits to send it an event: the generator
\* stays at its yield.  The event loop closes it when it is collected, and its
\* finally clause writes the row, or finds the connection of the request closed.
\* The metadata are sent outside the try block, the closing event after the row.
LeaveSending(q) ==
    /\ question[q].stage \in Sending
    /\ Over(q)
    /\ \/ GoTo(q, "left") /\ UNCHANGED <<topics, shown, log>>
       \/ At(q, "token") /\ Conclude(q, TRUE, "left")
    /\ UNCHANGED client

\* Transport errors that are retried, in a preparation or before any token.
Retry(q) ==
    /\ At(q, "prepare") \/ At(q, "stream")
    /\ \/ prepare_transport_retry(q)
       \/ Drop(q)
       \/ call[q].at = "asleep" /\ Send(q, NextAttempt(q))
    /\ UNCHANGED <<topics, question, shown, log>>

-----------------------------------------------------------------------------
\* delete_topic or merge_topics: rows of the log that name it are set to NULL.
DeleteTopic(t) ==
    /\ t \in topics
    /\ topics' = topics \ {t}
    /\ log' = [q \in Questions |->
                 [i \in DOMAIN log[q] |->
                    IF log[q][i].topic = t THEN [log[q][i] EXCEPT !.topic = NoTopic]
                    ELSE log[q][i]]]
    /\ UNCHANGED <<client, call, question, shown>>

Step(q) ==
    \/ Post(q) \/ Posted(q) \/ Refuse(q) \/ Prepared(q)
    \/ MetadataSent(q) \/ Token(q) \/ TokenSent(q)
    \/ Answered(q) \/ StreamError(q) \/ StreamCrash(q) \/ EventSent(q)
    \/ Retry(q)

Next ==
    \/ \E q \in Questions : Ask(q) \/ Step(q) \/ LeaveStream(q) \/ LeaveSending(q)
    \/ \E t \in Topics : DeleteTopic(t)

Spec == Init /\ [][Next]_vars

\* The event loop gives every task its turn, and the model's client has a
\* timeout (llm_timeout_seconds).  Nobody is obliged to ask or to leave.
Fairness == \A q \in Questions : WF_vars(Step(q))

FairSpec == Spec /\ Fairness

-----------------------------------------------------------------------------
(* Properties.                                                             *)

TypeOK ==
    /\ LlmTypeOK
    /\ topics \subseteq Topics
    /\ question \in [Questions -> [stage : Stages, topic : Topics \cup {NoTopic},
                                   grounded : BOOLEAN, posts : 0..MaxPosts]]
    /\ shown \in [Questions -> Seq(0..MaxAttempts)]
    /\ log \in [Questions -> Seq([topic : Topics \cup {NoTopic}, failed : BOOLEAN])]

\* The cost log tells how a question ended: one row without an error behind a
\* done event, one with an error behind an error event or a broken stream, none
\* for a refused question.  Of the answers that were read to their end only one
\* whose topic is gone has no row (a reader who leaves may leave none), and no row
\* names a topic that is gone.
RowTellsEnding ==
    \A q \in Questions :
        LET stage == question[q].stage
            Rows(failed) == Len(log[q]) = 1 /\ log[q][1].failed = failed
        IN
        /\ stage \in {"done_event", "done"} => Rows(FALSE)
        /\ stage \in {"error_event", "error"} => Rows(TRUE)
        /\ stage = "broken" => Rows(TRUE) \/ (log[q] = <<>> /\ ~CanLog(q))
        /\ stage = "refused" => log[q] = <<>>
        /\ \A i \in DOMAIN log[q] : log[q][i].topic \in topics \cup {NoTopic}

\* What of the state is seen from outside.
EndingOf(stage) ==
    CASE stage \in {"done", "error", "refused"} -> stage
      [] stage \in {"broken", "left"} -> "cut"
      [] OTHER -> "open"

Endings == [q \in Questions |-> EndingOf(question[q].stage)]
RowCounts == [q \in Questions |-> Len(log[q])]

Promise ==
    INSTANCE AnswerPromise WITH
        Replies <- 0..MaxAttempts, rows <- RowCounts, ending <- Endings

\* The stream keeps what AnswerPromise says: tokens of one reply, one row, and
\* the row before the closing event.
PromiseSpec == Promise!Spec

\* Every question that was asked comes to an end: the retries of several calls
\* that close each other's pool do not go on for ever.
AnswersEnd == \A q \in Questions : At(q, "prepare") ~> question[q].stage \in Ended
=============================================================================
