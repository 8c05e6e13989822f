-------------------------- MODULE AnswerStreamProofs --------------------------
(***************************************************************************)
(* Proofs about AnswerStream: type correctness, that a closed pool is      *)
(* always being replaced, what the log tells, and that the answer stream   *)
(* implements AnswerPromise.                                               *)
(***************************************************************************)
EXTENDS AnswerStream, TLAPS

\* A call that waits to be repeated has an attempt left and sent no token.
CallInv ==
    \A c \in Calls : call[c].at \in {"closing", "asleep"} =>
        call[c].attempt < MaxAttempts /\ ~call[c].emitted

\* While an event is being sent, the call is over or in the middle of a reply.
StageInv ==
    \A q \in Questions : question[q].stage \in Sending => call[q].at \in {"idle", "sent"}

\* Sequences kept for each question.
LEMMA ElementTyped ==
    ASSUME NEW S, NEW s \in Seq(S), NEW i \in 1..Len(s)
    PROVE  s[i] \in S
OBVIOUS

LEMMA AppendTyped ==
    ASSUME NEW S, NEW D, NEW f \in [D -> Seq(S)], NEW d \in D, NEW e \in S
    PROVE  [f EXCEPT ![d] = Append(@, e)] \in [D -> Seq(S)]
OBVIOUS

\* The steps of a call keep its type.
LEMMA SendTyped ==
    ASSUME LlmTypeOK, CallInv, NEW c \in Calls, NEW n \in 0..MaxAttempts, Send(c, n)
    PROVE  LlmTypeOK' /\ CallInv'
BY MaxAttemptsAssumption DEF LlmTypeOK, CallInv, Send, Sent

LEMMA OverTyped ==
    ASSUME LlmTypeOK, CallInv, NEW c \in Calls, Over(c),
           client' \in {"none", "open", "closed"}
    PROVE  LlmTypeOK' /\ CallInv'
BY MaxAttemptsAssumption DEF LlmTypeOK, CallInv, Over, Idle

LEMMA RetryTyped ==
    ASSUME LlmTypeOK, CallInv, NEW c \in Calls,
           \/ prepare_transport_retry(c)
           \/ Drop(c)
           \/ call[c].at = "asleep" /\ Send(c, NextAttempt(c))
    PROVE  LlmTypeOK' /\ CallInv'
<1>1. CASE prepare_transport_retry(c)
  BY <1>1, MaxAttemptsAssumption DEF LlmTypeOK, CallInv, prepare_transport_retry, IsLast
<1>2. CASE Drop(c)
  BY <1>2 DEF LlmTypeOK, CallInv, Drop
<1>3. CASE call[c].at = "asleep" /\ Send(c, NextAttempt(c))
  <2>1. NextAttempt(c) \in 0..MaxAttempts
    BY <1>3, MaxAttemptsAssumption DEF LlmTypeOK, CallInv, NextAttempt
  <2> QED BY <2>1, <1>3, SendTyped
<1> QED BY <1>1, <1>2, <1>3

LEMMA EmitTyped ==
    ASSUME LlmTypeOK, CallInv, NEW c \in Calls, Emit(c)
    PROVE  LlmTypeOK' /\ CallInv'
BY DEF LlmTypeOK, CallInv, Emit

LEMMA QuestionTyped ==
    ASSUME TypeOK, NEW q \in Questions, NEW s \in Stages, GoTo(q, s)
    PROVE  question' \in [Questions -> [stage : Stages, topic : Topics \cup {NoTopic},
                                        grounded : BOOLEAN, posts : 0..MaxPosts]]
BY DEF TypeOK, GoTo

LEMMA LogTyped ==
    ASSUME TypeOK, NEW q \in Questions, NEW failed \in BOOLEAN, record_qa_log(q, failed)
    PROVE  log' \in [Questions -> Seq([topic : Topics \cup {NoTopic}, failed : BOOLEAN])]
<1>1. LogRow(q, failed) \in [topic : Topics \cup {NoTopic}, failed : BOOLEAN]
  BY DEF TypeOK, LogRow
<1>2. log \in [Questions -> Seq([topic : Topics \cup {NoTopic}, failed : BOOLEAN])]
  BY DEF TypeOK
<1>3. CASE CanLog(q)
  <2>1. log' = [log EXCEPT ![q] = Append(@, LogRow(q, failed))]
    BY <1>3 DEF record_qa_log
  <2> HIDE DEF LogRow
  <2> QED BY <1>1, <1>2, <2>1, AppendTyped
<1>4. CASE ~CanLog(q)
  BY <1>2, <1>4 DEF record_qa_log
<1> QED BY <1>3, <1>4

LEMMA ConcludeTyped ==
    ASSUME TypeOK, NEW q \in Questions, NEW failed \in BOOLEAN, NEW e \in Stages,
           Conclude(q, failed, e)
    PROVE  /\ topics' \subseteq Topics
           /\ question' \in [Questions -> [stage : Stages, topic : Topics \cup {NoTopic},
                                           grounded : BOOLEAN, posts : 0..MaxPosts]]
           /\ shown' \in [Questions -> Seq(0..MaxAttempts)]
           /\ log' \in [Questions -> Seq([topic : Topics \cup {NoTopic}, failed : BOOLEAN])]
<1>1. (IF CanLog(q) THEN e ELSE "broken") \in Stages
  BY DEF Stages, Ended
<1>2. topics' \subseteq Topics /\ shown' \in [Questions -> Seq(0..MaxAttempts)]
  BY DEF Conclude, TypeOK
<1>3. GoTo(q, IF CanLog(q) THEN e ELSE "broken")
  BY DEF Conclude
<1>4. record_qa_log(q, failed)
  BY DEF Conclude
<1> QED BY <1>1, <1>2, <1>3, <1>4, QuestionTyped, LogTyped

LEMMA ShownTyped ==
    ASSUME TypeOK, NEW q \in Questions, NEW r \in 0..MaxAttempts,
           shown' = [shown EXCEPT ![q] = Append(@, r)]
    PROVE  shown' \in [Questions -> Seq(0..MaxAttempts)]
BY DEF TypeOK

LEMMA DeleteTyped ==
    ASSUME TypeOK, NEW t \in Topics, DeleteTopic(t)
    PROVE  TypeOK'
<1> DEFINE row == [topic : Topics \cup {NoTopic}, failed : BOOLEAN]
           new(q) == [i \in DOMAIN log[q] |->
                        IF log[q][i].topic = t THEN [log[q][i] EXCEPT !.topic = NoTopic]
                        ELSE log[q][i]]
<1>1. ASSUME NEW q \in Questions
      PROVE  new(q) \in Seq(row)
  <2>1. log[q] \in Seq(row)
    BY DEF TypeOK
  <2>2. DOMAIN log[q] = 1..Len(log[q]) /\ Len(log[q]) \in Nat
    BY <2>1
  <2>3. ASSUME NEW i \in 1..Len(log[q])
        PROVE  (IF log[q][i].topic = t THEN [log[q][i] EXCEPT !.topic = NoTopic]
                ELSE log[q][i]) \in row
    <3> HIDE DEF row
    <3>1. log[q][i] \in row
      BY <2>1, <2>3, ElementTyped
    <3> USE DEF row
    <3> QED BY <3>1
  <2>4. new(q) \in [1..Len(log[q]) -> row]
    BY <2>2, <2>3
  <2> QED BY <2>2, <2>4
<1>2. log' = [q \in Questions |-> new(q)]
  BY DEF DeleteTopic
<1>3. log' \in [Questions -> Seq(row)]
  BY <1>1, <1>2
<1> QED BY <1>3 DEF DeleteTopic, TypeOK, LlmTypeOK

-----------------------------------------------------------------------------
QuestionType ==
    [stage : Stages, topic : Topics \cup {NoTopic}, grounded : BOOLEAN, posts : 0..MaxPosts]

\* What is left of TypeOK when the calls are put aside.
RestTyped ==
    /\ topics \subseteq Topics
    /\ question \in [Questions -> [stage : Stages, topic : Topics \cup {NoTopic},
                                   grounded : BOOLEAN, posts : 0..MaxPosts]]
    /\ shown \in [Questions -> Seq(0..MaxAttempts)]
    /\ log \in [Questions -> Seq([topic : Topics \cup {NoTopic}, failed : BOOLEAN])]

LEMMA RestSame ==
    ASSUME TypeOK, UNCHANGED topics, UNCHANGED question, UNCHANGED shown, UNCHANGED log
    PROVE  RestTyped'
BY DEF TypeOK, RestTyped

LEMMA RestGoesOn ==
    ASSUME TypeOK, NEW q \in Questions, NEW s \in Stages, GoTo(q, s),
           UNCHANGED topics, UNCHANGED shown, UNCHANGED log
    PROVE  RestTyped'
BY QuestionTyped DEF TypeOK, RestTyped

LEMMA RestShows ==
    ASSUME TypeOK, NEW q \in Questions, NEW s \in Stages, GoTo(q, s),
           NEW r \in 0..MaxAttempts, shown' = [shown EXCEPT ![q] = Append(@, r)],
           UNCHANGED topics, UNCHANGED log
    PROVE  RestTyped'
BY QuestionTyped, ShownTyped DEF TypeOK, RestTyped

LEMMA RestConcludes ==
    ASSUME TypeOK, NEW q \in Questions, NEW failed \in BOOLEAN, NEW e \in Stages,
           Conclude(q, failed, e)
    PROVE  RestTyped'
BY ConcludeTyped DEF RestTyped

LEMMA CallsSame ==
    ASSUME LlmTypeOK, CallInv, UNCHANGED client, UNCHANGED call
    PROVE  LlmTypeOK' /\ CallInv'
BY DEF LlmTypeOK, CallInv

LEMMA ReturnTyped ==
    ASSUME LlmTypeOK, CallInv, NEW c \in Calls,
           Return(c) \/ GiveUp(c) \/ Reject(c) \/ Cancel(c)
    PROVE  LlmTypeOK' /\ CallInv'
<1>1. Over(c)
  BY DEF Return, GiveUp, Reject, Cancel
<1>2. client' \in {"none", "open", "closed"}
  BY DEF Return, GiveUp, Reject, Cancel, LlmTypeOK
<1> QED BY <1>1, <1>2, OverTyped

LEMMA TypeInit == Init => TypeOK /\ CallInv
<1> SUFFICES ASSUME Init PROVE TypeOK /\ CallInv
  OBVIOUS
<1>1. LlmTypeOK /\ CallInv
  BY MaxAttemptsAssumption DEF Init, LlmInit, LlmTypeOK, CallInv, Idle
<1>2. topics \subseteq Topics
  BY DEF Init
<1>3. question \in [Questions -> [stage : Stages, topic : Topics \cup {NoTopic},
                                  grounded : BOOLEAN, posts : 0..MaxPosts]]
  BY BoundsAssumption DEF Init, Question, Stages
<1>4. shown \in [Questions -> Seq(0..MaxAttempts)]
  BY DEF Init
<1>5. log \in [Questions -> Seq([topic : Topics \cup {NoTopic}, failed : BOOLEAN])]
  BY DEF Init
<1> QED BY <1>1, <1>2, <1>3, <1>4, <1>5 DEF TypeOK

\* One case per action: what it does to the calls, and what to the rest.
LEMMA TypeStep == TypeOK /\ CallInv /\ [Next]_vars => TypeOK' /\ CallInv'
<1> SUFFICES ASSUME TypeOK, CallInv, [Next]_vars PROVE TypeOK' /\ CallInv'
  OBVIOUS
<1>a. LlmTypeOK
  BY DEF TypeOK
<1>b. 1 \in 0..MaxAttempts /\ 0 \in 0..MaxAttempts
  BY MaxAttemptsAssumption
<1>c. ASSUME LlmTypeOK', RestTyped' PROVE TypeOK'
  BY <1>c DEF TypeOK, RestTyped
<1>1. ASSUME NEW q \in Questions, Ask(q) PROVE TypeOK' /\ CallInv'
  <2>1. PICK t \in Topics \cup {NoTopic} :
           question' = [question EXCEPT ![q] = Question("prepare", t, FALSE, 0)]
    BY <1>1 DEF Ask, TypeOK
  <2>2. Question("prepare", t, FALSE, 0) \in QuestionType
    BY BoundsAssumption DEF Question, QuestionType, Stages
  <2>3. question' \in [Questions -> QuestionType]
    BY <2>1, <2>2 DEF TypeOK, QuestionType
  <2>4. RestTyped'
    BY <1>1, <2>3 DEF Ask, TypeOK, RestTyped, QuestionType
  <2> QED BY <1>1, <1>a, <1>c, <2>4, CallsSame DEF Ask
<1>2. ASSUME NEW q \in Questions, Post(q) PROVE TypeOK' /\ CallInv'
  <2>1. question[q] \in QuestionType
    BY DEF TypeOK, QuestionType
  <2>2. question[q].posts + 1 \in 0..MaxPosts
    BY <1>2, <2>1, BoundsAssumption DEF Post, MayPost, QuestionType
  <2>3. [question[q] EXCEPT !.posts = @ + 1] \in QuestionType
    BY <2>1, <2>2 DEF QuestionType
  <2>4. question' \in [Questions -> QuestionType]
    BY <1>2, <2>3 DEF Post, TypeOK, QuestionType
  <2>5. RestTyped'
    BY <1>2, <2>4 DEF Post, TypeOK, RestTyped, QuestionType
  <2> QED BY <1>2, <1>a, <1>b, <1>c, <2>5, SendTyped, CallsAssumption DEF Post
<1>3. ASSUME NEW q \in Questions, Posted(q) PROVE TypeOK' /\ CallInv'
  BY <1>3, <1>a, <1>c, RestSame, ReturnTyped, CallsAssumption DEF Posted
<1>4. ASSUME NEW q \in Questions, Refuse(q) PROVE TypeOK' /\ CallInv'
  <2>1. LlmTypeOK' /\ CallInv'
    BY <1>4, <1>a, ReturnTyped, CallsSame, CallsAssumption DEF Refuse, llmVars
  <2>2. RestTyped'
    <3>1. "refused" \in Stages
      BY DEF Stages, Ended
    <3> QED BY <1>4, <3>1, RestGoesOn DEF Refuse
  <2> QED BY <2>1, <2>2, <1>c
<1>5. ASSUME NEW q \in Questions, Prepared(q) PROVE TypeOK' /\ CallInv'
  <2>1. RestTyped'
    BY <1>5 DEF Prepared, TypeOK, RestTyped, Stages, Sending
  <2> QED BY <1>5, <1>a, <1>c, <2>1, CallsSame DEF Prepared
<1>6. ASSUME NEW q \in Questions, MetadataSent(q) PROVE TypeOK' /\ CallInv'
  <2>1. LlmTypeOK' /\ CallInv'
    BY <1>6, <1>a, <1>b, SendTyped, CallsSame, CallsAssumption DEF MetadataSent, llmVars
  <2>2. "stream" \in Stages /\ "token" \in Stages
    BY DEF Stages, Sending
  <2>3. RestTyped'
    BY <1>6, <1>b, <2>2, RestGoesOn, RestShows DEF MetadataSent
  <2> QED BY <2>1, <2>3, <1>c
<1>7. ASSUME NEW q \in Questions, Token(q) PROVE TypeOK' /\ CallInv'
  <2>1. LlmTypeOK' /\ CallInv'
    BY <1>7, <1>a, EmitTyped, CallsAssumption DEF Token
  <2>2. "token" \in Stages
    BY DEF Stages, Sending
  <2>3. call[q].attempt \in 0..MaxAttempts
    BY <1>a, CallsAssumption DEF LlmTypeOK
  <2>4. RestTyped'
    BY <1>7, <2>2, <2>3, RestShows DEF Token
  <2> QED BY <2>1, <2>4, <1>c
<1>8. ASSUME NEW q \in Questions, TokenSent(q) PROVE TypeOK' /\ CallInv'
  <2>1. "stream" \in Stages /\ "done_event" \in Stages
    BY DEF Stages, Sending
  <2>2. RestTyped'
    BY <1>8, <2>1, RestGoesOn, RestConcludes DEF TokenSent
  <2> QED BY <1>8, <1>a, <1>c, <2>2, CallsSame DEF TokenSent, llmVars
<1>9. ASSUME NEW q \in Questions, Answered(q) \/ StreamError(q) \/ StreamCrash(q) \/ LeaveStream(q)
      PROVE TypeOK' /\ CallInv'
  <2>1. LlmTypeOK' /\ CallInv'
    BY <1>9, <1>a, ReturnTyped, CallsAssumption DEF Answered, StreamError, StreamCrash, LeaveStream
  <2>2. {"done_event", "error_event", "broken", "left"} \subseteq Stages
    BY DEF Stages, Sending, Ended
  <2>3. RestTyped'
    BY <1>9, <2>2, RestConcludes DEF Answered, StreamError, StreamCrash, LeaveStream
  <2> QED BY <2>1, <2>3, <1>c
<1>10. ASSUME NEW q \in Questions, EventSent(q) PROVE TypeOK' /\ CallInv'
  <2>1. "done" \in Stages /\ "error" \in Stages
    BY DEF Stages, Ended
  <2>2. RestTyped'
    BY <1>10, <2>1, RestGoesOn DEF EventSent
  <2> QED BY <1>10, <1>a, <1>c, <2>2, CallsSame DEF EventSent
<1>11. ASSUME NEW q \in Questions, LeaveSending(q) PROVE TypeOK' /\ CallInv'
  <2>1. LlmTypeOK' /\ CallInv'
    BY <1>11, <1>a, OverTyped, CallsAssumption DEF LeaveSending, LlmTypeOK
  <2>2. "left" \in Stages
    BY DEF Stages, Ended
  <2>3. RestTyped'
    BY <1>11, <2>2, RestGoesOn, RestConcludes DEF LeaveSending
  <2> QED BY <2>1, <2>3, <1>c
<1>12. ASSUME NEW q \in Questions, Retry(q) PROVE TypeOK' /\ CallInv'
  <2>1. RestTyped'
    BY <1>12, RestSame DEF Retry
  <2> QED BY <1>12, <1>a, <1>c, <2>1, RetryTyped, CallsAssumption DEF Retry
<1>13. ASSUME NEW t \in Topics, DeleteTopic(t) PROVE TypeOK' /\ CallInv'
  <2>1. LlmTypeOK' /\ CallInv'
    BY <1>13, <1>a, CallsSame DEF DeleteTopic
  <2> QED BY <1>13, <2>1, DeleteTyped
<1>14. CASE UNCHANGED vars
  BY <1>14, <1>a, <1>c, RestSame, CallsSame DEF vars
<1> QED BY <1>1, <1>2, <1>3, <1>4, <1>5, <1>6, <1>7, <1>8, <1>9, <1>10, <1>11,
           <1>12, <1>13, <1>14 DEF Next, Step

\* Every reachable state is well typed, whatever the questions, the topics and
\* the bounds: attempts never exceed llm_max_attempts.
THEOREM TypeCorrect == Spec => []TypeOK
<1>1. Init => TypeOK /\ CallInv
  BY TypeInit
<1>2. TypeOK /\ CallInv /\ [Next]_vars => (TypeOK /\ CallInv)'
  BY TypeStep
<1> QED BY <1>1, <1>2, PTL DEF Spec

-----------------------------------------------------------------------------
(* A closed pool is being replaced.                                        *)

\* A question does not touch what belongs to another one.
Others(q) ==
    \A p \in Questions \ {q} : call'[p] = call[p] /\ question'[p] = question[p]

LEMMA StepOthers ==
    ASSUME TypeOK, NEW q \in Questions, Ask(q) \/ Step(q) \/ LeaveStream(q) \/ LeaveSending(q)
    PROVE  Others(q)
<1>1. call \in [Questions -> [at : {"idle", "sent", "closing", "asleep"},
                              attempt : 0..MaxAttempts, emitted : BOOLEAN]]
  BY CallsAssumption DEF TypeOK, LlmTypeOK
<1>2. question \in [Questions -> QuestionType]
  BY DEF TypeOK, QuestionType
<1>3. CASE Ask(q)
  BY <1>3, <1>1, <1>2 DEF Ask, Others
<1>4. CASE Post(q) \/ Posted(q) \/ Refuse(q) \/ Prepared(q)
  BY <1>4, <1>1, <1>2 DEF Post, Posted, Refuse, Prepared, Send, Return, GiveUp, Reject, Over,
       GoTo, Others, llmVars
<1>5. CASE MetadataSent(q) \/ Token(q)
  BY <1>5, <1>1, <1>2 DEF MetadataSent, Token, Send, Emit, GoTo, Others, llmVars
<1>6. CASE TokenSent(q) \/ Answered(q) \/ StreamError(q) \/ StreamCrash(q) \/ LeaveStream(q)
  BY <1>6, <1>1, <1>2 DEF TokenSent, Answered, StreamError, StreamCrash, LeaveStream, Conclude,
       Return, GiveUp, Reject, Cancel, Over, GoTo, Others, llmVars
<1>7. CASE EventSent(q) \/ LeaveSending(q)
  BY <1>7, <1>1, <1>2 DEF EventSent, LeaveSending, Over, Conclude, GoTo, Others
<1>8. CASE Retry(q)
  BY <1>8, <1>1, <1>2 DEF Retry, prepare_transport_retry, Drop, Send, Others
<1> QED BY <1>3, <1>4, <1>5, <1>6, <1>7, <1>8 DEF Step

LEMMA StageStep == TypeOK /\ StageInv /\ [Next]_vars => StageInv'
<1> SUFFICES ASSUME TypeOK, StageInv, [Next]_vars PROVE StageInv'
  OBVIOUS
<1>1. call \in [Questions -> [at : {"idle", "sent", "closing", "asleep"},
                              attempt : 0..MaxAttempts, emitted : BOOLEAN]]
  BY CallsAssumption DEF TypeOK, LlmTypeOK
<1>2. question \in [Questions -> QuestionType]
  BY DEF TypeOK, QuestionType
<1>3. ASSUME NEW q \in Questions, Others(q),
             question'[q].stage \in Sending => call'[q].at \in {"idle", "sent"}
      PROVE  StageInv'
  BY <1>3 DEF StageInv, Others
<1>4. ASSUME NEW q \in Questions, Ask(q) \/ Step(q) \/ LeaveStream(q) \/ LeaveSending(q)
      PROVE  question'[q].stage \in Sending => call'[q].at \in {"idle", "sent"}
  <2>1. CASE Ask(q) \/ Post(q) \/ Posted(q) \/ Refuse(q) \/ Retry(q)
    <3>1. CASE Ask(q)
      BY <3>1, <1>2 DEF Ask, Question, Sending
    <3>2. CASE Post(q)
      BY <3>2, <1>2 DEF Post, At, Sending
    <3>3. CASE Posted(q) \/ Retry(q)
      BY <3>3 DEF Posted, Retry, At, Sending
    <3>4. CASE Refuse(q)
      BY <3>4, <1>2 DEF Refuse, GoTo, Sending
    <3> QED BY <2>1, <3>1, <3>2, <3>3, <3>4
  <2>2. CASE Prepared(q)
    BY <2>2 DEF Prepared, Idle
  <2>3. CASE MetadataSent(q)
    BY <2>3, <1>1, <1>2 DEF MetadataSent, Send, Sent, StageInv, At, Sending, llmVars
  <2>4. CASE Token(q)
    BY <2>4, <1>1, <1>2 DEF Token, Emit
  <2>5. CASE TokenSent(q) \/ EventSent(q)
    <3>1. call[q].at \in {"idle", "sent"}
      BY <2>5 DEF TokenSent, EventSent, StageInv, At, Sending
    <3>2. UNCHANGED call
      BY <2>5 DEF TokenSent, EventSent, llmVars
    <3> QED BY <3>1, <3>2
  <2>6. CASE Answered(q) \/ StreamError(q) \/ StreamCrash(q) \/ LeaveStream(q) \/ LeaveSending(q)
    <3>1. Over(q)
      BY <2>6 DEF Answered, StreamError, StreamCrash, LeaveStream, LeaveSending,
           Return, GiveUp, Reject, Cancel
    <3>2. q \in Calls
      BY CallsAssumption
    <3> QED BY <3>1, <3>2, <1>1 DEF Over, Idle
  <2> QED BY <1>4, <2>1, <2>2, <2>3, <2>4, <2>5, <2>6 DEF Step
<1>5. ASSUME NEW t \in Topics, DeleteTopic(t) PROVE StageInv'
  BY <1>5 DEF DeleteTopic, StageInv
<1>6. CASE UNCHANGED vars
  BY <1>6 DEF vars, StageInv
<1> QED BY <1>3, <1>4, <1>5, <1>6, StepOthers DEF Next

\* What the steps of a call do to the pool.
LEMMA ClosedCall ==
    ASSUME LlmTypeOK, ClosedIsBeingReplaced, NEW c \in Calls,
           \/ \E n \in Nat : Send(c, n)
           \/ Return(c) \/ GiveUp(c) \/ Emit(c) \/ Cancel(c)
           \/ Reject(c) /\ call[c].at # "closing"
           \/ prepare_transport_retry(c) \/ Drop(c)
    PROVE  ClosedIsBeingReplaced'
<1>1. CASE \E n \in Nat : Send(c, n)
  BY <1>1 DEF Send, ClosedIsBeingReplaced
<1>2. CASE Return(c) \/ GiveUp(c)
  BY <1>2 DEF Return, GiveUp, Over, LlmTypeOK, ClosedIsBeingReplaced
<1>3. CASE Emit(c)
  BY <1>3 DEF Emit, LlmTypeOK, ClosedIsBeingReplaced
<1>4. CASE Cancel(c)
  BY <1>4 DEF Cancel, Over, LlmTypeOK, ClosedIsBeingReplaced
<1>5. CASE Reject(c) /\ call[c].at # "closing"
  BY <1>5 DEF Reject, Over, LlmTypeOK, ClosedIsBeingReplaced
<1>6. CASE prepare_transport_retry(c)
  BY <1>6 DEF prepare_transport_retry, LlmTypeOK, ClosedIsBeingReplaced
<1>7. CASE Drop(c)
  BY <1>7 DEF Drop, ClosedIsBeingReplaced
<1> QED BY <1>1, <1>2, <1>3, <1>4, <1>5, <1>6, <1>7

LEMMA ClosedSame ==
    ASSUME ClosedIsBeingReplaced, UNCHANGED client, UNCHANGED call
    PROVE  ClosedIsBeingReplaced'
BY DEF ClosedIsBeingReplaced

LEMMA ClosedStep ==
    TypeOK /\ StageInv /\ ClosedIsBeingReplaced /\ [Next]_vars => ClosedIsBeingReplaced'
<1> SUFFICES ASSUME TypeOK, StageInv, ClosedIsBeingReplaced, [Next]_vars
             PROVE  ClosedIsBeingReplaced'
  OBVIOUS
<1>1. LlmTypeOK
  BY DEF TypeOK
<1>2. 1 \in Nat /\ \A c \in Calls : NextAttempt(c) \in Nat
  BY <1>1, MaxAttemptsAssumption DEF LlmTypeOK, NextAttempt
<1>3. ASSUME NEW q \in Questions, Ask(q) \/ Prepared(q) \/ TokenSent(q) \/ EventSent(q)
      PROVE  ClosedIsBeingReplaced'
  BY <1>3, ClosedSame DEF Ask, Prepared, TokenSent, EventSent, llmVars
<1>4. ASSUME NEW q \in Questions, Post(q) \/ Posted(q) \/ Token(q) \/ Retry(q)
      PROVE  ClosedIsBeingReplaced'
  BY <1>1, <1>2, <1>4, ClosedCall, CallsAssumption DEF Post, Posted, Token, Retry
<1>5. ASSUME NEW q \in Questions, Refuse(q) PROVE ClosedIsBeingReplaced'
  <2>1. MayPost(q) => call[q].at # "closing"
    BY DEF MayPost, Idle
  <2> QED BY <1>1, <1>5, <2>1, ClosedCall, ClosedSame, CallsAssumption DEF Refuse, llmVars
<1>6. ASSUME NEW q \in Questions, MetadataSent(q) PROVE ClosedIsBeingReplaced'
  BY <1>1, <1>2, <1>6, ClosedCall, ClosedSame, CallsAssumption DEF MetadataSent, llmVars
<1>7. ASSUME NEW q \in Questions, Answered(q) \/ StreamError(q) \/ LeaveStream(q)
      PROVE  ClosedIsBeingReplaced'
  BY <1>1, <1>7, ClosedCall, CallsAssumption DEF Answered, StreamError, LeaveStream
<1>8. ASSUME NEW q \in Questions, StreamCrash(q) PROVE ClosedIsBeingReplaced'
  <2>1. call[q].at # "closing"
    BY <1>8 DEF StreamCrash, StageInv, At, Sending
  <2> QED BY <1>1, <1>8, <2>1, ClosedCall, CallsAssumption DEF StreamCrash
<1>9. ASSUME NEW q \in Questions, LeaveSending(q) PROVE ClosedIsBeingReplaced'
  <2>1. call[q].at # "closing"
    BY <1>9 DEF LeaveSending, StageInv
  <2> QED BY <1>1, <1>9, <2>1 DEF LeaveSending, Over, LlmTypeOK, ClosedIsBeingReplaced
<1>10. ASSUME NEW t \in Topics, DeleteTopic(t) PROVE ClosedIsBeingReplaced'
  BY <1>10, ClosedSame DEF DeleteTopic
<1>11. CASE UNCHANGED vars
  BY <1>11, ClosedSame DEF vars
<1> QED BY <1>3, <1>4, <1>5, <1>6, <1>7, <1>8, <1>9, <1>10, <1>11 DEF Next, Step

\* However many calls share the client and however their failures, retries and
\* cancellations interleave, a closed pool never stays behind.
THEOREM PoolIsReplaced == Spec => []ClosedIsBeingReplaced
<1>1. Init => StageInv /\ ClosedIsBeingReplaced
  BY DEF Init, LlmInit, Question, Sending, StageInv, ClosedIsBeingReplaced
<1>2. TypeOK /\ CallInv /\ StageInv /\ ClosedIsBeingReplaced /\ [Next]_vars
        => (TypeOK /\ CallInv /\ StageInv /\ ClosedIsBeingReplaced)'
  BY TypeStep, StageStep, ClosedStep
<1> QED BY <1>1, <1>2, TypeInit, PTL DEF Spec

-----------------------------------------------------------------------------
(* What the log tells.                                                     *)

\* Before its answer is concluded a question has no row.
Unlogged == {"off", "prepare", "metadata", "stream", "token", "refused"}

HasRow(q, failed) == Len(log[q]) = 1 /\ log[q][1].failed = failed

\* RowTellsEnding and that, for one question.
RowInv(q) ==
    /\ question[q].stage \in Unlogged => log[q] = <<>>
    /\ question[q].stage \in {"done_event", "done"} => HasRow(q, FALSE)
    /\ question[q].stage \in {"error_event", "error"} => HasRow(q, TRUE)
    /\ question[q].stage = "broken" => HasRow(q, TRUE) \/ (log[q] = <<>> /\ ~CanLog(q))
    /\ \A i \in DOMAIN log[q] : log[q][i].topic \in topics \cup {NoTopic}

\* The tokens shown come from the reply that is being read.
ReplyInv(q) ==
    LET stage == question[q].stage IN
    /\ stage \in {"off", "prepare", "metadata", "refused"} => shown[q] = <<>>
    /\ stage = "stream" => question[q].grounded
    /\ stage \in {"stream", "token"} /\ question[q].grounded /\ shown[q] # <<>> =>
          /\ call[q].at = "sent" /\ call[q].emitted
          /\ \A i \in DOMAIN shown[q] : shown[q][i] = call[q].attempt

RowsInv == \A q \in Questions : RowInv(q)
RepliesInv == \A q \in Questions : ReplyInv(q)

\* A question that is not logged goes on or is refused or left.
LEMMA RowQuiet ==
    ASSUME NEW q \in Questions, log[q] = <<>>, UNCHANGED log,
           question'[q].stage \in Unlogged \cup {"left"}
    PROVE  RowInv(q)'
BY DEF RowInv, HasRow, Unlogged

LEMMA RowSame ==
    ASSUME NEW q \in Questions, RowInv(q), UNCHANGED topics,
           question'[q] = question[q], log'[q] = log[q]
    PROVE  RowInv(q)'
BY DEF RowInv, HasRow, CanLog

LEMMA RowConcludes ==
    ASSUME TypeOK, NEW q \in Questions, log[q] = <<>>,
           NEW failed \in BOOLEAN, NEW e, Conclude(q, failed, e),
           \/ e = "done_event" /\ ~failed
           \/ e \in {"error_event", "broken", "left"} /\ failed
    PROVE  RowInv(q)'
<1>1. /\ UNCHANGED topics
      /\ question'[q] = [question[q] EXCEPT !.stage = IF CanLog(q) THEN e ELSE "broken"]
      /\ record_qa_log(q, failed)
  BY DEF Conclude, GoTo, TypeOK
<1>2. question[q] \in QuestionType
  BY DEF TypeOK, QuestionType
<1>3. question'[q].topic = question[q].topic
  BY <1>1, <1>2 DEF QuestionType
<1>4. CASE CanLog(q)
  <2>1. question'[q].stage = e
    BY <1>1, <1>2, <1>4 DEF QuestionType
  <2>2. log'[q] = <<LogRow(q, failed)>>
    BY <1>1, <1>4 DEF record_qa_log, TypeOK
  <2>3. Len(log'[q]) = 1 /\ log'[q][1] = LogRow(q, failed)
    BY <2>2
  <2>4. HasRow(q, failed)'
    BY <2>3 DEF HasRow, LogRow
  <2>5. \A i \in DOMAIN log'[q] : log'[q][i].topic = question[q].topic
    BY <2>2 DEF LogRow
  <2>6. \A i \in DOMAIN log'[q] : log'[q][i].topic \in topics' \cup {NoTopic}
    BY <2>5, <1>1, <1>4 DEF CanLog
  <2>7. CASE e = "done_event" /\ ~failed
    <3>1. HasRow(q, FALSE)'
      <4>1. failed = FALSE
        BY <2>7
      <4> QED BY <2>4, <4>1
    <3> QED BY <2>1, <2>6, <2>7, <3>1 DEF RowInv, Unlogged
  <2>8. CASE e \in {"error_event", "broken", "left"} /\ failed
    <3>1. HasRow(q, TRUE)'
      <4>1. failed = TRUE
        BY <2>8
      <4> QED BY <2>4, <4>1
    <3> QED BY <2>1, <2>6, <2>8, <3>1 DEF RowInv, Unlogged
  <2> QED BY <2>7, <2>8
<1>5. CASE ~CanLog(q)
  <2>1. question'[q].stage = "broken"
    BY <1>1, <1>2, <1>5 DEF QuestionType
  <2>2. log'[q] = <<>>
    BY <1>1, <1>5 DEF record_qa_log
  <2>3. ~CanLog(q)'
    BY <1>1, <1>3, <1>5 DEF CanLog
  <2>4. DOMAIN log'[q] = {}
    BY <2>2
  <2> QED BY <2>1, <2>2, <2>3, <2>4 DEF RowInv, Unlogged
<1> QED BY <1>4, <1>5

LEMMA StepOtherData ==
    ASSUME TypeOK, NEW q \in Questions, Ask(q) \/ Step(q) \/ LeaveStream(q) \/ LeaveSending(q)
    PROVE  /\ UNCHANGED topics
           /\ \A p \in Questions \ {q} : log'[p] = log[p] /\ shown'[p] = shown[p]
BY DEF TypeOK, Step, Ask, Post, Posted, Refuse, Prepared, MetadataSent, Token, TokenSent,
   Answered, StreamError, StreamCrash, EventSent, LeaveStream, LeaveSending, Retry,
   Conclude, record_qa_log

LEMMA RowStep ==
    ASSUME TypeOK, NEW q \in Questions, RowInv(q),
           Ask(q) \/ Step(q) \/ LeaveStream(q) \/ LeaveSending(q)
    PROVE  RowInv(q)'
<1>1. question[q] \in QuestionType /\ question \in [Questions -> QuestionType]
  BY DEF TypeOK, QuestionType
<1>2. CASE Ask(q)
  BY <1>2, <1>1, RowQuiet DEF Ask, Question, At, RowInv, Unlogged
<1>3. CASE Post(q)
  <2>1. question'[q].stage = "prepare" /\ log[q] = <<>>
    BY <1>3, <1>1 DEF Post, At, RowInv, Unlogged, QuestionType
  <2> QED BY <1>3, <2>1, RowQuiet DEF Post, Unlogged
<1>4. CASE Posted(q) \/ Retry(q)
  BY <1>4, RowSame DEF Posted, Retry
<1>5. CASE Refuse(q)
  <2>1. question'[q].stage = "refused" /\ log[q] = <<>>
    BY <1>5, <1>1 DEF Refuse, At, GoTo, RowInv, Unlogged, QuestionType
  <2> QED BY <1>5, <2>1, RowQuiet DEF Refuse, Unlogged
<1>6. CASE Prepared(q)
  <2>1. question'[q].stage = "metadata" /\ log[q] = <<>>
    BY <1>6, <1>1 DEF Prepared, At, RowInv, Unlogged, QuestionType
  <2> QED BY <1>6, <2>1, RowQuiet DEF Prepared, Unlogged
<1>7. CASE MetadataSent(q) \/ Token(q)
  <2>1. question'[q].stage \in {"stream", "token"} /\ log[q] = <<>>
    BY <1>7, <1>1 DEF MetadataSent, Token, At, GoTo, RowInv, Unlogged, QuestionType
  <2> QED BY <1>7, <2>1, RowQuiet DEF MetadataSent, Token, Unlogged
<1>8. CASE TokenSent(q)
  <2>1. log[q] = <<>>
    BY <1>8 DEF TokenSent, At, RowInv, Unlogged
  <2>2. CASE GoTo(q, "stream") /\ UNCHANGED <<topics, shown, log>>
    <3>1. question'[q].stage = "stream"
      BY <2>2, <1>1 DEF GoTo, QuestionType
    <3> QED BY <2>1, <2>2, <3>1, RowQuiet DEF Unlogged
  <2>3. CASE Conclude(q, FALSE, "done_event")
    BY <2>1, <2>3, RowConcludes
  <2> QED BY <1>8, <2>2, <2>3 DEF TokenSent
<1>9. CASE Answered(q) \/ StreamError(q) \/ StreamCrash(q) \/ LeaveStream(q)
  <2>1. log[q] = <<>>
    BY <1>9 DEF Answered, StreamError, StreamCrash, LeaveStream, At, RowInv, Unlogged
  <2> QED BY <1>9, <2>1, RowConcludes DEF Answered, StreamError, StreamCrash, LeaveStream
<1>10. CASE EventSent(q)
  <2>1. \/ question[q].stage = "done_event" /\ question'[q].stage = "done"
        \/ question[q].stage = "error_event" /\ question'[q].stage = "error"
    BY <1>10, <1>1 DEF EventSent, At, GoTo, QuestionType
  <2> QED BY <1>10, <2>1 DEF EventSent, RowInv, HasRow, Unlogged
<1>11. CASE LeaveSending(q)
  <2>1. CASE GoTo(q, "left") /\ UNCHANGED <<topics, shown, log>>
    <3>1. question'[q].stage = "left"
      BY <2>1, <1>1 DEF GoTo, QuestionType
    <3> QED BY <2>1, <3>1 DEF RowInv, Unlogged
  <2>2. CASE At(q, "token") /\ Conclude(q, TRUE, "left")
    <3>1. log[q] = <<>>
      BY <2>2 DEF At, RowInv, Unlogged
    <3> QED BY <2>2, <3>1, RowConcludes
  <2> QED BY <1>11, <2>1, <2>2 DEF LeaveSending
<1> QED BY <1>2, <1>3, <1>4, <1>5, <1>6, <1>7, <1>8, <1>9, <1>10, <1>11 DEF Step

LEMMA RowDelete ==
    ASSUME TypeOK, NEW q \in Questions, RowInv(q), NEW t \in Topics, DeleteTopic(t)
    PROVE  RowInv(q)' /\ Len(log'[q]) = Len(log[q])
<1> DEFINE row == [topic : Topics \cup {NoTopic}, failed : BOOLEAN]
           new(r) == IF r.topic = t THEN [r EXCEPT !.topic = NoTopic] ELSE r
<1>1. log[q] \in Seq(row)
  BY DEF TypeOK
<1>2. log'[q] = [i \in DOMAIN log[q] |-> new(log[q][i])]
  BY DEF DeleteTopic
<1>3. DOMAIN log[q] = 1..Len(log[q]) /\ Len(log[q]) \in Nat
  <2> HIDE DEF row
  <2> QED BY <1>1
<1>4. Len(log'[q]) = Len(log[q]) /\ DOMAIN log'[q] = DOMAIN log[q]
  <2> HIDE DEF new
  <2> QED BY <1>2, <1>3
<1>5. \A i \in DOMAIN log[q] : log[q][i] \in row
  <2> HIDE DEF row
  <2> QED BY <1>1, <1>3, ElementTyped
<1>6. \A i \in DOMAIN log[q] :
        /\ log'[q][i].failed = log[q][i].failed
        /\ log'[q][i].topic = IF log[q][i].topic = t THEN NoTopic ELSE log[q][i].topic
  BY <1>2, <1>5
<1>7. topics' = topics \ {t} /\ question' = question
  BY DEF DeleteTopic
<1>8. \A i \in DOMAIN log'[q] : log'[q][i].topic \in topics' \cup {NoTopic}
  BY <1>4, <1>6, <1>7 DEF RowInv
<1>9. \A f \in BOOLEAN : HasRow(q, f) => HasRow(q, f)'
  BY <1>3, <1>4, <1>6 DEF HasRow
<1>10. log[q] = <<>> => log'[q] = <<>>
  BY <1>2
<1>11. ~CanLog(q) => ~CanLog(q)'
  BY <1>7 DEF CanLog
<1> HIDE DEF new, row
<1> QED BY <1>4, <1>7, <1>8, <1>9, <1>10, <1>11 DEF RowInv

LEMMA RowsStep == TypeOK /\ RowsInv /\ [Next]_vars => RowsInv'
<1> SUFFICES ASSUME TypeOK, RowsInv, [Next]_vars, NEW p \in Questions PROVE RowInv(p)'
  BY DEF RowsInv
<1>1. RowInv(p)
  BY DEF RowsInv
<1>2. ASSUME NEW q \in Questions, Ask(q) \/ Step(q) \/ LeaveStream(q) \/ LeaveSending(q)
      PROVE  RowInv(p)'
  <2>1. CASE p = q
    BY <1>1, <1>2, <2>1, RowStep
  <2>2. CASE p # q
    BY <1>1, <1>2, <2>2, RowSame, StepOthers, StepOtherData DEF Others
  <2> QED BY <2>1, <2>2
<1>3. ASSUME NEW t \in Topics, DeleteTopic(t) PROVE RowInv(p)'
  BY <1>1, <1>3, RowDelete
<1>4. CASE UNCHANGED vars
  BY <1>1, <1>4, RowSame DEF vars
<1> QED BY <1>2, <1>3, <1>4 DEF Next

\* For any number of questions: a done event has one row without an error behind
\* it, an error event one with an error, a refused question none, and only a
\* deleted topic leaves an answer that was cut off without its row.
THEOREM LogTellsEnding == Spec => []RowTellsEnding
<1>1. Init => RowsInv
  <2> SUFFICES ASSUME Init, NEW q \in Questions PROVE RowInv(q)
    BY DEF RowsInv
  <2>1. log[q] = <<>> /\ question[q].stage = "off"
    BY DEF Init, Question
  <2>2. DOMAIN log[q] = {}
    BY <2>1
  <2> QED BY <2>1, <2>2 DEF RowInv, Unlogged
<1>2. RowsInv => RowTellsEnding
  BY DEF RowsInv, RowInv, HasRow, RowTellsEnding, Unlogged
<1>3. TypeOK /\ CallInv /\ RowsInv /\ [Next]_vars => (TypeOK /\ CallInv /\ RowsInv)'
  BY TypeStep, RowsStep
<1> QED BY <1>1, <1>2, <1>3, TypeInit, PTL DEF Spec

-----------------------------------------------------------------------------
(* The stream implements AnswerPromise.                                    *)

LEMMA ReplySame ==
    ASSUME NEW p \in Questions, ReplyInv(p),
           question'[p] = question[p], shown'[p] = shown[p], call'[p] = call[p]
    PROVE  ReplyInv(p)'
BY DEF ReplyInv

\* Before any token, and once the answer is concluded, there is nothing to show.
LEMMA ReplyEmpty ==
    ASSUME NEW q \in Questions, shown'[q] = <<>>,
           question'[q].stage = "stream" => question'[q].grounded
    PROVE  ReplyInv(q)'
BY DEF ReplyInv

LEMMA ReplyOver ==
    ASSUME NEW q \in Questions,
           question'[q].stage \in {"done_event", "error_event", "broken", "left", "done", "error"}
    PROVE  ReplyInv(q)'
BY DEF ReplyInv

LEMMA ReplyStep ==
    ASSUME TypeOK, CallInv, NEW q \in Questions, ReplyInv(q),
           Ask(q) \/ Step(q) \/ LeaveStream(q) \/ LeaveSending(q)
    PROVE  ReplyInv(q)'
<1>1. question[q] \in QuestionType /\ question \in [Questions -> QuestionType]
  BY DEF TypeOK, QuestionType
<1>2. call \in [Questions -> [at : {"idle", "sent", "closing", "asleep"},
                              attempt : 0..MaxAttempts, emitted : BOOLEAN]]
  BY CallsAssumption DEF TypeOK, LlmTypeOK
<1>3. CASE Ask(q)
  BY <1>3, <1>1, ReplyEmpty DEF Ask, At, Question, ReplyInv
<1>4. CASE Post(q) \/ Posted(q) \/ Refuse(q) \/ Prepared(q)
  <2>1. shown'[q] = <<>>
    BY <1>4 DEF Post, Posted, Refuse, Prepared, At, ReplyInv
  <2>2. question'[q].stage # "stream"
    BY <1>4, <1>1 DEF Post, Posted, Refuse, Prepared, At, GoTo, QuestionType
  <2> QED BY <2>1, <2>2, ReplyEmpty
<1>5. CASE MetadataSent(q)
  <2>1. shown[q] = <<>>
    BY <1>5 DEF MetadataSent, At, ReplyInv
  <2>2. CASE question[q].grounded /\ GoTo(q, "stream") /\ UNCHANGED shown
    <3>1. question'[q].grounded
      BY <2>2, <1>1 DEF GoTo, QuestionType
    <3> QED BY <2>1, <2>2, <3>1, ReplyEmpty
  <2>3. CASE ~question[q].grounded /\ GoTo(q, "token")
    <3>1. ~question'[q].grounded /\ question'[q].stage = "token"
      BY <2>3, <1>1 DEF GoTo, QuestionType
    <3> QED BY <3>1 DEF ReplyInv
  <2> QED BY <1>5, <2>2, <2>3 DEF MetadataSent
<1>6. CASE Token(q)
  <2>1. /\ call[q].at = "sent" /\ call'[q].at = "sent" /\ call'[q].emitted
        /\ call'[q].attempt = call[q].attempt
    BY <1>6, <1>2 DEF Token, Emit
  <2>2. question'[q].stage = "token"
    BY <1>6, <1>1 DEF Token, GoTo, QuestionType
  <2>3. \A i \in DOMAIN shown[q] : shown[q][i] = call[q].attempt
    BY <1>6 DEF Token, At, ReplyInv
  <2>4. shown[q] \in Seq(0..MaxAttempts) /\ call[q].attempt \in 0..MaxAttempts
    BY <1>2 DEF TypeOK
  <2>5. shown'[q] = Append(shown[q], call[q].attempt)
    BY <1>6 DEF Token, TypeOK
  <2>6. \A i \in DOMAIN shown'[q] : shown'[q][i] = call[q].attempt
    BY <2>3, <2>4, <2>5
  <2> QED BY <2>1, <2>2, <2>6 DEF ReplyInv
<1>7. CASE TokenSent(q)
  <2>1. UNCHANGED call
    BY <1>7 DEF TokenSent, llmVars
  <2>2. CASE question[q].grounded /\ GoTo(q, "stream") /\ UNCHANGED shown
    <3>1. question'[q].grounded /\ question'[q].stage = "stream"
      BY <2>2, <1>1 DEF GoTo, QuestionType
    <3> QED BY <1>7, <2>1, <2>2, <3>1 DEF TokenSent, At, ReplyInv
  <2>3. CASE Conclude(q, FALSE, "done_event")
    <3>1. question'[q].stage \in {"done_event", "broken"}
      BY <2>3, <1>1 DEF Conclude, GoTo, QuestionType
    <3> QED BY <3>1, ReplyOver
  <2> QED BY <1>7, <2>2, <2>3 DEF TokenSent
<1>8. CASE Answered(q) \/ StreamError(q) \/ StreamCrash(q) \/ LeaveStream(q)
  <2>1. question'[q].stage \in {"done_event", "error_event", "broken", "left"}
    BY <1>8, <1>1 DEF Answered, StreamError, StreamCrash, LeaveStream, Conclude, GoTo, QuestionType
  <2> QED BY <2>1, ReplyOver
<1>9. CASE EventSent(q) \/ LeaveSending(q)
  <2>1. question'[q].stage \in {"done", "error", "left", "broken"}
    BY <1>9, <1>1 DEF EventSent, LeaveSending, Conclude, GoTo, QuestionType
  <2> QED BY <2>1, ReplyOver
<1>10. CASE Retry(q)
  <2>1. question'[q] = question[q] /\ shown'[q] = shown[q]
    BY <1>10 DEF Retry
  <2>2. shown[q] = <<>>
    <3>1. CASE At(q, "prepare")
      BY <3>1 DEF At, ReplyInv
    <3>2. CASE At(q, "stream") /\ shown[q] # <<>>
      <4>1. call[q].at = "sent" /\ call[q].emitted
        BY <3>2 DEF At, ReplyInv
      <4> QED BY <1>10, <4>1 DEF Retry, prepare_transport_retry, IsLast, Drop
    <3> QED BY <1>10, <3>1, <3>2 DEF Retry
  <2> QED BY <2>1, <2>2, ReplyEmpty DEF ReplyInv
<1> QED BY <1>3, <1>4, <1>5, <1>6, <1>7, <1>8, <1>9, <1>10 DEF Step

LEMMA RepliesStep == TypeOK /\ CallInv /\ RepliesInv /\ [Next]_vars => RepliesInv'
<1> SUFFICES ASSUME TypeOK, CallInv, RepliesInv, [Next]_vars, NEW p \in Questions
             PROVE  ReplyInv(p)'
  BY DEF RepliesInv
<1>1. ReplyInv(p)
  BY DEF RepliesInv
<1>2. ASSUME NEW q \in Questions, Ask(q) \/ Step(q) \/ LeaveStream(q) \/ LeaveSending(q)
      PROVE  ReplyInv(p)'
  <2>1. CASE p = q
    BY <1>1, <1>2, <2>1, ReplyStep
  <2>2. CASE p # q
    BY <1>1, <1>2, <2>2, ReplySame, StepOthers, StepOtherData DEF Others
  <2> QED BY <2>1, <2>2
<1>3. ASSUME NEW t \in Topics, DeleteTopic(t) PROVE ReplyInv(p)'
  BY <1>1, <1>3, ReplySame DEF DeleteTopic
<1>4. CASE UNCHANGED vars
  BY <1>1, <1>4, ReplySame DEF vars
<1> QED BY <1>2, <1>3, <1>4 DEF Next

\* A step of one question, seen from outside.
LEMMA SeenStep ==
    ASSUME TypeOK, NEW q \in Questions, Ask(q) \/ Step(q) \/ LeaveStream(q) \/ LeaveSending(q)
    PROVE  /\ RowCounts' = [RowCounts EXCEPT ![q] = Len(log'[q])]
           /\ Endings' = [Endings EXCEPT ![q] = EndingOf(question'[q].stage)]
<1>1. \A p \in Questions \ {q} : log'[p] = log[p] /\ question'[p] = question[p]
  BY StepOthers, StepOtherData DEF Others
<1>2. RowCounts' = [RowCounts EXCEPT ![q] = Len(log'[q])]
  BY <1>1 DEF RowCounts
<1>3. Endings' = [Endings EXCEPT ![q] = EndingOf(question'[q].stage)]
  <2> HIDE DEF EndingOf
  <2> QED BY <1>1 DEF Endings
<1> QED BY <1>2, <1>3

LEMMA SeenQuiet ==
    ASSUME NEW q \in Questions, UNCHANGED shown, log'[q] = log[q],
           RowCounts' = [RowCounts EXCEPT ![q] = Len(log'[q])],
           Endings' = [Endings EXCEPT ![q] = EndingOf(question'[q].stage)],
           EndingOf(question'[q].stage) = EndingOf(question[q].stage)
    PROVE  UNCHANGED <<shown, RowCounts, Endings>>
<1>1. RowCounts' = RowCounts
  BY DEF RowCounts
<1>2. Endings' = Endings
  <2> HIDE DEF EndingOf
  <2> QED BY DEF Endings
<1> QED BY <1>1, <1>2

\* The row of a concluded answer, and the end of one that breaks off.
LEMMA SeenConclude ==
    ASSUME TypeOK, NEW q \in Questions, NEW failed \in BOOLEAN, NEW e, Conclude(q, failed, e),
           e \in {"done_event", "error_event", "broken", "left"},
           log[q] = <<>>, question[q].stage \in {"token", "stream", "metadata"},
           RowCounts' = [RowCounts EXCEPT ![q] = Len(log'[q])],
           Endings' = [Endings EXCEPT ![q] = EndingOf(question'[q].stage)]
    PROVE  Promise!Next
<1>1. RowCounts[q] = 0 /\ Endings[q] = "open" /\ UNCHANGED shown
  BY DEF RowCounts, Endings, EndingOf, Conclude
<1>2. question[q] \in QuestionType
  BY DEF TypeOK, QuestionType
<1>3. question'[q].stage = IF CanLog(q) THEN e ELSE "broken"
  BY <1>2 DEF Conclude, GoTo, TypeOK, QuestionType
<1>4. Len(log'[q]) = IF CanLog(q) THEN 1 ELSE 0
  BY DEF Conclude, record_qa_log, TypeOK
<1>5. CASE CanLog(q) /\ e \in {"done_event", "error_event"}
  <2>1. EndingOf(question'[q].stage) = "open"
    BY <1>3, <1>5 DEF EndingOf
  <2>2. Endings' = Endings
    <3> HIDE DEF EndingOf
    <3> QED BY <1>1, <2>1 DEF Endings
  <2>3. RowCounts' = [RowCounts EXCEPT ![q] = 1]
    BY <1>4, <1>5
  <2>4. Promise!Log(q)
    BY <1>1, <2>2, <2>3 DEF Promise!Log
  <2> QED BY <2>4 DEF Promise!Next
<1>6. CASE ~(CanLog(q) /\ e \in {"done_event", "error_event"})
  <2>1. EndingOf(question'[q].stage) = "cut"
    BY <1>3, <1>6 DEF EndingOf
  <2>2. Endings' = [Endings EXCEPT ![q] = "cut"]
    BY <2>1
  <2>3. \E n \in {RowCounts[q], 1} : RowCounts' = [RowCounts EXCEPT ![q] = n]
    BY <1>1, <1>4
  <2>4. Promise!End(q)
    BY <1>1, <2>2, <2>3 DEF Promise!End
  <2> QED BY <2>4 DEF Promise!Next
<1> QED BY <1>5, <1>6

LEMMA SeenShow ==
    ASSUME NEW q \in Questions, NEW r \in 0..MaxAttempts,
           \A i \in DOMAIN shown[q] : shown[q][i] = r,
           shown' = [shown EXCEPT ![q] = Append(@, r)],
           log[q] = <<>>, question[q].stage \in {"metadata", "stream"},
           UNCHANGED <<RowCounts, Endings>>
    PROVE  Promise!Next
<1>1. RowCounts[q] = 0 /\ Endings[q] = "open"
  BY DEF RowCounts, Endings, EndingOf
<1>2. Promise!Show(q)
  BY <1>1 DEF Promise!Show
<1> QED BY <1>2 DEF Promise!Next

LEMMA PromiseOfStep ==
    ASSUME TypeOK, NEW q \in Questions, RowInv(q), ReplyInv(q),
           Ask(q) \/ Step(q) \/ LeaveStream(q) \/ LeaveSending(q)
    PROVE  Promise!Next \/ UNCHANGED <<shown, RowCounts, Endings>>
<1>1. /\ RowCounts' = [RowCounts EXCEPT ![q] = Len(log'[q])]
      /\ Endings' = [Endings EXCEPT ![q] = EndingOf(question'[q].stage)]
  BY SeenStep
<1>2. question[q] \in QuestionType /\ question \in [Questions -> QuestionType]
  BY DEF TypeOK, QuestionType
<1>3. ASSUME EndingOf(question'[q].stage) = EndingOf(question[q].stage), log'[q] = log[q]
      PROVE  RowCounts' = RowCounts /\ Endings' = Endings
  <2> HIDE DEF EndingOf
  <2> QED BY <1>1, <1>3 DEF RowCounts, Endings
<1>4. CASE Ask(q) \/ Post(q) \/ Posted(q) \/ Prepared(q) \/ Retry(q)
  <2>1. EndingOf(question'[q].stage) = EndingOf(question[q].stage)
    <3>1. CASE Ask(q)
      BY <3>1, <1>2 DEF Ask, At, Question, EndingOf
    <3>2. CASE Post(q) \/ Prepared(q)
      BY <3>2, <1>2 DEF Post, Prepared, At, EndingOf, QuestionType
    <3>3. CASE Posted(q) \/ Retry(q)
      BY <3>3 DEF Posted, Retry
    <3> QED BY <1>4, <3>1, <3>2, <3>3
  <2>2. UNCHANGED shown /\ UNCHANGED log
    BY <1>4 DEF Ask, Post, Posted, Prepared, Retry
  <2> QED BY <1>3, <2>1, <2>2
<1>5. CASE Refuse(q)
  <2>1. question[q].stage = "prepare" /\ question'[q].stage = "refused" /\ UNCHANGED <<shown, log>>
    BY <1>5, <1>2 DEF Refuse, At, GoTo, QuestionType
  <2>2. RowCounts[q] = 0 /\ Endings[q] = "open" /\ shown[q] = <<>>
    BY <2>1 DEF RowCounts, Endings, EndingOf, RowInv, ReplyInv, Unlogged
  <2>3. Endings' = [Endings EXCEPT ![q] = "refused"]
    BY <1>1, <2>1 DEF EndingOf
  <2>4. RowCounts' = RowCounts
    BY <2>1 DEF RowCounts
  <2>5. Promise!End(q)
    BY <2>1, <2>2, <2>3, <2>4 DEF Promise!End
  <2> QED BY <2>5 DEF Promise!Next
<1>6. CASE MetadataSent(q)
  <2>1. log[q] = <<>> /\ shown[q] = <<>> /\ question[q].stage = "metadata"
    BY <1>6 DEF MetadataSent, At, RowInv, ReplyInv, Unlogged
  <2>2. question'[q].stage \in {"stream", "token"} /\ UNCHANGED log
    BY <1>6, <1>2 DEF MetadataSent, GoTo, QuestionType
  <2>3. RowCounts' = RowCounts /\ Endings' = Endings
    BY <1>3, <2>1, <2>2 DEF EndingOf
  <2>4. 0 \in 0..MaxAttempts
    BY MaxAttemptsAssumption
  <2>5. CASE shown' = [shown EXCEPT ![q] = Append(@, 0)]
    <3>1. \A i \in DOMAIN shown[q] : shown[q][i] = 0
      BY <2>1
    <3> QED BY <2>1, <2>3, <2>4, <2>5, <3>1, SeenShow
  <2>6. CASE UNCHANGED shown
    BY <2>3, <2>6
  <2> QED BY <1>6, <2>5, <2>6 DEF MetadataSent
<1>7. CASE Token(q)
  <2>1. log[q] = <<>> /\ question[q].stage = "stream" /\ UNCHANGED log
    BY <1>7 DEF Token, At, RowInv, Unlogged
  <2>2. question'[q].stage = "token"
    BY <1>7, <1>2 DEF Token, GoTo, QuestionType
  <2>3. RowCounts' = RowCounts /\ Endings' = Endings
    BY <1>3, <2>1, <2>2 DEF EndingOf
  <2>4. call[q].attempt \in 0..MaxAttempts
    BY CallsAssumption DEF TypeOK, LlmTypeOK
  <2>5. \A i \in DOMAIN shown[q] : shown[q][i] = call[q].attempt
    BY <2>1 DEF ReplyInv
  <2>6. shown' = [shown EXCEPT ![q] = Append(@, call[q].attempt)]
    BY <1>7 DEF Token
  <2> QED BY <2>1, <2>3, <2>4, <2>5, <2>6, SeenShow
<1>8. CASE TokenSent(q)
  <2>1. log[q] = <<>> /\ question[q].stage = "token"
    BY <1>8 DEF TokenSent, At, RowInv, Unlogged
  <2>2. CASE GoTo(q, "stream") /\ UNCHANGED <<topics, shown, log>>
    <3>1. question'[q].stage = "stream"
      BY <2>2, <1>2 DEF GoTo, QuestionType
    <3> QED BY <1>3, <2>1, <2>2, <3>1 DEF EndingOf
  <2>3. CASE Conclude(q, FALSE, "done_event")
    BY <1>1, <2>1, <2>3, SeenConclude
  <2> QED BY <1>8, <2>2, <2>3 DEF TokenSent
<1>9. CASE Answered(q) \/ StreamError(q) \/ StreamCrash(q) \/ LeaveStream(q)
  <2>1. log[q] = <<>> /\ question[q].stage \in {"stream", "metadata"}
    BY <1>9 DEF Answered, StreamError, StreamCrash, LeaveStream, At, RowInv, Unlogged
  <2>2. \/ Conclude(q, FALSE, "done_event")
        \/ \E e \in {"error_event", "broken", "left"} : Conclude(q, TRUE, e)
    BY <1>9 DEF Answered, StreamError, StreamCrash, LeaveStream
  <2>3. CASE Conclude(q, FALSE, "done_event")
    BY <1>1, <2>1, <2>3, SeenConclude
  <2>4. ASSUME NEW e \in {"error_event", "broken", "left"}, Conclude(q, TRUE, e)
        PROVE  Promise!Next
    BY <1>1, <2>1, <2>4, SeenConclude
  <2> QED BY <2>2, <2>3, <2>4
<1>10. CASE EventSent(q)
  <2>1. \/ question[q].stage = "done_event" /\ question'[q].stage = "done"
        \/ question[q].stage = "error_event" /\ question'[q].stage = "error"
    BY <1>10, <1>2 DEF EventSent, At, GoTo, QuestionType
  <2>2. RowCounts[q] = 1 /\ Endings[q] = "open"
    BY <2>1 DEF RowCounts, Endings, EndingOf, RowInv, HasRow
  <2>3. \E e \in {"done", "error"} : Endings' = [Endings EXCEPT ![q] = e]
    BY <1>1, <2>1 DEF EndingOf
  <2>4. RowCounts' = RowCounts /\ UNCHANGED shown
    BY <1>10 DEF EventSent, RowCounts
  <2>5. Promise!End(q)
    BY <2>2, <2>3, <2>4 DEF Promise!End
  <2> QED BY <2>5 DEF Promise!Next
<1>11. CASE LeaveSending(q)
  <2>1. CASE GoTo(q, "left") /\ UNCHANGED <<topics, shown, log>>
    <3>1. question[q].stage \in Sending /\ question'[q].stage = "left"
      BY <1>11, <2>1, <1>2 DEF LeaveSending, GoTo, QuestionType
    <3>2. Endings[q] = "open"
      BY <3>1 DEF Endings, EndingOf, Sending
    <3>3. Endings' = [Endings EXCEPT ![q] = "cut"]
      BY <1>1, <3>1 DEF EndingOf
    <3>4. RowCounts' = [RowCounts EXCEPT ![q] = RowCounts[q]]
      BY <2>1 DEF RowCounts
    <3>5. Promise!End(q)
      BY <2>1, <3>2, <3>3, <3>4 DEF Promise!End
    <3> QED BY <3>5 DEF Promise!Next
  <2>2. CASE At(q, "token") /\ Conclude(q, TRUE, "left")
    <3>1. log[q] = <<>> /\ question[q].stage = "token"
      BY <2>2 DEF At, RowInv, Unlogged
    <3> QED BY <1>1, <2>2, <3>1, SeenConclude
  <2> QED BY <1>11, <2>1, <2>2 DEF LeaveSending
<1> QED BY <1>4, <1>5, <1>6, <1>7, <1>8, <1>9, <1>10, <1>11 DEF Step

LEMMA PromiseStep ==
    TypeOK /\ RowsInv /\ RepliesInv /\ [Next]_vars => [Promise!Next]_(Promise!promiseVars)
<1> SUFFICES ASSUME TypeOK, RowsInv, RepliesInv, [Next]_vars
             PROVE  Promise!Next \/ UNCHANGED <<shown, RowCounts, Endings>>
  BY DEF Promise!promiseVars
<1>1. ASSUME NEW q \in Questions, Ask(q) \/ Step(q) \/ LeaveStream(q) \/ LeaveSending(q)
      PROVE  Promise!Next \/ UNCHANGED <<shown, RowCounts, Endings>>
  BY <1>1, PromiseOfStep DEF RowsInv, RepliesInv
<1>2. ASSUME NEW t \in Topics, DeleteTopic(t)
      PROVE  UNCHANGED <<shown, RowCounts, Endings>>
  <2>1. \A q \in Questions : Len(log'[q]) = Len(log[q])
    BY <1>2, RowDelete DEF RowsInv
  <2>2. UNCHANGED shown /\ UNCHANGED question
    BY <1>2 DEF DeleteTopic
  <2> QED BY <2>1, <2>2 DEF RowCounts, Endings
<1>3. CASE UNCHANGED vars
  BY <1>3 DEF vars, RowCounts, Endings
<1> QED BY <1>1, <1>2, <1>3 DEF Next

\* For any number of questions, attempts and tokens the stream implements
\* AnswerPromise: the tokens a reader sees come from one reply of the model, a
\* question has at most one row, and a closing event comes after it.
THEOREM ImplementsPromise == Spec => PromiseSpec
<1>1. Init => RowsInv /\ RepliesInv /\ Promise!Init
  <2> SUFFICES ASSUME Init PROVE RowsInv /\ RepliesInv /\ Promise!Init
    OBVIOUS
  <2>1. ASSUME NEW q \in Questions
        PROVE  log[q] = <<>> /\ shown[q] = <<>> /\ question[q].stage = "off"
    BY <2>1 DEF Init, Question
  <2>2. ASSUME NEW q \in Questions PROVE RowInv(q) /\ ReplyInv(q)
    <3>1. DOMAIN log[q] = {}
      BY <2>1, <2>2
    <3> QED BY <2>1, <2>2, <3>1 DEF RowInv, ReplyInv, Unlogged
  <2>3. Promise!Init
    BY <2>1 DEF Promise!Init, Init, RowCounts, Endings, EndingOf
  <2> QED BY <2>2, <2>3 DEF RowsInv, RepliesInv
<1>2. /\ TypeOK /\ CallInv /\ RowsInv /\ RepliesInv
      /\ [Next]_vars
      => (TypeOK /\ CallInv /\ RowsInv /\ RepliesInv)'
  BY TypeStep, RowsStep, RepliesStep
<1>3. TypeOK /\ RowsInv /\ RepliesInv /\ [Next]_vars => [Promise!Next]_(Promise!promiseVars)
  BY PromiseStep
<1> QED BY <1>1, <1>2, <1>3, TypeInit, PTL DEF Spec, PromiseSpec, Promise!Spec
=============================================================================
