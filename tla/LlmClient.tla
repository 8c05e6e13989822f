------------------------------ MODULE LlmClient ------------------------------
(***************************************************************************)
(* The model client of the API process (services/llm.py): one httpx pool   *)
(* that all calls share, opened when a call finds none, closed and dropped *)
(* by a call whose transport failed, and the attempts of each call.        *)
(*                                                                         *)
(* Granularity.  The calls are tasks of one event loop: what a call does   *)
(* between two awaits is one action.  It awaits the reply, the closing of  *)
(* the pool and the pause before the next attempt.                         *)
(*                                                                         *)
(* Which pool a call is on is left out: a transport may fail at any time,  *)
(* which is also what happens to a call whose pool another one closed.     *)
(* This module has the steps of a call; AnswerStream says who calls.       *)
(***************************************************************************)
EXTENDS Naturals

CONSTANTS
    Calls,          \* tasks that may have a call open
    MaxAttempts     \* llm_max_attempts

ASSUME MaxAttemptsAssumption == MaxAttempts \in Nat \ {0}

VARIABLES
    client,         \* _client: "none", or a pool that is "open" or "closed"
    call            \* where each call stands

llmVars == <<client, call>>

Idle == [at |-> "idle", attempt |-> 0, emitted |-> FALSE]
Sent(attempt) == [at |-> "sent", attempt |-> attempt, emitted |-> FALSE]

LlmInit == client = "none" /\ call = [c \in Calls |-> Idle]

\* The call ends, whatever its task does with the result.
Over(c) == call' = [call EXCEPT ![c] = Idle]

\* The `client` property and the request: a missing pool is made first.
Send(c, attempt) ==
    /\ client # "closed"
    /\ client' = "open"
    /\ call' = [call EXCEPT ![c] = Sent(attempt)]

\* httpx answers a request on a closed client with a RuntimeError, which is
\* none of the errors that the client turns into an LLMError.
Reject(c) ==
    /\ client = "closed"
    /\ Over(c)
    /\ UNCHANGED client

\* A piece of the reply that is handed to the caller.
Emit(c) ==
    /\ call[c].at = "sent"
    /\ call' = [call EXCEPT ![c].emitted = TRUE]
    /\ UNCHANGED client

\* The reply is complete, or it is an error status, malformed or an error chunk.
Return(c) ==
    /\ call[c].at = "sent"
    /\ Over(c)
    /\ UNCHANGED client

\* Mutant: one attempt more than configured.
IsLast_OffByOne(c) == call[c].emitted \/ call[c].attempt > MaxAttempts

\* Mutant: also a stream that has begun is replayed.
IsLast_Replays(c) == call[c].attempt >= MaxAttempts

\* "Retrying after output has begun could duplicate an answer."
IsLast(c) == call[c].emitted \/ call[c].attempt >= MaxAttempts

\* A transport error that becomes an LLMError.
GiveUp(c) == call[c].at = "sent" /\ IsLast(c) /\ Over(c) /\ UNCHANGED client

\* A transport error that is retried: _prepare_transport_retry up to its await.
\* Closing a client that is closed already returns at once.
prepare_transport_retry(c) ==
    /\ call[c].at = "sent" /\ ~IsLast(c)
    /\ IF client = "open"
       THEN client' = "closed" /\ call' = [call EXCEPT ![c].at = "closing"]
       ELSE client' = "none" /\ call' = [call EXCEPT ![c].at = "asleep"]

\* The pool is closed.  The assignment drops whatever pool is there by now.
Drop(c) ==
    /\ call[c].at = "closing"
    /\ client' = "none"
    /\ call' = [call EXCEPT ![c].at = "asleep"]

\* Mutant: the attempt is not counted.
NextAttempt_SameNumber(c) == call[c].attempt
NextAttempt(c) == call[c].attempt + 1

\* Mutant: the task is cancelled while it closes the pool, which stays there.
Cancel_Unshielded(c) == call[c].at # "idle" /\ Over(c) /\ UNCHANGED client

\* The task is cancelled because its reader has left.  httpcore shields the
\* closing of a pool from that, so a pool that is being closed is still dropped.
Cancel(c) ==
    /\ call[c].at # "idle"
    /\ Over(c)
    /\ client' = IF call[c].at = "closing" THEN "none" ELSE client

LlmTypeOK ==
    /\ client \in {"none", "open", "closed"}
    /\ call \in [Calls -> [at : {"idle", "sent", "closing", "asleep"},
                           attempt : 0..MaxAttempts, emitted : BOOLEAN]]

\* "Discard a suspect owned pool": a closed pool is never left behind.  While
\* the shared client is closed some call is still on its way to replace it,
\* however the failures of several calls interleave and whoever leaves.
ClosedIsBeingReplaced ==
    client = "closed" => \E c \in Calls : call[c].at = "closing"
=============================================================================
