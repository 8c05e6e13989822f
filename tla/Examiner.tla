------------------------------ MODULE Examiner ------------------------------
(***************************************************************************)
(* One oral-exam session of Mouseion (services/examiner.py behind          *)
(* api/test_mode.py): a row of test_sessions and the requests that read    *)
(* it, wait for the grading model and write it back.                       *)
(*                                                                         *)
(* Granularity.  The handlers run on the event loop of the API process, so *)
(* what a request does between two awaits is one action.  A request awaits *)
(* only the model: while it plans probes (_plan_probes) or grades          *)
(* (_build_verdict) it holds a copy of the row, and other requests run.    *)
(*                                                                         *)
(* Abstractions.  A turn of the transcript is its kind, and an answer is   *)
(* what the code can tell of it: a done phrase, vague or clear.            *)
(***************************************************************************)
EXTENDS Naturals, Sequences, SequencesExt

CONSTANTS
    Requests,       \* requests for this session that may be open together
    MaxTurns,       \* test_max_turns
    ProbeCounts     \* how many probes a plan may hold (ExamProbePlan: 2 or 3)

ASSUME MaxTurnsAssumption == MaxTurns \in Nat \ {0}
ASSUME ProbeCountsAssumption == ProbeCounts \subseteq Nat \ {0}

VARIABLES
    row,            \* the session's row, with state_json and score
    overdue,        \* expires_at has passed
    req             \* requests that await the model, with what they have read

vars == <<row, overdue, req>>

Answers == {"done", "vague", "clear"}
Turns == Answers \cup {"opening", "probe", "pushback", "verdict"}
Phases == {"explain", "probe", "verdict"}
Scores == {"low", "high"}

Row(phase, turns, transcript, probes, index, pushback, score) ==
    [phase |-> phase, turns |-> turns, transcript |-> transcript, probes |-> probes,
     index |-> index, pushback |-> pushback, score |-> score]

Off == [at |-> "off", turns |-> 0, transcript |-> <<>>]

\* create_session.
Opened == Row("explain", 0, <<"opening">>, 0, 0, FALSE, "none")

Init ==
    /\ row = Opened
    /\ overdue = FALSE
    /\ req = [r \in Requests |-> Off]

-----------------------------------------------------------------------------
\* Mutant: a session with a verdict can expire too.
IsExpired_AnyPhase == overdue

\* session_is_expired.
IsExpired == row.phase # "verdict" /\ overdue

\* The request goes on to the model with its own copy of the session.
Await(r, at, turns, transcript) ==
    /\ req' = [req EXCEPT ![r] = [at |-> at, turns |-> turns, transcript |-> transcript]]
    /\ UNCHANGED <<row, overdue>>

\* _persist_active: the whole row but for the score, and a new expires_at.
persist_active(turns, transcript, probes, index, pushback) ==
    /\ row' = Row("probe", turns, transcript, probes, index, pushback, row.score)
    /\ overdue' = FALSE

\* Mutant: an expired session starts over.
GradeExpired_Restart(r) ==
    /\ req[r] = Off
    /\ IsExpired
    /\ row' = Opened
    /\ overdue' = FALSE
    /\ UNCHANGED req

\* advance_session or ensure_session_current on an expired session: it is
\* graded as it stands, an answer that came with the request is ignored.
GradeExpired(r) ==
    /\ req[r] = Off
    /\ IsExpired
    /\ Await(r, "grade", row.turns, row.transcript)

\* Mutant: the turn cap is one too late.
LastTurn_Late(answer) == answer = "done" \/ row.turns >= MaxTurns

\* A done phrase, or the cap on turns: the exam ends with this answer.
LastTurn(answer) == answer = "done" \/ row.turns + 1 >= MaxTurns

\* An answer that the session can take: it is running, and not overdue.
Answered(r) == req[r] = Off /\ row.phase # "verdict" /\ ~overdue

EndByUser(r, answer) ==
    /\ Answered(r)
    /\ LastTurn(answer)
    /\ Await(r, "grade", row.turns + 1, Append(row.transcript, answer))

\* EXPLAIN: the probes are planned from the explanation.
Explain(r, answer) ==
    /\ Answered(r) /\ ~LastTurn(answer)
    /\ row.phase = "explain"
    /\ Await(r, "plan", row.turns + 1, Append(row.transcript, answer))

\* PROBE: one push on a vague answer, no model involved.
Pushes(answer) == answer = "vague" /\ ~row.pushback

\* Mutant: that a push was made is not remembered.
Pushback_Forgotten(r, answer) ==
    /\ Answered(r) /\ ~LastTurn(answer)
    /\ row.phase = "probe" /\ row.index < row.probes
    /\ Pushes(answer)
    /\ persist_active(row.turns + 1, row.transcript \o <<answer, "pushback">>,
                      row.probes, row.index, FALSE)
    /\ UNCHANGED req

Pushback(r, answer) ==
    /\ Answered(r) /\ ~LastTurn(answer)
    /\ row.phase = "probe" /\ row.index < row.probes
    /\ Pushes(answer)
    /\ persist_active(row.turns + 1, row.transcript \o <<answer, "pushback">>,
                      row.probes, row.index, TRUE)
    /\ UNCHANGED req

\* Mutant: the push made on this probe counts for the next one too.
NextProbe_KeepsPush(r, answer) ==
    /\ Answered(r) /\ ~LastTurn(answer)
    /\ row.phase = "probe" /\ row.index + 1 < row.probes
    /\ ~Pushes(answer)
    /\ persist_active(row.turns + 1, row.transcript \o <<answer, "probe">>,
                      row.probes, row.index + 1, row.pushback)
    /\ UNCHANGED req

NextProbe(r, answer) ==
    /\ Answered(r) /\ ~LastTurn(answer)
    /\ row.phase = "probe" /\ row.index + 1 < row.probes
    /\ ~Pushes(answer)
    /\ persist_active(row.turns + 1, row.transcript \o <<answer, "probe">>,
                      row.probes, row.index + 1, FALSE)
    /\ UNCHANGED req

\* The probes are used up.
LastProbe(r, answer) ==
    /\ Answered(r) /\ ~LastTurn(answer)
    /\ row.phase = "probe"
    /\ row.index >= row.probes \/ (row.index + 1 >= row.probes /\ ~Pushes(answer))
    /\ Await(r, "grade", row.turns + 1, Append(row.transcript, answer))

\* POST /test/{id}/turn, up to its end or its await.  With a verdict it only
\* repeats the verdict.
Turn(r) ==
    \/ GradeExpired(r)
    \/ \E answer \in Answers :
          \/ EndByUser(r, answer) \/ Explain(r, answer)
          \/ Pushback(r, answer) \/ NextProbe(r, answer) \/ LastProbe(r, answer)

\* The plan arrives: written over whatever the row says now.
Planned(r) ==
    /\ req[r].at = "plan"
    /\ \E n \in ProbeCounts :
          persist_active(req[r].turns, Append(req[r].transcript, "probe"), n, 0, FALSE)
    /\ req' = [req EXCEPT ![r] = Off]

\* Mutant: state_json loses the probes and keeps the index.
Graded_KeepsIndex(r) ==
    /\ req[r].at = "grade"
    /\ \E score \in Scores :
          row' = Row("verdict", req[r].turns, Append(req[r].transcript, "verdict"),
                     0, row.index, FALSE, score)
    /\ req' = [req EXCEPT ![r] = Off]
    /\ UNCHANGED overdue

\* The verdict arrives: _finalize, over whatever the row says now.
Graded(r) ==
    /\ req[r].at = "grade"
    /\ \E score \in Scores :
          row' = Row("verdict", req[r].turns, Append(req[r].transcript, "verdict"),
                     0, 0, FALSE, score)
    /\ req' = [req EXCEPT ![r] = Off]
    /\ UNCHANGED overdue

\* The model fails, the client drops the stream or the API process dies: the
\* row is as the request found it, the answer was never stored.
Fail(r) ==
    /\ req[r] # Off
    /\ req' = [req EXCEPT ![r] = Off]
    /\ UNCHANGED <<row, overdue>>

\* test_session_ttl_hours go by.
Expire ==
    /\ ~overdue
    /\ overdue' = TRUE
    /\ UNCHANGED <<row, req>>

Next == Expire \/ \E r \in Requests : Turn(r) \/ Planned(r) \/ Graded(r) \/ Fail(r)

Spec == Init /\ [][Next]_vars

\* The grading client has a timeout: a request that awaits the model ends.
\* Nobody is obliged to answer.
Fairness == \A r \in Requests : WF_vars(Planned(r) \/ Graded(r) \/ Fail(r))

FairSpec == Spec /\ Fairness

-----------------------------------------------------------------------------
(* Properties.                                                             *)

\* from_raw reads a probe_index beyond the probes as another one: none is written.
TypeOK ==
    /\ row.index <= row.probes
    /\ row \in [phase : Phases, turns : Nat, transcript : Seq(Turns), probes : Nat,
                index : Nat, pushback : BOOLEAN, score : Scores \cup {"none"}]
    /\ overdue \in BOOLEAN
    /\ req \in [Requests -> [at : {"off", "plan", "grade"}, turns : Nat,
                             transcript : Seq(Turns)]]

Count(seq, kinds) == Cardinality({i \in DOMAIN seq : seq[i] \in kinds})

\* The row can be resumed from: phase, counters and state_json say what the
\* transcript says, whichever requests overlapped, failed or were dropped.
RowMatchesTranscript ==
    LET said == row.transcript IN
    /\ row.turns = Count(said, Answers)
    /\ row.phase = "explain" => said = <<"opening">>
    /\ row.phase = "probe" =>
          /\ row.index < row.probes
          /\ Count(said, {"probe"}) = row.index + 1
          /\ row.pushback <=> said[Len(said)] = "pushback"
          /\ said[Len(said)] \in {"probe", "pushback"}
    /\ row.phase = "verdict" => said[Len(said)] = "verdict" /\ Count(said, {"verdict"}) = 1

\* "pushed once before moving on": a push follows a vague answer to a probe,
\* and no probe is pushed twice.
PushedOnce ==
    LET said == row.transcript IN
    \A i \in DOMAIN said :
        said[i] = "pushback" => i > 2 /\ said[i - 1] = "vague" /\ said[i - 2] = "probe"

\* test_max_turns ends the exam: no session waits for an answer beyond it.
CapIsKept ==
    /\ row.turns <= MaxTurns
    /\ row.phase # "verdict" => row.turns < MaxTurns

\* advance_session: "EXPLAIN -> PROBE -> VERDICT".  A session with a verdict
\* keeps it and takes no further turn.
VerdictIsFinal == [][row.phase = "verdict" => UNCHANGED row]_vars

\* Something was written since the request read the row: its copy lacks it.
Overtaken(r) == req[r] # Off /\ ~IsPrefix(row.transcript, req[r].transcript)

\* A turn that was said, or a verdict, is overwritten only by a request that
\* waited for the model while others wrote: with one request at a time, also
\* failed, dropped or expired ones, the transcript grows and a verdict is final.
OnlyOvertakenOverwrite ==
    [][ \/ /\ IsPrefix(row.transcript, row'.transcript)
          /\ row.phase = "verdict" => UNCHANGED row
       \/ \E r \in Requests : Overtaken(r) /\ req'[r] = Off
      ]_vars

\* While the user keeps answering and the model stops failing, the exam ends,
\* with plans, pushes, expiry, and dropped and overlapping requests on the way.
ExamEnds ==
    ([]<><<\E r \in Requests : Turn(r)>>_vars /\ <>[][~\E r \in Requests : Fail(r)]_vars)
        => <>(row.phase = "verdict")
=============================================================================
