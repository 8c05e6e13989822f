---------------------------- MODULE JobLifecycle ----------------------------
(***************************************************************************)
(* What an ingest job promises to whoever polls it: the state machine that *)
(* services/jobs.py draws above its code,                                  *)
(*                                                                         *)
(*   queued -> downloading -> ... -> embedding -> done                     *)
(*                                             \-> failed                  *)
(*                                                                         *)
(* with the one way back that POST /api/jobs/{id}/retry adds.  A resumed   *)
(* job skips the states of the steps it has finished, so a job may move    *)
(* forward by more than one state, but never back within an attempt.       *)
(* Module Ingest, the pipeline itself, is shown to implement this one.     *)
(***************************************************************************)
EXTENDS Naturals

CONSTANT Jobs               \* the ids of ingest_jobs rows

VARIABLE state              \* ingest_jobs.state; "none" before the row exists

Working == {"downloading", "extracting", "indexing", "tagging", "embedding"}
Active == {"queued"} \cup Working
TERMINAL_STATES == {"done", "failed"}
JobState == Active \cup TERMINAL_STATES

\* The place of a state in the order the pipeline walks.
Rank == [queued |-> 0, downloading |-> 1, extracting |-> 2, indexing |-> 3,
         tagging |-> 4, embedding |-> 5, done |-> 6]

Init == state = [j \in Jobs |-> "none"]

Submit(j) ==
    /\ state[j] = "none"
    /\ state' = [state EXCEPT ![j] = "queued"]

Advance(j) ==
    /\ state[j] \in Active
    /\ \E s \in Working \cup {"done"} :
          /\ Rank[s] > Rank[state[j]]
          /\ state' = [state EXCEPT ![j] = s]

Fail(j) ==
    /\ state[j] \in Active
    /\ state' = [state EXCEPT ![j] = "failed"]

Retry(j) ==
    /\ state[j] = "failed"
    /\ state' = [state EXCEPT ![j] = "queued"]

Next == \E j \in Jobs : Submit(j) \/ Advance(j) \/ Fail(j) \/ Retry(j)

Spec == Init /\ [][Next]_state
=============================================================================
