---------------------------- MODULE AnswerPromise ----------------------------
(***************************************************************************)
(* What a question put to the library is promised, seen from outside: the  *)
(* tokens that reach the reader, the row in qa_log, and how it ends.       *)
(***************************************************************************)
EXTENDS Naturals, Sequences

CONSTANTS
    Questions,
    Replies         \* replies of the model that a token can come from

VARIABLES
    shown,          \* for each token that reached the reader, its reply
    rows,           \* how many rows of qa_log are about the question
    ending          \* "open", or how the reader saw it end

promiseVars == <<shown, rows, ending>>

Endings == {"done", "error", "cut", "refused"}

Init ==
    /\ shown = [q \in Questions |-> <<>>]
    /\ rows = [q \in Questions |-> 0]
    /\ ending = [q \in Questions |-> "open"]

\* Tokens come from one reply, and none comes after the log is written.
Show(q) ==
    /\ ending[q] = "open" /\ rows[q] = 0
    /\ \E r \in Replies :
          /\ \A i \in DOMAIN shown[q] : shown[q][i] = r
          /\ shown' = [shown EXCEPT ![q] = Append(@, r)]
    /\ UNCHANGED <<rows, ending>>

Log(q) ==
    /\ ending[q] = "open" /\ rows[q] = 0
    /\ rows' = [rows EXCEPT ![q] = 1]
    /\ UNCHANGED <<shown, ending>>

\* The closing event of an answer comes after its row; a refused question has
\* neither tokens nor a row; an answer that is cut off may be logged as it ends.
End(q) ==
    /\ ending[q] = "open"
    /\ \/ /\ rows[q] = 1
          /\ \E e \in {"done", "error"} : ending' = [ending EXCEPT ![q] = e]
          /\ UNCHANGED rows
       \/ /\ rows[q] = 0 /\ shown[q] = <<>>
          /\ ending' = [ending EXCEPT ![q] = "refused"]
          /\ UNCHANGED rows
       \/ /\ ending' = [ending EXCEPT ![q] = "cut"]
          /\ \E n \in {rows[q], 1} : rows' = [rows EXCEPT ![q] = n]
    /\ UNCHANGED shown

Next == \E q \in Questions : Show(q) \/ Log(q) \/ End(q)

Spec == Init /\ [][Next]_promiseVars
=============================================================================
