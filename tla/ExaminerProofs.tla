--------------------------- MODULE ExaminerProofs ---------------------------
(***************************************************************************)
(* Proofs about Examiner: for any number of overlapping requests its       *)
(* typing, the cap on turns, the agreement of the row with its transcript, *)
(* and that only a request that was overtaken takes back what was said or  *)
(* replaces a verdict.                                                     *)
(***************************************************************************)
EXTENDS Examiner, FiniteSetTheorems, TLAPS

Rows == [phase : Phases, turns : Nat, transcript : Seq(Turns), probes : Nat,
         index : Nat, pushback : BOOLEAN, score : Scores \cup {"none"}]

Copies == [at : {"off", "plan", "grade"}, turns : Nat, transcript : Seq(Turns)]

\* What Await does to the session's requests.
LEMMA AwaitIsTyped ==
    ASSUME TypeOK, NEW r \in Requests, NEW at \in {"plan", "grade"}, NEW turns \in Nat,
           NEW transcript \in Seq(Turns), Await(r, at, turns, transcript)
    PROVE  TypeOK'
<1>1. [at |-> at, turns |-> turns, transcript |-> transcript] \in Copies
  BY DEF Copies
<1>2. req' \in [Requests -> Copies]
  BY <1>1 DEF Await, TypeOK, Copies
<1> QED
  BY <1>2 DEF Await, TypeOK, Copies

\* What persist_active does to the row.
LEMMA PersistIsTyped ==
    ASSUME TypeOK, NEW turns \in Nat, NEW transcript \in Seq(Turns), NEW probes \in Nat,
           NEW index \in Nat, NEW pushback \in BOOLEAN, index <= probes,
           persist_active(turns, transcript, probes, index, pushback)
    PROVE  row' \in Rows /\ row'.index <= row'.probes /\ overdue' \in BOOLEAN
  BY DEF persist_active, Row, TypeOK, Rows, Phases

LEMMA OffIsTyped == Off \in Copies
<1>1. <<>> \in Seq(Turns)
  OBVIOUS
<1> QED
  BY <1>1 DEF Off, Copies

\* Every reachable row and copy is well formed, and the index of a probe never
\* runs past the plan: what ExamState.from_raw reads back is what was stored.
THEOREM TypeCorrect == Spec => []TypeOK
<1>1. Init => TypeOK
  <2> SUFFICES ASSUME Init PROVE TypeOK
    OBVIOUS
  <2>1. <<"opening">> \in Seq(Turns)
    BY DEF Turns
  <2>2. req \in [Requests -> Copies]
    BY OffIsTyped DEF Init
  <2>3. row \in Rows /\ row.index <= row.probes
    BY <2>1 DEF Init, Opened, Row, Rows, Phases
  <2> QED
    BY <2>2, <2>3 DEF Init, TypeOK, Copies, Rows
<1>2. TypeOK /\ [Next]_vars => TypeOK'
  <2> SUFFICES ASSUME TypeOK, [Next]_vars PROVE TypeOK'
    OBVIOUS
  <2>typed. /\ row \in Rows /\ row.index <= row.probes /\ overdue \in BOOLEAN
            /\ req \in [Requests -> Copies]
    BY DEF TypeOK, Rows, Copies
  <2>said. ASSUME NEW answer \in Answers
           PROVE  /\ Append(row.transcript, answer) \in Seq(Turns)
                  /\ row.transcript \o <<answer, "pushback">> \in Seq(Turns)
                  /\ row.transcript \o <<answer, "probe">> \in Seq(Turns)
    BY <2>typed DEF Rows, Turns
  <2>counted. row.turns \in Nat /\ row.turns + 1 \in Nat /\ row.transcript \in Seq(Turns)
    BY <2>typed DEF Rows
  <2>off. ASSUME NEW r \in Requests, req' = [req EXCEPT ![r] = Off]
          PROVE  req' \in [Requests -> Copies]
    BY <2>typed, <2>off, OffIsTyped
  <2>1. CASE Expire
    BY <2>1 DEF Expire, TypeOK
  <2>2. ASSUME NEW r \in Requests, GradeExpired(r)
        PROVE  TypeOK'
    BY <2>2, <2>counted, AwaitIsTyped DEF GradeExpired
  <2>3. ASSUME NEW r \in Requests, NEW answer \in Answers, EndByUser(r, answer)
        PROVE  TypeOK'
    BY <2>3, <2>counted, <2>said, AwaitIsTyped DEF EndByUser
  <2>4. ASSUME NEW r \in Requests, NEW answer \in Answers, Explain(r, answer)
        PROVE  TypeOK'
    BY <2>4, <2>counted, <2>said, AwaitIsTyped DEF Explain
  <2>5. ASSUME NEW r \in Requests, NEW answer \in Answers, Pushback(r, answer)
        PROVE  TypeOK'
    <3>1. row.probes \in Nat /\ row.index \in Nat
      BY <2>typed DEF Rows
    <3>2. row' \in Rows /\ row'.index <= row'.probes /\ overdue' \in BOOLEAN
      BY <2>5, <2>typed, <2>counted, <2>said, <3>1, PersistIsTyped DEF Pushback
    <3> QED
      BY <2>5, <2>typed, <3>2 DEF Pushback, TypeOK, Rows, Copies
  <2>6. ASSUME NEW r \in Requests, NEW answer \in Answers, NextProbe(r, answer)
        PROVE  TypeOK'
    <3>1. row.probes \in Nat /\ row.index + 1 \in Nat /\ row.index + 1 <= row.probes
      BY <2>6, <2>typed DEF Rows, NextProbe
    <3>2. row' \in Rows /\ row'.index <= row'.probes /\ overdue' \in BOOLEAN
      BY <2>6, <2>counted, <2>said, <3>1, PersistIsTyped DEF NextProbe
    <3> QED
      BY <2>6, <2>typed, <3>2 DEF NextProbe, TypeOK, Rows, Copies
  <2>7. ASSUME NEW r \in Requests, NEW answer \in Answers, LastProbe(r, answer)
        PROVE  TypeOK'
    BY <2>7, <2>counted, <2>said, AwaitIsTyped DEF LastProbe
  <2>8. ASSUME NEW r \in Requests, Planned(r)
        PROVE  TypeOK'
    <3>1. /\ req[r].turns \in Nat /\ Append(req[r].transcript, "probe") \in Seq(Turns)
      BY <2>typed DEF Copies, Turns
    <3>2. PICK n \in ProbeCounts :
              persist_active(req[r].turns, Append(req[r].transcript, "probe"), n, 0, FALSE)
      BY <2>8 DEF Planned
    <3>3. n \in Nat /\ 0 <= n
      BY ProbeCountsAssumption
    <3>4. row' \in Rows /\ row'.index <= row'.probes /\ overdue' \in BOOLEAN
      BY <3>1, <3>2, <3>3, PersistIsTyped
    <3>5. req' \in [Requests -> Copies]
      BY <2>8, <2>off DEF Planned
    <3> QED
      BY <3>4, <3>5 DEF TypeOK, Rows, Copies
  <2>9. ASSUME NEW r \in Requests, Graded(r)
        PROVE  TypeOK'
    <3>1. req[r].turns \in Nat /\ Append(req[r].transcript, "verdict") \in Seq(Turns)
      BY <2>typed DEF Copies, Turns
    <3>2. row' \in Rows /\ row'.index <= row'.probes
      BY <2>9, <3>1 DEF Graded, Row, Rows, Phases
    <3>3. req' \in [Requests -> Copies]
      BY <2>9, <2>off DEF Graded
    <3> QED
      BY <2>9, <2>typed, <3>2, <3>3 DEF Graded, TypeOK, Rows, Copies
  <2>10. ASSUME NEW r \in Requests, Fail(r)
         PROVE  TypeOK'
    <3>1. req' \in [Requests -> Copies]
      BY <2>10, <2>off DEF Fail
    <3> QED
      BY <2>10, <3>1 DEF Fail, TypeOK, Copies
  <2>11. CASE UNCHANGED vars
    BY <2>11 DEF vars, TypeOK
  <2> QED
    BY <2>1, <2>2, <2>3, <2>4, <2>5, <2>6, <2>7, <2>8, <2>9, <2>10, <2>11 DEF Next, Turn
<1> QED
  BY <1>1, <1>2, PTL DEF Spec

-----------------------------------------------------------------------------
\* A request that waits carries at most MaxTurns turns, and fewer when the exam
\* is to go on.  CapIsKept is not inductive without it: Planned and Graded
\* write the copy, not the row.
CopiesKeepCap ==
    \A r \in Requests :
        /\ req[r].at # "off" => req[r].turns <= MaxTurns
        /\ req[r].at = "plan" => req[r].turns < MaxTurns

CapInv == TypeOK /\ CapIsKept /\ CopiesKeepCap

LEMMA AwaitKeepsCap ==
    ASSUME CapInv, NEW r \in Requests, NEW at \in {"plan", "grade"}, NEW turns \in Nat,
           NEW transcript, Await(r, at, turns, transcript),
           turns <= MaxTurns, at = "plan" => turns < MaxTurns
    PROVE  CapIsKept' /\ CopiesKeepCap'
<1>1. ASSUME NEW q \in Requests
      PROVE  req'[q] = IF q = r THEN [at |-> at, turns |-> turns, transcript |-> transcript]
                       ELSE req[q]
  BY DEF Await, CapInv, TypeOK
<1>2. CopiesKeepCap'
  BY <1>1 DEF CopiesKeepCap, CapInv
<1> QED
  BY <1>2 DEF Await, CapInv, CapIsKept

\* A request that ends leaves the other copies as they were.
LEMMA EndKeepsCopies ==
    ASSUME CapInv, NEW r \in Requests, req' = [req EXCEPT ![r] = Off]
    PROVE  CopiesKeepCap'
<1>1. ASSUME NEW q \in Requests
      PROVE  req'[q] = IF q = r THEN Off ELSE req[q]
  BY DEF CapInv, TypeOK
<1> QED
  BY <1>1 DEF CopiesKeepCap, CapInv, Off

\* test_max_turns bounds every session, for any number of overlapping requests:
\* a session that still waits for an answer has fewer turns.
THEOREM CapKept == Spec => []CapIsKept
<1>1. Init /\ TypeOK => CapIsKept /\ CopiesKeepCap
  BY MaxTurnsAssumption DEF Init, CapIsKept, CopiesKeepCap, Opened, Row, Off
<1>2. CapInv /\ [Next]_vars => CapIsKept' /\ CopiesKeepCap'
  <2> SUFFICES ASSUME CapInv, [Next]_vars PROVE CapIsKept' /\ CopiesKeepCap'
    OBVIOUS
  <2>cap. MaxTurns \in Nat /\ row.turns \in Nat /\ row.turns + 1 \in Nat
    BY MaxTurnsAssumption DEF CapInv, TypeOK
  <2>runs. ASSUME row.phase # "verdict" PROVE row.turns + 1 <= MaxTurns
    BY <2>runs, <2>cap DEF CapInv, CapIsKept
  <2>more. ASSUME NEW answer, ~LastTurn(answer) PROVE row.turns + 1 < MaxTurns
    BY <2>more, <2>cap DEF LastTurn
  <2>1. CASE Expire
    BY <2>1 DEF Expire, CapInv, CapIsKept, CopiesKeepCap
  <2>2. ASSUME NEW r \in Requests, GradeExpired(r)
        PROVE  CapIsKept' /\ CopiesKeepCap'
    <3>1. row.turns <= MaxTurns
      BY DEF CapInv, CapIsKept
    <3> QED
      BY <2>2, <2>cap, <3>1, AwaitKeepsCap DEF GradeExpired
  <2>3. ASSUME NEW r \in Requests, NEW answer \in Answers,
               EndByUser(r, answer) \/ LastProbe(r, answer)
        PROVE  CapIsKept' /\ CopiesKeepCap'
    <3>1. row.phase # "verdict"
      BY <2>3 DEF EndByUser, LastProbe, Answered
    <3>2. Await(r, "grade", row.turns + 1, Append(row.transcript, answer))
      BY <2>3 DEF EndByUser, LastProbe
    <3> QED
      BY <2>cap, <2>runs, <3>1, <3>2, AwaitKeepsCap
  <2>4. ASSUME NEW r \in Requests, NEW answer \in Answers, Explain(r, answer)
        PROVE  CapIsKept' /\ CopiesKeepCap'
    <3>1. row.turns + 1 < MaxTurns /\ row.turns + 1 <= MaxTurns
      BY <2>4, <2>more, <2>cap DEF Explain
    <3> QED
      BY <2>4, <2>cap, <3>1, AwaitKeepsCap DEF Explain
  <2>5. ASSUME NEW r \in Requests, NEW answer \in Answers,
               Pushback(r, answer) \/ NextProbe(r, answer)
        PROVE  CapIsKept' /\ CopiesKeepCap'
    <3>1. row.turns + 1 < MaxTurns
      BY <2>5, <2>more DEF Pushback, NextProbe
    <3>2. row'.turns = row.turns + 1 /\ req' = req
      BY <2>5 DEF Pushback, NextProbe, persist_active, Row
    <3> QED
      BY <2>cap, <3>1, <3>2 DEF CapInv, CapIsKept, CopiesKeepCap
  <2>6. ASSUME NEW r \in Requests, Planned(r)
        PROVE  CapIsKept' /\ CopiesKeepCap'
    <3>1. row'.turns = req[r].turns
      BY <2>6 DEF Planned, persist_active, Row
    <3>2. req[r].turns < MaxTurns /\ req[r].turns \in Nat
      BY <2>6 DEF Planned, CapInv, CopiesKeepCap, TypeOK
    <3>3. CopiesKeepCap'
      BY <2>6, EndKeepsCopies DEF Planned
    <3> QED
      BY <2>cap, <3>1, <3>2, <3>3 DEF CapIsKept
  <2>7. ASSUME NEW r \in Requests, Graded(r)
        PROVE  CapIsKept' /\ CopiesKeepCap'
    <3>1. row'.turns = req[r].turns /\ row'.phase = "verdict"
      BY <2>7 DEF Graded, Row
    <3>2. req[r].turns <= MaxTurns
      BY <2>7 DEF Graded, CapInv, CopiesKeepCap
    <3>3. CopiesKeepCap'
      BY <2>7, EndKeepsCopies DEF Graded
    <3> QED
      BY <3>1, <3>2, <3>3 DEF CapIsKept
  <2>8. ASSUME NEW r \in Requests, Fail(r)
        PROVE  CapIsKept' /\ CopiesKeepCap'
    <3>1. CopiesKeepCap'
      BY <2>8, EndKeepsCopies DEF Fail
    <3> QED
      BY <2>8, <3>1 DEF Fail, CapInv, CapIsKept
  <2>9. CASE UNCHANGED vars
    BY <2>9 DEF vars, CapInv, CapIsKept, CopiesKeepCap
  <2> QED
    BY <2>1, <2>2, <2>3, <2>4, <2>5, <2>6, <2>7, <2>8, <2>9 DEF Next, Turn
<1> QED
  BY <1>1, <1>2, TypeCorrect, PTL DEF Spec, CapInv

-----------------------------------------------------------------------------
(* The transcript.  What it says of itself (Talk) is kept by every way of  *)
(* adding to it, and by the copies that wait for the model.                *)

LEMMA EmptyCount ==
    ASSUME NEW kinds
    PROVE  Count(<<>>, kinds) = 0
<1>1. {i \in DOMAIN <<>> : <<>>[i] \in kinds} = {}
  OBVIOUS
<1>2. QED
  BY <1>1, FS_EmptySet DEF Count

LEMMA AppendCounts ==
    ASSUME NEW said \in Seq(Turns), NEW turn \in Turns, NEW kinds
    PROVE  /\ Count(said, kinds) \in Nat
           /\ Count(Append(said, turn), kinds) =
                 Count(said, kinds) + (IF turn \in kinds THEN 1 ELSE 0)
<1> DEFINE Places == {i \in DOMAIN said : said[i] \in kinds}
           longer == Append(said, turn)
           After == {i \in DOMAIN longer : longer[i] \in kinds}
<1>1. IsFiniteSet(Places) /\ Cardinality(Places) \in Nat
  <2>1. IsFiniteSet(1..Len(said))
    BY FS_Interval
  <2>2. Places \in SUBSET (1..Len(said))
    OBVIOUS
  <2>3. QED
    BY <2>1, <2>2, FS_Subset, FS_CardinalityType
<1>2. After = IF turn \in kinds THEN Places \cup {Len(said) + 1} ELSE Places
  OBVIOUS
<1>3. Len(said) + 1 \notin Places
  OBVIOUS
<1>4. Cardinality(Places \cup {Len(said) + 1}) = Cardinality(Places) + 1
  BY <1>1, <1>3, FS_AddElement
<1> HIDE DEF Places, After
<1>5. Cardinality(After) = Cardinality(Places) + (IF turn \in kinds THEN 1 ELSE 0)
  <2>1. CASE turn \in kinds
    BY <2>1, <1>2, <1>4
  <2>2. CASE turn \notin kinds
    <3>1. After = Places
      BY <2>2, <1>2
    <3>2. QED
      BY <3>1, <2>2, <1>1
  <2>3. QED
    BY <2>1, <2>2
<1>6. QED
  BY <1>1, <1>5 DEF Count, Places, After

LEMMA OneTurnCounts ==
    ASSUME NEW turn \in Turns, NEW kinds, turn \notin kinds
    PROVE  Count(Append(<<>>, turn), kinds) = 0
<1>1. <<>> \in Seq(Turns)
  OBVIOUS
<1>2. Count(Append(<<>>, turn), kinds) = Count(<<>>, kinds) + (IF turn \in kinds THEN 1 ELSE 0)
  BY <1>1, AppendCounts
<1>3. Count(Append(<<>>, turn), kinds) = Count(<<>>, kinds) + 0
  BY <1>2
<1>4. QED
  BY <1>3, EmptyCount

PushesFine(said) ==
    \A i \in DOMAIN said :
        said[i] = "pushback" => i > 2 /\ said[i - 1] = "vague" /\ said[i - 2] = "probe"

\* A transcript without a verdict yet, with its count of answers.
OpenTalk(said, turns) ==
    /\ said \in Seq(Turns) /\ Len(said) > 0
    /\ PushesFine(said)
    /\ Count(said, Answers) = turns
    /\ Count(said, {"verdict"}) = 0

\* One more turn that is not a push.
LEMMA OneMoreTurn ==
    ASSUME NEW said \in Seq(Turns), NEW turn \in Turns, turn # "pushback",
           Len(said) > 0, PushesFine(said)
    PROVE  /\ Append(said, turn) \in Seq(Turns)
           /\ Len(Append(said, turn)) = Len(said) + 1
           /\ Append(said, turn)[Len(said) + 1] = turn
           /\ PushesFine(Append(said, turn))
  BY DEF PushesFine

LEMMA AnswerSaid ==
    ASSUME NEW turns, NEW said, OpenTalk(said, turns), NEW answer \in Answers
    PROVE  /\ OpenTalk(Append(said, answer), turns + 1)
           /\ Count(Append(said, answer), {"probe"}) = Count(said, {"probe"})
<1>1. answer \in Turns /\ answer \notin {"pushback", "verdict", "probe"} /\ said \in Seq(Turns)
  BY DEF Answers, Turns, OpenTalk
<1>2. /\ Count(Append(said, answer), Answers) = turns + 1
      /\ Count(Append(said, answer), {"verdict"}) = 0
      /\ Count(Append(said, answer), {"probe"}) = Count(said, {"probe"})
  BY <1>1, AppendCounts DEF OpenTalk
<1>3. QED
  BY <1>1, <1>2, OneMoreTurn DEF OpenTalk

LEMMA ProbeSaid ==
    ASSUME NEW turns, NEW said, OpenTalk(said, turns)
    PROVE  /\ OpenTalk(Append(said, "probe"), turns)
           /\ Count(Append(said, "probe"), {"probe"}) = Count(said, {"probe"}) + 1
           /\ Append(said, "probe")[Len(Append(said, "probe"))] = "probe"
<1>1. "probe" \in Turns /\ "probe" \notin Answers /\ said \in Seq(Turns)
  BY DEF Answers, Turns, OpenTalk
<1>2. /\ Count(Append(said, "probe"), Answers) = turns
      /\ Count(Append(said, "probe"), {"verdict"}) = 0
      /\ Count(Append(said, "probe"), {"probe"}) = Count(said, {"probe"}) + 1
  BY <1>1, AppendCounts DEF OpenTalk
<1>3. QED
  BY <1>1, <1>2, OneMoreTurn DEF OpenTalk

\* A push on the vague answer to a probe.
LEMMA PushSaid ==
    ASSUME NEW turns, NEW said, OpenTalk(said, turns), said[Len(said)] = "probe",
           NEW longer, longer = Append(Append(said, "vague"), "pushback")
    PROVE  /\ OpenTalk(longer, turns + 1)
           /\ Count(longer, {"probe"}) = Count(said, {"probe"})
           /\ longer[Len(longer)] = "pushback"
<1> DEFINE vague == Append(said, "vague")
<1>1. "vague" \in Answers /\ "pushback" \in Turns /\ "pushback" \notin Answers
      /\ said \in Seq(Turns)
  BY DEF Answers, Turns, OpenTalk
<1>2. OpenTalk(vague, turns + 1) /\ Count(vague, {"probe"}) = Count(said, {"probe"})
  BY <1>1, AnswerSaid
<1>3. vague \in Seq(Turns) /\ Len(vague) = Len(said) + 1
      /\ vague[Len(vague)] = "vague" /\ vague[Len(vague) - 1] = "probe"
  BY <1>1, <1>2 DEF OpenTalk
<1>4. /\ Count(longer, Answers) = turns + 1
      /\ Count(longer, {"verdict"}) = 0
      /\ Count(longer, {"probe"}) = Count(said, {"probe"})
  <2>1. ASSUME NEW kinds, "pushback" \notin kinds
        PROVE  Count(longer, kinds) = Count(vague, kinds)
    <3>1. /\ Count(vague, kinds) \in Nat
          /\ Count(Append(vague, "pushback"), kinds) = Count(vague, kinds) + 0
      BY <1>1, <1>3, <2>1, AppendCounts
    <3>2. QED
      BY <3>1
  <2>2. QED
    BY <1>1, <1>2, <2>1 DEF OpenTalk
<1>5. longer \in Seq(Turns) /\ Len(longer) = Len(vague) + 1 /\ longer[Len(longer)] = "pushback"
  BY <1>1, <1>3
<1>6. PushesFine(longer)
  <2>1. \A i \in 1..Len(vague) : longer[i] = vague[i]
    BY <1>3
  <2>2. PushesFine(vague) /\ Len(vague) > 1
    BY <1>2, <1>3 DEF OpenTalk
  <2>3. SUFFICES ASSUME NEW i \in 1..(Len(vague) + 1), longer[i] = "pushback"
                 PROVE  i > 2 /\ longer[i - 1] = "vague" /\ longer[i - 2] = "probe"
    BY <1>5 DEF PushesFine
  <2>4. CASE i <= Len(vague)
    <3>1. i \in DOMAIN vague /\ vague[i] = "pushback"
      BY <2>1, <2>3, <2>4, <1>3
    <3>2. i > 2 /\ vague[i - 1] = "vague" /\ vague[i - 2] = "probe"
      BY <3>1, <2>2 DEF PushesFine
    <3>3. QED
      BY <3>2, <2>1, <2>4, <1>3
  <2>5. CASE i = Len(vague) + 1
    BY <2>1, <2>2, <2>5, <1>3
  <2>6. QED
    BY <2>4, <2>5, <1>3
<1>7. QED
  BY <1>4, <1>5, <1>6, <1>3 DEF OpenTalk

\* A verdict ends a transcript.
LEMMA VerdictSaid ==
    ASSUME NEW turns, NEW said, OpenTalk(said, turns),
           NEW longer, longer = Append(said, "verdict")
    PROVE  /\ longer \in Seq(Turns) /\ Len(longer) > 0
           /\ PushesFine(longer)
           /\ Count(longer, Answers) = turns
           /\ Count(longer, {"verdict"}) = 1
           /\ longer[Len(longer)] = "verdict"
<1>1. "verdict" \in Turns /\ "verdict" \notin Answers /\ said \in Seq(Turns)
  BY DEF Answers, Turns, OpenTalk
<1>2. Count(longer, Answers) = turns /\ Count(longer, {"verdict"}) = 1
  BY <1>1, AppendCounts DEF OpenTalk
<1>3. QED
  BY <1>1, <1>2, OneMoreTurn DEF OpenTalk

\* The transcript of the row, and of every copy that waits.  A request that
\* plans has heard no probe yet: the plan it writes starts at the first one.
TalkInv ==
    /\ RowMatchesTranscript
    /\ Len(row.transcript) > 0 /\ PushesFine(row.transcript)
    /\ row.phase # "verdict" => OpenTalk(row.transcript, row.turns)
    /\ \A r \in Requests :
          req[r].at # "off" =>
              /\ OpenTalk(req[r].transcript, req[r].turns)
              /\ req[r].at = "plan" => Count(req[r].transcript, {"probe"}) = 0

LEMMA AwaitKeepsTalk ==
    ASSUME TypeOK, TalkInv, NEW r \in Requests, NEW at \in {"plan", "grade"}, NEW turns,
           NEW transcript, Await(r, at, turns, transcript), OpenTalk(transcript, turns),
           at = "plan" => Count(transcript, {"probe"}) = 0
    PROVE  TalkInv'
<1>1. ASSUME NEW q \in Requests
      PROVE  req'[q] = IF q = r THEN [at |-> at, turns |-> turns, transcript |-> transcript]
                       ELSE req[q]
  BY DEF Await, TypeOK
<1>2. row' = row
  BY DEF Await
<1>3. ASSUME NEW q \in Requests, req'[q].at # "off"
      PROVE  /\ OpenTalk(req'[q].transcript, req'[q].turns)
             /\ req'[q].at = "plan" => Count(req'[q].transcript, {"probe"}) = 0
  BY <1>1, <1>3 DEF TalkInv
<1> QED
  BY <1>2, <1>3 DEF TalkInv, RowMatchesTranscript

LEMMA EndKeepsTalk ==
    ASSUME TypeOK, TalkInv, NEW r \in Requests, req' = [req EXCEPT ![r] = Off],
           NEW q \in Requests, req'[q].at # "off"
    PROVE  /\ OpenTalk(req'[q].transcript, req'[q].turns)
           /\ req'[q].at = "plan" => Count(req'[q].transcript, {"probe"}) = 0
<1>1. req'[q] = IF q = r THEN Off ELSE req[q]
  BY DEF TypeOK
<1>2. q # r /\ req'[q] = req[q]
  BY <1>1 DEF Off
<1> QED
  BY <1>2 DEF TalkInv

\* What persist_active must be given for the row to say what was said.
LEMMA PersistKeepsTalk ==
    ASSUME TypeOK, TalkInv, NEW turns, NEW said, NEW probes \in Nat, NEW index \in Nat,
           NEW pushback \in BOOLEAN,
           persist_active(turns, said, probes, index, pushback),
           OpenTalk(said, turns), index < probes, Count(said, {"probe"}) = index + 1,
           said[Len(said)] = (IF pushback THEN "pushback" ELSE "probe"),
           \A q \in Requests :
              req'[q].at # "off" =>
                  /\ OpenTalk(req'[q].transcript, req'[q].turns)
                  /\ req'[q].at = "plan" => Count(req'[q].transcript, {"probe"}) = 0
    PROVE  TalkInv'
<1>1. /\ row'.phase = "probe" /\ row'.turns = turns /\ row'.transcript = said
      /\ row'.probes = probes /\ row'.index = index /\ row'.pushback = pushback
  BY DEF persist_active, Row
<1>2. RowMatchesTranscript'
  BY <1>1 DEF RowMatchesTranscript, OpenTalk
<1> QED
  BY <1>1, <1>2 DEF TalkInv, OpenTalk

LEMMA TalkInvariant == Spec => []TalkInv
<1>1. Init => TalkInv
  <2> SUFFICES ASSUME Init PROVE TalkInv
    OBVIOUS
  <2>1. "opening" \in Turns /\ "opening" \notin Answers \cup {"verdict", "pushback"}
        /\ <<>> \in Seq(Turns) /\ <<"opening">> = Append(<<>>, "opening")
    BY DEF Turns, Answers
  <2>2. Count(<<"opening">>, Answers) = 0 /\ Count(<<"opening">>, {"verdict"}) = 0
    BY <2>1, OneTurnCounts
  <2>3. OpenTalk(<<"opening">>, 0)
    BY <2>1, <2>2 DEF OpenTalk, PushesFine
  <2>4. row.phase = "explain" /\ row.turns = 0 /\ row.transcript = <<"opening">>
    BY DEF Init, Opened, Row
  <2>5. RowMatchesTranscript
    BY <2>2, <2>4 DEF RowMatchesTranscript
  <2>6. \A r \in Requests : req[r].at = "off"
    BY DEF Init, Off
  <2> QED
    BY <2>3, <2>4, <2>5, <2>6 DEF TalkInv, OpenTalk
<1>2. TypeOK /\ TalkInv /\ [Next]_vars => TalkInv'
  <2> SUFFICES ASSUME TypeOK, TalkInv, [Next]_vars PROVE TalkInv'
    OBVIOUS
  <2>typed. /\ row.probes \in Nat /\ row.index \in Nat /\ row.pushback \in BOOLEAN
            /\ row.transcript \in Seq(Turns) /\ row.turns \in Nat
    BY DEF TypeOK
  <2>open. ASSUME row.phase # "verdict"
           PROVE  OpenTalk(row.transcript, row.turns)
    BY <2>open DEF TalkInv
  <2>same. ASSUME row' = row, req' = req
           PROVE  TalkInv'
    BY <2>same DEF TalkInv, RowMatchesTranscript
  <2>1. CASE Expire
    BY <2>1, <2>same DEF Expire
  <2>2. ASSUME NEW r \in Requests, GradeExpired(r)
        PROVE  TalkInv'
    BY <2>2, <2>open, AwaitKeepsTalk DEF GradeExpired, IsExpired
  <2>3. ASSUME NEW r \in Requests, NEW answer \in Answers,
               EndByUser(r, answer) \/ LastProbe(r, answer)
        PROVE  TalkInv'
    <3>1. /\ row.phase # "verdict"
          /\ Await(r, "grade", row.turns + 1, Append(row.transcript, answer))
      BY <2>3 DEF EndByUser, LastProbe, Answered
    <3>2. OpenTalk(Append(row.transcript, answer), row.turns + 1)
      BY <3>1, <2>open, AnswerSaid
    <3> QED
      BY <3>1, <3>2, AwaitKeepsTalk
  <2>4. ASSUME NEW r \in Requests, NEW answer \in Answers, Explain(r, answer)
        PROVE  TalkInv'
    <3>1. /\ row.phase = "explain"
          /\ Await(r, "plan", row.turns + 1, Append(row.transcript, answer))
      BY <2>4 DEF Explain
    <3>2. row.transcript = Append(<<>>, "opening")
      BY <3>1 DEF TalkInv, RowMatchesTranscript
    <3>3. "opening" \in Turns /\ "opening" \notin {"probe"} /\ <<>> \in Seq(Turns)
      BY DEF Turns
    <3>4. Count(row.transcript, {"probe"}) = 0
      BY <3>2, <3>3, OneTurnCounts
    <3>5. /\ OpenTalk(Append(row.transcript, answer), row.turns + 1)
          /\ Count(Append(row.transcript, answer), {"probe"}) = 0
      BY <3>1, <3>4, <2>open, AnswerSaid
    <3> QED
      BY <3>1, <3>5, AwaitKeepsTalk
  <2>probing. ASSUME row.phase = "probe"
              PROVE  /\ row.index < row.probes
                     /\ Count(row.transcript, {"probe"}) = row.index + 1
                     /\ row.pushback <=> row.transcript[Len(row.transcript)] = "pushback"
                     /\ row.transcript[Len(row.transcript)] \in {"probe", "pushback"}
    BY <2>probing DEF TalkInv, RowMatchesTranscript
  <2>waiting. ASSUME NEW q \in Requests, req' = req, req'[q].at # "off"
              PROVE  /\ OpenTalk(req'[q].transcript, req'[q].turns)
                     /\ req'[q].at = "plan" => Count(req'[q].transcript, {"probe"}) = 0
    BY <2>waiting DEF TalkInv
  <2>5. ASSUME NEW r \in Requests, NEW answer \in Answers, Pushback(r, answer)
        PROVE  TalkInv'
    <3> DEFINE longer == row.transcript \o <<answer, "pushback">>
    <3>1. /\ row.phase = "probe" /\ answer = "vague" /\ ~row.pushback /\ req' = req
          /\ persist_active(row.turns + 1, longer, row.probes, row.index, TRUE)
      BY <2>5 DEF Pushback, Pushes
    <3>2. longer = Append(Append(row.transcript, "vague"), "pushback")
      BY <3>1, <2>typed
    <3>3. row.transcript[Len(row.transcript)] = "probe"
      BY <3>1, <2>probing
    <3>4. OpenTalk(row.transcript, row.turns)
      BY <3>1, <2>open
    <3>5. /\ OpenTalk(longer, row.turns + 1)
          /\ Count(longer, {"probe"}) = row.index + 1
          /\ longer[Len(longer)] = "pushback"
      BY <3>1, <3>2, <3>3, <3>4, <2>probing, PushSaid
    <3>6. row.index < row.probes
      BY <3>1, <2>probing
    <3> HIDE DEF longer
    <3> QED
      BY <3>1, <3>5, <3>6, <2>typed, <2>waiting, PersistKeepsTalk
  <2>6. ASSUME NEW r \in Requests, NEW answer \in Answers, NextProbe(r, answer)
        PROVE  TalkInv'
    <3> DEFINE longer == row.transcript \o <<answer, "probe">>
               heard == Append(row.transcript, answer)
    <3>1. /\ row.phase = "probe" /\ req' = req
          /\ row.index + 1 < row.probes
          /\ persist_active(row.turns + 1, longer, row.probes, row.index + 1, FALSE)
      BY <2>6 DEF NextProbe
    <3>plus. row.index + 1 \in Nat
      BY <2>typed
    <3>2. longer = Append(heard, "probe")
      BY <2>typed DEF Answers, Turns
    <3>3. OpenTalk(row.transcript, row.turns)
      BY <3>1, <2>open
    <3>4. OpenTalk(heard, row.turns + 1) /\ Count(heard, {"probe"}) = row.index + 1
      BY <3>1, <3>3, <2>probing, AnswerSaid
    <3> HIDE DEF longer, heard
    <3>5. /\ OpenTalk(longer, row.turns + 1)
          /\ Count(longer, {"probe"}) = row.index + 1 + 1
          /\ longer[Len(longer)] = "probe"
      BY <3>2, <3>4, ProbeSaid
    <3> QED
      BY <3>1, <3>plus, <3>5, <2>typed, <2>waiting, PersistKeepsTalk
  <2>7. ASSUME NEW r \in Requests, Planned(r)
        PROVE  TalkInv'
    <3> DEFINE longer == Append(req[r].transcript, "probe")
    <3>1. PICK n \in ProbeCounts : persist_active(req[r].turns, longer, n, 0, FALSE)
      BY <2>7 DEF Planned
    <3>2. n \in Nat /\ 0 < n
      BY ProbeCountsAssumption
    <3>3. OpenTalk(req[r].transcript, req[r].turns) /\ Count(req[r].transcript, {"probe"}) = 0
      BY <2>7 DEF Planned, TalkInv
    <3>4. /\ OpenTalk(longer, req[r].turns)
          /\ Count(longer, {"probe"}) = 0 + 1
          /\ longer[Len(longer)] = "probe"
      BY <3>3, ProbeSaid
    <3>5. req' = [req EXCEPT ![r] = Off]
      BY <2>7 DEF Planned
    <3> HIDE DEF longer
    <3> QED
      BY <3>1, <3>2, <3>4, <3>5, EndKeepsTalk, PersistKeepsTalk
  <2>8. ASSUME NEW r \in Requests, Graded(r)
        PROVE  TalkInv'
    <3> DEFINE longer == Append(req[r].transcript, "verdict")
    <3>1. /\ row'.phase = "verdict" /\ row'.turns = req[r].turns /\ row'.transcript = longer
          /\ req' = [req EXCEPT ![r] = Off]
      BY <2>8 DEF Graded, Row
    <3>2. OpenTalk(req[r].transcript, req[r].turns)
      BY <2>8 DEF Graded, TalkInv
    <3>3. /\ Len(longer) > 0 /\ PushesFine(longer)
          /\ Count(longer, Answers) = req[r].turns
          /\ Count(longer, {"verdict"}) = 1
          /\ longer[Len(longer)] = "verdict"
      BY <3>2, VerdictSaid
    <3> HIDE DEF longer
    <3>4. RowMatchesTranscript'
      BY <3>1, <3>3 DEF RowMatchesTranscript
    <3> QED
      BY <3>1, <3>3, <3>4, EndKeepsTalk DEF TalkInv
  <2>9. ASSUME NEW r \in Requests, Fail(r)
        PROVE  TalkInv'
    <3>1. row' = row /\ req' = [req EXCEPT ![r] = Off]
      BY <2>9 DEF Fail
    <3> QED
      BY <3>1, EndKeepsTalk DEF TalkInv, RowMatchesTranscript
  <2>10. CASE UNCHANGED vars
    BY <2>10, <2>same DEF vars
  <2> QED
    BY <2>1, <2>2, <2>3, <2>4, <2>5, <2>6, <2>7, <2>8, <2>9, <2>10 DEF Next, Turn
<1> QED
  BY <1>1, <1>2, TypeCorrect, PTL DEF Spec

\* A session can be resumed from its row, however many requests overlap, fail
\* or are dropped: turns, phase and state_json say what the transcript says.
THEOREM RowTellsTranscript == Spec => []RowMatchesTranscript
<1>1. TalkInv => RowMatchesTranscript
  BY DEF TalkInv
<1> QED
  BY <1>1, TalkInvariant, PTL

\* "pushed once before moving on", for every session.
THEOREM OnePushPerProbe == Spec => []PushedOnce
<1>1. TalkInv => PushedOnce
  BY DEF TalkInv, PushesFine, PushedOnce
<1> QED
  BY <1>1, TalkInvariant, PTL

-----------------------------------------------------------------------------
LEMMA AppendExtends ==
    ASSUME NEW s \in Seq(Turns), NEW t \in Seq(Turns), NEW turn \in Turns, IsPrefix(s, t)
    PROVE  IsPrefix(s, Append(t, turn))
<1>1. Len(s) <= Len(t) /\ SubSeq(s, 1, Len(s)) = SubSeq(t, 1, Len(s))
  BY DEF IsPrefix
<1>2. SubSeq(Append(t, turn), 1, Len(s)) = SubSeq(t, 1, Len(s))
  BY <1>1
<1>3. Len(Append(t, turn)) = Len(t) + 1 /\ Len(s) \in Nat /\ Len(t) \in Nat
  OBVIOUS
<1> QED
  BY <1>1, <1>2, <1>3 DEF IsPrefix

LEMMA ExtendsItself ==
    ASSUME NEW s \in Seq(Turns)
    PROVE  IsPrefix(s, s)
  BY DEF IsPrefix

\* A list in which nothing is counted holds nothing of the kind.
LEMMA NoneCounted ==
    ASSUME NEW said \in Seq(Turns), NEW kinds, Count(said, kinds) = 0,
           NEW i \in 1..Len(said)
    PROVE  said[i] \notin kinds
<1> DEFINE Places == {j \in DOMAIN said : said[j] \in kinds}
<1>1. IsFiniteSet(Places)
  <2>1. IsFiniteSet(1..Len(said))
    BY FS_Interval
  <2>2. Places \in SUBSET (1..Len(said))
    OBVIOUS
  <2>3. QED
    BY <2>1, <2>2, FS_Subset
<1>2. Places = {}
  BY <1>1, FS_EmptySet DEF Count
<1>3. QED
  BY <1>2

\* A verdict is never in the copy of a request that waits: behind a verdict
\* every such request has been overtaken.
LEMMA VerdictOvertakes ==
    ASSUME TypeOK, TalkInv, row.phase = "verdict", NEW r \in Requests, req[r].at # "off"
    PROVE  ~IsPrefix(row.transcript, req[r].transcript)
<1> DEFINE said == row.transcript
           copy == req[r].transcript
           n == Len(said)
<1>1. said \in Seq(Turns) /\ copy \in Seq(Turns)
  BY DEF TypeOK
<1>2. said[n] = "verdict" /\ n > 0
  BY DEF TalkInv, RowMatchesTranscript
<1>3. Count(copy, {"verdict"}) = 0
  BY DEF TalkInv, OpenTalk
<1>4. n \in Nat /\ Len(copy) \in Nat
  BY <1>1
<1> HIDE DEF said, copy, n
<1>5. ASSUME IsPrefix(said, copy)
      PROVE  FALSE
  <2>1. n <= Len(copy) /\ SubSeq(said, 1, n) = SubSeq(copy, 1, n)
    BY <1>5 DEF IsPrefix, n
  <2>2. SubSeq(said, 1, n)[n] = said[n] /\ SubSeq(copy, 1, n)[n] = copy[n]
    BY <1>1, <1>2, <1>4, <2>1 DEF n
  <2>3. n \in 1..Len(copy) /\ copy[n] = "verdict"
    BY <1>2, <1>4, <2>1, <2>2
  <2>4. QED
    BY <1>1, <1>3, <2>3, NoneCounted
<1>6. QED
  BY <1>5 DEF said, copy

\* Whatever requests overlap, fail or are dropped, only one that was overtaken
\* takes back what was said or replaces a verdict; with one request at a time
\* there is none.
THEOREM OnlyOvertakenTakesBack == Spec => OnlyOvertakenOverwrite
<1> DEFINE Kept == IsPrefix(row.transcript, row'.transcript)
           Final == row.phase = "verdict" => UNCHANGED row
           Ousted == \E r \in Requests : Overtaken(r) /\ req'[r] = Off
<1>1. TypeOK /\ TalkInv /\ [Next]_vars => (Kept /\ Final) \/ Ousted
  <2> SUFFICES ASSUME TypeOK, TalkInv, [Next]_vars PROVE (Kept /\ Final) \/ Ousted
    OBVIOUS
  <2>typed. /\ row.transcript \in Seq(Turns)
            /\ \A r \in Requests : req[r].transcript \in Seq(Turns)
            /\ req \in [Requests -> Copies]
    BY DEF TypeOK, Copies
  <2>1. CASE row' = row
    BY <2>1, <2>typed, ExtendsItself
  <2>2. ASSUME NEW r \in Requests, NEW answer \in Answers,
               Pushback(r, answer) \/ NextProbe(r, answer)
        PROVE  Kept /\ Final
    <3>1. row.phase # "verdict"
      BY <2>2 DEF Pushback, NextProbe, Answered
    <3>2. PICK turn \in {"pushback", "probe"} :
              row'.transcript = row.transcript \o <<answer, turn>>
      <4>1. ASSUME Pushback(r, answer)
            PROVE  row'.transcript = row.transcript \o <<answer, "pushback">>
        BY <4>1 DEF Pushback, persist_active, Row
      <4>2. ASSUME NextProbe(r, answer)
            PROVE  row'.transcript = row.transcript \o <<answer, "probe">>
        BY <4>2 DEF NextProbe, persist_active, Row
      <4> QED
        BY <2>2, <4>1, <4>2
    <3>3. /\ row.transcript \o <<answer, turn>> = Append(Append(row.transcript, answer), turn)
          /\ Append(row.transcript, answer) \in Seq(Turns)
          /\ turn \in Turns /\ answer \in Turns
      BY <2>typed, <3>2 DEF Answers, Turns
    <3>4. IsPrefix(row.transcript, Append(row.transcript, answer))
      BY <2>typed, <3>3, ExtendsItself, AppendExtends
    <3> QED
      BY <2>typed, <3>1, <3>2, <3>3, <3>4, AppendExtends
  <2>3. ASSUME NEW r \in Requests, Planned(r) \/ Graded(r)
        PROVE  (Kept /\ Final) \/ Ousted
    <3>1. req' = [req EXCEPT ![r] = Off] /\ req[r].at # "off"
      BY <2>3 DEF Planned, Graded
    <3>2. req'[r] = Off /\ req[r] # Off
      BY <3>1, <2>typed DEF Off
    <3>3. CASE IsPrefix(row.transcript, req[r].transcript)
      <4>1. row.phase # "verdict"
        BY <3>1, <3>3, VerdictOvertakes
      <4>2. PICK turn \in {"probe", "verdict"} :
                row'.transcript = Append(req[r].transcript, turn)
        BY <2>3 DEF Planned, Graded, persist_active, Row
      <4>3. turn \in Turns
        BY DEF Turns
      <4> QED
        BY <2>typed, <3>3, <4>1, <4>2, <4>3, AppendExtends
    <3>4. CASE ~IsPrefix(row.transcript, req[r].transcript)
      BY <3>2, <3>4 DEF Overtaken
    <3> QED
      BY <3>3, <3>4
  <2>4. ASSUME NEW r \in Requests, Turn(r),
               ~\E answer \in Answers : Pushback(r, answer) \/ NextProbe(r, answer)
        PROVE  row' = row
    BY <2>4 DEF Turn, GradeExpired, EndByUser, Explain, LastProbe, Await
  <2> QED
    BY <2>1, <2>2, <2>3, <2>4 DEF Next, Expire, Fail, vars
<1>2. TypeOK /\ TalkInv /\ [Next]_vars => [(Kept /\ Final) \/ Ousted]_vars
  BY <1>1
<1> QED
  BY <1>2, TypeCorrect, TalkInvariant, PTL DEF Spec, OnlyOvertakenOverwrite
=============================================================================
