--------------------------- MODULE ToolBatch_proofs ---------------------------
(***************************************************************************)
(* Proofs about ToolBatch, for every number of calls.                      *)
(***************************************************************************)
EXTENDS MCToolBatch, FiniteSetTheorems, SequenceTheorems, WellFoundedInduction,
        TLAPS

(***************************************************************************)
(* The invariant.  What a result says (ReportedTruthfully) is decided when *)
(* the call ends, so the invariant says of every place a call can be in    *)
(* what was done by then; and the calls the loop has not reached are the   *)
(* ones after the cursor, which is why those it skips were never executed. *)
(***************************************************************************)
CallsSayWhatWasDone ==
    \A i \in Calls :
        /\ call[i] \in {"waiting", "preparing", "prepared"} => i \notin executed
        /\ call[i] \in {"waiting", "preparing", "prepared", "executing"}
               => outcome[i] = "none"
        /\ call[i] = "executing" => i \in executed
        /\ call[i] \in {"prepared", "executing"} => mode # "truncated"

WaitingAreAfterCursor ==
    stage \in {"prepare", "execute"} =>
        \A i \in Calls : call[i] = "waiting" <=> i > cursor

Inv ==
    /\ TypeOK
    /\ CallsSayWhatWasDone
    /\ WaitingAreAfterCursor
    /\ ReportedTruthfully
    /\ RunningShown

USE DEF Inv, TypeOK, CallStates, Outcomes

(* The messages the batch may add to the transcript.                       *)
LEMMA MessagesAre ==
    /\ Assistant \in Messages /\ Custom \in Messages /\ Bash \in Messages
    /\ \A i \in Calls : ToolResult(i) \in Messages
  BY DEF Messages

LEMMA CursorIsACall ==
    ASSUME Inv, CallsRemain
    PROVE  cursor + 1 \in Calls /\ cursor + 1 \in 0 .. N
  BY BatchAssumption DEF CallsRemain, Calls

LEMMA InvInit == Init => Inv
  <1> SUFFICES ASSUME Init PROVE Inv
    OBVIOUS
  <1>1. <<Assistant>> \in Seq(Messages) /\ 0 \in 0 .. N
    BY BatchAssumption, MessagesAre
  <1>2. aborted \in BOOLEAN /\ terminate \in BOOLEAN
    BY Zenon DEF Init
  <1>3. TypeOK
    BY <1>1, <1>2 DEF Init
  <1>4. \A i \in Calls : call[i] = "waiting" /\ outcome[i] = "none" /\ i > cursor
    BY BatchAssumption DEF Init, Calls
  <1>5. CallsSayWhatWasDone /\ WaitingAreAfterCursor
    BY <1>4 DEF Init, CallsSayWhatWasDone, WaitingAreAfterCursor
  <1>6. ReportedTruthfully /\ RunningShown
    BY <1>4 DEF Init, ReportedTruthfully, RunningShown
  <1> QED BY <1>3, <1>5, <1>6

(* Preparing: a call is started, refused or passed on.                     *)
LEMMA PreparingKeeps ==
    ASSUME Inv, NEW i \in Calls, StartCall \/ RefuseCall(i) \/ PassCall(i)
    PROVE  Inv'
  <1> USE DEF CallsSayWhatWasDone, WaitingAreAfterCursor, ReportedTruthfully,
              RunningShown
  <1>1. CASE StartCall
    <2>1. cursor + 1 \in Calls /\ cursor + 1 \in 0 .. N /\ cursor \in Nat
      BY <1>1, CursorIsACall DEF StartCall
    <2>2. \A j \in Calls : j > cursor + 1 <=> j > cursor /\ j # cursor + 1
      BY <2>1 DEF Calls
    <2>3. call[cursor + 1] = "waiting"
      BY <1>1, <2>1 DEF StartCall
    <2>4. TypeOK'
      BY <1>1, <2>1 DEF StartCall, Move
    <2>5. CallsSayWhatWasDone' /\ ReportedTruthfully'
      BY <1>1, <2>1, <2>3 DEF StartCall, Move
    <2>6. WaitingAreAfterCursor'
      BY <1>1, <2>1, <2>2, <2>3 DEF StartCall, Move
    <2>7. RunningShown'
      BY <1>1, <2>1, <2>3 DEF StartCall, Move
    <2> QED BY <2>4, <2>5, <2>6, <2>7
  <1>2. CASE RefuseCall(i)
    <2>1. PICK result \in {"refused", "aborted"}, stops \in BOOLEAN :
              EndCall(i, result, stops)
      BY <1>2 DEF RefuseCall
    <2>2. TypeOK'
      BY <1>2, <2>1 DEF RefuseCall, EndCall, Move
    <2>3. CallsSayWhatWasDone' /\ ReportedTruthfully'
      BY <1>2, <2>1 DEF RefuseCall, EndCall, Move
    <2>4. WaitingAreAfterCursor' /\ RunningShown'
      BY <1>2, <2>1 DEF RefuseCall, EndCall, Move
    <2> QED BY <2>2, <2>3, <2>4
  <1>3. CASE PassCall(i)
    <2>1. TypeOK'
      BY <1>3 DEF PassCall, Move
    <2>2. CallsSayWhatWasDone' /\ ReportedTruthfully'
      BY <1>3 DEF PassCall, Move
    <2>3. WaitingAreAfterCursor' /\ RunningShown'
      BY <1>3 DEF PassCall, Move
    <2> QED BY <2>1, <2>2, <2>3
  <1> QED BY <1>1, <1>2, <1>3

(* Executing, and skipping what was never reached.                         *)
LEMMA ExecutingKeeps ==
    ASSUME Inv, NEW i \in Calls, FinishCall(i) \/ Launch \/ SkipRest \/ SkipNext
    PROVE  Inv'
  <1> USE DEF CallsSayWhatWasDone, WaitingAreAfterCursor, ReportedTruthfully,
              RunningShown
  <1>1. CASE FinishCall(i)
    <2>1. PICK stops \in BOOLEAN : EndCall(i, "executed", stops)
      BY <1>1 DEF FinishCall
    <2>2. TypeOK'
      BY <1>1, <2>1 DEF FinishCall, EndCall, Move
    <2>3. CallsSayWhatWasDone' /\ ReportedTruthfully'
      BY <1>1, <2>1 DEF FinishCall, EndCall, Move
    <2>4. WaitingAreAfterCursor' /\ RunningShown'
      BY <1>1, <2>1 DEF FinishCall, EndCall, Move
    <2> QED BY <2>2, <2>3, <2>4
  <1>2. CASE Launch
    <2>1. TypeOK'
      BY <1>2 DEF Launch
    <2>2. CallsSayWhatWasDone' /\ ReportedTruthfully'
      BY <1>2 DEF Launch
    <2>3. WaitingAreAfterCursor' /\ RunningShown'
      BY <1>2 DEF Launch
    <2> QED BY <2>1, <2>2, <2>3
  <1>3. CASE SkipRest
    <2>1. \A j \in Skipped : j \in Calls /\ call[j] = "waiting"
      BY <1>3 DEF SkipRest, Skipped
    <2>2. TypeOK'
      BY <1>3, <2>1 DEF SkipRest
    <2>3. CallsSayWhatWasDone' /\ ReportedTruthfully'
      BY <1>3, <2>1 DEF SkipRest
    <2>4. WaitingAreAfterCursor' /\ RunningShown'
      BY <1>3, <2>1 DEF SkipRest
    <2> QED BY <2>2, <2>3, <2>4
  <1>4. CASE SkipNext
    <2>1. cursor + 1 \in Calls /\ cursor + 1 \in 0 .. N /\ cursor \in Nat
      BY <1>4, CursorIsACall DEF SkipNext
    <2>2. \A j \in Calls : j > cursor + 1 <=> j > cursor /\ j # cursor + 1
      BY <2>1 DEF Calls
    <2>3. call[cursor + 1] = "waiting"
      BY <1>4, <2>1 DEF SkipNext
    <2>4. TypeOK'
      <3>1. transcript' \in Seq(Messages)
        BY <1>4, <2>1, MessagesAre DEF SkipNext
      <3> QED BY <1>4, <2>1, <3>1 DEF SkipNext, Move
    <2>5. CallsSayWhatWasDone' /\ ReportedTruthfully'
      BY <1>4, <2>1, <2>3 DEF SkipNext, Move
    <2>6. WaitingAreAfterCursor'
      BY <1>4, <2>1, <2>2, <2>3 DEF SkipNext, Move
    <2>7. RunningShown'
      BY <1>4, <2>1, <2>3 DEF SkipNext, Move
    <2> QED BY <2>4, <2>5, <2>6, <2>7
  <1> QED BY <1>1, <1>2, <1>3, <1>4

(* Reporting a result.                                                     *)
LEMMA ReportingKeeps ==
    ASSUME Inv, NEW i \in Calls, ReportResult(i)
    PROVE  Inv'
  <1>1. call[i] = "ended"
    BY DEF ReportResult, NextToReport
  <1>2. transcript' \in Seq(Messages)
    BY MessagesAre DEF ReportResult
  <1>3. TypeOK'
    BY <1>2 DEF ReportResult, Move
  <1>4. CallsSayWhatWasDone' /\ ReportedTruthfully'
    BY <1>1 DEF ReportResult, Move, CallsSayWhatWasDone, ReportedTruthfully
  <1>5. WaitingAreAfterCursor' /\ RunningShown'
    BY <1>1 DEF ReportResult, Move, WaitingAreAfterCursor, RunningShown
  <1> QED BY <1>3, <1>4, <1>5

(* What happens around the calls leaves them alone.                        *)
LEMMA AroundKeeps ==
    ASSUME Inv, BatchDone \/ RecordBash \/ BlockMessage \/ Abort \/ Over \/ Crash
                \/ UNCHANGED vars
    PROVE  Inv'
  <1>1. UNCHANGED <<mode, call, outcome, executed, cursor, wantsStop>>
    BY DEF BatchDone, RecordBash, BlockMessage, Abort, Over, Crash, vars
  <1>2. stage' = stage \/ stage' \in {"done", "over"}
    BY DEF BatchDone, RecordBash, BlockMessage, Abort, Over, Crash, vars
  <1>3. (pendingToolCalls' = {} /\ stage' = "over")
            \/ (pendingToolCalls' = pendingToolCalls /\ (stage' = stage \/ stage # "over"))
    BY DEF BatchDone, RecordBash, BlockMessage, Abort, Over, Crash, vars
  <1>4. transcript' \in Seq(Messages)
    <2>1. [k \in 1 .. bashWaiting |-> Bash] \in Seq(Messages)
      <3> DEFINE added == [k \in 1 .. bashWaiting |-> Bash]
      <3>1. added \in [1 .. bashWaiting -> Messages] /\ bashWaiting \in Nat
        BY MessagesAre
      <3> QED BY <3>1
    <2>2. transcript \o [k \in 1 .. bashWaiting |-> Bash] \in Seq(Messages)
      BY <2>1
    <2>3. Append(transcript, Custom) \in Seq(Messages)
      BY MessagesAre
    <2>4. transcript' \in {transcript, Append(transcript, Custom),
                          transcript \o [k \in 1 .. bashWaiting |-> Bash]}
      BY DEF BatchDone, RecordBash, HoldBash, BlockMessage, Abort, Over, Crash, vars
    <2> QED BY <2>2, <2>3, <2>4
  <1>5. bashWaiting' \in Nat
    BY DEF BatchDone, RecordBash, HoldBash, BlockMessage, Abort, Over, Crash, vars
  <1>6. aborted' \in BOOLEAN /\ terminate' \in BOOLEAN
    <2>1. aborted' \in {TRUE, aborted}
      BY DEF BatchDone, RecordBash, BlockMessage, Abort, Over, Crash, vars
    <2>2. terminate' = terminate \/ terminate' = (mode # "truncated" /\ ShouldTerminate)
      BY DEF BatchDone, RecordBash, BlockMessage, Abort, Over, Crash, vars
    <2> QED BY <2>1, <2>2, Zenon
  <1>7. TypeOK'
    BY <1>1, <1>2, <1>3, <1>4, <1>5, <1>6
  <1>8. CallsSayWhatWasDone' /\ ReportedTruthfully'
    BY <1>1 DEF CallsSayWhatWasDone, ReportedTruthfully
  <1>9. WaitingAreAfterCursor' /\ RunningShown'
    BY <1>1, <1>2, <1>3 DEF WaitingAreAfterCursor, RunningShown
  <1> QED BY <1>7, <1>8, <1>9

LEMMA InvStep ==
    ASSUME Inv, [Next]_vars
    PROVE  Inv'
  <1>1. 1 \in Calls
    BY BatchAssumption DEF Calls
  <1> QED BY <1>1, PreparingKeeps, ExecutingKeeps, ReportingKeeps, AroundKeeps
          DEF Next, Quiet

(* Every state of a batch is of its type, however many calls it has.       *)
THEOREM TypeCorrect == Spec => []TypeOK
  <1>1. Inv /\ [Next]_vars => Inv'
    BY InvStep
  <1>2. Inv => TypeOK
    OBVIOUS
  <1> QED BY InvInit, <1>1, <1>2, PTL DEF Spec

(* A call reported as refused or aborted has not run its tool, a call      *)
(* reported as executed has, and no call of a truncated message has.       *)
THEOREM ResultsAreTruthful == Spec => []ReportedTruthfully
  <1>1. Inv /\ [Next]_vars => Inv'
    BY InvStep
  <1>2. Inv => ReportedTruthfully
    OBVIOUS
  <1> QED BY InvInit, <1>1, <1>2, PTL DEF Spec

(* The calls shown as running are the ones started and not ended.          *)
THEOREM RunningIsShown == Spec => []RunningShown
  <1>1. Inv /\ [Next]_vars => Inv'
    BY InvStep
  <1>2. Inv => RunningShown
    OBVIOUS
  <1> QED BY InvInit, <1>1, <1>2, PTL DEF Spec

(* Once the run is aborted no further call is let through to its tool, nor *)
(* joins those the parallel loop holds prepared and executes anyway.       *)
THEOREM AbortStopsCalls == Spec => NothingPassesAbort
  <1>1. ASSUME Inv, [Next]_vars, aborted
        PROVE  LetThrough' \subseteq LetThrough
    <2>1. TypeOK
      BY <1>1 DEF Inv
    <2>2. ASSUME NEW i \in Calls, RefuseCall(i) \/ FinishCall(i) \/ ReportResult(i)
          PROVE  LetThrough' \subseteq LetThrough
      BY <2>1, <2>2
         DEF TypeOK, LetThrough, RefuseCall, FinishCall, ReportResult, EndCall, Move
    <2>3. ASSUME NEW i \in Calls, PassCall(i)
          PROVE  FALSE
      BY <1>1, <2>3 DEF PassCall, MayPrepare
    <2>4. CASE StartCall
      BY <2>1, <2>4 DEF TypeOK, LetThrough, StartCall, Move
    <2>5. CASE Launch
      BY <2>1, <2>5 DEF TypeOK, LetThrough, Launch
    <2>6. CASE SkipRest
      BY <2>1, <2>6 DEF TypeOK, LetThrough, SkipRest
    <2>7. CASE SkipNext
      BY <2>1, <2>7 DEF TypeOK, LetThrough, SkipNext, Move
    <2>8. CASE BatchDone \/ RecordBash \/ BlockMessage \/ Abort \/ Over \/ Crash
               \/ Quiet \/ UNCHANGED vars
      BY <2>8 DEF LetThrough, BatchDone, RecordBash, BlockMessage, Abort, Over,
                  Crash, Quiet, vars
    <2> QED BY <1>1, <2>2, <2>3, <2>4, <2>5, <2>6, <2>7, <2>8 DEF Next
  <1>2. Inv /\ [Next]_vars => [aborted => LetThrough' \subseteq LetThrough]_vars
    BY <1>1
  <1>3. Inv /\ [Next]_vars => Inv'
    BY InvStep
  <1> QED BY InvInit, <1>2, <1>3, PTL DEF Spec, NothingPassesAbort

-----------------------------------------------------------------------------
(***************************************************************************)
(* The order of the results.  ResultsInOrder counts the answered calls;    *)
(* the invariant says which they are: the first m, and that the transcript *)
(* holds nothing but their results after the message, so that the result   *)
(* of call m + 1 can only come next.  This is so because nothing else is   *)
(* added to the transcript before the batch is done, which takes that no   *)
(* hook blocks a message until then.                                       *)
(***************************************************************************)
FirstAnswered(m) ==
    /\ \A i \in Calls : call[i] = "answered" <=> i <= m
    /\ \A k \in 1 .. m : transcript[k + 1] = ToolResult(k)
    /\ m + 1 <= Len(transcript) /\ transcript[1] = Assistant
    /\ \A k \in DOMAIN transcript : k > m + 1 => transcript[k] \in {Custom, Bash}
    /\ Len(transcript) > m + 1 => m = N
    /\ stage \notin {"done", "over"} => Len(transcript) = m + 1
    /\ stage = "done" => m = N

Answers == \E m \in 0 .. N : FirstAnswered(m)

LEMMA AnswersInit == Init => Answers
  <1> SUFFICES ASSUME Init PROVE FirstAnswered(0)
    BY BatchAssumption DEF Answers
  <1> QED BY BatchAssumption DEF Init, FirstAnswered, Calls

(* Answering the call after the ones that are answered.                    *)
LEMMA AnswerNext ==
    ASSUME Inv, NEW m \in 0 .. N, FirstAnswered(m), NEW i \in Calls, i = m + 1,
           Move(i, "answered"), transcript' = Append(transcript, ToolResult(i)),
           stage' = stage, stage \notin {"done", "over"}
    PROVE  Answers'
  <1>1. i \in 0 .. N /\ \A j \in Calls : j <= i <=> j <= m \/ j = i
    BY BatchAssumption DEF Calls
  <1>2. \A j \in Calls : call'[j] = "answered" <=> j <= i
    BY <1>1 DEF Move, FirstAnswered
  <1>3. ToolResult(i) \in Messages /\ transcript \in Seq(Messages)
    BY MessagesAre
  <1>4. Len(transcript') = i + 1 /\ transcript'[i + 1] = ToolResult(i)
    BY <1>3 DEF FirstAnswered
  <1>5. \A k \in 1 .. m : transcript'[k + 1] = transcript[k + 1]
    BY <1>3 DEF FirstAnswered
  <1>6. \A k \in 1 .. i : transcript'[k + 1] = ToolResult(k)
    BY <1>4, <1>5 DEF FirstAnswered
  <1>7. transcript'[1] = Assistant /\ DOMAIN transcript' = 1 .. (i + 1)
    BY <1>3 DEF FirstAnswered
  <1>8. FirstAnswered(i)'
    BY <1>1, <1>2, <1>4, <1>6, <1>7 DEF FirstAnswered
  <1> QED BY <1>1, <1>8 DEF Answers

(* The steps that answer nothing and add nothing.                          *)
LEMMA AnswersStay ==
    ASSUME Inv, NEW m \in 0 .. N, FirstAnswered(m), transcript' = transcript,
           \A i \in Calls : call'[i] = "answered" <=> call[i] = "answered",
           stage \notin {"done", "over"} \/ stage' \in {"done", "over"},
           stage' = "done" => m = N
    PROVE  Answers'
  <1>1. FirstAnswered(m)'
    BY DEF FirstAnswered
  <1> QED BY <1>1 DEF Answers

LEMMA AnswersStep ==
    ASSUME Inv, Answers, ~HookMessages, [Next]_vars
    PROVE  Answers'
  <1>1. PICK m \in 0 .. N : FirstAnswered(m)
    BY DEF Answers
  <1>2. CASE StartCall
    <2>1. cursor + 1 \in Calls /\ call[cursor + 1] = "waiting"
      BY <1>2, CursorIsACall DEF StartCall, WaitingAreAfterCursor
    <2> QED BY <1>1, <1>2, <2>1, AnswersStay DEF StartCall, Move
  <1>3. ASSUME NEW i \in Calls, RefuseCall(i) \/ PassCall(i) \/ FinishCall(i)
        PROVE  Answers'
    <2>1. call[i] # "answered" /\ stage # "over" /\ stage' = stage
          /\ transcript' = transcript
      BY <1>3 DEF RefuseCall, PassCall, FinishCall
    <2>2. \E state \in CallStates \ {"answered"} : Move(i, state)
      BY <1>3 DEF RefuseCall, PassCall, FinishCall, EndCall
    <2>3. \A j \in Calls : call'[j] = "answered" <=> call[j] = "answered"
      BY <2>1, <2>2 DEF Move
    <2> QED BY <1>1, <2>1, <2>3, AnswersStay DEF FirstAnswered
  <1>4. ASSUME NEW i \in Calls, ReportResult(i)
        PROVE  Answers'
    <2>1. i = m + 1
      <3>1. ~(i <= m) /\ i \in Nat /\ m \in Nat
        BY <1>1, <1>4 DEF ReportResult, NextToReport, FirstAnswered, Calls
      <3>2. m + 1 <= i
        BY <3>1
      <3>3. ASSUME m + 1 < i
            PROVE  m + 1 \in Calls /\ m + 1 \in 1 .. (i - 1)
        <4>1. i \in 1 .. N
          BY DEF Calls
        <4> QED BY <3>1, <3>3, <4>1, BatchAssumption DEF Calls
      <3> QED BY <1>1, <1>4, <3>1, <3>2, <3>3
              DEF ReportResult, NextToReport, FirstAnswered
    <2> QED BY <1>1, <1>4, <2>1, AnswerNext DEF ReportResult
  <1>5. CASE Launch
    BY <1>1, <1>5, AnswersStay DEF Launch
  <1>6. CASE SkipRest
    <2>1. \A j \in Skipped : j \in Calls /\ call[j] = "waiting"
      BY <1>6 DEF SkipRest, Skipped, WaitingAreAfterCursor
    <2> QED BY <1>1, <1>6, <2>1, AnswersStay DEF SkipRest
  <1>7. CASE SkipNext
    <2>1. cursor + 1 \in Calls /\ call[cursor + 1] = "waiting" /\ cursor \in Nat
          /\ cursor \in Calls
      BY <1>7, CursorIsACall DEF SkipNext, WaitingAreAfterCursor, Calls
    <2>2. call[cursor] = "answered"
      BY <1>7 DEF SkipNext, PreviousDone
    <2>3. cursor = m
      BY <1>1, <2>1, <2>2 DEF FirstAnswered
    <2> QED BY <1>1, <1>7, <2>1, <2>3, AnswerNext DEF SkipNext
  <1>8. CASE BatchDone
    <2>1. m = N
      BY <1>1, <1>8, BatchAssumption DEF BatchDone, FirstAnswered, Calls
    <2> QED BY <1>1, <1>8, <2>1, AnswersStay DEF BatchDone
  <1>9. CASE RecordBash \/ Abort \/ Crash \/ UNCHANGED vars
    <2>1. UNCHANGED <<call, transcript>> /\ (stage' = stage \/ stage' = "over")
      BY <1>9 DEF RecordBash, HoldBash, Abort, Crash, vars
    <2> QED BY <1>1, <2>1, AnswersStay DEF FirstAnswered
  <1>10. CASE Over
    <2> DEFINE added == [k \in 1 .. bashWaiting |-> Bash]
    <2>1. added \in [1 .. bashWaiting -> Messages] /\ bashWaiting \in Nat
      BY MessagesAre
    <2>2. transcript' = transcript \o added
      BY <1>10 DEF Over
    <2>3. added \in Seq(Messages)
      BY <2>1
    <2>4. \A k \in DOMAIN added : added[k] = Bash
      OBVIOUS
    <2> HIDE DEF added
    <2>5. /\ Len(transcript) <= Len(transcript')
          /\ \A k \in 1 .. Len(transcript) : transcript'[k] = transcript[k]
          /\ \A k \in DOMAIN transcript' : k \in DOMAIN transcript \/ transcript'[k] = Bash
      BY <2>2, <2>3, <2>4
    <2>6. FirstAnswered(m)'
      BY <1>1, <1>10, <2>5 DEF FirstAnswered, Over
    <2> QED BY <2>6 DEF Answers
  <1>11. CASE BlockMessage
    <2>1. stage = "done" /\ transcript' = Append(transcript, Custom)
          /\ UNCHANGED <<stage, call>>
      BY <1>11 DEF BlockMessage
    <2>2. /\ Len(transcript) <= Len(transcript')
          /\ \A k \in 1 .. Len(transcript) : transcript'[k] = transcript[k]
          /\ \A k \in DOMAIN transcript' : k \in DOMAIN transcript \/ transcript'[k] = Custom
      BY <2>1, MessagesAre
    <2>3. FirstAnswered(m)'
      BY <1>1, <2>1, <2>2 DEF FirstAnswered
    <2> QED BY <2>3 DEF Answers
  <1> QED BY <1>2, <1>3, <1>4, <1>5, <1>6, <1>7, <1>8, <1>9, <1>10, <1>11
          DEF Next, Quiet

(* Tool results follow the calls they answer directly and in their order,  *)
(* and a finished batch has answered all, for every number of calls.       *)
THEOREM ResultsAreInOrder == ASSUME ~HookMessages PROVE Spec => []ResultsInOrder
  <1>1. ASSUME Inv, Answers
        PROVE  ResultsInOrder
    <2>1. PICK m \in 0 .. N : FirstAnswered(m)
      BY <1>1 DEF Answers
    <2>2. {i \in Calls : call[i] = "answered"} = 1 .. m
      BY <2>1, BatchAssumption DEF FirstAnswered, Calls
    <2>3. Cardinality(1 .. m) = m
      BY <2>1, FS_Interval
    <2> QED BY <2>1, <2>2, <2>3, BatchAssumption
            DEF ResultsInOrder, FirstAnswered, Calls
  <1>2. (Inv /\ Answers) /\ [Next]_vars => (Inv /\ Answers)'
    BY InvStep, AnswersStep
  <1>3. Init => Inv /\ Answers
    BY InvInit, AnswersInit
  <1> QED BY <1>1, <1>2, <1>3, PTL DEF Spec

-----------------------------------------------------------------------------
(***************************************************************************)
(* What the provider is sent.  The fold over the transcript is a recursive *)
(* function over sets of positions, of which the greatest is taken; that   *)
(* there is one is shown by adding one position at a time.                 *)
(***************************************************************************)
HIDE DEF Inv, TypeOK, CallStates, Outcomes

Nothing == [sent |-> <<>>, open |-> {}, answered |-> {}]

LEMMA ViewCardinality == \A S : View!Cardinality(S) = Cardinality(S)
  BY DEF View!Cardinality, Cardinality

(* Induction up to a bound, for a property given as a set.                 *)
LEMMA UpTo ==
    ASSUME NEW b \in Nat, NEW S, 0 \in S,
           \A n \in 0 .. (b - 1) : n \in S => n + 1 \in S
    PROVE  \A n \in 0 .. b : n \in S
  <1> DEFINE Bad == {n \in 0 .. b : n \notin S}
  <1>1. SUFFICES ASSUME Bad # {} PROVE FALSE
    OBVIOUS
  <1>2. Bad \subseteq Nat
    OBVIOUS
  <1>3. PICK n \in Bad : \A k \in Bad : ~(<<k, n>> \in OpToRel(<, Nat))
    <2> HIDE DEF Bad
    <2> QED BY <1>1, <1>2, NatLessThanWellFounded, WFMin
  <1>4. n \in 0 .. b /\ n \notin S /\ n # 0
    BY <1>3
  <1>5. n - 1 \in 0 .. (b - 1) /\ (n - 1) + 1 = n /\ n - 1 \in 0 .. b
    BY <1>4
  <1>6. n - 1 \in Bad
    BY <1>4, <1>5
  <1>7. <<n - 1, n>> \in OpToRel(<, Nat)
    BY <1>4, <1>5 DEF OpToRel
  <1> QED BY <1>3, <1>6, <1>7

LEMMA MaxOf ==
    ASSUME NEW b \in Nat
    PROVE  \A s \in SUBSET (1 .. b) : s # {} =>
              View!Max(s) \in s /\ \A k \in s : k <= View!Max(s)
  <1> DEFINE S == {n \in 0 .. b : \A s \in SUBSET (1 .. n) : s # {} =>
                                     \E x \in s : \A k \in s : x >= k}
  <1>1. 0 \in S
    <2>1. \A s \in SUBSET (1 .. 0) : s = {}
      OBVIOUS
    <2>2. \A s \in SUBSET (1 .. 0) : s # {} => \E x \in s : \A k \in s : x >= k
      BY <2>1, Zenon
    <2> QED BY <2>2
  <1>2. ASSUME NEW n \in 0 .. (b - 1), n \in S
        PROVE  n + 1 \in S
    <2>1. ASSUME NEW s \in SUBSET (1 .. (n + 1)), s # {}
          PROVE  \E x \in s : \A k \in s : x >= k
      <3>1. CASE n + 1 \in s
        BY <3>1
      <3>2. CASE n + 1 \notin s
        <4>1. s \in SUBSET (1 .. n)
          BY <3>2
        <4> QED BY <1>2, <2>1, <4>1
      <3> QED BY <3>1, <3>2
    <2> QED BY <2>1
  <1>3. b \in S
    <2> HIDE DEF S
    <2> QED BY <1>1, <1>2, UpTo
  <1>4. ASSUME NEW s \in SUBSET (1 .. b), s # {}
        PROVE  View!Max(s) \in s /\ \A k \in s : k <= View!Max(s)
    <2>1. \E x \in s : \A k \in s : x >= k
      BY <1>3, <1>4
    <2>2. View!Max(s) \in s /\ \A k \in s : View!Max(s) >= k
      BY <2>1 DEF View!Max
    <2> QED BY <2>2
  <1> QED BY <1>4

(* The function the fold chooses. *)
Steps(seq, D, h) ==
    h = [s \in SUBSET D |->
           IF s = {} THEN Nothing
           ELSE View!Translate(h[s \ {View!Max(s)}], seq[View!Max(s)])]

LEMMA StepsExist ==
    ASSUME NEW b \in Nat, NEW seq
    PROVE  \E h : Steps(seq, 1 .. b, h)
  <1> DEFINE S == {n \in 0 .. b : \E h : Steps(seq, 1 .. n, h)}
  <1>1. 0 \in S
    <2> DEFINE h == [s \in SUBSET (1 .. 0) |-> Nothing]
    <2>1. \A s \in SUBSET (1 .. 0) : s = {}
      OBVIOUS
    <2>2. Steps(seq, 1 .. 0, h)
      BY <2>1 DEF Steps
    <2> QED BY <2>2
  <1>2. ASSUME NEW n \in 0 .. (b - 1), n \in S
        PROVE  n + 1 \in S
    <2> DEFINE x == n + 1
    <2>1. PICK h : Steps(seq, 1 .. n, h)
      BY <1>2
    <2> DEFINE g == [s \in SUBSET (1 .. x) |->
                       IF x \in s THEN View!Translate(h[s \ {x}], seq[x]) ELSE h[s]]
    <2>2. ASSUME NEW s \in SUBSET (1 .. x), s # {}
          PROVE  g[s] = View!Translate(g[s \ {View!Max(s)}], seq[View!Max(s)])
      <3>1. View!Max(s) \in s /\ \A k \in s : k <= View!Max(s)
        BY <2>2, MaxOf
      <3>2. CASE x \in s
        <4>1. View!Max(s) = x
          <5>1. PICK y \in 1 .. x : y = View!Max(s)
            BY <2>2, <3>1
          <5>2. x <= y /\ y <= x
            BY <3>1, <3>2, <5>1
          <5> QED BY <5>1, <5>2
        <4>2. s \ {x} \in SUBSET (1 .. n) /\ s \ {x} \in SUBSET (1 .. x) /\ x \notin s \ {x}
          OBVIOUS
        <4> HIDE DEF x
        <4> QED BY <3>2, <4>1, <4>2
      <3>3. CASE x \notin s
        <4>1. s \in SUBSET (1 .. n) /\ s \ {View!Max(s)} \in SUBSET (1 .. x)
              /\ x \notin s \ {View!Max(s)}
          <5>1. s \in SUBSET (1 .. n)
            BY <2>2, <3>3
          <5> HIDE DEF x
          <5> QED BY <2>2, <3>3, <5>1
        <4>2. g[s] = h[s] /\ g[s \ {View!Max(s)}] = h[s \ {View!Max(s)}]
          <5> HIDE DEF x
          <5> QED BY <3>3, <4>1
        <4>3. h[s] = View!Translate(h[s \ {View!Max(s)}], seq[View!Max(s)])
          BY <2>1, <2>2, <4>1 DEF Steps
        <4> QED BY <4>2, <4>3
      <3> QED BY <3>2, <3>3
    <2>3. g[{}] = Nothing
      <3>1. {} \in SUBSET (1 .. x) /\ {} \in SUBSET (1 .. n)
        OBVIOUS
      <3>2. h[{}] = Nothing
        BY <2>1, <3>1 DEF Steps
      <3> QED BY <3>1, <3>2
    <2>4. Steps(seq, 1 .. x, g)
      <3> HIDE DEF x
      <3>1. g = [s \in SUBSET (1 .. x) |-> g[s]]
        OBVIOUS
      <3>2. \A s \in SUBSET (1 .. x) : g[s] = IF s = {} THEN Nothing
               ELSE View!Translate(g[s \ {View!Max(s)}], seq[View!Max(s)])
        BY <2>2, <2>3
      <3> HIDE DEF g
      <3> QED BY <3>1, <3>2 DEF Steps
    <2> QED BY <2>4
  <1>3. b \in S
    <2> HIDE DEF S
    <2> QED BY <1>1, <1>2, UpTo
  <1> QED BY <1>3

LEMMA SentSteps ==
    ASSUME NEW S, NEW seq \in Seq(S)
    PROVE  \E view : /\ view[0] = Nothing
                     /\ \A k \in 1 .. Len(seq) :
                           view[k] = View!Translate(view[k - 1], seq[k])
                     /\ View!Sent(seq) = View!AnswerOpen(view[Len(seq)]).sent
  <1> DEFINE n == Len(seq)
             h == CHOOSE h : Steps(seq, DOMAIN seq, h)
             view == [k \in 0 .. n |-> h[1 .. k]]
  <1>1. n \in Nat /\ DOMAIN seq = 1 .. n
    BY LenProperties
  <1> HIDE DEF n
  <1>2. Steps(seq, 1 .. n, h)
    BY <1>1, StepsExist
  <1>3. View!Sent(seq) = View!AnswerOpen(h[DOMAIN seq]).sent
    BY DEF View!Sent, View!FoldLeft, View!MapThenFoldSet, Steps, Nothing
  <1> HIDE DEF h
  <1>4. view[0] = Nothing
    <2>1. 1 .. 0 = {} /\ {} \in SUBSET (1 .. n) /\ 0 \in 0 .. n
      BY <1>1
    <2> QED BY <1>2, <2>1 DEF Steps
  <1>5. ASSUME NEW k \in 1 .. n
        PROVE  view[k] = View!Translate(view[k - 1], seq[k])
    <2>1. /\ 1 .. k \in SUBSET (1 .. n) /\ 1 .. k # {} /\ k \in 1 .. k
          /\ k \in 0 .. n /\ k - 1 \in 0 .. n
      BY <1>1
    <2>2. View!Max(1 .. k) = k
      <3>1. View!Max(1 .. k) \in 1 .. k /\ k <= View!Max(1 .. k)
        BY <1>1, <2>1, MaxOf
      <3>2. PICK y \in 1 .. k : y = View!Max(1 .. k)
        BY <3>1
      <3>3. y <= k /\ k <= y
        BY <3>1, <3>2
      <3> QED BY <3>2, <3>3
    <2>3. (1 .. k) \ {k} = 1 .. (k - 1)
      BY <1>1
    <2> QED BY <1>2, <2>1, <2>2, <2>3 DEF Steps
  <1>6. view[n] = h[DOMAIN seq]
    BY <1>1
  <1> HIDE DEF view
  <1> QED BY <1>3, <1>4, <1>5, <1>6 DEF n

(* The made-up results, one of each call that has none.                    *)
LEMMA SyntheticIs ==
    ASSUME NEW m \in 0 .. N
    PROVE  LET s == View!Synthetic((m + 1) .. N)
               R == {ToolResult(i) : i \in (m + 1) .. N}
           IN  /\ s \in [1 .. (N - m) -> R]
               /\ \A j, k \in 1 .. (N - m) : s[j] = s[k] => j = k
               /\ \A r \in R : \E k \in 1 .. (N - m) : s[k] = r
  <1> DEFINE C == (m + 1) .. N
             c == N - m
             R == {ToolResult(i) : i \in C}
             f == [k \in 1 .. c |-> ToolResult(m + k)]
             Ordered(s) == \A j, k \in DOMAIN s :
                              j < k => View!Min(s[j].calls) < View!Min(s[k].calls)
  <1>1. N \in Nat /\ m \in Nat /\ c \in Nat
    BY BatchAssumption
  <1>2. \A i, j : ToolResult(i) = ToolResult(j) => i = j
    BY DEF ToolResult
  <1>3. /\ \A k \in 1 .. c : m + k \in C
        /\ \A i \in C : i - m \in 1 .. c /\ m + (i - m) = i
        /\ \A j, k \in 1 .. c : m + j = m + k => j = k
    BY <1>1
  <1> HIDE DEF C, c
  <1>4. f \in [1 .. c -> R]
    BY <1>3
  <1>5. \A j, k \in 1 .. c : f[j] = f[k] => j = k
    BY <1>2, <1>3
  <1>6. \A r \in R : \E k \in 1 .. c : f[k] = r
    <2> SUFFICES ASSUME NEW i \in C PROVE \E k \in 1 .. c : f[k] = ToolResult(i)
      OBVIOUS
    <2> QED BY <1>3
  <1>7. \A k \in 1 .. c : View!Min(f[k].calls) = m + k
    <2>1. ASSUME NEW k \in 1 .. c
          PROVE  View!Min({m + k}) = m + k
      <3>1. m + k \in Nat
        BY <1>1
      <3> QED BY <3>1 DEF View!Min
    <2>2. \A k \in 1 .. c : f[k].calls = {m + k}
      BY DEF ToolResult
    <2> QED BY <2>1, <2>2
  <1>8. Ordered(f)
    BY <1>1, <1>7
  <1> HIDE DEF f, R
  <1>9. Cardinality(R) = c /\ IsFiniteSet(R)
    <2>1. f \in Bijection(1 .. c, R)
      BY <1>4, <1>5, <1>6 DEF Bijection, Injection, Surjection, IsInjective
    <2>2. IsFiniteSet(1 .. c) /\ Cardinality(1 .. c) = c
      BY <1>1, FS_Interval
    <2>3. ExistsBijection(1 .. c, R)
      BY <2>1 DEF ExistsBijection
    <2> QED BY <2>2, <2>3, FS_Bijection
  <1> DEFINE s == View!Synthetic(C)
  <1>10. View!SetToSeqs(R) = {g \in [1 .. c -> R] : \A j, k \in 1 .. c : j # k => g[j] # g[k]}
    BY <1>9, ViewCardinality DEF View!SetToSeqs
  <1>11. s = CHOOSE g \in View!SetToSeqs(R) : Ordered(g)
    <2>1. R = {View!ToolResult(i) : i \in C}
      BY DEF R, ToolResult, View!ToolResult
    <2> QED BY <2>1 DEF View!Synthetic
  <1> HIDE DEF Ordered, s
  <1>12. f \in View!SetToSeqs(R)
    BY <1>4, <1>5, <1>10
  <1>13. s \in View!SetToSeqs(R)
    BY <1>8, <1>11, <1>12
  <1>14. s \in [1 .. c -> R] /\ \A j, k \in 1 .. c : s[j] = s[k] => j = k
    BY <1>10, <1>13
  <1>15. \A r \in R : \E k \in 1 .. c : s[k] = r
    <2>1. s \in Injection(1 .. c, R)
      BY <1>14 DEF Injection, IsInjective
    <2>2. Cardinality(1 .. c) = c
      BY <1>1, FS_Interval
    <2>3. s \in Surjection(1 .. c, R)
      BY <1>9, <2>1, <2>2, FS_Injection
    <2> QED BY <2>3 DEF Surjection
  <1> QED BY <1>14, <1>15 DEF s, R, c, C

(* Where the provider's view of the transcript stands after k messages.    *)
ViewAt(m, k) ==
    IF k = 0 THEN Nothing
    ELSE [sent |-> SubSeq(transcript, 1, k),
          open |-> IF k <= m + 1 THEN Calls ELSE {},
          answered |-> IF k <= m + 1 THEN 1 .. (k - 1) ELSE {}]

(* Calls that have no result get one when the next message is reached.     *)
LEMMA OpenAnswered ==
    ASSUME NEW m \in 0 .. N, NEW q
    PROVE  View!AnswerOpen([sent |-> q, open |-> Calls, answered |-> 1 .. m])
             = [sent |-> q \o View!Synthetic((m + 1) .. N), open |-> {}, answered |-> {}]
  <1>1. Calls # {} /\ Calls \ (1 .. m) = (m + 1) .. N
    BY BatchAssumption DEF Calls
  <1>2. View!AnswerOpen([sent |-> q, open |-> Calls, answered |-> 1 .. m])
          = [sent |-> q \o View!Synthetic(Calls \ (1 .. m)), open |-> {}, answered |-> {}]
    BY <1>1 DEF View!AnswerOpen
  <1> QED BY <1>1, <1>2

LEMMA AllAnswered == View!Synthetic((N + 1) .. N) = <<>>
  <1> DEFINE s == View!Synthetic((N + 1) .. N)
  <1>1. N \in 0 .. N /\ 1 .. (N - N) = {}
    BY BatchAssumption
  <1>2. s \in [1 .. (N - N) -> {ToolResult(i) : i \in (N + 1) .. N}]
    BY <1>1, SyntheticIs
  <1> HIDE DEF s
  <1>3. s = [k \in {} |-> k]
    BY <1>1, <1>2
  <1>4. <<>> = [k \in {} |-> k]
    OBVIOUS
  <1> QED BY <1>3, <1>4 DEF s

(* A message in the provider's view, which answers what is open before any *)
(* message but a result.                                                   *)
LEMMA TranslatedCalls ==
    \A view, msg, prefix, open, answered :
        /\ View!AnswerOpen(view) = [sent |-> prefix, open |-> open, answered |-> answered]
        /\ msg.role = "assistant"
        => View!Translate(view, msg)
             = [sent |-> Append(prefix, msg), open |-> msg.calls, answered |-> {}]
  <1> TAKE view, msg, prefix, open, answered
  <1> DEFINE before == [sent |-> prefix, open |-> open, answered |-> answered]
             after == [before EXCEPT !.sent = Append(@, msg),
                                     !.open = msg.calls, !.answered = {}]
  <1>1. after = [sent |-> Append(prefix, msg), open |-> msg.calls, answered |-> {}]
    <2>1. after \in [sent : {Append(prefix, msg)}, open : {msg.calls}, answered : {{}}]
      OBVIOUS
    <2> HIDE DEF after
    <2> QED BY <2>1
  <1>2. View!AnswerOpen(view) = before /\ msg.role = "assistant"
        => View!Translate(view, msg) = after
    BY Zenon DEF View!Translate
  <1> HIDE DEF after
  <1> QED BY <1>1, <1>2

LEMMA TranslatedUser ==
    \A view, msg, prefix, open, answered :
        /\ View!AnswerOpen(view) = [sent |-> prefix, open |-> open, answered |-> answered]
        /\ msg.role \notin {"assistant", "toolResult", "failed"}
        => View!Translate(view, msg)
             = [sent |-> Append(prefix, msg), open |-> open, answered |-> answered]
  <1> TAKE view, msg, prefix, open, answered
  <1> DEFINE before == [sent |-> prefix, open |-> open, answered |-> answered]
             after == [before EXCEPT !.sent = Append(@, msg)]
  <1>1. after = [sent |-> Append(prefix, msg), open |-> open, answered |-> answered]
    <2>1. after \in [sent : {Append(prefix, msg)}, open : {open}, answered : {answered}]
      OBVIOUS
    <2> HIDE DEF after
    <2> QED BY <2>1
  <1>2. View!AnswerOpen(view) = before /\ msg.role \notin {"assistant", "toolResult", "failed"}
        => View!Translate(view, msg) = after
    BY SMT DEF View!Translate
  <1> HIDE DEF after
  <1> QED BY <1>1, <1>2

LEMMA TranslatedResult ==
    \A msg, prefix, open, answered :
        msg.role = "toolResult"
        => View!Translate([sent |-> prefix, open |-> open, answered |-> answered], msg)
             = [sent |-> Append(prefix, msg), open |-> open,
                answered |-> answered \cup msg.calls]
  <1> TAKE msg, prefix, open, answered
  <1> DEFINE before == [sent |-> prefix, open |-> open, answered |-> answered]
             after == [before EXCEPT !.sent = Append(@, msg),
                                     !.answered = @ \cup msg.calls]
  <1>1. after = [sent |-> Append(prefix, msg), open |-> open,
                 answered |-> answered \cup msg.calls]
    <2>1. after \in [sent : {Append(prefix, msg)}, open : {open},
                     answered : {answered \cup msg.calls}]
      OBVIOUS
    <2> HIDE DEF after
    <2> QED BY <2>1
  <1>2. msg.role = "toolResult" => View!Translate(before, msg) = after
    BY SMT DEF View!Translate
  <1> HIDE DEF after
  <1> QED BY <1>1, <1>2

LEMMA ViewStep ==
    ASSUME TypeOK, NEW m \in 0 .. N, FirstAnswered(m), NEW k \in 1 .. Len(transcript)
    PROVE  View!Translate(ViewAt(m, k - 1), transcript[k]) = ViewAt(m, k)
  <1> DEFINE q == SubSeq(transcript, 1, k - 1)
             message == transcript[k]
  <1>1. /\ N \in Nat \ {0} /\ m \in Nat /\ k \in Nat /\ transcript \in Seq(Messages)
        /\ DOMAIN transcript = 1 .. Len(transcript)
    BY BatchAssumption DEF TypeOK
  <1>2. SubSeq(transcript, 1, k) = Append(q, message) /\ q \in Seq(Messages)
    <2>1. k \in 1 .. Len(transcript) /\ 1 \in 1 .. Len(transcript) /\ message \in Messages
      BY <1>1, ElementOfSeq
    <2>2. SubSeq(transcript, 1, k) = q \o <<message>>
      BY <1>1, <2>1, SubSeqRecursiveSecond
    <2>3. q \in Seq(Messages)
      BY <1>1, <2>1, ElementOfSeq, SubSeqProperties
    <2> HIDE DEF q, message
    <2>4. q \o <<message>> = Append(q, message)
      BY <2>1, <2>3, AppendIsConcat
    <2> QED BY <2>2, <2>3, <2>4
  <1>3. CASE k = 1
    <2>1. message = Assistant /\ SubSeq(transcript, 1, k) = <<Assistant>>
      <3>1. message = Assistant /\ q = <<>>
        BY <1>3, SubSeqEmpty DEF FirstAnswered
      <3>2. Append(<<>>, Assistant) = <<Assistant>>
        OBVIOUS
      <3> QED BY <1>2, <3>1, <3>2
    <2>2. View!AnswerOpen(Nothing) = Nothing
      BY DEF View!AnswerOpen, Nothing
    <2>3. View!Translate(Nothing, Assistant)
            = [sent |-> <<Assistant>>, open |-> Calls, answered |-> {}]
      <3>1. View!AnswerOpen(Nothing) = [sent |-> <<>>, open |-> {}, answered |-> {}]
        BY <2>2 DEF Nothing
      <3>2. Assistant.role = "assistant" /\ Assistant.calls = Calls
        BY DEF Assistant
      <3>3. View!Translate(Nothing, Assistant)
              = [sent |-> Append(<<>>, Assistant), open |-> Assistant.calls, answered |-> {}]
        BY <3>1, <3>2, TranslatedCalls, Zenon
      <3>4. Append(<<>>, Assistant) = <<Assistant>>
        OBVIOUS
      <3> QED BY <3>2, <3>3, <3>4
    <2>4. ViewAt(m, k) = [sent |-> <<Assistant>>, open |-> Calls, answered |-> {}]
      <3>1. k # 0 /\ k <= m + 1 /\ 1 .. (k - 1) = {}
        BY <1>1, <1>3
      <3> QED BY <2>1, <3>1 DEF ViewAt
    <2>5. ViewAt(m, k - 1) = Nothing
      BY <1>3 DEF ViewAt
    <2> QED BY <2>1, <2>3, <2>4, <2>5
  <1>4. CASE k > 1 /\ k <= m + 1
    <2>1. k - 1 \in 1 .. m /\ (k - 1) + 1 = k /\ k - 1 <= m + 1 /\ k - 1 # 0
      BY <1>1, <1>4
    <2>2. message = ToolResult(k - 1)
      BY <2>1 DEF FirstAnswered
    <2>3. ViewAt(m, k - 1) = [sent |-> q, open |-> Calls, answered |-> 1 .. (k - 1 - 1)]
      BY <2>1 DEF ViewAt
    <2>4. (1 .. (k - 1 - 1)) \cup {k - 1} = 1 .. (k - 1)
      BY <1>1, <2>1
    <2>5. ViewAt(m, k) = [sent |-> Append(q, message), open |-> Calls,
                          answered |-> 1 .. (k - 1)]
      <3>1. k # 0
        BY <1>1, <1>4
      <3> HIDE DEF q, message
      <3> QED BY <1>2, <1>4, <3>1 DEF ViewAt
    <2>6. View!Translate(ViewAt(m, k - 1), message)
            = [sent |-> Append(q, message), open |-> Calls,
               answered |-> (1 .. (k - 1 - 1)) \cup {k - 1}]
      <3>1. message.role = "toolResult" /\ message.calls = {k - 1}
        BY <2>2 DEF ToolResult
      <3> HIDE DEF q, message
      <3> DEFINE view == ViewAt(m, k - 1)
                 answered == 1 .. (k - 1 - 1)
      <3>2. view = [sent |-> q, open |-> Calls, answered |-> answered]
        BY <2>3
      <3> HIDE DEF view, answered
      <3>3. View!Translate([sent |-> q, open |-> Calls, answered |-> answered], message)
              = [sent |-> Append(q, message), open |-> Calls,
                 answered |-> answered \cup message.calls]
        BY <3>1, TranslatedResult
      <3>4. View!Translate(view, message)
              = [sent |-> Append(q, message), open |-> Calls,
                 answered |-> answered \cup {k - 1}]
        BY <3>1, <3>2, <3>3
      <3> QED BY <3>4 DEF view, answered
    <2> QED BY <2>4, <2>5, <2>6
  <1>5. CASE k > m + 1
    <2>1. message \in {Custom, Bash} /\ m = N
      <3>1. k \in DOMAIN transcript /\ Len(transcript) > m + 1
        BY <1>1, <1>5
      <3> QED BY <1>5, <3>1 DEF FirstAnswered
    <2>2. k - 1 # 0 /\ ~(k <= m + 1)
      BY <1>1, <1>5
    <2>3. View!AnswerOpen(ViewAt(m, k - 1)) = [sent |-> q, open |-> {}, answered |-> {}]
      <3>1. CASE k - 1 <= m + 1
        <4>1. k - 1 = m + 1
          BY <1>1, <1>5, <3>1
        <4>2. ViewAt(m, k - 1) = [sent |-> q, open |-> Calls, answered |-> 1 .. m]
          BY <1>1, <2>2, <3>1, <4>1 DEF ViewAt
        <4>3. q \o View!Synthetic((m + 1) .. N) = q
          BY <1>2, <2>1, AllAnswered, ConcatEmptySeq
        <4> HIDE DEF q
        <4> QED BY <4>2, <4>3, OpenAnswered
      <3>2. CASE ~(k - 1 <= m + 1)
        <4>1. ViewAt(m, k - 1) = [sent |-> q, open |-> {}, answered |-> {}]
          BY <2>2, <3>2 DEF ViewAt
        <4> HIDE DEF q
        <4> QED BY <4>1 DEF View!AnswerOpen
      <3> QED BY <3>1, <3>2
    <2>4. message.role \notin {"assistant", "toolResult", "failed"}
      BY <2>1 DEF Custom, Bash
    <2>5. View!Translate(ViewAt(m, k - 1), message)
            = [sent |-> Append(q, message), open |-> {}, answered |-> {}]
      <3> HIDE DEF q, message
      <3> DEFINE view == ViewAt(m, k - 1)
      <3>1. View!AnswerOpen(view) = [sent |-> q, open |-> {}, answered |-> {}]
        BY <2>3
      <3> HIDE DEF view
      <3>2. View!Translate(view, message)
              = [sent |-> Append(q, message), open |-> {}, answered |-> {}]
        BY <2>4, <3>1, TranslatedUser
      <3> QED BY <3>2 DEF view
    <2>6. ViewAt(m, k) = [sent |-> Append(q, message), open |-> {}, answered |-> {}]
      <3>1. k # 0
        BY <1>1, <1>5
      <3> HIDE DEF q, message
      <3> QED BY <1>2, <2>2, <3>1 DEF ViewAt
    <2> QED BY <2>5, <2>6
  <1> QED BY <1>1, <1>3, <1>4, <1>5

(* What the provider is sent: the transcript, and a made-up result for     *)
(* each call the crash left without one.                                   *)
LEMMA SentIs ==
    ASSUME TypeOK, NEW m \in 0 .. N, FirstAnswered(m)
    PROVE  View!Sent(transcript) = transcript \o View!Synthetic((m + 1) .. N)
  <1> DEFINE n == Len(transcript)
             made == View!Synthetic((m + 1) .. N)
  <1>1. /\ N \in Nat \ {0} /\ m \in Nat /\ transcript \in Seq(Messages)
        /\ n \in Nat /\ n >= m + 1
    BY BatchAssumption DEF TypeOK, FirstAnswered
  <1>2. PICK view : /\ view[0] = Nothing
                    /\ \A k \in 1 .. n : view[k] = View!Translate(view[k - 1], transcript[k])
                    /\ View!Sent(transcript) = View!AnswerOpen(view[n]).sent
    BY <1>1, SentSteps
  <1>3. view[n] = ViewAt(m, n)
    <2> DEFINE S == {k \in 0 .. n : view[k] = ViewAt(m, k)}
    <2>1. 0 \in S
      BY <1>1, <1>2 DEF ViewAt
    <2>2. ASSUME NEW k \in 0 .. (n - 1), k \in S
          PROVE  k + 1 \in S
      <3>1. k + 1 \in 1 .. Len(transcript) /\ (k + 1) - 1 = k /\ k + 1 \in 0 .. n
        BY <1>1
      <3>2. View!Translate(ViewAt(m, (k + 1) - 1), transcript[k + 1]) = ViewAt(m, k + 1)
        BY <3>1, ViewStep
      <3>3. view[k + 1] = View!Translate(view[(k + 1) - 1], transcript[k + 1])
        BY <1>2, <3>1
      <3> QED BY <2>2, <3>1, <3>2, <3>3
    <2>3. n \in S
      <3>1. \A k \in 0 .. (n - 1) : k \in S => k + 1 \in S
        BY <2>2
      <3> HIDE DEF S, n
      <3>2. \A k \in 0 .. n : k \in S
        BY <1>1, <2>1, <3>1, UpTo
      <3> QED BY <1>1, <3>2
    <2> QED BY <2>3
  <1>4. n # 0 /\ SubSeq(transcript, 1, n) = transcript
    BY <1>1, SubSeqFull
  <1>5. CASE n = m + 1
    <2>1. ViewAt(m, n) = [sent |-> transcript, open |-> Calls, answered |-> 1 .. m]
      <3>1. n <= m + 1 /\ n - 1 = m
        BY <1>1, <1>5
      <3> HIDE DEF n
      <3> QED BY <1>4, <3>1 DEF ViewAt
    <2>2. View!AnswerOpen(view[n]) = [sent |-> transcript \o made, open |-> {}, answered |-> {}]
      BY <1>3, <2>1, OpenAnswered
    <2> QED BY <1>2, <2>2
  <1>6. CASE n > m + 1
    <2>1. ViewAt(m, n) = [sent |-> transcript, open |-> {}, answered |-> {}]
      <3>1. ~(n <= m + 1)
        BY <1>1, <1>6
      <3> HIDE DEF n
      <3> QED BY <1>4, <3>1 DEF ViewAt
    <2>2. View!AnswerOpen(view[n]).sent = transcript
      BY <1>3, <2>1 DEF View!AnswerOpen
    <2>3. transcript \o made = transcript
      <3>1. m = N
        BY <1>6 DEF FirstAnswered
      <3> QED BY <1>1, <3>1, AllAnswered, ConcatEmptySeq
    <2> QED BY <1>2, <2>2, <2>3
  <1> QED BY <1>1, <1>5, <1>6

LEMMA AnsweredOnce ==
    ASSUME TypeOK, NEW m \in 0 .. N, FirstAnswered(m)
    PROVE  LET sent == View!Sent(transcript) IN
           /\ \A i \in Calls : View!Answers(sent, i) = 1
           /\ \A k \in 2 .. (N + 1) : sent[k].role = "toolResult"
  <1> DEFINE n == Len(transcript)
             c == N - m
             made == View!Synthetic((m + 1) .. N)
             R == {ToolResult(i) : i \in (m + 1) .. N}
             sent == View!Sent(transcript)
  <1>1. /\ N \in Nat \ {0} /\ m \in Nat /\ transcript \in Seq(Messages)
        /\ n \in Nat /\ n >= m + 1 /\ c \in Nat /\ DOMAIN transcript = 1 .. n
    BY BatchAssumption DEF TypeOK, FirstAnswered
  <1>2. /\ made \in [1 .. c -> R]
        /\ \A j, k \in 1 .. c : made[j] = made[k] => j = k
        /\ \A r \in R : \E k \in 1 .. c : made[k] = r
    BY SyntheticIs
  <1>3. \A i : ToolResult(i).role = "toolResult" /\ \A j : ToolResult(i) = ToolResult(j) => i = j
    BY DEF ToolResult
  <1>4. sent = transcript \o made
    BY SentIs
  <1>5. /\ DOMAIN sent = 1 .. (n + c)
        /\ \A k \in 1 .. n : sent[k] = transcript[k]
        /\ \A k \in 1 .. c : sent[n + k] = made[k]
    <2>1. made \in Seq(R) /\ Len(made) = c
      <3> HIDE DEF made, R, c
      <3> QED BY <1>1, <1>2
    <2>2. R \subseteq Messages
      BY <1>1 DEF Messages, Calls
    <2> HIDE DEF made, R, c, sent
    <2>3. made \in Seq(Messages)
      BY <2>1, <2>2
    <2>4. /\ sent \in Seq(Messages) /\ Len(sent) = n + c
          /\ \A k \in 1 .. (n + c) :
                sent[k] = IF k <= n THEN transcript[k] ELSE made[k - n]
      BY <1>1, <1>4, <2>1, <2>3, ConcatProperties
    <2>5. /\ \A k \in 1 .. n : k \in 1 .. (n + c) /\ k <= n
          /\ \A k \in 1 .. c : n + k \in 1 .. (n + c) /\ ~(n + k <= n) /\ (n + k) - n = k
      BY <1>1
    <2> HIDE DEF n
    <2>6. DOMAIN sent = 1 .. (n + c)
      BY <2>4
    <2> QED BY <2>4, <2>5, <2>6
  <1>6. \A k \in 1 .. m : sent[k + 1] = ToolResult(k)
    <2>1. \A k \in 1 .. m : k + 1 \in 1 .. n
      BY <1>1
    <2> HIDE DEF sent, n
    <2> QED BY <1>5, <2>1 DEF FirstAnswered
  <1>7. \A k \in 1 .. n : k = 1 \/ k > m + 1 => sent[k].role # "toolResult"
    <2>1. Assistant.role # "toolResult" /\ Custom.role # "toolResult" /\ Bash.role # "toolResult"
      BY DEF Assistant, Custom, Bash
    <2> HIDE DEF sent, n
    <2> QED BY <1>1, <1>5, <2>1 DEF FirstAnswered
  <1>8. n > m + 1 => m = N
    BY DEF FirstAnswered
  <1>9. \A k \in 1 .. c : sent[n + k] \in R
    BY <1>2, <1>5
  <1> HIDE DEF sent, n, made
  <1>10. ASSUME NEW i \in Calls
         PROVE  \E p : {k \in DOMAIN sent : sent[k] = ToolResult(i)} = {p}
    <2>1. i \in 1 .. N
      BY DEF Calls
    <2>2. ASSUME NEW k \in DOMAIN sent, sent[k] = ToolResult(i)
          PROVE  (k \in 2 .. (m + 1) /\ k = i + 1) \/ \E j \in 1 .. c : k = n + j
      <3>1. CASE k \in 1 .. n
        <4>1. k \in 2 .. (m + 1)
          BY <1>1, <1>3, <1>7, <2>2, <3>1
        <4>2. k - 1 \in 1 .. m /\ (k - 1) + 1 = k
          BY <1>1, <4>1
        <4>3. k - 1 = i
          BY <1>3, <1>6, <2>2, <4>2
        <4> QED BY <4>1, <4>3
      <3>2. CASE k \notin 1 .. n
        <4>1. k \in 1 .. (n + c)
          BY <1>5
        <4>2. k - n \in 1 .. c /\ k = n + (k - n)
          BY <1>1, <3>2, <4>1
        <4> QED BY <4>2
      <3> QED BY <3>1, <3>2
    <2>3. CASE i <= m
      <3>1. i + 1 \in DOMAIN sent /\ sent[i + 1] = ToolResult(i)
        <4>1. i \in 1 .. m /\ i + 1 \in 1 .. (n + c)
          BY <1>1, <2>1, <2>3
        <4> QED BY <1>5, <1>6, <4>1
      <3>2. ASSUME NEW j \in 1 .. c, sent[n + j] = ToolResult(i)
            PROVE  FALSE
        <4>1. PICK x \in (m + 1) .. N : sent[n + j] = ToolResult(x)
          BY <1>9
        <4>2. x = i
          BY <1>3, <3>2, <4>1
        <4> QED BY <1>1, <2>3, <4>1, <4>2
      <3>3. \A k \in DOMAIN sent : sent[k] = ToolResult(i) => k = i + 1
        BY <2>2, <3>2
      <3>4. {k \in DOMAIN sent : sent[k] = ToolResult(i)} = {i + 1}
        BY <3>1, <3>3
      <3> QED BY <3>4
    <2>4. CASE ~(i <= m)
      <3>1. ToolResult(i) \in R
        BY <1>1, <2>1, <2>4
      <3>2. PICK p \in 1 .. c : made[p] = ToolResult(i)
        BY <1>2, <3>1
      <3>3. n + p \in DOMAIN sent /\ sent[n + p] = ToolResult(i)
        <4>1. n + p \in 1 .. (n + c)
          BY <1>1
        <4> QED BY <1>5, <3>2, <4>1
      <3>4. ASSUME NEW k \in DOMAIN sent, sent[k] = ToolResult(i)
            PROVE  k = n + p
        <4>1. ~(k \in 2 .. (m + 1) /\ k = i + 1)
          BY <1>1, <2>1, <2>4
        <4>2. PICK j \in 1 .. c : k = n + j
          BY <2>2, <3>4, <4>1
        <4>3. made[j] = made[p]
          BY <1>5, <3>2, <3>4, <4>2
        <4> QED BY <1>2, <4>2, <4>3
      <3>5. {k \in DOMAIN sent : sent[k] = ToolResult(i)} = {n + p}
        BY <3>3, <3>4
      <3> QED BY <3>5
    <2> QED BY <2>3, <2>4
  <1>11. ASSUME NEW i \in Calls
         PROVE  View!Answers(sent, i) = 1
    <2>1. PICK p : {k \in DOMAIN sent : sent[k] = ToolResult(i)} = {p}
      BY <1>10
    <2>2. View!Answers(sent, i) = Cardinality({k \in DOMAIN sent : sent[k] = ToolResult(i)})
      BY ViewCardinality DEF View!Answers, View!ToolResult, ToolResult
    <2> QED BY <2>1, <2>2, FS_Singleton
  <1>12. ASSUME NEW k \in 2 .. (N + 1)
         PROVE  sent[k].role = "toolResult"
    <2>1. CASE k <= m + 1
      <3>1. k - 1 \in 1 .. m /\ (k - 1) + 1 = k
        BY <1>1, <2>1
      <3> QED BY <1>3, <1>6, <3>1
    <2>2. CASE ~(k <= m + 1)
      <3>1. n = m + 1
        BY <1>1, <1>8, <2>2
      <3>2. k - n \in 1 .. c /\ n + (k - n) = k
        BY <1>1, <2>2, <3>1
      <3>3. sent[k] \in R
        BY <1>9, <3>2
      <3> QED BY <1>3, <3>3
    <2> QED BY <2>1, <2>2
  <1> QED BY <1>11, <1>12 DEF sent

(* The next request answers every call exactly once, before any other      *)
(* message, for every number of calls and wherever in the batch the        *)
(* process died.                                                           *)
THEOREM CallsAreAnsweredOnce ==
    ASSUME ~HookMessages PROVE Spec => []CallsAnsweredOnce
  <1>1. Inv /\ Answers => CallsAnsweredOnce
    <2> SUFFICES ASSUME Inv, Answers PROVE CallsAnsweredOnce
      OBVIOUS
    <2>1. PICK m \in 0 .. N : FirstAnswered(m)
      BY DEF Answers
    <2>2. TypeOK
      BY DEF Inv
    <2> QED BY <2>1, <2>2, AnsweredOnce DEF CallsAnsweredOnce
  <1>2. (Inv /\ Answers) /\ [Next]_vars => (Inv /\ Answers)'
    BY InvStep, AnswersStep
  <1>3. Init => Inv /\ Answers
    BY InvInit, AnswersInit
  <1> QED BY <1>1, <1>2, <1>3, PTL DEF Spec

=============================================================================
