------------------------------- MODULE ToolBatch -------------------------------
(***************************************************************************)
(* The tool calls of one assistant message (agent/src/agent-loop.ts):      *)
(* prepared one after the other, executed in parallel or in sequence,      *)
(* skipped after an abort, and answered in the transcript in the order the *)
(* model asked for them.  Beside them: what else may reach the transcript  *)
(* meanwhile, and the death of the process, after which the conversation   *)
(* goes on from the log.                                                   *)
(***************************************************************************)
EXTENDS Naturals, FiniteSets, SequencesExt

CONSTANTS
    N,             \* number of tool calls in the message
    HookMessages,  \* whether a hook may block a message before the batch is done
    MaxBash        \* bound: results of bash commands the owner runs meanwhile

ASSUME BatchAssumption ==
    N \in Nat \ {0} /\ HookMessages \in BOOLEAN /\ MaxBash \in Nat

Calls == 1 .. N

VARIABLES
    mode,        \* which of the three loops handles the message
    stage,       \* how far the batch as a whole is
    cursor,      \* the calls up to this one have been started
    call,        \* where each call is
    outcome,     \* what each call's result says
    wantsStop,   \* calls whose result asks the run to terminate
    executed,    \* history: calls whose tool was executed
    pendingToolCalls, \* calls shown as running
    aborted,     \* the run's signal is aborted
    terminate,   \* the batch ends the turn's loop
    transcript,  \* agent.state.messages, and the log, from the message on
    bashWaiting  \* bash results that wait for the operation to end

vars == <<mode, stage, cursor, call, outcome, wantsStop, executed,
          pendingToolCalls, aborted, terminate, transcript, bashWaiting>>

(* A message of the transcript: its role and the calls it makes or answers *)
Assistant == [role |-> "assistant", calls |-> Calls]
ToolResult(i) == [role |-> "toolResult", calls |-> {i}]
Custom == [role |-> "custom", calls |-> {}]
Bash == [role |-> "bashExecution", calls |-> {}]
Messages == {Assistant, Custom, Bash} \cup {ToolResult(i) : i \in Calls}

CallStates == {"waiting", "preparing", "prepared", "executing", "ended",
               "answered"}
Outcomes == {"none", "executed", "refused", "aborted"}

TypeOK ==
    /\ mode \in {"parallel", "sequential", "truncated"}
    /\ stage \in {"prepare", "execute", "report", "done", "over"}
    /\ cursor \in 0 .. N
    /\ call \in [Calls -> CallStates] /\ outcome \in [Calls -> Outcomes]
    /\ wantsStop \subseteq Calls /\ executed \subseteq Calls
    /\ pendingToolCalls \subseteq Calls
    /\ aborted \in BOOLEAN /\ terminate \in BOOLEAN
    /\ transcript \in Seq(Messages) /\ bashWaiting \in Nat

Init ==
    /\ mode \in {"parallel", "sequential", "truncated"}
    /\ stage = "prepare" /\ cursor = 0
    /\ call = [i \in Calls |-> "waiting"]
    /\ outcome = [i \in Calls |-> "none"]
    /\ wantsStop = {} /\ executed = {} /\ pendingToolCalls = {}
    /\ aborted = FALSE /\ terminate = FALSE
    /\ transcript = <<Assistant>> /\ bashWaiting = 0

-----------------------------------------------------------------------------
(* One call. *)

Move(i, state) == call' = [call EXCEPT ![i] = state]

(* Mutant: the loop runs once more than there are calls. *)
OneMoreCall == cursor <= N

CallsRemain == cursor < N

(* What the call before must have reached: prepared or refused in the      *)
(* parallel loop, answered in the others.                                  *)
PreviousDone ==
    cursor > 0 => IF mode = "parallel" THEN call[cursor] # "preparing"
                  ELSE call[cursor] = "answered"

(* The loops look at the signal after each call; the one for truncated     *)
(* messages does not.                                                      *)
GoesOn == cursor > 0 /\ mode # "truncated" => ~aborted

(* tool_execution_start *)
StartCall ==
    /\ stage = "prepare" /\ CallsRemain /\ PreviousDone /\ GoesOn
    /\ cursor' = cursor + 1
    /\ Move(cursor + 1, "preparing")
    /\ pendingToolCalls' = pendingToolCalls \cup {cursor + 1}
    /\ UNCHANGED <<mode, stage, outcome, wantsStop, executed, aborted,
                   terminate, transcript, bashWaiting>>

(* Mutant: an ended call stays in pendingToolCalls. *)
EndCallStillShown(i, result, stops) ==
    /\ Move(i, "ended")
    /\ outcome' = [outcome EXCEPT ![i] = result]
    /\ wantsStop' = IF stops THEN wantsStop \cup {i} ELSE wantsStop
    /\ UNCHANGED pendingToolCalls

(* tool_execution_end *)
EndCall(i, result, stops) ==
    /\ Move(i, "ended")
    /\ outcome' = [outcome EXCEPT ![i] = result]
    /\ wantsStop' = IF stops THEN wantsStop \cup {i} ELSE wantsStop
    /\ pendingToolCalls' = pendingToolCalls \ {i}

(* prepareToolCall answers by itself: no such tool, invalid arguments, a   *)
(* gate that blocked the call, possibly for good, or an abort meanwhile.   *)
(* A truncated message's calls all end this way.                           *)
RefuseCall(i) ==
    /\ stage = "prepare" /\ call[i] = "preparing"
    /\ \/ EndCall(i, "refused", FALSE)
       \/ mode # "truncated" /\ ~aborted /\ EndCall(i, "refused", TRUE)
       \/ mode # "truncated" /\ aborted /\ EndCall(i, "aborted", FALSE)
    /\ UNCHANGED <<mode, stage, cursor, executed, aborted, terminate,
                   transcript, bashWaiting>>

(* Mutant: the signal is not looked at after the gate. *)
MayPrepareAnyway == TRUE

MayPrepare == ~aborted

(* The call passed preparation: the sequential loop executes it at once.   *)
PassCall(i) ==
    /\ stage = "prepare" /\ call[i] = "preparing"
    /\ mode # "truncated" /\ MayPrepare
    /\ IF mode = "parallel"
       THEN Move(i, "prepared") /\ UNCHANGED executed
       ELSE Move(i, "executing") /\ executed' = executed \cup {i}
    /\ UNCHANGED <<mode, stage, cursor, outcome, wantsStop, pendingToolCalls,
                   aborted, terminate, transcript, bashWaiting>>

(* The tool returned or threw, and afterToolCall is done with the result.  *)
FinishCall(i) ==
    /\ stage # "over" /\ call[i] = "executing"
    /\ \E stops \in BOOLEAN : EndCall(i, "executed", stops)
    /\ UNCHANGED <<mode, stage, cursor, executed, aborted, terminate,
                   transcript, bashWaiting>>

-----------------------------------------------------------------------------
(* The parallel loop. *)

(* Preparation is over: what passed it is executed, all at once, even when *)
(* the run was aborted meanwhile.                                          *)
Launch ==
    /\ mode = "parallel" /\ stage = "prepare" /\ cursor > 0 /\ PreviousDone
    /\ cursor = N \/ aborted
    /\ stage' = "execute"
    /\ LET prepared == {i \in Calls : call[i] = "prepared"} IN
       /\ call' = [i \in Calls |-> IF i \in prepared THEN "executing" ELSE call[i]]
       /\ executed' = executed \cup prepared
    /\ UNCHANGED <<mode, cursor, outcome, wantsStop, pendingToolCalls, aborted,
                   terminate, transcript, bashWaiting>>

(* Mutant: the slice of calls to skip begins one call early. *)
SkippedTooMany == {i \in Calls : i >= cursor}

(* The calls the loop never reached. *)
Skipped == {i \in Calls : i > cursor}

(* All executions have ended; the calls never reached are started and      *)
(* ended as aborted.                                                       *)
SkipRest ==
    /\ stage = "execute"
    /\ \A i \in Calls : call[i] # "executing"
    /\ stage' = "report"
    /\ call' = [i \in Calls |-> IF i \in Skipped THEN "ended" ELSE call[i]]
    /\ outcome' = [i \in Calls |-> IF i \in Skipped THEN "aborted" ELSE outcome[i]]
    /\ UNCHANGED <<mode, cursor, wantsStop, executed, pendingToolCalls, aborted,
                   terminate, transcript, bashWaiting>>

(* Mutant: results are reported as the calls end. *)
AnyEnded(i) == call[i] = "ended"

(* The next result to report: all the ones before it are. *)
NextToReport(i) ==
    call[i] = "ended" /\ \A j \in 1 .. (i - 1) : call[j] = "answered"

(* message_end of a tool result. *)
ReportResult(i) ==
    /\ stage = "report" \/ (stage = "prepare" /\ mode # "parallel")
    /\ NextToReport(i)
    /\ Move(i, "answered")
    /\ transcript' = Append(transcript, ToolResult(i))
    /\ UNCHANGED <<mode, stage, cursor, outcome, wantsStop, executed,
                   pendingToolCalls, aborted, terminate, bashWaiting>>

(* The sequential loop after an abort: the next call is started, ended as  *)
(* aborted and reported.                                                   *)
SkipNext ==
    /\ mode = "sequential" /\ stage = "prepare"
    /\ cursor > 0 /\ CallsRemain /\ PreviousDone /\ aborted
    /\ cursor' = cursor + 1
    /\ Move(cursor + 1, "answered")
    /\ outcome' = [outcome EXCEPT ![cursor + 1] = "aborted"]
    /\ transcript' = Append(transcript, ToolResult(cursor + 1))
    /\ UNCHANGED <<mode, stage, wantsStop, executed, pendingToolCalls, aborted,
                   terminate, bashWaiting>>

-----------------------------------------------------------------------------
(* The batch as a whole, and what happens around it. *)

(* shouldTerminateToolBatch *)
ShouldTerminate == wantsStop = Calls

BatchDone ==
    /\ stage \in {"prepare", "report"} /\ \A i \in Calls : call[i] = "answered"
    /\ stage' = "done"
    /\ terminate' = (mode # "truncated" /\ ShouldTerminate)
    /\ UNCHANGED <<mode, cursor, call, outcome, wantsStop, executed,
                   pendingToolCalls, aborted, transcript, bashWaiting>>

(* Mutant: bash results are not held back. *)
BashAtOnce ==
    /\ transcript' = Append(transcript, Bash)
    /\ UNCHANGED bashWaiting

(* recordBashResult while the session is streaming. *)
HoldBash ==
    /\ bashWaiting' = bashWaiting + 1
    /\ UNCHANGED transcript

RecordBash ==
    /\ stage # "over" /\ bashWaiting < MaxBash
    /\ HoldBash
    /\ UNCHANGED <<mode, stage, cursor, call, outcome, wantsStop, executed,
                   pendingToolCalls, aborted, terminate>>

(* A hook blocks a message someone sent meanwhile, and a custom message    *)
(* says so in the transcript at once.                                      *)
BlockMessage ==
    /\ stage # "over" /\ (stage # "done" => HookMessages)
    /\ ~Contains(transcript, Custom)
    /\ transcript' = Append(transcript, Custom)
    /\ UNCHANGED <<mode, stage, cursor, call, outcome, wantsStop, executed,
                   pendingToolCalls, aborted, terminate, bashWaiting>>

Abort ==
    /\ stage # "over" /\ ~aborted
    /\ aborted' = TRUE
    /\ UNCHANGED <<mode, stage, cursor, call, outcome, wantsStop, executed,
                   pendingToolCalls, terminate, transcript, bashWaiting>>

(* The operation is over, and the bash results it held back are added. *)
Over ==
    /\ stage = "done"
    /\ stage' = "over"
    /\ transcript' = transcript \o [k \in 1 .. bashWaiting |-> Bash]
    /\ bashWaiting' = 0
    /\ UNCHANGED <<mode, cursor, call, outcome, wantsStop, executed,
                   pendingToolCalls, aborted, terminate>>

(* The process dies.  What the log holds stays. *)
Crash ==
    /\ stage # "over"
    /\ stage' = "over"
    /\ pendingToolCalls' = {} /\ bashWaiting' = 0
    /\ UNCHANGED <<mode, cursor, call, outcome, wantsStop, executed, aborted,
                   terminate, transcript>>

Quiet == stage = "over" /\ UNCHANGED vars

Next ==
    \/ StartCall
    \/ \E i \in Calls : RefuseCall(i) \/ PassCall(i) \/ FinishCall(i)
                        \/ ReportResult(i)
    \/ Launch \/ SkipRest \/ SkipNext \/ BatchDone
    \/ RecordBash \/ BlockMessage \/ Abort \/ Over \/ Crash
    \/ Quiet

Spec == Init /\ [][Next]_vars

-----------------------------------------------------------------------------
(* Tool results follow the calls they answer directly, in the order of the *)
(* calls, whatever order the tools finished in and whatever else was to be *)
(* recorded meanwhile; and a finished batch has answered every call.       *)
ResultsInOrder ==
    LET answered == {i \in Calls : call[i] = "answered"} IN
    /\ answered = 1 .. Cardinality(answered)
    /\ \A k \in 1 .. Cardinality(answered) : transcript[k + 1] = ToolResult(k)
    /\ stage = "done" => answered = Calls

(* The calls let through to their tools: executed, or prepared and on the  *)
(* way there.                                                              *)
LetThrough == executed \cup {i \in Calls : call[i] = "prepared"}

(* Once the run is aborted no further call is let through, whatever its    *)
(* gate answers and whenever: neither loop executes another, and none      *)
(* joins those the parallel loop holds prepared, which it executes even    *)
(* after an abort.                                                         *)
NothingPassesAbort == [][aborted => LetThrough' \subseteq LetThrough]_vars

(* A result never claims the opposite of what happened: a call reported as *)
(* refused or aborted has not run its tool, a call reported as executed    *)
(* has, and no call of a truncated message has.                            *)
ReportedTruthfully ==
    /\ \A i \in Calls : outcome[i] = "executed" => i \in executed
    /\ \A i \in executed : outcome[i] \in {"none", "executed"}
    /\ mode = "truncated" => executed = {}

(* The calls shown as running are the ones started and not ended, and none *)
(* is left when the batch is done.                                         *)
RunningShown ==
    stage # "over" =>
        pendingToolCalls = {i \in Calls : call[i] \in {"preparing", "prepared",
                                                       "executing"}}

=============================================================================
