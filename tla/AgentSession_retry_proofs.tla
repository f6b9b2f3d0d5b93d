----------------------- MODULE AgentSession_retry_proofs -----------------------
(***************************************************************************)
(* Proofs about the Operation Loop of AgentSession behind a Channel        *)
(* Session: what a retry or a recovery repeats, how many failures in a row *)
(* an operation can leave, and how it settles.  They hold for every set of *)
(* messages, every settings and every bound, without extension messages.   *)
(***************************************************************************)
EXTENDS AgentSession_proofs

-----------------------------------------------------------------------------
(* The invariant. *)

(* The provider is asked next: the loop has nothing left to deliver.       *)
Asked ==
    \/ phase = "stream"
    \/ phase \in {"prompts", "steered", "inject"} /\ pending = <<>>

(* The run has its last response and works towards its end.                *)
Answered == phase \in {"turnEnd", "stopping", "ending"}

(* An operation is in one of these places.                                 *)
At(places) == \E p \in Prompts : at[p] \in places

(* agent.continue() would run from the transcript as it is, and so repeat  *)
(* the request that came last.                                             *)
Repeats == failedInState = 0 /\ base # "assistant"

(* No request shows the model a failed response, and none follows a        *)
(* response with nothing in between.                                       *)
AskedClean == Asked => Repeats

ToolsClean ==
    /\ phase \in {"tools", "nextTurn"} => last \notin Failures
    /\ phase = "nextTurn" => failedInLog = 0 /\ base # "assistant"

(* A response that failed is in the state as often as in the log: once, if *)
(* it may be retried.                                                      *)
AnsweredOnce ==
    Answered =>
        /\ failedInState = 0 => failedInLog = 0
        /\ last = "error" => phase = "ending" /\ failedInState <= 1
                             /\ base # "assistant"

BackoffClean == At({"sleep"}) => Repeats

CleanInv == AskedClean /\ ToolsClean /\ AnsweredOnce /\ BackoffClean

(* The failures that FailuresBounded allows.  The stops' part is a product *)
(* and has a name of its own.                                              *)
Slack == stops * MaxRetries
Limit == 2 * (MaxRetries + 1) + Slack

(* The failures that an overflow recovery which is still open can add.     *)
Recovery == IF recovered THEN 0 ELSE MaxRetries + 1

(* Room for one more request, after which its retries and the recovery are *)
(* still to come; a used up attempt makes room for none.                   *)
Room == failedInLog + 1 + MaxRetries + Recovery <= Limit + attempt

(* The same with a retry budget that starts again.                         *)
RoomAfresh == failedInLog + 1 + MaxRetries + Recovery <= Limit

Within == attempt <= MaxRetries /\ failedInLog <= Limit

RoomToAsk ==
    Asked \/ At({"sleep"}) \/ (At({"compact", "hold"}) /\ Repeats) => Room

RoomToStart == At({"cancelled", "recover"}) => RoomAfresh

RoomToRetry ==
    phase = "ending" /\ last = "error" =>
        failedInLog + MaxRetries + Recovery <= Limit + attempt

RoomToRecover == Answered /\ last # "error" => failedInLog + Recovery <= Limit

RoomInv == Within /\ RoomToAsk /\ RoomToStart /\ RoomToRetry /\ RoomToRecover

RetryInv == CleanInv /\ RoomInv

-----------------------------------------------------------------------------
(* Lemmas. *)

(* The failures allowed, and how a stop adds to them.                      *)
LEMMA LimitFacts ==
    ASSUME TypeInv
    PROVE  /\ MaxRetries \in Nat /\ Slack \in Nat /\ Limit \in Nat
           /\ Limit = 2 * (MaxRetries + 1) + Slack
           /\ stops' = stops => Slack' = Slack /\ Limit' = Limit
           /\ stops' = stops + 1 => Limit' = Limit + MaxRetries
  <1>1. MaxRetries \in Nat /\ stops \in Nat
    BY SettingsAssumption DEF TypeInv, TypeOK
  <1>2. Slack \in Nat
    <2>1. \A s, r \in Nat : s * r \in Nat
      OBVIOUS
    <2> QED BY <1>1, <2>1 DEF Slack
  <1>3. stops' = stops + 1 => Slack' = Slack + MaxRetries
    <2>1. \A s, r \in Nat : (s + 1) * r = s * r + r
      OBVIOUS
    <2> QED BY <1>1, <2>1 DEF Slack
  <1>4. stops' = stops => Slack' = Slack
    BY DEF Slack
  <1> QED BY <1>1, <1>2, <1>3, <1>4 DEF Limit

(* Where the failures are counted, they are numbers.                       *)
LEMMA CountFacts ==
    ASSUME TypeInv
    PROVE  /\ failedInState \in Nat /\ failedInLog \in Nat /\ attempt \in Nat
           /\ failedInState <= failedInLog /\ MaxRetries \in Nat
           /\ Recovery \in Nat /\ Recovery <= MaxRetries + 1
           /\ recovered => Recovery = 0
           /\ ~recovered => Recovery = MaxRetries + 1
  BY SettingsAssumption DEF TypeInv, TypeOK, Recovery

(* A request that follows no failure has room.                             *)
LEMMA RoomFirst ==
    ASSUME TypeInv, failedInLog = 0
    PROVE  /\ Room /\ RoomAfresh /\ failedInLog <= Limit
           /\ failedInLog + Recovery <= Limit
  BY CountFacts, LimitFacts DEF Room, RoomAfresh

(* While an agent run goes on, no operation is between two runs.           *)
LEMMA RunsAlone ==
    ASSUME SingleInv, phase # "none"
    PROVE  ~At({"sleep", "cancelled", "recover", "compact", "hold", "settle",
                "intake", "preflight", "precompact", "prerecover", "ready"})
  BY NoRunElsewhere DEF At, InProgress, Operating, Starting

(* What drain() takes of a queue that is not empty.                        *)
LEMMA DrainsSome ==
    ASSUME NEW S, NEW mode, NEW q \in Seq(S), q # <<>>
    PROVE  Drained(mode, q) # <<>>
  BY DEF Drained

(* How agent.continue() goes on between two runs of an operation.          *)
Continued(o, afterAssistant) ==
    /\ \A p \in Prompts \ {o} : at'[p] \notin InProgress
    /\ \/ /\ at'[o] = "run" /\ active' = TRUE /\ outcomes' = 0
          /\ \/ phase' = "prompts" /\ pending' = <<>> /\ ~afterAssistant
             \/ phase' \in {"prompts", "steered"} /\ pending' # <<>>
       \/ /\ at'[o] = "settle" /\ phase' = "none" /\ active' = FALSE
          /\ afterAssistant /\ ~QueuedMessages
          /\ UNCHANGED outcomes

LEMMA Continues ==
    ASSUME TypeInv, SingleInv, Customs = {}, NEW o \in Prompts,
           at[o] \in InProgress \ {"run"}, NEW afterAssistant,
           Continue(o, afterAssistant)
    PROVE  Continued(o, afterAssistant)
  <1>1. /\ at \in [Msgs -> Places] /\ steerQ \in Seq(Msgs) /\ followQ \in Seq(Msgs)
        /\ \A p \in Prompts : p \in Msgs
    BY StartersAreMessages DEF TypeInv, TypeOK, Starters
  <1>2. phase = "none"
    BY NoRunElsewhere
  <1>3. \A p \in Prompts \ {o} : at[p] \notin InProgress
    BY DEF SingleInv, OneInProgress
  <1>4. ASSUME NEW place, Goto(o, place)
        PROVE  at'[o] = place /\ \A p \in Prompts \ {o} : at'[p] \notin InProgress
    BY <1>1, <1>3, <1>4 DEF Goto
  <1>5. CASE BeginRun(o, "prompts", <<>>) /\ ~afterAssistant
    BY <1>4, <1>5 DEF BeginRun, Continued
  <1>6. CASE BeginRun(o, "steered", Drained(SteeringMode, steerQ)) /\ steerQ # <<>>
    BY <1>1, <1>4, <1>6, DrainsSome DEF BeginRun, Continued
  <1>7. CASE BeginRun(o, "prompts", Drained(FollowUpMode, followQ)) /\ followQ # <<>>
    BY <1>1, <1>4, <1>7, DrainsSome DEF BeginRun, Continued
  <1>8. CASE Refuse(o) /\ afterAssistant /\ steerQ = <<>> /\ followQ = <<>>
    BY <1>2, <1>4, <1>8 DEF Refuse, runVars, Continued, QueuedMessages
  <1> QED BY <1>2, <1>5, <1>6, <1>7, <1>8 DEF Continue

(* What a step outside of the operation leaves alone.  A hook that blocks  *)
(* a message says so in the transcript.                                    *)
Aside ==
    /\ UNCHANGED <<active, phase, pending, last, attempt, recovered, outcomes, stops>>
    /\ \A p \in Prompts :
          at[p] \in Operating \cup {"settle"} \/ at'[p] \in Operating \cup {"settle"}
              => at'[p] = at[p]
    /\ \/ UNCHANGED <<base, failedInState, failedInLog>>
       \/ base' = "custom" /\ failedInState' = 0 /\ failedInLog' = 0

(* The steps of a prompt() past its preflight.                             *)
Starts(m) == BeginPreCompaction(m) \/ PreCompacted(m) \/ StartOperation(m)

LEMMA StepsAside ==
    ASSUME TypeInv, Customs = {},
           StartSubmit \/ \E m \in Msgs : SubmitStep(m) /\ ~Starts(m)
    PROVE  Aside
  <1>1. at \in [Msgs -> Places] /\ \A p \in Prompts : p \in Msgs
    BY StartersAreMessages DEF Starters, TypeInv, TypeOK
  <1>2. {"new", "waiting", "intake", "preflight", "blocked", "queued", "dropped",
         "rejected"} \cap (Operating \cup {"settle"}) = {}
    BY DEF Operating
  <1>3. ASSUME NEW m, NEW place, Goto(m, place),
               at[m] \notin Operating \cup {"settle"},
               place \notin Operating \cup {"settle"}
        PROVE  \A p \in Prompts :
                  at[p] \in Operating \cup {"settle"} \/ at'[p] \in Operating \cup {"settle"}
                      => at'[p] = at[p]
    BY <1>1, <1>3 DEF Goto
  <1> USE DEF queueVars, runVars, contextVars, loopVars, stopVars
  <1>4. CASE StartSubmit
    <2>1. Head(submits) \in Prompts
      BY <1>4, HeadTailProperties DEF StartSubmit, TypeInv, TypeOK
    <2>2. at[Head(submits)] \notin Operating \cup {"settle"}
      BY <1>4, <2>1 DEF StartSubmit, ChannelFree
    <2> QED BY <1>2, <1>3, <1>4, <2>2 DEF StartSubmit, EnterIntake, Aside
  <1>5. ASSUME NEW m \in Msgs, SubmitStep(m), ~Starts(m)
        PROVE  Aside
    <2>1. CASE Submit(m)
      BY <1>2, <1>3, <2>1 DEF Submit, Aside
    <2>2. CASE Call(m)
      BY <1>2, <1>3, <2>2 DEF Call, EnterIntake, Aside
    <2>3. CASE Block(m)
      BY <1>2, <1>3, <2>3 DEF Block, Aside
    <2>4. CASE Admit(m)
      BY <1>2, <1>3, <2>4 DEF Admit, Aside
    <2>5. CASE AdmitIdle(m)
      BY <1>2, <1>3, <2>5 DEF AdmitIdle, Aside
    <2>6. CASE PreflightFail(m)
      BY <1>2, <1>3, <2>6 DEF PreflightFail, Aside
    <2>7. ~SendCustom(m) /\ ~SendForNextTurn(m) /\ ~AppendCustom(m)
      BY DEF SendCustom, SendForNextTurn, AppendCustom
    <2> QED BY <1>5, <2>1, <2>2, <2>3, <2>4, <2>5, <2>6, <2>7 DEF SubmitStep, Starts
  <1> QED BY <1>4, <1>5

-----------------------------------------------------------------------------
(* No step breaks the invariant.                                           *)

(* A step that leaves alone what RetryInv reads.                           *)
LEMMA AsideRetry ==
    ASSUME TypeInv, RetryInv, Aside
    PROVE  RetryInv'
  <1>1. Slack' = Slack /\ Limit' = Limit /\ Recovery' = Recovery
    BY LimitFacts DEF Aside, Recovery
  <1>2. /\ Asked' <=> Asked
        /\ Answered' <=> Answered
    BY DEF Aside, Asked, Answered
  <1>3. \A places \in SUBSET Operating : At(places)' <=> At(places)
    BY DEF Aside, At
  <1>4. /\ At({"sleep"})' <=> At({"sleep"})
        /\ At({"compact", "hold"})' <=> At({"compact", "hold"})
        /\ At({"cancelled", "recover"})' <=> At({"cancelled", "recover"})
    <2>1. /\ {"sleep"} \in SUBSET Operating /\ {"compact", "hold"} \in SUBSET Operating
          /\ {"cancelled", "recover"} \in SUBSET Operating
      BY DEF Operating
    <2> QED BY <1>3, <2>1
  <1>5. CASE UNCHANGED <<base, failedInState, failedInLog>>
    <2>1. CleanInv'
      BY <1>2, <1>4, <1>5
         DEF RetryInv, CleanInv, AskedClean, ToolsClean, AnsweredOnce, BackoffClean,
             Aside, Repeats
    <2>2. RoomInv'
      BY <1>1, <1>2, <1>4, <1>5
         DEF RetryInv, RoomInv, Within, RoomToAsk, RoomToStart, RoomToRetry,
             RoomToRecover, Aside, Repeats, Room, RoomAfresh
    <2> QED BY <2>1, <2>2 DEF RetryInv
  <1>6. CASE base' = "custom" /\ failedInState' = 0 /\ failedInLog' = 0
    <2>1. CleanInv'
      BY <1>2, <1>6
         DEF RetryInv, CleanInv, AskedClean, ToolsClean, AnsweredOnce, BackoffClean,
             Aside, Repeats
    <2>2. RoomInv'
      <3>1. /\ Room' /\ RoomAfresh' /\ failedInLog' <= Limit'
            /\ failedInLog' + Recovery' <= Limit'
            /\ failedInLog' + MaxRetries + Recovery' <= Limit' + attempt'
        BY <1>1, <1>6, CountFacts, LimitFacts DEF Aside, Room, RoomAfresh
      <3>2. attempt' = attempt
        BY DEF Aside
      <3> QED BY <3>1, <3>2
              DEF RetryInv, RoomInv, Within, RoomToAsk, RoomToStart, RoomToRetry,
                  RoomToRecover
    <2> QED BY <2>1, <2>2 DEF RetryInv
  <1> QED BY <1>5, <1>6 DEF Aside

(* A prompt() that compacts first, and the operation that it starts.       *)
LEMMA StartRetry ==
    ASSUME TypeInv, SingleInv, RetryInv, Customs = {}, NEW m \in Msgs, Starts(m)
    PROVE  RetryInv'
  <1>1. /\ at[m] \in {"preflight", "precompact", "prerecover", "ready"}
        /\ m \in Prompts
    BY DEF Starts, BeginPreCompaction, PreCompacted, StartOperation, TypeInv,
           OnlyPrompts, PromptPlaces
  <1>2. at[m] \in InProgress \ {"run"}
    BY <1>1 DEF InProgress, Starting
  <1>3. phase = "none" /\ \A p \in Prompts \ {m} : at[p] \notin InProgress
    BY <1>1, <1>2, NoRunElsewhere DEF SingleInv, OneInProgress
  <1>4. {"sleep", "compact", "hold", "cancelled", "recover"} \subseteq InProgress
    BY DEF InProgress, Operating
  <1>5. stops' = stops /\ Slack' = Slack /\ Limit' = Limit
    BY LimitFacts DEF Starts, BeginPreCompaction, PreCompacted, StartOperation, stopVars
  <1>6. attempt' = attempt /\ failedInLog' = failedInLog
    BY DEF Starts, BeginPreCompaction, PreCompacted, StartOperation, contextVars, loopVars
  <1>7. CASE BeginPreCompaction(m) \/ PreCompacted(m)
    <2>1. phase' = "none"
      BY <1>3, <1>7 DEF BeginPreCompaction, PreCompacted, runVars
    <2>2. PICK place \in {"precompact", "prerecover", "ready"} : Goto(m, place)
      BY <1>7 DEF BeginPreCompaction, PreCompacted
    <2>3. \A p \in Prompts : at'[p] \notin InProgress
                              \/ at'[p] \in {"precompact", "prerecover", "ready"}
      BY <1>1, <1>3, <2>2 DEF Goto, TypeInv, TypeOK
    <2>4. /\ ~At({"sleep"})' /\ ~At({"compact", "hold"})'
          /\ ~At({"cancelled", "recover"})' /\ ~Asked' /\ ~Answered'
      BY <1>4, <2>1, <2>3 DEF At, Asked, Answered
    <2> QED BY <1>5, <1>6, <2>1, <2>4
            DEF RetryInv, CleanInv, AskedClean, ToolsClean, AnsweredOnce, BackoffClean,
                RoomInv, Within, RoomToAsk, RoomToStart, RoomToRetry, RoomToRecover
  <1>8. CASE StartOperation(m)
    <2>1. BeginRun(m, "prompts", <<m>> \o nextTurn)
      BY <1>3, <1>8 DEF StartOperation, RunAgentPrompt
    <2>2. phase' = "prompts" /\ pending' # <<>>
      <3>1. nextTurn \in Seq(Msgs) /\ <<m>> \in Seq(Msgs) /\ Len(<<m>>) = 1
        BY DEF TypeInv, TypeOK
      <3>2. Len(<<m>> \o nextTurn) = 1 + Len(nextTurn) /\ Len(nextTurn) \in Nat
        BY <3>1, ConcatProperties, LenProperties
      <3>3. Len(<<m>> \o nextTurn) # 0
        BY <3>2
      <3> QED BY <2>1, <3>3, EmptySeq DEF BeginRun
    <2>3. \A p \in Prompts : at'[p] = "run" \/ at'[p] \notin InProgress
      BY <1>1, <1>3, <2>1 DEF BeginRun, Goto, TypeInv, TypeOK
    <2>4. /\ ~At({"sleep"})' /\ ~At({"compact", "hold"})'
          /\ ~At({"cancelled", "recover"})' /\ ~Asked' /\ ~Answered'
      BY <1>4, <2>2, <2>3 DEF At, Asked, Answered
    <2> QED BY <1>5, <1>6, <2>2, <2>4
            DEF RetryInv, CleanInv, AskedClean, ToolsClean, AnsweredOnce, BackoffClean,
                RoomInv, Within, RoomToAsk, RoomToStart, RoomToRetry, RoomToRecover
  <1> QED BY <1>7, <1>8 DEF Starts

(* The provider answers.                                                   *)
Responds == \E kind \in Kinds, callsTools \in BOOLEAN : Respond(kind, callsTools)

(* A step of the run loop other than its end: nothing is between two runs. *)
LEMMA RunStepRetry ==
    ASSUME TypeInv, SingleInv, RetryInv, AgentStep, ~AgentEnd
    PROVE  RetryInv'
  <1> USE DEF queueVars, runVars, contextVars, loopVars, stopVars
  <1>1. at' = at /\ phase # "none" /\ stops' = stops
    <2>1. Responds => at' = at /\ phase # "none" /\ stops' = stops
      BY DEF Responds, Respond
    <2>2. ~Responds => at' = at /\ phase # "none" /\ stops' = stops
      BY DEF AgentStep, Responds, InjectPending, EnterLoop, CallProvider, ToolsDone, NextTurn,
             TurnEnd, BeforeStop
    <2> QED BY <2>1, <2>2
  <1>2. /\ ~At({"sleep"})' /\ ~At({"compact", "hold"})' /\ ~At({"cancelled", "recover"})'
    BY <1>1, RunsAlone DEF At
  <1>3. Limit' = Limit /\ Limit \in Nat /\ Limit = 2 * (MaxRetries + 1) + Slack
        /\ Slack \in Nat
    BY <1>1, LimitFacts
  <1>4. /\ failedInState \in Nat /\ failedInLog \in Nat /\ attempt \in Nat
        /\ failedInState <= failedInLog /\ MaxRetries \in Nat
        /\ Recovery \in Nat /\ Recovery <= MaxRetries + 1
    BY CountFacts
  <1>5. PICK r \in Nat : Recovery' = r /\ r <= MaxRetries + 1
    BY <1>4 DEF Recovery
  <1>6. Within
    BY DEF RetryInv, RoomInv
  <1>7. ASSUME CleanInv',
               attempt' \in {0, attempt}, failedInLog' <= Limit',
               Asked' => Room',
               phase' = "ending" /\ last' = "error" =>
                   failedInLog' + MaxRetries + Recovery' <= Limit' + attempt',
               Answered' /\ last' # "error" => failedInLog' + Recovery' <= Limit'
        PROVE  RetryInv'
    <2>1. Within'
      BY <1>4, <1>6, <1>7 DEF Within
    <2> QED BY <1>2, <1>7, <2>1
            DEF RetryInv, RoomInv, RoomToAsk, RoomToStart, RoomToRetry, RoomToRecover
  <1>8. CASE InjectPending
    <2>1. /\ failedInState' = 0 /\ failedInLog' = 0 /\ base' # "assistant"
          /\ phase' \in {"prompts", "steered", "inject"} /\ attempt' = attempt
      BY <1>8 DEF InjectPending, Deliver
    <2>2. CleanInv'
      BY <1>2, <2>1 DEF CleanInv, AskedClean, ToolsClean, AnsweredOnce, BackoffClean,
                        Repeats, Answered
    <2>3. Room'
      BY <1>3, <1>4, <1>5, <2>1 DEF Room
    <2> QED BY <1>3, <1>7, <2>1, <2>2, <2>3 DEF Answered
  <1>9. CASE EnterLoop
    <2>1. /\ Asked /\ phase' = "inject"
          /\ UNCHANGED <<base, failedInState, failedInLog, attempt, recovered>>
      BY <1>9 DEF EnterLoop, Asked
    <2>2. Repeats /\ Room
      BY <2>1 DEF RetryInv, CleanInv, AskedClean, RoomInv, RoomToAsk
    <2>3. Room' /\ Repeats' /\ failedInLog' <= Limit'
      BY <1>3, <1>6, <2>1, <2>2 DEF Room, Repeats, Recovery, Within
    <2>4. CleanInv'
      BY <1>2, <2>1, <2>3 DEF CleanInv, AskedClean, ToolsClean, AnsweredOnce,
                              BackoffClean, Answered
    <2> QED BY <1>7, <2>1, <2>3, <2>4 DEF Answered
  <1>10. CASE CallProvider
    <2>1. /\ Asked /\ phase' = "stream"
          /\ UNCHANGED <<base, failedInState, failedInLog, attempt, recovered>>
      BY <1>10 DEF CallProvider, Asked
    <2>2. Repeats /\ Room
      BY <2>1 DEF RetryInv, CleanInv, AskedClean, RoomInv, RoomToAsk
    <2>3. Room' /\ Repeats' /\ failedInLog' <= Limit'
      BY <1>3, <1>6, <2>1, <2>2 DEF Room, Repeats, Recovery, Within
    <2>4. CleanInv'
      BY <1>2, <2>1, <2>3 DEF CleanInv, AskedClean, ToolsClean, AnsweredOnce,
                              BackoffClean, Answered
    <2> QED BY <1>7, <2>1, <2>3, <2>4 DEF Answered
  <1>11. ASSUME NEW kind \in Kinds, NEW callsTools \in BOOLEAN, Respond(kind, callsTools)
         PROVE  RetryInv'
    <2>1. Repeats /\ Room
      BY <1>11 DEF Respond, Asked, RetryInv, CleanInv, AskedClean, RoomInv, RoomToAsk
    <2>2. last' = kind /\ attempt' = IF kind \in Failures THEN attempt ELSE 0
      BY <1>11 DEF Respond
    <2>3. CASE kind \in Failures \cup {"length"}
      <3>1. /\ failedInState' = 1 /\ failedInLog' = failedInLog + 1
            /\ base' = base /\ Recovery' = Recovery
        BY <1>11, <2>1, <2>3 DEF Respond, Repeats, Recovery
      <3>2. /\ phase' \in {"ending", "turnEnd", "tools"}
            /\ kind = "error" => phase' = "ending"
            /\ phase' = "tools" => kind \notin Failures
        BY <1>11, <2>3 DEF Respond, Failures
      <3>3. ~Asked'
        BY <3>2 DEF Asked
      <3>4. CleanInv'
        BY <1>2, <2>1, <2>2, <3>1, <3>2, <3>3
           DEF CleanInv, AskedClean, ToolsClean, AnsweredOnce, BackoffClean, Repeats
      <3>5. failedInLog' + MaxRetries + Recovery' <= Limit' + attempt
        BY <1>3, <1>4, <2>1, <3>1 DEF Room
      <3>6. failedInLog' + Recovery' <= Limit' /\ failedInLog' <= Limit'
        BY <1>3, <1>4, <1>6, <3>1, <3>5 DEF Within
      <3>7. kind = "error" => attempt' = attempt
        BY <2>2 DEF Failures
      <3>8. attempt' \in {0, attempt}
        BY <2>2
      <3> QED BY <1>7, <2>2, <3>3, <3>4, <3>5, <3>6, <3>7, <3>8
    <2>4. CASE kind \notin Failures \cup {"length"}
      <3>1. /\ failedInState' = 0 /\ failedInLog' = 0
            /\ phase' \in {"tools", "ending", "turnEnd"} /\ kind # "error"
        BY <1>11, <2>4 DEF Respond, Failures
      <3>2. ~Asked'
        BY <3>1 DEF Asked
      <3>3. CleanInv'
        BY <1>2, <2>2, <2>4, <3>1, <3>2
           DEF CleanInv, AskedClean, ToolsClean, AnsweredOnce, BackoffClean
      <3>4. failedInLog' + Recovery' <= Limit' /\ failedInLog' <= Limit'
        BY <1>3, <1>4, <1>5, <3>1
      <3> QED BY <1>7, <2>2, <3>1, <3>2, <3>3, <3>4
    <2> QED BY <2>3, <2>4
  <1>12. CASE ToolsDone
    <2>1. /\ phase = "tools" /\ phase' \in {"nextTurn", "turnEnd"} /\ base' = "toolResult"
          /\ UNCHANGED <<last, attempt, recovered>>
      BY <1>12 DEF ToolsDone
    <2>2. failedInLog' = 0 /\ failedInState' = 0 /\ last \notin Failures
      BY <1>12, <2>1 DEF ToolsDone, RetryInv, CleanInv, ToolsClean
    <2>3. last # "error"
      BY <2>2 DEF Failures
    <2>4. ~Asked'
      BY <2>1 DEF Asked
    <2>5. CleanInv'
      BY <1>2, <2>1, <2>2, <2>3, <2>4
         DEF CleanInv, AskedClean, ToolsClean, AnsweredOnce, BackoffClean
    <2>6. failedInLog' + Recovery' <= Limit' /\ failedInLog' <= Limit'
      BY <1>3, <1>4, <1>5, <2>1, <2>2
    <2> QED BY <1>7, <2>1, <2>3, <2>4, <2>5, <2>6
  <1>13. CASE NextTurn
    <2>1. /\ phase = "nextTurn" /\ phase' = "inject"
          /\ UNCHANGED <<base, failedInState, failedInLog, attempt, recovered>>
      BY <1>13 DEF NextTurn
    <2>2. failedInLog = 0 /\ failedInState = 0 /\ base # "assistant"
      BY <1>4, <2>1 DEF RetryInv, CleanInv, ToolsClean
    <2>3. Room' /\ Repeats' /\ failedInLog' <= Limit'
      BY <1>3, <1>4, <1>5, <2>1, <2>2 DEF Room, Repeats
    <2>4. CleanInv'
      BY <1>2, <2>1, <2>3 DEF CleanInv, AskedClean, ToolsClean, AnsweredOnce,
                              BackoffClean, Answered
    <2> QED BY <1>7, <2>1, <2>3, <2>4 DEF Answered
  <1>14. CASE TurnEnd
    <2>1. /\ phase = "turnEnd"
          /\ UNCHANGED <<base, failedInState, failedInLog, last, attempt, recovered>>
      BY <1>14 DEF TurnEnd
    <2>2. (phase' = "inject" /\ pending' # <<>>) \/ phase' = "stopping"
      BY <1>14, DrainsSome DEF TurnEnd, PollSteering, TypeInv, TypeOK
    <2>3. /\ failedInState = 0 => failedInLog = 0
          /\ last # "error" /\ failedInLog + Recovery <= Limit
      BY <2>1 DEF RetryInv, CleanInv, AnsweredOnce, Answered, RoomInv, RoomToRecover
    <2>4. ~Asked'
      BY <2>2 DEF Asked
    <2>5. CleanInv'
      BY <1>2, <2>1, <2>2, <2>3, <2>4
         DEF CleanInv, AskedClean, ToolsClean, AnsweredOnce, BackoffClean
    <2>6. failedInLog' + Recovery' <= Limit' /\ failedInLog' <= Limit'
      BY <1>3, <1>6, <2>1, <2>3 DEF Recovery, Within
    <2> QED BY <1>7, <2>1, <2>2, <2>3, <2>4, <2>5, <2>6
  <1>15. CASE BeforeStop
    <2>1. phase = "stopping" /\ UNCHANGED <<last, attempt, recovered>>
      BY <1>15 DEF BeforeStop
    <2>2. /\ failedInState = 0 => failedInLog = 0
          /\ last # "error" /\ failedInLog + Recovery <= Limit
      BY <2>1 DEF RetryInv, CleanInv, AnsweredOnce, Answered, RoomInv, RoomToRecover
    <2>3. CASE /\ base' = "custom" /\ failedInState' = 0 /\ failedInLog' = 0
               /\ phase' = "inject"
      <3>1. CleanInv'
        BY <1>2, <2>3 DEF CleanInv, AskedClean, ToolsClean, AnsweredOnce, BackoffClean,
                          Repeats, Answered
      <3>2. Room' /\ failedInLog' <= Limit'
        BY <1>3, <1>4, <1>5, <2>1, <2>3 DEF Room
      <3> QED BY <1>7, <2>1, <2>3, <3>1, <3>2 DEF Answered
    <2>4. CASE phase' = "ending" /\ UNCHANGED <<base, failedInState, failedInLog>>
      <3>1. ~Asked'
        BY <2>4 DEF Asked
      <3>2. CleanInv'
        BY <1>2, <2>1, <2>2, <2>4, <3>1
           DEF CleanInv, AskedClean, ToolsClean, AnsweredOnce, BackoffClean
      <3>3. failedInLog' + Recovery' <= Limit' /\ failedInLog' <= Limit'
        BY <1>3, <1>6, <2>1, <2>2, <2>4 DEF Recovery, Within
      <3> QED BY <1>7, <2>1, <2>2, <2>4, <3>1, <3>2, <3>3
    <2> QED BY <1>15, <2>3, <2>4 DEF BeforeStop
  <1> QED BY <1>8, <1>9, <1>10, <1>11, <1>12, <1>13, <1>14, <1>15 DEF AgentStep

(* The end of a run: a retry, a recovery, or the end of the operation.     *)
LEMMA AgentEndRetry ==
    ASSUME TypeInv, SingleInv, RetryInv, Customs = {}, AgentEnd
    PROVE  RetryInv'
  <1>1. /\ phase = "ending" /\ phase' = "none" /\ owner \in Prompts
        /\ \A p \in Prompts \ {owner} : at[p] \notin InProgress
        /\ UNCHANGED <<base, failedInLog, stops>>
    <2>1. phase = "ending" /\ owner \in Prompts /\ at[owner] = "run"
      BY DEF AgentEnd, SingleInv, RunInOperation
    <2>2. "run" \in InProgress
      BY DEF InProgress, Operating
    <2> QED BY <2>1, <2>2 DEF AgentEnd, SingleInv, OneInProgress, stopVars
  <1>2. /\ failedInState \in Nat /\ failedInLog \in Nat /\ attempt \in Nat
        /\ failedInState <= failedInLog /\ MaxRetries \in Nat
        /\ Recovery \in Nat /\ Recovery <= MaxRetries + 1
        /\ Limit' = Limit /\ Limit \in Nat
        /\ attempt <= MaxRetries /\ failedInLog <= Limit
    BY <1>1, CountFacts, LimitFacts DEF RetryInv, RoomInv, Within
  <1>3. ~Asked' /\ ~Answered' /\ phase' \notin {"tools", "nextTurn"}
    BY <1>1 DEF Asked, Answered
  <1>4. failedInState = 0 => failedInLog = 0
    BY <1>1 DEF RetryInv, CleanInv, AnsweredOnce, Answered
  <1>5. ASSUME NEW place, Goto(owner, place)
        PROVE  \A p \in Prompts : at'[p] = place \/ at'[p] \notin InProgress
    BY <1>1, <1>5, StartersAreMessages DEF Goto, Starters, TypeInv, TypeOK
  <1>6. {"sleep", "cancelled", "recover", "compact", "hold"} \subseteq InProgress
    BY DEF InProgress, Operating
  <1>7. CASE WillRetry
    <2>1. /\ last = "error" /\ attempt < MaxRetries
          /\ Goto(owner, "sleep") /\ attempt' = attempt + 1
          /\ failedInState' = DropFailed(failedInState) /\ recovered' = recovered
      BY <1>7 DEF AgentEnd, WillRetry
    <2>2. failedInState <= 1 /\ base # "assistant"
      BY <1>1, <2>1 DEF RetryInv, CleanInv, AnsweredOnce, Answered
    <2>3. failedInState' = 0
      BY <1>2, <2>1, <2>2 DEF DropFailed
    <2>4. failedInLog + MaxRetries + Recovery <= Limit + attempt
      BY <1>1, <2>1 DEF RetryInv, RoomInv, RoomToRetry
    <2>5. Recovery' = Recovery
      BY <2>1 DEF Recovery
    <2>6. Room' /\ Within'
      BY <1>1, <1>2, <2>1, <2>4, <2>5 DEF Room, Within
    <2>7. ~At({"compact", "hold"})' /\ ~At({"cancelled", "recover"})'
      BY <1>5, <1>6, <2>1 DEF At
    <2>8. CleanInv'
      BY <1>1, <1>3, <2>2, <2>3
         DEF CleanInv, AskedClean, ToolsClean, AnsweredOnce, BackoffClean, Repeats
    <2>9. RoomInv'
      BY <1>1, <1>3, <2>6, <2>7
         DEF RoomInv, RoomToAsk, RoomToStart, RoomToRetry, RoomToRecover
    <2> QED BY <2>8, <2>9 DEF RetryInv
  <1>8. CASE ~WillRetry
    <2>1. CheckCompaction(owner, last) /\ attempt' \in {0, attempt}
      BY <1>8 DEF AgentEnd
    <2>2. PICK decision \in Decisions(last) :
             IF decision = "recover"
             THEN /\ Goto(owner, "recover")
                  /\ recovered' = TRUE
                  /\ failedInState' = DropFailed(failedInState)
             ELSE /\ Goto(owner, IF decision = "compact" THEN "compact" ELSE "hold")
                  /\ UNCHANGED <<recovered, failedInState>>
      BY <2>1 DEF CheckCompaction
    <2>3. Within' /\ attempt' \in Nat
      BY <1>1, <1>2, <2>1 DEF Within
    <2>4. CASE decision = "recover"
      <3>1. ~recovered /\ last # "error"
        BY <2>2, <2>4 DEF Decisions
      <3>2. failedInLog + Recovery <= Limit /\ Recovery = MaxRetries + 1
        BY <1>1, <3>1, CountFacts DEF RetryInv, RoomInv, RoomToRecover, Answered
      <3>3. Recovery' = 0
        BY <2>2, <2>4 DEF Recovery
      <3>4. RoomAfresh'
        BY <1>1, <1>2, <3>2, <3>3 DEF RoomAfresh
      <3>5. ~At({"sleep"})' /\ ~At({"compact", "hold"})'
        BY <1>5, <1>6, <2>2, <2>4 DEF At
      <3>6. CleanInv'
        BY <1>3, <3>5 DEF CleanInv, AskedClean, ToolsClean, AnsweredOnce, BackoffClean
      <3>7. RoomInv'
        BY <1>1, <1>3, <2>3, <3>4, <3>5
           DEF RoomInv, RoomToAsk, RoomToStart, RoomToRetry, RoomToRecover
      <3> QED BY <3>6, <3>7 DEF RetryInv
    <2>5. CASE decision # "recover"
      <3>1. PICK place \in {"compact", "hold"} : Goto(owner, place)
        BY <2>2, <2>5
      <3>2. ~At({"sleep"})' /\ ~At({"cancelled", "recover"})'
        BY <1>5, <1>6, <3>1 DEF At
      <3>3. failedInState' = failedInState /\ Recovery' = Recovery
        BY <2>2, <2>5 DEF Recovery
      <3>4. Repeats' => Room'
        <4>1. ASSUME failedInLog = 0
              PROVE  Room'
          <5>1. Limit = 2 * (MaxRetries + 1) + Slack /\ Slack \in Nat
            BY LimitFacts
          <5>2. PICK a \in Nat : attempt' = a
            BY <2>3
          <5> QED BY <1>1, <1>2, <3>3, <4>1, <5>1, <5>2 DEF Room
        <4> QED BY <1>4, <3>3, <4>1 DEF Repeats
      <3>5. CleanInv'
        BY <1>3, <3>2 DEF CleanInv, AskedClean, ToolsClean, AnsweredOnce, BackoffClean
      <3>6. RoomInv'
        BY <1>1, <1>3, <2>3, <3>2, <3>4
           DEF RoomInv, RoomToAsk, RoomToStart, RoomToRetry, RoomToRecover
      <3> QED BY <3>5, <3>6 DEF RetryInv
    <2> QED BY <2>4, <2>5
  <1> QED BY <1>7, <1>8

(* agent.continue(): what it asks of the transcript.                       *)
LEMMA ContinueRetry ==
    ASSUME TypeInv, SingleInv, RetryInv, Customs = {}, NEW o \in Prompts,
           at[o] \in InProgress \ {"run"}, NEW afterAssistant,
           Continue(o, afterAssistant),
           UNCHANGED <<base, failedInLog, attempt, recovered, stops>>,
           ~afterAssistant => Repeats' /\ Room
    PROVE  RetryInv'
  <1>1. Continued(o, afterAssistant)
    BY Continues
  <1>2. {"sleep", "cancelled", "recover", "compact", "hold"} \subseteq InProgress
    BY DEF InProgress, Operating
  <1>3. /\ ~At({"sleep"})' /\ ~At({"compact", "hold"})' /\ ~At({"cancelled", "recover"})'
        /\ ~Answered' /\ phase' \notin {"tools", "nextTurn"}
    BY <1>1, <1>2 DEF Continued, At, Answered
  <1>4. Asked' => ~afterAssistant
    BY <1>1 DEF Continued, Asked
  <1>5. Limit' = Limit /\ Recovery' = Recovery
    BY LimitFacts DEF Recovery
  <1>6. CleanInv'
    BY <1>3, <1>4 DEF CleanInv, AskedClean, ToolsClean, AnsweredOnce, BackoffClean
  <1>7. Within' /\ (Room => Room')
    BY <1>5 DEF RetryInv, RoomInv, Within, Room
  <1>8. RoomInv'
    BY <1>3, <1>4, <1>7 DEF RoomInv, RoomToAsk, RoomToStart, RoomToRetry,
                            RoomToRecover, Answered
  <1> QED BY <1>6, <1>8 DEF RetryInv

(* An operation goes on to a place from which it continues later.          *)
LEMMA HoldRetry ==
    ASSUME TypeInv, SingleInv, RetryInv, Customs = {}, NEW o \in Prompts,
           at[o] \in InProgress \ {"run"},
           NEW place \in {"compact", "hold", "settle", "over"}, Goto(o, place),
           phase' = phase, UNCHANGED <<base, failedInLog, recovered, stops>>,
           attempt' \in {0, attempt},
           place \in {"compact", "hold"} /\ Repeats' => Room'
    PROVE  RetryInv'
  <1>1. /\ at \in [Msgs -> Places] /\ \A p \in Prompts : p \in Msgs
        /\ attempt \in Nat /\ MaxRetries \in Nat
    BY StartersAreMessages, SettingsAssumption DEF TypeInv, TypeOK, Starters
  <1>2. {"sleep", "cancelled", "recover", "compact", "hold"} \subseteq InProgress
    BY DEF InProgress, Operating
  <1>3. phase = "none" /\ \A p \in Prompts \ {o} : at[p] \notin InProgress
    BY NoRunElsewhere DEF SingleInv, OneInProgress
  <1>4. \A p \in Prompts : at'[p] = place \/ at'[p] \notin InProgress
    BY <1>1, <1>3 DEF Goto
  <1>5. /\ ~At({"sleep"})' /\ ~At({"cancelled", "recover"})'
        /\ At({"compact", "hold"})' => place \in {"compact", "hold"}
        /\ ~Asked' /\ ~Answered' /\ phase' \notin {"tools", "nextTurn"}
    BY <1>2, <1>3, <1>4 DEF At, Asked, Answered
  <1>6. Limit' = Limit
    BY LimitFacts
  <1>7. Within'
    BY <1>1, <1>6 DEF RetryInv, RoomInv, Within
  <1>8. CleanInv'
    BY <1>5 DEF CleanInv, AskedClean, ToolsClean, AnsweredOnce, BackoffClean
  <1>9. RoomInv'
    BY <1>3, <1>5, <1>7
       DEF RoomInv, RoomToAsk, RoomToStart, RoomToRetry, RoomToRecover
  <1> QED BY <1>8, <1>9 DEF RetryInv

(* The Operation Loop between two runs.                                    *)
LEMMA OperationRetry ==
    ASSUME TypeInv, SingleInv, RetryInv, Customs = {}, NEW o \in Prompts,
           OperationStep(o)
    PROVE  RetryInv'
  <1> USE DEF runVars, contextVars, loopVars, stopVars
  <1>1. {"sleep", "cancelled", "recover", "compact", "hold", "settle"}
            \subseteq InProgress \ {"run"}
    BY DEF InProgress, Operating
  <1>2. /\ failedInState \in Nat /\ failedInLog \in Nat /\ attempt \in Nat
        /\ failedInState <= failedInLog /\ MaxRetries \in Nat
        /\ Recovery \in Nat /\ Limit \in Nat
    BY CountFacts, LimitFacts
  <1>3. stops' = stops /\ Limit' = Limit /\ UNCHANGED <<base, failedInLog>>
    <2>1. stops' = stops /\ UNCHANGED <<base, failedInLog>>
      BY DEF OperationStep, RetryElapsed, RetryCancelled, Recovered, Compacted,
             HoldReleased, HoldExpired, Settled
    <2> QED BY <2>1, LimitFacts
  <1>4. ASSUME at[o] \in {"compact", "hold"}, Repeats
        PROVE  Room
    BY <1>4 DEF RetryInv, RoomInv, RoomToAsk, At
  <1>5. CASE RetryElapsed(o)
    <2>1. /\ at[o] = "sleep" /\ Continue(o, failedInState > 0 \/ base = "assistant")
          /\ UNCHANGED <<failedInState, attempt, recovered>>
      BY <1>5 DEF RetryElapsed
    <2>2. Repeats /\ Room
      BY <2>1 DEF RetryInv, CleanInv, BackoffClean, RoomInv, RoomToAsk, At
    <2>3. Repeats'
      BY <1>3, <2>1, <2>2 DEF Repeats
    <2> QED BY <1>1, <1>3, <2>1, <2>2, <2>3, ContinueRetry
  <1>6. CASE RetryCancelled(o)
    <2>1. /\ at[o] = "cancelled" /\ attempt' = 0 /\ CheckCompaction(o, "error")
          /\ phase' = phase
      BY <1>6 DEF RetryCancelled
    <2>2. PICK decision \in Decisions("error") :
             IF decision = "recover"
             THEN Goto(o, "recover")
             ELSE /\ Goto(o, IF decision = "compact" THEN "compact" ELSE "hold")
                  /\ UNCHANGED <<recovered, failedInState>>
      BY <2>1 DEF CheckCompaction
    <2>3. decision # "recover"
      BY <2>2 DEF Decisions
    <2>4. RoomAfresh
      BY <2>1 DEF RetryInv, RoomInv, RoomToStart, At
    <2>5. Recovery' = Recovery
      BY <2>2, <2>3 DEF Recovery
    <2>6. Room'
      BY <1>2, <1>3, <2>1, <2>4, <2>5 DEF Room, RoomAfresh
    <2>7. PICK place \in {"compact", "hold"} : Goto(o, place)
      BY <2>2, <2>3
    <2> QED BY <1>1, <1>3, <2>1, <2>2, <2>3, <2>6, <2>7, HoldRetry
  <1>7. CASE Recovered(o)
    <2>1. at[o] = "recover" /\ UNCHANGED <<attempt, recovered>>
      BY <1>7 DEF Recovered
    <2>2. RoomAfresh
      BY <2>1 DEF RetryInv, RoomInv, RoomToStart, At
    <2>3. Room
      BY <1>2, <2>2 DEF Room, RoomAfresh
    <2>4. CASE /\ failedInState' = DropFailed(failedInLog)
               /\ Continue(o, failedInState' > 0 \/ base = "assistant")
      <3>1. failedInState' \in Nat
        BY <1>2, <2>4 DEF DropFailed
      <3>2. ~(failedInState' > 0 \/ base = "assistant") => Repeats'
        BY <1>3, <3>1 DEF Repeats
      <3> QED BY <1>1, <1>3, <2>1, <2>3, <2>4, <3>2, ContinueRetry
    <2>5. CASE Goto(o, "hold") /\ phase' = phase
      <3>1. Room'
        BY <1>3, <2>1, <2>3 DEF Room, Recovery
      <3> QED BY <1>1, <1>3, <2>1, <2>5, <3>1, HoldRetry
    <2> QED BY <1>7, <2>4, <2>5 DEF Recovered
  <1>8. CASE Compacted(o)
    <2>1. at[o] = "compact" /\ UNCHANGED <<attempt, recovered>>
      BY <1>8 DEF Compacted
    <2>2. Recovery' = Recovery
      BY <2>1 DEF Recovery
    <2>3. ASSUME failedInState' = failedInLog, Repeats'
          PROVE  Room /\ Room'
      <3>1. failedInLog = 0
        BY <2>3 DEF Repeats
      <3>2. Room
        BY <3>1, RoomFirst
      <3> QED BY <1>3, <2>1, <2>2, <3>2 DEF Room
    <2>4. CASE failedInState' = failedInLog /\ Continue(o, failedInState' > 0 \/ base = "assistant")
      <3>1. ~(failedInState' > 0 \/ base = "assistant") => Repeats' /\ Room
        BY <1>2, <1>3, <2>3, <2>4 DEF Repeats
      <3> QED BY <1>1, <1>3, <2>1, <2>4, <3>1, ContinueRetry
    <2>5. CASE Goto(o, "hold") /\ phase' = phase /\ failedInState' \in {failedInState, failedInLog}
      <3>1. Repeats' => Room'
        <4>1. CASE failedInState' = failedInLog
          BY <2>3, <4>1
        <4>2. CASE failedInState' = failedInState
          <5>1. Repeats' => Repeats
            BY <1>3, <4>2 DEF Repeats
          <5> QED BY <1>3, <1>4, <2>1, <2>2, <5>1 DEF Room
        <4> QED BY <2>5, <4>1, <4>2
      <3> QED BY <1>1, <1>3, <2>1, <2>5, <3>1, HoldRetry
    <2> QED BY <1>8, <2>4, <2>5 DEF Compacted
  <1>9. CASE HoldReleased(o) \/ HoldExpired(o)
    <2>1. /\ at[o] = "hold" /\ ContinueOrSettle(o)
          /\ UNCHANGED <<failedInState, attempt, recovered>>
      BY <1>9 DEF HoldReleased, HoldExpired
    <2>2. CASE Continue(o, failedInState > 0 \/ base = "assistant")
      <3>1. ~(failedInState > 0 \/ base = "assistant") => Repeats' /\ Room
        BY <1>2, <1>3, <1>4, <2>1 DEF Repeats
      <3> QED BY <1>1, <1>3, <2>1, <2>2, <3>1, ContinueRetry
    <2>3. CASE Goto(o, "settle") /\ phase' = phase
      BY <1>1, <1>3, <2>1, <2>3, HoldRetry
    <2> QED BY <2>1, <2>2, <2>3 DEF ContinueOrSettle
  <1>10. CASE Settled(o)
    <2>1. /\ at[o] = "settle" /\ Goto(o, "over") /\ phase' = phase
          /\ UNCHANGED <<attempt, recovered>>
      BY <1>10 DEF Settled
    <2> QED BY <1>1, <1>3, <2>1, HoldRetry
  <1> QED BY <1>5, <1>6, <1>7, <1>8, <1>9, <1>10 DEF OperationStep

(* A stop cancels a backoff, and pays for the retries that may follow.     *)
LEMMA StopRetry ==
    ASSUME TypeInv, RetryInv, Channel, StopStep
    PROVE  RetryInv'
  <1>1. Stop
    BY DEF StopStep, CallAbort, CallClearQueue
  <1>2. /\ stops' = stops + 1
        /\ UNCHANGED <<phase, pending, base, failedInState, failedInLog, last,
                       attempt, recovered>>
    BY <1>1 DEF Stop, contextVars, loopVars
  <1>3. \A p \in Prompts : at'[p] = IF at[p] = "sleep" THEN "cancelled" ELSE at[p]
    BY <1>1, StartersAreMessages DEF Stop, Abort, Starters
  <1>4. /\ Limit' = Limit + MaxRetries /\ Limit \in Nat /\ MaxRetries \in Nat
        /\ failedInLog \in Nat /\ attempt \in Nat
        /\ Recovery' = Recovery /\ Recovery \in Nat
        /\ attempt <= MaxRetries /\ failedInLog <= Limit
    BY <1>2, LimitFacts, CountFacts DEF RetryInv, RoomInv, Within, Recovery
  <1>5. /\ ~At({"sleep"})'
        /\ At({"compact", "hold"})' => At({"compact", "hold"})
        /\ At({"cancelled", "recover"})' => At({"sleep"}) \/ At({"cancelled", "recover"})
    BY <1>3 DEF At
  <1>6. /\ Asked' <=> Asked
        /\ Answered' <=> Answered
        /\ Repeats' <=> Repeats
    BY <1>2 DEF Asked, Answered, Repeats
  <1>7. CleanInv'
    BY <1>2, <1>5, <1>6
       DEF RetryInv, CleanInv, AskedClean, ToolsClean, AnsweredOnce, BackoffClean
  <1>8. /\ Room => Room' /\ RoomAfresh'
        /\ RoomAfresh => RoomAfresh'
    BY <1>2, <1>4 DEF Room, RoomAfresh
  <1>9. Within'
    BY <1>2, <1>4 DEF Within
  <1>10. RoomToAsk' /\ RoomToStart'
    BY <1>5, <1>6, <1>8 DEF RetryInv, RoomInv, RoomToAsk, RoomToStart
  <1>11. RoomToRetry' /\ RoomToRecover'
    BY <1>2, <1>4, <1>6 DEF RetryInv, RoomInv, RoomToRetry, RoomToRecover
  <1> QED BY <1>7, <1>9, <1>10, <1>11 DEF RetryInv, RoomInv

LEMMA RetryStep ==
    ASSUME TypeInv, SingleInv, RetryInv, Channel, Customs = {}, [Next]_vars
    PROVE  RetryInv'
  <1>1. ASSUME UNCHANGED vars
        PROVE  RetryInv'
    <2>1. Aside
      BY <1>1 DEF Aside, vars, runVars, contextVars, loopVars, stopVars
    <2> QED BY <2>1, AsideRetry
  <1>2. Quiet => UNCHANGED vars
    BY DEF Quiet
  <1>3. ASSUME NEW m \in Msgs, SubmitStep(m)
        PROVE  RetryInv'
    <2>1. CASE Starts(m)
      BY <2>1, StartRetry
    <2>2. CASE ~Starts(m)
      BY <1>3, <2>2, StepsAside, AsideRetry
    <2> QED BY <2>1, <2>2
  <1>4. StartSubmit => RetryInv'
    BY StepsAside, AsideRetry
  <1>5. AgentStep => RetryInv'
    BY RunStepRetry, AgentEndRetry
  <1> QED BY <1>1, <1>2, <1>3, <1>4, <1>5, OperationRetry, StopRetry,
             StartersArePrompts DEF Next

LEMMA RetryInit ==
    ASSUME Init
    PROVE  RetryInv
  <1>1. \A p \in Prompts : at[p] = "new"
    BY StartersAreMessages DEF Init, Starters
  <1>2. /\ phase = "none" /\ attempt = 0 /\ failedInLog = 0
    BY DEF Init
  <1>3. /\ ~At({"sleep"}) /\ ~At({"compact", "hold"}) /\ ~At({"cancelled", "recover"})
        /\ ~Asked /\ ~Answered
    BY <1>1, <1>2 DEF At, Asked, Answered
  <1>4. Within
    BY <1>2, TypeInit, LimitFacts DEF Within
  <1> QED BY <1>2, <1>3, <1>4
          DEF RetryInv, CleanInv, AskedClean, ToolsClean, AnsweredOnce, BackoffClean,
              RoomInv, RoomToAsk, RoomToStart, RoomToRetry, RoomToRecover

(* Behind a Channel Session the invariant holds always.                    *)
LEMMA RetryAlways ==
    ASSUME Channel, Customs = {}
    PROVE  Spec => [](TypeInv /\ SingleInv /\ RetryInv)
  <1>1. Init => TypeInv /\ SingleInv /\ RetryInv
    BY TypeInit, SingleInit, RetryInit
  <1>2. TypeInv /\ SingleInv /\ RetryInv /\ [Next]_vars
            => TypeInv' /\ SingleInv' /\ RetryInv'
    BY TypeStep, SingleStep, RetryStep
  <1> QED BY <1>1, <1>2, PTL DEF Spec

(* A run is retried at most MaxRetries times, and no failed response that  *)
(* is retried is left for the model to see (retry-budget.ts, agentEnded).  *)
THEOREM RetriesHideTheFailure ==
    ASSUME Channel, Customs = {}
    PROVE  Spec => []RetryHidesFailure
  <1>1. TypeInv /\ SingleInv /\ RetryInv => RetryHidesFailure
    BY StartersArePrompts
       DEF RetryInv, RoomInv, Within, CleanInv, BackoffClean, At, Repeats,
           RetryHidesFailure
  <1> QED BY <1>1, RetryAlways, PTL

(* Retries and the overflow recovery together are bounded: two budgets of  *)
(* requests fail in a row, and one more for each stop that cancels a       *)
(* backoff, for every mix of failures and whatever is queued meanwhile.    *)
THEOREM FailuresAreBounded ==
    ASSUME Channel, Customs = {}
    PROVE  Spec => []FailuresBounded
  <1>1. TypeInv /\ SingleInv /\ RetryInv => FailuresBounded
    BY DEF RetryInv, RoomInv, Within, Limit, Slack, FailuresBounded
  <1> QED BY <1>1, RetryAlways, PTL

-----------------------------------------------------------------------------
(* Settling.  A completed overflow recovery may be refused by the agent    *)
(* and then settles without an outcome (RecoveryContinues is violated), so *)
(* what follows is about sessions in which no recovery can begin.          *)

NoRecovery == ~AutoCompaction \/ Responses \cap {"overflow", "length"} = {}

SettleInv ==
    /\ last \in Responses \cup {"aborted", "none"}
    /\ ~At({"recover"})
    /\ \A p \in Prompts : at[p] = "settle" => outcomes = 1

(* A steering or follow-up message in intake is one that the hold waits    *)
(* for, or one it has given up; when the session is idle, the latter.      *)
Caught ==
    \A m \in Steers \cup FollowUps :
        at[m] = "intake" => /\ m \in held \cup expired
                            /\ ~active => m \in expired

StrandInv == Caught /\ NothingStranded

(* Without a recovery the decision after a run is one of the others.       *)
LEMMA NoRecoveryDecided ==
    ASSUME NoRecovery, NEW kind \in Responses \cup {"aborted", "none", "error"}
    PROVE  "recover" \notin Decisions(kind)
  BY DEF NoRecovery, Decisions

(* Between two runs an operation goes on, or its hold ends and it settles  *)
(* with nothing queued and its outcome recorded.                           *)
LEMMA OperationSettles ==
    ASSUME TypeInv, SingleInv, RetryInv, SettleInv, NoRecovery, Customs = {},
           NEW o \in Prompts, OperationStep(o)
    PROVE  \/ Settled(o) /\ at'[o] = "over"
           \/ active' = TRUE /\ at'[o] \in Operating \ {"recover"}
           \/ /\ HoldReleased(o) \/ HoldExpired(o)
              /\ ~QueuedMessages /\ at'[o] = "settle" /\ outcomes' = 1
              /\ UNCHANGED <<steerQ, followQ>>
  <1> USE DEF runVars, contextVars, loopVars, stopVars
  <1>1. {"sleep", "cancelled", "recover", "compact", "hold"} \subseteq InProgress \ {"run"}
    BY DEF InProgress, Operating
  <1>2. /\ {"sleep", "cancelled", "recover", "compact", "hold"} \subseteq Operating
        /\ {"run", "compact", "hold"} \subseteq Operating \ {"recover"}
        /\ at \in [Msgs -> Places] /\ o \in Msgs /\ active \in BOOLEAN
        /\ failedInState \in Nat
    BY StartersAreMessages DEF Operating, Starters, TypeInv, TypeOK
  <1>3. at[o] \in Operating => active = TRUE
    BY <1>2 DEF SingleInv, ActiveInOperation
  <1>4. at[o] # "recover"
    BY DEF SettleInv, At
  <1>5. at[o] \in {"compact", "hold"} => outcomes = 1
    BY StartersArePrompts DEF SingleInv, OutcomeRecorded
  <1>6. CASE RetryElapsed(o)
    <2>1. /\ at[o] = "sleep" /\ Continue(o, failedInState > 0 \/ base = "assistant")
      BY <1>6 DEF RetryElapsed
    <2>2. ~(failedInState > 0 \/ base = "assistant")
      BY <2>1 DEF RetryInv, CleanInv, BackoffClean, At, Repeats
    <2>3. Continued(o, failedInState > 0 \/ base = "assistant")
      BY <1>1, <2>1, Continues
    <2> QED BY <1>2, <2>2, <2>3 DEF Continued
  <1>7. CASE RetryCancelled(o)
    <2>1. /\ at[o] = "cancelled" /\ CheckCompaction(o, "error") /\ active' = active
      BY <1>7 DEF RetryCancelled
    <2>2. PICK decision \in Decisions("error") :
             IF decision = "recover"
             THEN Goto(o, "recover")
             ELSE Goto(o, IF decision = "compact" THEN "compact" ELSE "hold")
      BY <2>1 DEF CheckCompaction
    <2>3. decision # "recover"
      BY <2>2, NoRecoveryDecided
    <2>4. PICK place \in {"compact", "hold"} : Goto(o, place)
      BY <2>2, <2>3
    <2> QED BY <1>2, <1>3, <2>1, <2>4 DEF Goto
  <1>8. ~Recovered(o)
    BY <1>4 DEF Recovered
  <1>9. ASSUME at[o] \in {"compact", "hold"}, QueuedMessages, NEW afterAssistant,
               Continue(o, afterAssistant)
        PROVE  active' = TRUE /\ at'[o] \in Operating \ {"recover"}
    <2>1. Continued(o, afterAssistant)
      BY <1>1, <1>9, Continues
    <2> QED BY <1>2, <1>9, <2>1 DEF Continued
  <1>10. CASE Compacted(o)
    <2>1. at[o] = "compact"
      BY <1>10 DEF Compacted
    <2>2. CASE QueuedMessages /\ Continue(o, failedInState' > 0 \/ base = "assistant")
      BY <1>9, <2>1, <2>2
    <2>3. CASE Goto(o, "hold") /\ active' = active
      BY <1>2, <1>3, <2>1, <2>3 DEF Goto
    <2> QED BY <1>10, <2>2, <2>3 DEF Compacted
  <1>11. CASE HoldReleased(o) \/ HoldExpired(o)
    <2>1. at[o] = "hold" /\ ContinueOrSettle(o)
      BY <1>11 DEF HoldReleased, HoldExpired
    <2>2. CASE QueuedMessages
      BY <1>9, <2>1, <2>2 DEF ContinueOrSettle
    <2>3. CASE ~QueuedMessages
      <3>1. Goto(o, "settle") /\ UNCHANGED <<outcomes, steerQ, followQ>>
        BY <2>1, <2>3 DEF ContinueOrSettle
      <3> QED BY <1>2, <1>5, <1>11, <2>1, <2>3, <3>1 DEF Goto
    <2> QED BY <2>2, <2>3
  <1>12. CASE Settled(o)
    BY <1>2, <1>12 DEF Settled, Goto
  <1> QED BY <1>6, <1>7, <1>8, <1>10, <1>11, <1>12 DEF OperationStep

(* Between two runs, and when one ends, only this operation moves.         *)
LEMMA OperationAlone ==
    ASSUME TypeInv, SingleInv, Customs = {}, NEW o \in Prompts,
           at[o] \in InProgress, NEW place, Goto(o, place)
    PROVE  /\ \A p \in Prompts \ {o} : at'[p] \notin InProgress
           /\ \A m \in Msgs \ {o} : at'[m] = at[m]
  <1>1. \A p \in Prompts : p \in Msgs
    BY StartersAreMessages DEF Starters
  <1>2. \A p \in Prompts \ {o} : at[p] \notin InProgress
    BY DEF SingleInv, OneInProgress
  <1> QED BY <1>1, <1>2 DEF Goto, TypeInv, TypeOK

(* Every step of the Operation Loop takes its operation to one place.      *)
LEMMA OperationGoes ==
    ASSUME SingleInv, NEW o \in Prompts, OperationStep(o)
    PROVE  at[o] \in InProgress /\ \E place : Goto(o, place)
  <1>1. {"sleep", "cancelled", "recover", "compact", "hold", "settle"} \subseteq InProgress
    BY DEF InProgress, Operating
  <1>2. \A after : Continue(o, after) => \E place : Goto(o, place)
    BY DEF Continue, BeginRun, Refuse
  <1>3. ContinueOrSettle(o) => \E place : Goto(o, place)
    BY <1>2 DEF ContinueOrSettle
  <1>4. \A kind : CheckCompaction(o, kind) => \E place : Goto(o, place)
    BY DEF CheckCompaction
  <1>5. CASE RetryElapsed(o)
    BY <1>1, <1>2, <1>5 DEF RetryElapsed
  <1>6. CASE RetryCancelled(o)
    BY <1>1, <1>4, <1>6 DEF RetryCancelled
  <1>7. CASE Recovered(o)
    BY <1>1, <1>2, <1>7 DEF Recovered
  <1>8. CASE Compacted(o)
    BY <1>1, <1>2, <1>8 DEF Compacted
  <1>9. CASE HoldReleased(o) \/ HoldExpired(o)
    BY <1>1, <1>3, <1>9 DEF HoldReleased, HoldExpired
  <1>10. CASE Settled(o)
    BY <1>1, <1>10 DEF Settled
  <1> QED BY <1>5, <1>6, <1>7, <1>8, <1>9, <1>10 DEF OperationStep

LEMMA SettleStep ==
    ASSUME TypeInv, SingleInv, RetryInv, SettleInv, NoRecovery, Channel,
           Customs = {}, [Next]_vars
    PROVE  SettleInv'
  <1> USE DEF runVars, contextVars, loopVars, stopVars
  <1>1. {"recover", "settle"} \subseteq InProgress
    BY DEF InProgress, Operating
  <1>2. CASE Aside
    BY <1>2 DEF Aside, SettleInv, At, Operating
  <1>3. ASSUME NEW m \in Msgs, BeginPreCompaction(m) \/ PreCompacted(m)
        PROVE  SettleInv'
    <2>1. PICK place \in {"precompact", "prerecover", "ready"} : Goto(m, place)
      BY <1>3 DEF BeginPreCompaction, PreCompacted
    <2>2. UNCHANGED <<last, outcomes>>
      BY <1>3 DEF BeginPreCompaction, PreCompacted
    <2>3. \A p \in Prompts : at'[p] = at[p] \/ at'[p] \notin {"recover", "settle"}
      BY <2>1, StartersAreMessages DEF Goto, TypeInv, TypeOK, Starters
    <2> QED BY <2>2, <2>3 DEF SettleInv, At
  <1>4. ASSUME NEW m \in Msgs, StartOperation(m)
        PROVE  SettleInv'
    <2>1. m \in Prompts /\ at[m] \in InProgress \ {"run"}
      BY <1>4 DEF StartOperation, TypeInv, OnlyPrompts, PromptPlaces, InProgress,
                  Starting
    <2>2. Goto(m, "run") /\ last' = last
      BY <1>4, <2>1, NoRunElsewhere DEF StartOperation, RunAgentPrompt, BeginRun
    <2>3. \A p \in Prompts \ {m} : at'[p] \notin InProgress
      BY <2>1, <2>2, OperationAlone
    <2>4. at'[m] = "run"
      BY <2>2 DEF Goto, TypeInv, TypeOK
    <2> QED BY <1>1, <2>2, <2>3, <2>4 DEF SettleInv, At
  <1>5. CASE AgentStep /\ ~AgentEnd
    <2>1. CASE Responds
      <3>1. at' = at /\ outcomes' = outcomes /\ last' \in Responses \cup {"aborted"}
        BY <2>1 DEF Responds, Respond
      <3> QED BY <3>1 DEF SettleInv, At
    <2>2. CASE ~Responds
      <3>1. UNCHANGED <<at, outcomes, last>>
        BY <1>5, <2>2 DEF AgentStep, Responds, InjectPending, EnterLoop, CallProvider, ToolsDone,
                          NextTurn, TurnEnd, BeforeStop
      <3> QED BY <3>1 DEF SettleInv, At
    <2> QED BY <2>1, <2>2
  <1>6. CASE AgentEnd
    <2>1. owner \in Prompts /\ at[owner] = "run" /\ at[owner] \in InProgress
      BY <1>6 DEF AgentEnd, SingleInv, RunInOperation, InProgress, Operating
    <2>2. last' = "none"
      BY <1>6 DEF AgentEnd
    <2>3. \E place \in {"sleep", "compact", "hold"} : Goto(owner, place)
      <3>1. CASE WillRetry
        BY <1>6, <3>1 DEF AgentEnd
      <3>2. CASE ~WillRetry
        <4>1. "recover" \notin Decisions(last)
          BY NoRecoveryDecided DEF SettleInv
        <4> QED BY <1>6, <3>2, <4>1 DEF AgentEnd, CheckCompaction
      <3> QED BY <3>1, <3>2
    <2>4. \A p \in Prompts : at'[p] \notin {"recover", "settle"}
      <3>1. PICK place \in {"sleep", "compact", "hold"} : Goto(owner, place)
        BY <2>3
      <3>2. \A p \in Prompts \ {owner} : at'[p] \notin InProgress
        BY <2>1, <3>1, OperationAlone
      <3>3. at'[owner] = place
        BY <2>1, <3>1, StartersAreMessages DEF Goto, TypeInv, TypeOK, Starters
      <3> QED BY <1>1, <3>2, <3>3
    <2> QED BY <2>2, <2>4 DEF SettleInv, At
  <1>7. ASSUME NEW o \in Prompts, OperationStep(o)
        PROVE  SettleInv'
    <2>1. \A p \in Prompts \ {o} : at'[p] \notin InProgress
      BY <1>7, OperationGoes, OperationAlone
    <2>2. last' = last
      BY <1>7 DEF OperationStep, RetryElapsed, RetryCancelled, Recovered, Compacted,
                  HoldReleased, HoldExpired, Settled
    <2>3. at'[o] # "recover" /\ (at'[o] = "settle" => outcomes' = 1)
      BY <1>7, OperationSettles DEF Operating
    <2> QED BY <1>1, <2>1, <2>2, <2>3 DEF SettleInv, At
  <1>8. CASE StopStep
    <2>1. Stop
      BY <1>8 DEF StopStep, CallAbort, CallClearQueue
    <2>2. \A p \in Prompts : at'[p] = IF at[p] = "sleep" THEN "cancelled" ELSE at[p]
      BY <2>1, StartersAreMessages DEF Stop, Abort, Starters
    <2>3. UNCHANGED <<last, outcomes>>
      BY <2>1 DEF Stop
    <2> QED BY <2>2, <2>3 DEF SettleInv, At
  <1>9. CASE UNCHANGED vars
    BY <1>9 DEF vars, SettleInv, At
  <1> QED BY <1>2, <1>3, <1>4, <1>5, <1>6, <1>7, <1>8, <1>9, StepsAside,
             StartersArePrompts DEF Next, Quiet, Starts

(* Steering and follow-up messages start no operation.                     *)
LEMMA NotPrompts ==
    ASSUME NEW m \in Steers \cup FollowUps
    PROVE  m \in Msgs /\ m \in UserMsgs /\ m \notin Prompts
  BY DisjointMessages DEF Msgs, UserMsgs

(* A step that brings no such message into intake, releases none from the  *)
(* hold and leaves the queues and isStreaming alone.                       *)
LEMMA StrandKept ==
    ASSUME StrandInv, active' = active,
           \A m \in Steers \cup FollowUps :
              at'[m] = "intake" => at[m] = "intake" /\ (m \in held => m \in held'),
           expired \subseteq expired',
           UNCHANGED <<steerQ, followQ>>
    PROVE  StrandInv'
  <1>1. Caught'
    BY DEF StrandInv, Caught
  <1>2. NothingStranded'
    BY DEF StrandInv, NothingStranded
  <1> QED BY <1>1, <1>2 DEF StrandInv

(* What waits for admission behind a Channel Session.                      *)
LEMMA SubmitStrand ==
    ASSUME TypeInv, SingleInv, StrandInv, Channel, Customs = {},
           NEW m \in Msgs, SubmitStep(m)
    PROVE  StrandInv'
  <1> USE DEF queueVars, runVars
  <1>1. at \in [Msgs -> Places] /\ active \in BOOLEAN
        /\ steerQ \in Seq(Msgs) /\ followQ \in Seq(Msgs)
    BY DEF TypeInv, TypeOK
  <1>2. ASSUME NEW place, place # "intake", Goto(m, place),
               held' = held \/ held' = held \ {m},
               UNCHANGED <<active, expired, steerQ, followQ>>
        PROVE  StrandInv'
    <2>1. \A n \in Steers \cup FollowUps :
             at'[n] = "intake" => at[n] = "intake" /\ (n \in held => n \in held')
      BY <1>1, <1>2, NotPrompts DEF Goto
    <2> QED BY <1>2, <2>1, StrandKept
  <1>3. CASE Submit(m)
    BY <1>2, <1>3 DEF Submit
  <1>4. CASE Call(m)
    <2>1. /\ m \notin Prompts /\ active /\ active' = active
          /\ Goto(m, "intake") /\ held' = held \cup {m} /\ expired' = expired
      BY <1>4 DEF Call, EnterIntake
    <2>2. Caught'
      BY <1>1, <2>1, NotPrompts DEF Caught, Goto, StrandInv
    <2>3. NothingStranded'
      BY <2>1 DEF NothingStranded
    <2> QED BY <2>2, <2>3 DEF StrandInv
  <1>5. CASE Block(m)
    BY <1>2, <1>5 DEF Block
  <1>6. CASE Admit(m)
    <2>1. /\ m \in UserMsgs /\ at[m] = "intake" /\ held' = held \ {m}
          /\ UNCHANGED <<active, expired>> /\ (m \in Prompts => active)
      BY <1>6 DEF Admit
    <2>2. m \notin Prompts
      <3>1. SUFFICES ASSUME m \in Prompts
                     PROVE  FALSE
        OBVIOUS
      <3>2. at[m] \in InProgress /\ at[m] \notin Operating
        BY <2>1 DEF InProgress, Starting, Operating
      <3>3. PICK o \in Prompts : at[o] \in Operating
        BY <2>1, <3>1 DEF SingleInv, ActiveInOperation
      <3>4. o = m
        BY <3>1, <3>2, <3>3, PlacesOfOperations DEF SingleInv, OneInProgress
      <3> QED BY <3>2, <3>3, <3>4
    <2>3. m \in Steers \cup FollowUps
      BY <2>1, <2>2 DEF UserMsgs
    <2>4. \E place \in {"rejected", "queued", "dropped"} : Goto(m, place)
      BY <1>6 DEF Admit
    <2>5. \A n \in Steers \cup FollowUps :
             at'[n] = "intake" => at[n] = "intake" /\ (n \in held => n \in held')
      BY <1>1, <2>1, <2>4, NotPrompts DEF Goto
    <2>6. Caught'
      BY <2>1, <2>5 DEF StrandInv, Caught
    <2>7. /\ steerQ' = steerQ \/ steerQ' = Append(steerQ, m)
          /\ followQ' = followQ \/ followQ' = Append(followQ, m)
      BY <1>6 DEF Admit, Enqueue
    <2>8. /\ ToSet(steerQ') \subseteq ToSet(steerQ) \cup {m}
          /\ ToSet(followQ') \subseteq ToSet(followQ) \cup {m}
      <3>1. \A q \in Seq(Msgs) : ToSet(Append(q, m)) \subseteq ToSet(q) \cup {m}
        BY AppendProperties, LenProperties DEF ToSet
      <3> QED BY <1>1, <2>7, <3>1
    <2>9. NothingStranded'
      BY <2>1, <2>3, <2>8 DEF StrandInv, Caught, NothingStranded
    <2> QED BY <2>6, <2>9 DEF StrandInv
  <1>7. CASE AdmitIdle(m)
    BY <1>2, <1>7 DEF AdmitIdle
  <1>8. CASE PreflightFail(m)
    BY <1>2, <1>8 DEF PreflightFail
  <1>9. CASE BeginPreCompaction(m) \/ PreCompacted(m)
    <2>1. \E place \in {"precompact", "prerecover", "ready"} : Goto(m, place)
      BY <1>9 DEF BeginPreCompaction, PreCompacted
    <2>2. UNCHANGED <<held, active, expired, steerQ, followQ>>
      BY <1>9 DEF BeginPreCompaction, PreCompacted
    <2> QED BY <1>2, <2>1, <2>2
  <1>10. CASE StartOperation(m)
    <2>1. m \in Prompts /\ at[m] \in InProgress \ {"run"}
      BY <1>10 DEF StartOperation, TypeInv, OnlyPrompts, PromptPlaces, InProgress,
                  Starting
    <2>2. Goto(m, "run") /\ active' = TRUE /\ UNCHANGED <<held, expired>>
      BY <1>10, <2>1, NoRunElsewhere DEF StartOperation, RunAgentPrompt, BeginRun
    <2>3. Caught' /\ NothingStranded'
      BY <1>1, <2>1, <2>2, NotPrompts DEF StrandInv, Caught, NothingStranded, Goto
    <2> QED BY <2>3 DEF StrandInv
  <1>11. ~SendCustom(m) /\ ~SendForNextTurn(m) /\ ~AppendCustom(m)
    BY DEF SendCustom, SendForNextTurn, AppendCustom
  <1> QED BY <1>3, <1>4, <1>5, <1>6, <1>7, <1>8, <1>9, <1>10, <1>11 DEF SubmitStep

LEMMA StrandStep ==
    ASSUME TypeInv, SingleInv, RetryInv, SettleInv, StrandInv, NoRecovery,
           Channel, Customs = {}, [Next]_vars
    PROVE  StrandInv'
  <1> USE DEF queueVars, runVars, contextVars, loopVars, stopVars
  <1>1. at \in [Msgs -> Places] /\ active \in BOOLEAN /\ DOMAIN <<>> = {}
    BY DEF TypeInv, TypeOK
  <1>2. ASSUME NEW o \in Prompts, NEW place, Goto(o, place)
        PROVE  \A m \in Steers \cup FollowUps : at'[m] = at[m]
    BY <1>1, <1>2, NotPrompts DEF Goto
  <1>3. ASSUME active' = TRUE, \A m \in Steers \cup FollowUps : at'[m] = at[m],
               held' = held, expired \subseteq expired'
        PROVE  StrandInv'
    BY <1>3 DEF StrandInv, Caught, NothingStranded
  <1>4. CASE StartSubmit
    <2>1. Head(submits) \in Prompts
      BY <1>4, HeadTailProperties DEF StartSubmit, TypeInv, TypeOK
    <2>2. Goto(Head(submits), "intake") /\ held \subseteq held'
      BY <1>4 DEF StartSubmit, EnterIntake
    <2>3. UNCHANGED <<active, expired, steerQ, followQ>>
      BY <1>4 DEF StartSubmit
    <2> QED BY <1>2, <2>1, <2>2, <2>3, StrandKept
  <1>5. CASE AgentStep
    <2>1. phase # "none" /\ active' = active /\ UNCHANGED <<held, expired>>
      <3>1. Responds
                => phase # "none" /\ active' = active /\ UNCHANGED <<held, expired>>
        BY DEF Responds, Respond
      <3>2. ~Responds
                => phase # "none" /\ active' = active /\ UNCHANGED <<held, expired>>
        BY <1>5 DEF AgentStep, Responds, InjectPending, EnterLoop, CallProvider, ToolsDone,
                    NextTurn, TurnEnd, BeforeStop, AgentEnd
      <3> QED BY <3>1, <3>2
    <2>2. owner \in Prompts /\ at[owner] \in Operating
      BY <2>1 DEF SingleInv, RunInOperation, Operating
    <2>3. active' = TRUE
      BY <1>1, <2>1, <2>2 DEF SingleInv, ActiveInOperation
    <2>4. at' = at \/ \E place : Goto(owner, place)
      <3>1. AgentEnd => \E place : Goto(owner, place)
        BY DEF AgentEnd, CheckCompaction
      <3>2. Responds => at' = at
        BY DEF Responds, Respond
      <3>3. AgentEnd \/ Responds \/ at' = at
        BY <1>5 DEF AgentStep, Responds, InjectPending, EnterLoop, CallProvider, ToolsDone,
                    NextTurn, TurnEnd, BeforeStop
      <3> QED BY <3>1, <3>2, <3>3
    <2> QED BY <1>2, <1>3, <2>1, <2>2, <2>3, <2>4
  <1>6. ASSUME NEW o \in Prompts, OperationStep(o)
        PROVE  StrandInv'
    <2>1. \A m \in Steers \cup FollowUps : at'[m] = at[m]
      BY <1>2, <1>6, OperationGoes
    <2>2. held' = held /\ expired \subseteq expired'
      BY <1>6 DEF OperationStep, RetryElapsed, RetryCancelled, Recovered, Compacted,
                  HoldReleased, HoldExpired, Settled
    <2>3. CASE Settled(o)
      <3>1. UNCHANGED <<active, steerQ, followQ>>
        BY <2>3 DEF Settled
      <3> QED BY <2>1, <2>2, <3>1, StrandKept
    <2>4. CASE active' = TRUE
      BY <1>3, <2>1, <2>2, <2>4
    <2>5. CASE /\ HoldReleased(o) \/ HoldExpired(o)
               /\ ~QueuedMessages
               /\ UNCHANGED <<steerQ, followQ>>
      <3>1. ToSet(steerQ') \cup ToSet(followQ') = {}
        BY <1>1, <2>5 DEF QueuedMessages, ToSet
      <3>2. \A m \in held : m \in expired'
        BY <2>5 DEF HoldReleased, HoldExpired, IntakeDone
      <3>3. Caught'
        BY <2>1, <2>2, <3>2 DEF StrandInv, Caught
      <3> QED BY <3>1, <3>3 DEF StrandInv, NothingStranded
    <2> QED BY <1>6, <2>3, <2>4, <2>5, OperationSettles
  <1>7. CASE StopStep
    <2>1. Stop
      BY <1>7 DEF StopStep, CallAbort, CallClearQueue
    <2>2. UNCHANGED <<active, held, expired>> /\ steerQ' = <<>> /\ followQ' = <<>>
      BY <2>1 DEF Stop, ClearQueue
    <2>3. \A m \in Steers \cup FollowUps : at'[m] = "intake" => at[m] = "intake"
      BY <2>1, NotPrompts DEF Stop, Abort
    <2>4. Caught'
      BY <2>2, <2>3 DEF StrandInv, Caught
    <2>5. NothingStranded'
      BY <1>1, <2>2 DEF NothingStranded, ToSet
    <2> QED BY <2>4, <2>5 DEF StrandInv
  <1>8. CASE UNCHANGED vars
    BY <1>8, StrandKept DEF vars
  <1> QED BY <1>4, <1>5, <1>6, <1>7, <1>8, SubmitStrand, StartersArePrompts
          DEF Next, Quiet

LEMMA SettleInit ==
    ASSUME Init
    PROVE  SettleInv /\ StrandInv
  <1>1. \A m \in Msgs : at[m] = "new"
    BY DEF Init
  <1>2. Prompts \subseteq Msgs
    BY StartersAreMessages
  <1>3. last = "none" /\ steerQ = <<>> /\ followQ = <<>> /\ DOMAIN <<>> = {}
    BY DEF Init
  <1> QED BY <1>1, <1>2, <1>3, NotPrompts
          DEF SettleInv, At, StrandInv, Caught, NothingStranded, ToSet

(* Behind a Channel Session, without recoveries, it all holds always.      *)
LEMMA SettleAlways ==
    ASSUME Channel, Customs = {}, NoRecovery
    PROVE  Spec => [](SettleInv /\ StrandInv)
  <1> DEFINE I == TypeInv /\ SingleInv /\ RetryInv /\ SettleInv /\ StrandInv
  <1>1. Init => I
    BY TypeInit, SingleInit, RetryInit, SettleInit
  <1>2. I /\ [Next]_vars => I'
    BY TypeStep, SingleStep, RetryStep, SettleStep, StrandStep
  <1>3. I => SettleInv /\ StrandInv
    OBVIOUS
  <1> QED BY <1>1, <1>2, <1>3, PTL DEF Spec

(* An operation that settles has its outcome in the log, so a restart does *)
(* not find it interrupted (operation-loop.ts, finish).                    *)
THEOREM SettlesWithOutcome ==
    ASSUME Channel, Customs = {}, NoRecovery
    PROVE  Spec => []SettledWithOutcome
  <1>1. SettleInv => SettledWithOutcome
    BY StartersArePrompts DEF SettleInv, SettledWithOutcome
  <1> QED BY <1>1, SettleAlways, PTL

(* The hold keeps the session streaming until what was accepted is through *)
(* intake: an idle agent has in its queues only what the hold gave up.     *)
THEOREM NothingIsStranded ==
    ASSUME Channel, Customs = {}, NoRecovery
    PROVE  Spec => []NothingStranded
  <1>1. StrandInv => NothingStranded
    BY DEF StrandInv
  <1> QED BY <1>1, SettleAlways, PTL

=============================================================================
