----------------------------- MODULE AgentSession -----------------------------
(***************************************************************************)
(* One AgentSession: how a message submitted by a person or an extension   *)
(* gets through intake, starts an operation or is queued into the running  *)
(* one, how the agent's run loop delivers it, and how the Operation Loop   *)
(* continues or finishes the operation: retry, overflow recovery,          *)
(* compaction, queued messages.  Sources: coding-agent/src/core/           *)
(* agent-session.ts, operation-loop.ts, channel-session.ts and             *)
(* agent/src/agent.ts, agent-loop.ts.                                      *)
(*                                                                         *)
(* Everything runs on one JavaScript thread.  A step of this module is the *)
(* code between two points where a coroutine really waits (hooks,          *)
(* extension handlers, the provider, tools, a timer, a summarizer), and    *)
(* any other coroutine may run at those points.                            *)
(***************************************************************************)
EXTENDS Naturals, FiniteSets, SequencesExt, PendingMessageQueue

CONSTANTS
    Prompts,           \* messages submitted with prompt()
    Steers,            \* messages submitted with steer()
    FollowUps,         \* messages submitted with followUp()
    Customs,           \* messages extensions send
    StreamingBehavior, \* the option prompt() is called with
    Channel,           \* TRUE: behind a Channel Session; FALSE: called directly
    SteeringMode,      \* drain mode of the agent's steering queue
    FollowUpMode,      \* drain mode of the agent's follow-up queue
    MaxRetries,        \* retry.maxRetries of the settings
    AutoCompaction,    \* compaction.enabled of the settings
    MaxPushes,         \* messages beforeStop may push per user message
    Responses,         \* how the provider may answer
    NoOne,             \* no operation
    MaxToolTurns,      \* bound: responses that call tools
    MaxStops           \* bound: calls of stop, abort and clearQueue

(* Kinds of assistant message, by stop reason and by what the code asks of *)
(* it: "error" is retryable, "fatal" is an error that is not, "overflow"   *)
(* exceeds the context window, "length" is truncated.                      *)
Failures == {"error", "fatal", "overflow"}
Kinds == Failures \cup {"stop", "toolUse", "length", "aborted"}

UserMsgs == Prompts \cup Steers \cup FollowUps
Msgs == UserMsgs \cup Customs
Starters == Prompts \cup Customs       \* messages that can start an operation

ASSUME DisjointMessages ==
    /\ Prompts \cap (Steers \cup FollowUps \cup Customs) = {}
    /\ Steers \cap (FollowUps \cup Customs) = {}
    /\ FollowUps \cap Customs = {}
    /\ NoOne \notin Msgs

ASSUME SettingsAssumption ==
    /\ StreamingBehavior \in {"none", "steer", "followUp"}
    /\ Channel \in BOOLEAN /\ AutoCompaction \in BOOLEAN
    /\ SteeringMode \in QueueModes /\ FollowUpMode \in QueueModes
    /\ MaxRetries \in Nat /\ MaxPushes \in Nat
    /\ MaxToolTurns \in Nat /\ MaxStops \in Nat
    /\ "stop" \in Responses /\ Responses \subseteq Kinds \ {"aborted"}

VARIABLES
    at,             \* where each message's own call is
    gen,            \* the queue generation each call captured
    generation,     \* _queueGeneration
    held,           \* _inputInIntake
    submits,        \* submits waiting in the Channel Session's promise chain
    nextTurn,       \* _pendingNextTurnMessages
    steerQ,         \* the agent's steering queue
    followQ,        \* the agent's follow-up queue
    steerShown,     \* _steeringQueue, for display
    followShown,    \* _followUpQueue, for display
    active,         \* _isAgentRunActive (isStreaming)
    phase,          \* where the agent's active run is
    owner,          \* whose operation the active run belongs to
    aborted,        \* the active run's signal is aborted
    pending,        \* messages the run loop holds for injection
    delivered,      \* messages delivered into the transcript, in order
    base,           \* role of the last message that is not a failed response
    failedInState,  \* failed responses after it in agent.state.messages
    failedInLog,    \* failed responses after it in the session log
    last,           \* the Operation Loop's lastAssistant
    attempt,        \* the retry budget's attempt
    recovered,      \* overflowRecoveryAttempted
    outcomes,       \* outcomes recorded since the last agent run began
    pushes,         \* messages beforeStop pushed since the last user message
    toolTurns,      \* responses that called tools so far
    stops,          \* calls of stop, abort and clearQueue so far
    stopWaiting,    \* an abort() waits for the session to be idle
    cleared,        \* history: messages clearQueue returned to the caller
    expired         \* history: messages whose intake outlasted the hold

queueVars == <<steerQ, followQ, steerShown, followShown>>
runVars == <<phase, owner, aborted, pending>>
contextVars == <<delivered, base, failedInState, failedInLog, pushes>>
loopVars == <<last, attempt, recovered, outcomes>>
stopVars == <<stops, stopWaiting, cleared>>
vars == <<at, gen, generation, held, submits, nextTurn, active, expired,
          toolTurns, queueVars, runVars, contextVars, loopVars, stopVars>>

(* A call's life.  A prompt past preflight may compact, or recover from an *)
(* overflow, before its operation starts.  "run" to "hold" is              *)
(* _runAgentPrompt's try block: the agent runs, backs off before a retry,  *)
(* has its backoff cancelled, recovers from overflow, compacts after       *)
(* finishing, or waits for messages in intake; "settle" is its finally     *)
(* block.                                                                  *)
Starting == {"intake", "preflight", "precompact", "prerecover", "ready"}
Operating == {"run", "sleep", "cancelled", "recover", "compact", "hold"}
Ended == {"over", "queued", "dropped", "blocked", "rejected"}
Places == Starting \cup Operating \cup Ended \cup {"new", "waiting", "settle"}

(* An agent run: "prompts" delivers the messages it was started with and   *)
(* then polls for steering, "steered" does so without the poll, "inject"   *)
(* delivers pending messages, "stream" waits for the provider, "tools" for *)
(* tools, "nextTurn" and "turnEnd" for turn_end handlers, "stopping" for   *)
(* beforeStop, "ending" for agent_end handlers.                            *)
Phases == {"none", "prompts", "steered", "inject", "stream", "tools",
           "nextTurn", "turnEnd", "stopping", "ending"}

TypeOK ==
    /\ at \in [Msgs -> Places]
    /\ gen \in [Msgs -> Nat] /\ generation \in Nat
    /\ held \subseteq Msgs /\ expired \subseteq Msgs
    /\ submits \in Seq(Prompts) /\ nextTurn \in Seq(Msgs)
    /\ steerQ \in Seq(Msgs) /\ followQ \in Seq(Msgs)
    /\ steerShown \in Seq(Msgs) /\ followShown \in Seq(Msgs)
    /\ active \in BOOLEAN /\ aborted \in BOOLEAN /\ recovered \in BOOLEAN
    /\ phase \in Phases /\ owner \in Starters \cup {NoOne}
    /\ pending \in Seq(Msgs) /\ delivered \in Seq(Msgs)
    /\ base \in {"none", "user", "custom", "assistant", "toolResult"}
    /\ failedInState \in Nat /\ failedInLog \in Nat
    /\ last \in Kinds \cup {"none"}
    /\ attempt \in Nat /\ outcomes \in Nat /\ pushes \in Nat
    /\ toolTurns \in Nat /\ stops \in Nat /\ stopWaiting \in BOOLEAN
    /\ cleared \subseteq Msgs

Init ==
    /\ at = [m \in Msgs |-> "new"]
    /\ gen = [m \in Msgs |-> 0] /\ generation = 0
    /\ held = {} /\ expired = {} /\ submits = <<>> /\ nextTurn = <<>>
    /\ steerQ = <<>> /\ followQ = <<>>
    /\ steerShown = <<>> /\ followShown = <<>>
    /\ active = FALSE /\ aborted = FALSE /\ recovered = FALSE
    /\ phase = "none" /\ owner = NoOne
    /\ pending = <<>> /\ delivered = <<>>
    /\ base = "none" /\ failedInState = 0 /\ failedInLog = 0
    /\ last = "none" /\ attempt = 0 /\ outcomes = 0 /\ pushes = 0
    /\ toolTurns = 0 /\ stops = 0 /\ stopWaiting = FALSE
    /\ cleared = {}

-----------------------------------------------------------------------------
(* Submitting a message. *)

Goto(m, place) == at' = [at EXCEPT ![m] = place]

(* A call enters intake: it captures the queue generation, and an active   *)
(* run will wait for it before it ends.                                    *)
EnterIntake(m) ==
    /\ Goto(m, "intake")
    /\ gen' = [gen EXCEPT ![m] = generation]
    /\ held' = IF active THEN held \cup {m} ELSE held

(* ChannelSession.submit: runs after every earlier submit finished. *)
Submit(m) ==
    /\ Channel /\ m \in Prompts /\ at[m] = "new"
    /\ Goto(m, "waiting")
    /\ submits' = Append(submits, m)
    /\ UNCHANGED <<gen, generation, held, nextTurn, active, expired, toolTurns,
                   queueVars, runVars, contextVars, loopVars, stopVars>>

(* Mutant: submits do not wait for each other. *)
ChannelUnchained == TRUE

(* No earlier submit's prompt() is still in progress. *)
ChannelFree == \A m \in Prompts : at[m] \notin Starting \cup Operating \cup {"settle"}

StartSubmit ==
    /\ submits # <<>> /\ ChannelFree
    /\ EnterIntake(Head(submits))
    /\ submits' = Tail(submits)
    /\ UNCHANGED <<generation, nextTurn, active, expired, toolTurns,
                   queueVars, runVars, contextVars, loopVars, stopVars>>

(* prompt(), steer() and followUp() called directly (RPC, interactive      *)
(* mode), or ChannelSession.steer, which only steers a running turn.       *)
Call(m) ==
    /\ m \in UserMsgs /\ at[m] = "new"
    /\ Channel => m \notin Prompts /\ active
    /\ EnterIntake(m)
    /\ UNCHANGED <<generation, submits, nextTurn, active, expired, toolTurns,
                   queueVars, runVars, contextVars, loopVars, stopVars>>

(* A hook or an input handler handled the message.  A UserPromptSubmit     *)
(* hook leaves a custom message saying so in the transcript, at once.      *)
Block(m) ==
    /\ at[m] = "intake"
    /\ Goto(m, "blocked")
    /\ held' = held \ {m}
    /\ \/ UNCHANGED contextVars
       \/ /\ base' = "custom" /\ failedInState' = 0 /\ failedInLog' = 0
          /\ UNCHANGED <<delivered, pushes>>
    /\ UNCHANGED <<gen, generation, submits, nextTurn, active, expired, toolTurns,
                   queueVars, runVars, loopVars, stopVars>>

(* Which queue a message joins when a run is active. *)
Mode(m) == IF m \in Prompts THEN StreamingBehavior
           ELSE IF m \in Steers THEN "steer" ELSE "followUp"

(* Mutant: the generation captured before intake is not compared. *)
AnyGeneration(m) == TRUE

(* No clearQueue happened while the message was in intake. *)
SameGeneration(m) == gen[m] = generation

(* Mutant: the agent's queues are filled from the front. *)
EnqueueInFront(m) ==
    IF Mode(m) = "steer"
    THEN /\ steerShown' = Append(steerShown, m)
         /\ steerQ' = <<m>> \o steerQ
         /\ UNCHANGED <<followShown, followQ>>
    ELSE /\ followShown' = Append(followShown, m)
         /\ followQ' = <<m>> \o followQ
         /\ UNCHANGED <<steerShown, steerQ>>

Enqueue(m) ==
    IF Mode(m) = "steer"
    THEN /\ steerShown' = Append(steerShown, m)
         /\ steerQ' = Append(steerQ, m)
         /\ UNCHANGED <<followShown, followQ>>
    ELSE /\ followShown' = Append(followShown, m)
         /\ followQ' = Append(followQ, m)
         /\ UNCHANGED <<steerShown, steerQ>>

(* A message that passed intake and joins the queues: a steer or follow-up *)
(* always, a prompt when a run is active.  A prompt called without a       *)
(* streaming behavior is refused then.                                     *)
Admit(m) ==
    /\ m \in UserMsgs /\ at[m] = "intake"
    /\ m \in Prompts => active
    /\ held' = held \ {m}
    /\ IF Mode(m) = "none" THEN Goto(m, "rejected") /\ UNCHANGED queueVars
       ELSE IF SameGeneration(m) THEN Goto(m, "queued") /\ Enqueue(m)
       ELSE Goto(m, "dropped") /\ UNCHANGED queueVars
    /\ UNCHANGED <<gen, generation, submits, nextTurn, active, expired, toolTurns,
                   runVars, contextVars, loopVars, stopVars>>

(* A prompt that passed intake while no run is active goes on to start an  *)
(* operation.                                                              *)
AdmitIdle(m) ==
    /\ m \in Prompts /\ at[m] = "intake" /\ ~active
    /\ Goto(m, "preflight")
    /\ held' = held \ {m}
    /\ UNCHANGED <<gen, generation, submits, nextTurn, active, expired, toolTurns,
                   queueVars, runVars, contextVars, loopVars, stopVars>>

(* No model or no credentials. *)
PreflightFail(m) ==
    /\ at[m] = "preflight"
    /\ Goto(m, "rejected")
    /\ UNCHANGED <<gen, generation, held, submits, nextTurn, active, expired, toolTurns,
                   queueVars, runVars, contextVars, loopVars, stopVars>>

(* Mutant: the last message is dropped without a look at its role. *)
DropLast(n) == n - 1

(* dropTrailingFailedAssistant leaves this many trailing failed responses. *)
DropFailed(n) == IF n > 0 THEN n - 1 ELSE 0

(* The compaction a prompt may run first, for size or turns, or as the one *)
(* recovery when the last response was an overflow or truncated: then that *)
(* response leaves the state before.  Which of them, if any, depends on    *)
(* sizes and on that response, whether or not the transcript still ends    *)
(* with it.                                                                *)
BeginPreCompaction(m) ==
    /\ at[m] = "preflight" /\ AutoCompaction /\ delivered # <<>>
    /\ \/ Goto(m, "precompact") /\ UNCHANGED <<failedInState, recovered>>
       \/ /\ ~recovered
          /\ Goto(m, "prerecover")
          /\ failedInState' = DropFailed(failedInState)
          /\ recovered' = TRUE
    /\ UNCHANGED <<gen, generation, held, submits, nextTurn, active, expired,
                   toolTurns, queueVars, runVars, delivered, base,
                   failedInLog, pushes, last, attempt, outcomes, stopVars>>

(* It ended.  Completed, it rebuilt the state from the log, where failed   *)
(* responses remain; after a recovery the last of them is taken out again. *)
PreCompacted(m) ==
    /\ at[m] \in {"precompact", "prerecover"}
    /\ Goto(m, "ready")
    /\ \/ failedInState' = IF at[m] = "prerecover" THEN DropFailed(failedInLog)
                           ELSE failedInLog
       \/ UNCHANGED failedInState
    /\ UNCHANGED <<gen, generation, held, submits, nextTurn, active, expired,
                   toolTurns, queueVars, runVars, delivered, base,
                   failedInLog, pushes, loopVars, stopVars>>

-----------------------------------------------------------------------------
(* Operations and agent runs. *)

(* runWithLifecycle: an agent run begins. *)
BeginRun(o, first, messages) ==
    /\ Goto(o, "run")
    /\ active' = TRUE
    /\ phase' = first /\ owner' = o /\ aborted' = FALSE
    /\ pending' = messages
    /\ outcomes' = 0

(* The agent refuses a run, and the operation goes straight to settling. *)
Refuse(o) ==
    /\ Goto(o, "settle")
    /\ active' = FALSE
    /\ UNCHANGED <<runVars, outcomes>>

(* _runAgentPrompt, up to the agent's first run. *)
RunAgentPrompt(o, messages) ==
    IF phase = "none" THEN BeginRun(o, "prompts", messages) ELSE Refuse(o)

(* The prompt takes along what extensions left for the next turn, and      *)
(* before_agent_start handlers are done.                                   *)
StartOperation(o) ==
    /\ at[o] \in {"preflight", "ready"}
    /\ RunAgentPrompt(o, <<o>> \o nextTurn)
    /\ nextTurn' = <<>>
    /\ UNCHANGED <<gen, generation, held, submits, expired, toolTurns,
                   queueVars, contextVars, last, attempt, recovered, stopVars>>

(* sendCustomMessage with triggerTurn: queued into an active run, as       *)
(* steering or as a follow-up, else it starts an operation of its own,     *)
(* with no intake and no preflight.                                        *)
SendCustom(m) ==
    /\ m \in Customs /\ at[m] = "new"
    /\ IF active
       THEN /\ Goto(m, "queued")
            /\ \/ steerQ' = Append(steerQ, m) /\ UNCHANGED followQ
               \/ followQ' = Append(followQ, m) /\ UNCHANGED steerQ
            /\ UNCHANGED <<active, runVars, outcomes>>
       ELSE RunAgentPrompt(m, <<m>>) /\ UNCHANGED <<steerQ, followQ>>
    /\ UNCHANGED <<gen, generation, held, submits, nextTurn, expired, toolTurns,
                   steerShown, followShown, contextVars, last, attempt,
                   recovered, stopVars>>

(* sendCustomMessage with deliverAs "nextTurn", whatever runs. *)
SendForNextTurn(m) ==
    /\ m \in Customs /\ at[m] = "new"
    /\ Goto(m, "queued")
    /\ nextTurn' = Append(nextTurn, m)
    /\ UNCHANGED <<gen, generation, held, submits, active, expired, toolTurns,
                   queueVars, runVars, contextVars, loopVars, stopVars>>

(* sendCustomMessage without triggerTurn: into the transcript at once,     *)
(* whatever runs.                                                          *)
AppendCustom(m) ==
    /\ m \in Customs /\ at[m] = "new"
    /\ Goto(m, "over")
    /\ delivered' = Append(delivered, m)
    /\ base' = "custom" /\ failedInState' = 0 /\ failedInLog' = 0
    /\ UNCHANGED <<gen, generation, held, submits, nextTurn, active, expired,
                   toolTurns, queueVars, runVars, pushes, loopVars, stopVars>>

-----------------------------------------------------------------------------
(* The agent's run loop. *)

(* Mutant: whatever is delivered, the oldest displayed message goes. *)
WithoutHead(q, m) == IF q = <<>> THEN q ELSE Tail(q)

(* findIndex and splice on a display queue, by identity. *)
Without(q, m) ==
    IF Contains(q, m) THEN RemoveAt(q, CHOOSE i \in DOMAIN q : q[i] = m) ELSE q

(* message_start and message_end of a queued or initial message: it leaves *)
(* the display, enters the transcript, and a user message allows overflow  *)
(* recovery again.                                                         *)
Deliver(m) ==
    /\ delivered' = Append(delivered, m)
    /\ base' = IF m \in UserMsgs THEN "user" ELSE "custom"
    /\ failedInState' = 0 /\ failedInLog' = 0
    /\ pushes' = IF m \in UserMsgs THEN 0 ELSE pushes
    /\ recovered' = IF m \in UserMsgs THEN FALSE ELSE recovered
    /\ steerShown' = Without(steerShown, m)
    /\ followShown' = Without(followShown, m)

(* The run loop takes messages the steering queue has ready. *)
PollSteering ==
    /\ pending' = Drained(SteeringMode, steerQ)
    /\ steerQ' = Left(SteeringMode, steerQ)

InjectPending ==
    /\ phase \in {"prompts", "steered", "inject"} /\ pending # <<>>
    /\ Deliver(Head(pending))
    /\ pending' = Tail(pending)
    /\ UNCHANGED <<at, gen, generation, held, submits, nextTurn, active, expired,
                   toolTurns, steerQ, followQ, phase, owner, aborted, last,
                   attempt, outcomes, stopVars>>

(* runLoop's first poll, skipped when the run was started with steering    *)
(* messages.                                                               *)
EnterLoop ==
    /\ phase \in {"prompts", "steered"} /\ pending = <<>>
    /\ phase' = "inject"
    /\ IF phase = "prompts" THEN PollSteering ELSE UNCHANGED <<pending, steerQ>>
    /\ UNCHANGED <<at, gen, generation, held, submits, nextTurn, active, expired,
                   toolTurns, followQ, steerShown, followShown, owner, aborted,
                   contextVars, loopVars, stopVars>>

CallProvider ==
    /\ phase = "inject" /\ pending = <<>>
    /\ phase' = "stream"
    /\ UNCHANGED <<at, gen, generation, held, submits, nextTurn, active, expired,
                   toolTurns, queueVars, owner, aborted, pending, contextVars,
                   loopVars, stopVars>>

(* The assistant message, appended to state and log, and whether it calls  *)
(* tools.  A run that throws (no API key, a failing context transform)     *)
(* ends with such a message too.  observe(): any response that did not     *)
(* fail ends the run of retries, and one that is neither failed nor        *)
(* truncated allows overflow recovery again.                               *)
Respond(kind, callsTools) ==
    /\ phase = "stream"
    /\ kind \in Responses \cup {"aborted"}
    /\ kind = "aborted" => aborted
    /\ IF kind = "length" THEN callsTools \in BOOLEAN
       ELSE callsTools = (kind = "toolUse")
    /\ callsTools => toolTurns < MaxToolTurns
    /\ toolTurns' = IF callsTools THEN toolTurns + 1 ELSE toolTurns
    /\ IF kind \in Failures \cup {"length"}
       THEN /\ failedInState' = failedInState + 1
            /\ failedInLog' = failedInLog + 1
            /\ UNCHANGED base
       ELSE base' = "assistant" /\ failedInState' = 0 /\ failedInLog' = 0
    /\ last' = kind
    /\ recovered' = IF kind \in Failures \cup {"length"} THEN recovered ELSE FALSE
    /\ attempt' = IF kind \in Failures THEN attempt ELSE 0
    /\ phase' = IF callsTools THEN "tools"
                ELSE IF kind \in Failures \cup {"aborted"} THEN "ending"
                ELSE "turnEnd"
    /\ UNCHANGED <<at, gen, generation, held, submits, nextTurn, active, expired,
                   queueVars, owner, aborted, pending, delivered, pushes,
                   outcomes, stopVars>>

(* The tool results are in the transcript.  More turns follow unless every *)
(* result asked to terminate; a truncated response's calls all failed      *)
(* unexecuted, and none of their results asks that.                        *)
ToolsDone ==
    /\ phase = "tools"
    /\ base' = "toolResult" /\ failedInState' = 0 /\ failedInLog' = 0
    /\ phase' \in {"nextTurn", "turnEnd"}
    /\ last = "length" => phase' = "nextTurn"
    /\ UNCHANGED <<at, gen, generation, held, submits, nextTurn, active, expired,
                   toolTurns, queueVars, owner, aborted, pending, delivered,
                   pushes, loopVars, stopVars>>

NextTurn ==
    /\ phase = "nextTurn"
    /\ PollSteering
    /\ phase' = "inject"
    /\ UNCHANGED <<at, gen, generation, held, submits, nextTurn, active, expired,
                   toolTurns, followQ, steerShown, followShown, owner, aborted,
                   contextVars, loopVars, stopVars>>

(* The agent would stop: steering messages first, then follow-ups, and     *)
(* only then beforeStop.                                                   *)
TurnEnd ==
    /\ phase = "turnEnd"
    /\ IF steerQ # <<>>
       THEN PollSteering /\ phase' = "inject" /\ UNCHANGED followQ
       ELSE /\ pending' = Drained(FollowUpMode, followQ)
            /\ followQ' = Left(FollowUpMode, followQ)
            /\ phase' = IF followQ # <<>> THEN "inject" ELSE "stopping"
            /\ UNCHANGED steerQ
    /\ UNCHANGED <<at, gen, generation, held, submits, nextTurn, active, expired,
                   toolTurns, steerShown, followShown, owner, aborted,
                   contextVars, loopVars, stopVars>>

(* The task plan guard or a Stop hook pushes a custom message back, a      *)
(* bounded number of times, or lets the run end.                           *)
BeforeStop ==
    /\ phase = "stopping"
    /\ \/ /\ pushes < MaxPushes
          /\ pushes' = pushes + 1
          /\ base' = "custom" /\ failedInState' = 0 /\ failedInLog' = 0
          /\ phase' = "inject"
          /\ UNCHANGED delivered
       \/ phase' = "ending" /\ UNCHANGED contextVars
    /\ UNCHANGED <<at, gen, generation, held, submits, nextTurn, active, expired,
                   toolTurns, queueVars, owner, aborted, pending, loopVars,
                   stopVars>>

-----------------------------------------------------------------------------
(* The Operation Loop. *)

QueuedMessages == steerQ # <<>> \/ followQ # <<>>

(* agent.continue(): behind an assistant message it runs queued messages,  *)
(* steering first, and refuses when there are none; behind any other       *)
(* message it runs from the transcript.                                    *)
Continue(o, afterAssistant) ==
    IF phase # "none" THEN Refuse(o) /\ UNCHANGED <<steerQ, followQ>>
    ELSE IF ~afterAssistant
    THEN BeginRun(o, "prompts", <<>>) /\ UNCHANGED <<steerQ, followQ>>
    ELSE IF steerQ # <<>>
    THEN /\ BeginRun(o, "steered", Drained(SteeringMode, steerQ))
         /\ steerQ' = Left(SteeringMode, steerQ)
         /\ UNCHANGED followQ
    ELSE IF followQ # <<>>
    THEN /\ BeginRun(o, "prompts", Drained(FollowUpMode, followQ))
         /\ followQ' = Left(FollowUpMode, followQ)
         /\ UNCHANGED steerQ
    ELSE Refuse(o) /\ UNCHANGED <<steerQ, followQ>>

(* Mutant: one retry too many. *)
WillRetryOnceMore == last = "error" /\ attempt <= MaxRetries

(* agentEnded: a retryable error is retried while the budget lasts.        *)
WillRetry == last = "error" /\ attempt < MaxRetries

(* Mutant: overflow recovery is attempted every time. *)
DecisionsForgetful(kind) ==
    IF ~AutoCompaction \/ kind = "aborted" THEN {"none"}
    ELSE {"none", "compact"}
         \cup (IF kind \in {"overflow", "length"} THEN {"recover"} ELSE {})

(* decideCompaction for a response of this kind.  Compaction by usage or   *)
(* by turns depends on sizes the model leaves open; so does whether a      *)
(* truncated response is worth a recovery.  An overflow of another model,  *)
(* or one older than the last compaction, is none to recover from.         *)
Decisions(kind) ==
    IF ~AutoCompaction \/ kind = "aborted" THEN {"none"}
    ELSE {"none", "compact"}
         \cup (IF kind \in {"overflow", "length"}
               THEN IF recovered THEN {"recovery-failed"} ELSE {"recover"}
               ELSE {})

(* Mutant: the outcome of an operation waits for its compaction. *)
CheckCompactionFirst(o, kind) ==
    \E decision \in Decisions(kind) :
        IF decision \in {"recover", "compact"}
        THEN /\ Goto(o, decision)
             /\ recovered' = (recovered \/ decision = "recover")
             /\ failedInState' = DropFailed(failedInState)
             /\ UNCHANGED outcomes
        ELSE /\ Goto(o, "hold")
             /\ outcomes' = outcomes + 1
             /\ UNCHANGED <<recovered, failedInState>>

(* The post-run step once no retry follows: recovery keeps the operation   *)
(* open, and everything else finishes it, a compaction included.           *)
CheckCompaction(o, kind) ==
    \E decision \in Decisions(kind) :
        IF decision = "recover"
        THEN /\ Goto(o, "recover")
             /\ recovered' = TRUE
             /\ failedInState' = DropFailed(failedInState)
             /\ UNCHANGED outcomes
        ELSE /\ Goto(o, IF decision = "compact" THEN "compact" ELSE "hold")
             /\ outcomes' = outcomes + 1
             /\ UNCHANGED <<recovered, failedInState>>

(* agent_end handlers are done: the retry decision, finishRun, and the     *)
(* post-run step as far as it goes without waiting.                        *)
AgentEnd ==
    /\ phase = "ending"
    /\ phase' = "none"
    /\ last' = "none"
    /\ IF WillRetry
       THEN /\ Goto(owner, "sleep")
            /\ attempt' = attempt + 1
            /\ failedInState' = DropFailed(failedInState)
            /\ UNCHANGED <<recovered, outcomes>>
       ELSE /\ attempt' = IF last \in Failures THEN 0 ELSE attempt
            /\ CheckCompaction(owner, last)
    /\ UNCHANGED <<gen, generation, held, submits, nextTurn, active, expired, toolTurns,
                   queueVars, owner, aborted, pending, delivered, base,
                   failedInLog, pushes, stopVars>>

(* The backoff before a retry is over. *)
RetryElapsed(o) ==
    /\ at[o] = "sleep"
    /\ Continue(o, failedInState > 0 \/ base = "assistant")
    /\ UNCHANGED <<gen, generation, held, submits, nextTurn, expired, toolTurns,
                   steerShown, followShown, contextVars, last, attempt,
                   recovered, stopVars>>

(* Mutant: a cancelled backoff just returns. *)
RetryCancelledSilently(o) ==
    /\ at[o] = "cancelled"
    /\ attempt' = 0
    /\ Goto(o, "hold")
    /\ UNCHANGED <<gen, generation, held, submits, nextTurn, active, expired, toolTurns,
                   queueVars, runVars, contextVars, last, recovered, outcomes,
                   stopVars>>

(* A stop cancelled the backoff: the operation finishes as aborted.        *)
RetryCancelled(o) ==
    /\ at[o] = "cancelled"
    /\ attempt' = 0
    /\ CheckCompaction(o, "error")
    /\ UNCHANGED <<gen, generation, held, submits, nextTurn, active, expired, toolTurns,
                   queueVars, runVars, delivered, base, failedInLog, pushes,
                   last, stopVars>>

(* Overflow recovery's compaction ended.  Completed, it rebuilt the state  *)
(* from the log, and the failed response is dropped again.                 *)
Recovered(o) ==
    /\ at[o] = "recover"
    /\ \/ /\ failedInState' = DropFailed(failedInLog)
          /\ Continue(o, failedInState' > 0 \/ base = "assistant")
       \/ /\ Goto(o, "hold")
          /\ outcomes' = outcomes + 1
          /\ UNCHANGED <<active, runVars, steerQ, followQ, failedInState>>
    /\ UNCHANGED <<gen, generation, held, submits, nextTurn, expired, toolTurns,
                   steerShown, followShown, delivered, base, failedInLog,
                   pushes, last, attempt, recovered, stopVars>>

(* A compaction of a finished operation ended.  Completed, it rebuilt the  *)
(* state, and queued messages continue the operation.                      *)
Compacted(o) ==
    /\ at[o] = "compact"
    /\ \/ /\ failedInState' = failedInLog
          /\ IF QueuedMessages
             THEN Continue(o, failedInState' > 0 \/ base = "assistant")
             ELSE /\ Goto(o, "hold")
                  /\ UNCHANGED <<active, runVars, outcomes, steerQ, followQ>>
       \/ /\ Goto(o, "hold")
          /\ UNCHANGED <<active, runVars, outcomes, steerQ, followQ, failedInState>>
    /\ UNCHANGED <<gen, generation, held, submits, nextTurn, expired, toolTurns,
                   steerShown, followShown, delivered, base, failedInLog,
                   pushes, last, attempt, recovered, stopVars>>

(* Mutants: queued messages do not continue the operation; the session     *)
(* settles and still says it is streaming.                                 *)
SettleAtOnce(o) ==
    /\ Goto(o, "settle")
    /\ active' = FALSE
    /\ UNCHANGED <<runVars, outcomes, steerQ, followQ>>

SettleActive(o) ==
    IF QueuedMessages THEN Continue(o, failedInState > 0 \/ base = "assistant")
    ELSE Goto(o, "settle") /\ UNCHANGED <<active, runVars, outcomes, steerQ, followQ>>

(* The operation continues for queued messages, or _runAgentPrompt returns *)
(* and the session settles.                                                *)
ContinueOrSettle(o) ==
    IF QueuedMessages THEN Continue(o, failedInState > 0 \/ base = "assistant")
    ELSE /\ Goto(o, "settle")
         /\ active' = FALSE
         /\ UNCHANGED <<runVars, outcomes, steerQ, followQ>>

(* Mutant: the operation does not wait for intake. *)
IntakeIgnored == TRUE

(* waitForInput: every message accepted during the operation is through.   *)
IntakeDone == held = {}

HoldReleased(o) ==
    /\ at[o] = "hold" /\ IntakeDone
    /\ ContinueOrSettle(o)
    /\ UNCHANGED <<gen, generation, held, submits, nextTurn, expired, toolTurns,
                   steerShown, followShown, contextVars, last, attempt,
                   recovered, stopVars>>

(* Mutant: the hold has no time bound. *)
HoldNeverExpires(o) == FALSE

(* The hold is bounded in time: past it the operation ends anyway. *)
HoldExpired(o) ==
    /\ at[o] = "hold" /\ ~IntakeDone
    /\ expired' = expired \cup held
    /\ ContinueOrSettle(o)
    /\ UNCHANGED <<gen, generation, held, submits, nextTurn, toolTurns,
                   steerShown, followShown, contextVars, last, attempt,
                   recovered, stopVars>>

(* Mutant: the session settles without resolving its idle waiters. *)
SettledSilently(o) ==
    /\ at[o] = "settle"
    /\ Goto(o, "over")
    /\ UNCHANGED <<gen, generation, held, submits, nextTurn, active, expired, toolTurns,
                   queueVars, runVars, contextVars, loopVars, stopVars>>

(* agent_settled handlers are done: prompt() returns and idle waiters      *)
(* resolve.                                                                *)
Settled(o) ==
    /\ at[o] = "settle"
    /\ Goto(o, "over")
    /\ stopWaiting' = (stopWaiting /\ active)
    /\ UNCHANGED <<gen, generation, held, submits, nextTurn, active, expired, toolTurns,
                   queueVars, runVars, contextVars, loopVars, stops, cleared>>

-----------------------------------------------------------------------------
(* Stopping. *)

(* clearQueue(): both displays are returned to the caller and emptied, the *)
(* agent's queues too, and messages still in intake will be dropped.       *)
ClearQueue ==
    /\ cleared' = cleared \cup ToSet(steerShown) \cup ToSet(followShown)
    /\ generation' = generation + 1
    /\ steerShown' = <<>> /\ followShown' = <<>>
    /\ steerQ' = <<>> /\ followQ' = <<>>

(* abort(): cancels a retry's backoff, aborts the agent's active run if    *)
(* there is one, and waits until the session is idle.                      *)
Abort ==
    /\ at' = [m \in Msgs |-> IF at[m] = "sleep" THEN "cancelled" ELSE at[m]]
    /\ aborted' = (aborted \/ phase # "none")
    /\ stopWaiting' = (stopWaiting \/ active)

(* ChannelSession.stop. *)
Stop ==
    /\ Channel /\ stops < MaxStops
    /\ stops' = stops + 1
    /\ ClearQueue
    /\ Abort
    /\ UNCHANGED <<gen, held, submits, nextTurn, active, expired, toolTurns, phase,
                   owner, pending, contextVars, loopVars>>

CallAbort ==
    /\ ~Channel /\ stops < MaxStops
    /\ stops' = stops + 1
    /\ Abort
    /\ UNCHANGED <<gen, generation, held, submits, nextTurn, active, expired, toolTurns,
                   queueVars, phase, owner, pending, contextVars, loopVars,
                   cleared>>

CallClearQueue ==
    /\ ~Channel /\ stops < MaxStops
    /\ stops' = stops + 1
    /\ ClearQueue
    /\ UNCHANGED <<at, gen, held, submits, nextTurn, active, expired, toolTurns, runVars,
                   contextVars, loopVars, stopWaiting>>

-----------------------------------------------------------------------------
AgentStep ==
    \/ InjectPending \/ EnterLoop \/ CallProvider
    \/ \E kind \in Kinds, callsTools \in BOOLEAN : Respond(kind, callsTools)
    \/ ToolsDone \/ NextTurn \/ TurnEnd \/ BeforeStop \/ AgentEnd

OperationStep(o) ==
    \/ RetryElapsed(o) \/ RetryCancelled(o)
    \/ Recovered(o) \/ Compacted(o)
    \/ HoldReleased(o) \/ HoldExpired(o)
    \/ Settled(o)

SubmitStep(m) ==
    \/ Submit(m) \/ Call(m) \/ Block(m) \/ Admit(m) \/ AdmitIdle(m)
    \/ PreflightFail(m) \/ BeginPreCompaction(m) \/ PreCompacted(m)
    \/ StartOperation(m)
    \/ SendCustom(m) \/ SendForNextTurn(m) \/ AppendCustom(m)

StopStep == Stop \/ CallAbort \/ CallClearQueue

(* The session is idle and nothing more is submitted. *)
Quiet ==
    /\ ~active /\ phase = "none" /\ submits = <<>>
    /\ \A m \in Msgs : at[m] \in Ended \cup {"new"}
    /\ UNCHANGED vars

Next ==
    \/ \E m \in Msgs : SubmitStep(m)
    \/ StartSubmit
    \/ AgentStep
    \/ \E o \in Starters : OperationStep(o)
    \/ StopStep
    \/ Quiet

(* The provider, tools, handlers, timers and compactions of a run come to  *)
(* an end: streams and tools end by themselves or by their timeouts, the   *)
(* backoff and the hold are timers.  Nothing is assumed of intake hooks,   *)
(* of preflight, or of what people submit and stop.                        *)
Fairness ==
    /\ WF_vars(AgentStep)
    /\ \A o \in Starters : WF_vars(OperationStep(o))

Spec == Init /\ [][Next]_vars
FairSpec == Spec /\ Fairness

-----------------------------------------------------------------------------
(* Safety. *)

(* At most one prompt() is past intake and preflight and not yet settling. *)
(* _runAgentPrompt keeps no lock of its own: the Channel Session's promise *)
(* chain and the isStreaming test after intake have to ensure it.          *)
OneOperation ==
    \A p, q \in Starters : at[p] \in Operating /\ at[q] \in Operating => p = q

(* isStreaming is true exactly while an operation is under way, retry      *)
(* backoff, compaction and the hold included, and no agent run is active   *)
(* outside of one: once the session says it is idle it does not continue   *)
(* by itself.                                                              *)
IdleMeansIdle ==
    /\ active <=> \E o \in Starters : at[o] \in Operating
    /\ phase # "none" => at[owner] = "run"

(* What a crash leaves in the log: while the operation may still go on     *)
(* (a run, a backoff, an overflow recovery) it has recorded no outcome     *)
(* since its run began; while it compacts or waits after finishing it has  *)
(* recorded exactly one, so a crash there does not read as an interrupted  *)
(* task.                                                                   *)
OutcomeRecorded ==
    \A o \in Starters :
        /\ at[o] \in {"run", "sleep", "cancelled", "recover"} => outcomes = 0
        /\ at[o] \in {"compact", "hold"} => outcomes = 1

(* No operation settles without its outcome in the log.                    *)
SettledWithOutcome ==
    \A o \in Starters : at[o] = "settle" => outcomes = 1

(* The requests that fail one after the other, whatever mix of retries and *)
(* overflow recoveries produced them: two budgets of retries, the second   *)
(* after the one recovery.  A stop that cancels a backoff can add one more *)
(* budget: when a follow-up waits, continuing for it first repeats the     *)
(* request whose retry was cancelled.                                      *)
FailuresBounded ==
    failedInLog <= 2 * (MaxRetries + 1) + stops * MaxRetries

(* A run is retried at most MaxRetries times, and the state never ends in  *)
(* a failed response that is going to be retried.                          *)
RetryHidesFailure ==
    /\ attempt <= MaxRetries
    /\ \A o \in Starters : at[o] = "sleep" => failedInState = 0

(* The owner's display tells the truth: what it shows as waiting is either *)
(* still in the agent's queue, in the same order, or in the hands of the   *)
(* run loop, which delivers it next; and nothing waits unseen.             *)
Shows(shown, q) ==
    /\ ToSet(q) \cap UserMsgs \subseteq ToSet(shown)
    /\ ToSet(shown) \subseteq ToSet(q) \cup ToSet(pending)
    /\ \A i, j \in DOMAIN shown : i < j =>
        /\ shown[i] # shown[j]
        /\ shown[i] \in ToSet(q) =>
             \E k, l \in DOMAIN q : k < l /\ q[k] = shown[i] /\ q[l] = shown[j]

DisplayIsQueue == Shows(steerShown, steerQ) /\ Shows(followShown, followQ)

(* Stop drops what was still in intake too: whatever waits in the agent's  *)
(* queues was submitted after the last clearQueue.                         *)
QueuedSinceClear ==
    \A m \in (ToSet(steerQ) \cup ToSet(followQ)) \cap UserMsgs :
        gen[m] = generation

(* Behind a Channel Session no message is left in the queues of an idle    *)
(* agent, except one whose intake outlasted the bounded hold.              *)
NothingStranded ==
    ~active => ToSet(steerQ) \cup ToSet(followQ) \subseteq expired

(* No message is delivered twice, and none that its own call reported as   *)
(* blocked, dropped or refused.                                            *)
DeliveredOnce ==
    /\ IsInjective(delivered)
    /\ \A m \in ToSet(delivered) : at[m] \notin {"blocked", "dropped", "rejected"}

(* Steering messages reach the model in the order they were accepted, and  *)
(* so do follow-ups: a message delivered while displayed is the first one. *)
OldestFirst ==
    [][delivered' # delivered =>
        LET m == delivered'[Len(delivered')] IN
        /\ Contains(steerShown, m) => m = Head(steerShown)
        /\ Contains(followShown, m) => m = Head(followShown)]_vars

-----------------------------------------------------------------------------
(* Liveness. *)

(* An operation always ends and its prompt() returns: retries, recoveries  *)
(* and the hold are all bounded, even when an input handler never returns. *)
OperationEnds ==
    \A o \in Starters : at[o] \in Operating ~> at[o] = "over"

(* abort() returns: the session becomes idle after every stop.             *)
StopReturns == stopWaiting ~> ~stopWaiting

(* A message accepted into a queue is delivered, unless it was returned to *)
(* the caller by clearQueue or came too late for the run's bounded hold.   *)
QueuedIsDelivered ==
    \A m \in Steers \cup FollowUps :
        at[m] = "queued" ~> m \in ToSet(delivered) \cup cleared \cup expired

-----------------------------------------------------------------------------
(* What documentation and comments claim and the code does not do. *)

(* After a completed overflow recovery the interrupted turn continues: the *)
(* agent does not refuse because a failed response is the last message.    *)
RecoveryContinues ==
    [][\A o \in Starters : at[o] = "recover" => at'[o] # "settle"]_vars

=============================================================================
