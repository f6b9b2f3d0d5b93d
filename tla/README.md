# A TLA+ model of theoses' turn execution

This directory specifies, model-checks and proves properties of the part of
theoses (`ts`) that decides what happens to a message a person sends: how it is
admitted, queued or turned into an operation; how the agent's run loop delivers
it, runs tools and polls for more; how the Operation Loop retries, recovers from
context overflow, compacts and finishes; how the Telegram adapter queues,
stops and resumes turns above all that; and what it all stands on: the session
log that a restart reads back, the queues that keep parallel edits of one file
apart, and the server's sessions that clients attach to.

Everything here is TypeScript on one JavaScript thread. Nothing is preempted,
but every `await` of something slow (a hook, an extension handler, the
provider, a tool, a timer, a summarizer, a dialog) is a point where any other
coroutine may run. **A step of a model is the code between two such points.**

Paths below are relative to `src/packages/`.

## 1. Inventory

| Component (source) | State it keeps | Operations | Hard behaviour | What makes it correct | Status |
|---|---|---|---|---|---|
| Agent and its queues (`agent/src/agent.ts`) | steering and follow-up queue, the active run, `state.messages`, `pendingToolCalls` | prompt, continue, steer, followUp, abort, clearAllQueues | refuses a second run by throwing; `continue()` depends on the last message | one run at a time; messages leave in order and once | modelled in `AgentSession`, `PendingMessageQueue` |
| Run loop (`agent/src/agent-loop.ts`) | pending messages, the turn it is in | runLoop, streamAssistantResponse, polls for steering and follow-ups, beforeStop | polls at several places; an abort between any two | nothing stranded; messages once and in order | modelled in `AgentSession` |
| Tool batches (`agent/src/agent-loop.ts`) | per call: prepared, executing, result | parallel, sequential and truncated loops | tools end in any order; aborts in the middle | one truthful result per call, in order | modelled in `ToolBatch` |
| AgentSession (`coding-agent/src/core/agent-session.ts`) | `_isAgentRunActive`, `_queueGeneration`, `_inputInIntake`, display queues | prompt, steer, followUp, sendCustomMessage, clearQueue, abort, bash results | checks made before an await and used after it | one operation, truthful idle state, bounded hold | modelled in part |
| Operation Loop (`coding-agent/src/core/operation-loop.ts`) | last response, retry budget, recovery flag, recorded outcome | beforePrompt, agentEnded, observe, afterRun, cancelRetry | order of finish, compaction, continuation | outcome in the log at every crash point; bounded retries | modelled in `AgentSession` |
| Retry budget (`ai/src/utils/retry.ts`) | attempt, cancellable sleep | next, sleep, reset, cancel | a stop during the backoff | bounded attempts | as the Operation Loop uses it |
| Compaction Trigger (`coding-agent/src/core/compaction/trigger.ts`) | none (pure) | decide | recovery once per message | see the Operation Loop | the kinds of decision |
| Channel Session (`coding-agent/src/core/channel-session.ts`) | a promise chain of submits | submit, steer, stop | submits wait for each other, stops do not | one submit at a time | submit, steer, stop |
| Message transform (`ai/src/api/transform-messages.ts`) | none (pure) | transformMessages | aborted or crashed batches leave calls unanswered | every call is answered exactly once | the pass over calls, `TransformMessages` |
| Telegram turn queue (`telegram/src/turn-queue.ts`) | per chat: queue, current turn, signal, resume timer | submit, stop, drain, resume | every stage may throw; timers race stops | every turn served, in order; resumed at most once | modelled in `TurnQueue` |
| Compaction run and context rebuild (`coding-agent/src/core/compaction/`) | active compaction, its abort controller | run, cancel, prepare | a summary takes a minute, and the branch may move under it | nothing is neither summarised nor kept | boundary, wait and entry in `SessionLog` |
| Session log (`coding-agent/src/core/session-manager.ts`, `session-discovery.ts`) | entries, leaf, files | append, branch, rotate, load | a torn last line, a rotation cut short, a second process between test and write | what was written is read back; a closed log stays closed | modelled in `SessionLog`, without forks, labels, notes and artifacts |
| Turn settlement, working note, busy marker (`turn-settlement.ts`, `working-note.ts`, `busy-marker.ts`) | files beside the log | settle, mark, clear | a crash between two of them | a restart reports exactly the interrupted turns | planned |
| Server sessions and snapshots (`server/src/`) | live sessions, attached clients, pending snapshots | attach, detach, dispose, publish | attach races the last detach, the runtime's failure and the server's close | one runtime at a time; no runtime is kept for nobody; clients are told the truth | sessions in `LiveSessions`; handshake and snapshot publisher not |
| Client (`client/src/`) | leases, cached state, connection | acquire, release, reconnect | responses after a reconnect | the state is the last snapshot's | planned |
| Protocol framing (`protocol/src/framing.ts`) | a buffer | decode, encode | frames cut at any byte | decoding is independent of chunking | planned |
| File mutation queue (`coding-agent/src/core/tools/file-mutation-queue.ts`, `edit.ts`, `write.ts`) | a promise chain per path | withFileMutationQueue | parallel edits of one file under two names, aborts, failures | the tools change files as if one at a time, in order | modelled in `FileEdits` |
| Task plan guard (`task-plan-guard.ts`, `task-plan.ts`) | plan, evidence, pushes | beforeStop | pushes at the end of a turn | bounded pushes | its effect on the loop only |
| Settings, credentials, model stores | cached files, locks | load, save, refresh | two processes | no write is lost | planned |
| Telegram adapter outside the queue, tools, hooks, memory, providers, RPC, TUI, dashboard | I/O | | | | not modelled: each is seen by the models as a step with an outcome |

Interactions. A front end (Telegram, server, RPC, TUI) calls a Channel Session
or an AgentSession. AgentSession runs **intake** (input handlers and
UserPromptSubmit hooks, awaited), then either queues the message into the
agent's steering or follow-up queue, or goes through **preflight** (model,
credentials, a compaction) into `_runAgentPrompt`, which owns an **operation**:
one agent run, then the Operation Loop's `afterRun`, which may continue the
agent (retry, recovery, queued messages) or finish it. The agent reports events
to AgentSession, whose listeners are awaited inside the run; a message's
`message_start` takes it out of the display queues. `abort()` cancels the retry
sleep, aborts the active run and waits for the session to be idle.

`PROJECT.json` lists under "hazards", each with its line, what in this code is
hard to test; the properties are aimed at those.

## 2. Modules

| Module | Models | EXTENDS / INSTANCE |
|---|---|---|
| `PendingMessageQueue` | `PendingMessageQueue.drain` of `agent.ts`: what it returns and leaves, by drain mode | |
| `AgentSession` | intake, queues, operations, run loop, Operation Loop, stops: the core | `PendingMessageQueue` |
| `MCAgentSession` | symmetry sets for the runs of `AgentSession` | `AgentSession` |
| `ToolBatch` | the three loops over one message's tool calls, with aborts, bash results, blocked messages, a crash | |
| `TransformMessages` | what a provider is sent of a transcript with open calls (a fold, no state) | |
| `MCToolBatch` | `ToolBatch` composed with `TransformMessages` | both |
| `TurnQueue` | the Telegram turn queue and Auto-Resume | |
| `AtomicEdits` | what the edit and write tools promise: each call changes its file in one step, in the order of the calls (abstract) | |
| `FileEdits` | the file mutation queue and the tools inside it, await by await | `Atomic == INSTANCE AtomicEdits` |
| `MCFileEdits` | four calls, two files, a symbolic link | `FileEdits` |
| `LiveSessions` | the server's live sessions: attach, detach, operations, disposal, failure, close | |
| `SessionLog` | the session log, Log Rotation and Compaction Runs, with crashes and failing writes | |
| `MCSessionLog` | symmetry of the managers | `SessionLog` |
| `AgentSession_proofs` | theorems: type, one operation, idle state, outcome | `AgentSession`, TLAPS |
| `AgentSession_messages_proofs`, `AgentSession_retry_proofs` | theorems: the queues and their display; failed responses, settling | `AgentSession_proofs` |
| `ToolBatch_proofs`, `TurnQueue_proofs`, `FileEdits_proofs`, `LiveSessions_proofs`, `SessionLog_proofs` | theorems | the module (`ToolBatch_proofs`: its MC module) and TLAPS |

Every module has the same layout: constants with their assumptions, variables
with the field each stands for, `TypeOK`, `Init`, actions, `Next`, fairness,
properties. An operator introduced with "Mutant:" is not part of the model: it
is a plausible bug in the definition below it, and a property is only kept if
TLC finds it violated once that bug is put in. `PROJECT.json` names the pairs.

### AgentSession

`at[m]` is where the call that submitted message `m` is: `new`, `waiting` (in
the Channel Session's chain), `intake`, `preflight`, `precompact` or `prerecover`
(a prompt's own compaction or recovery), `ready`; then, for a call that owns
an operation, where `_runAgentPrompt` is: `run` (the agent runs), `sleep` (a
retry's backoff), `cancelled` (the backoff was cancelled and its promise is
about to resolve), `recover` (overflow recovery's compaction), `compact` (a
compaction after finishing), `hold` (waiting for messages in intake), `settle`
(its `finally`); and how it ended: `over`, `queued`, `dropped`, `blocked`,
`rejected`. `phase` is where the agent's active run is, `owner` whose it is.

| Variables | Code |
|---|---|
| `gen`, `generation`, `held` | the captured and the current `_queueGeneration`, `_inputInIntake` |
| `steerQ`, `followQ` / `steerShown`, `followShown` | the agent's queues / `_steeringQueue` and `_followUpQueue`, shown to the owner |
| `active` | `_isAgentRunActive`, which is `isStreaming` |
| `pending` | the run loop's local `pendingMessages` |
| `nextTurn` | `_pendingNextTurnMessages` |
| `base`, `failedInState`, `failedInLog` | the end of the conversation: the role of the last message that is not a failed response, and how many failed responses follow it in `agent.state.messages` and in the session log. The two differ because a retry removes a failed response from the state only, and a rebuild from the log brings all of them back |
| `last`, `attempt`, `recovered`, `outcomes` | the Operation Loop's `lastAssistant`, the retry budget, the overflow recovery flag, the outcomes recorded since the last run began |
| `stopWaiting` | a caller of `abort()` waits for the session to be idle |
| `cleared`, `expired`, `delivered` | history, for properties only (`delivered` also is the transcript's order) |

| Actions | Code |
|---|---|
| `Submit`, `StartSubmit` | `ChannelSession.submit`: joins the chain, begins when the earlier ones returned |
| `Call`, `Block`, `Admit`, `AdmitIdle` | `prompt`, `steer`, `followUp`: entering intake, being handled or blocked there, joining a queue, or going on as a prompt |
| `PreflightFail`, `BeginPreCompaction`, `PreCompacted`, `StartOperation` | `prompt` after intake, the compaction it may wait for, `_runAgentPrompt` |
| `SendCustom`, `SendForNextTurn`, `AppendCustom` | `sendCustomMessage`: queued as steering or follow-up, or an operation of its own; kept for the next turn; into the transcript at once |
| `InjectPending`, `EnterLoop`, `CallProvider`, `Respond`, `ToolsDone`, `NextTurn`, `TurnEnd`, `BeforeStop`, `AgentEnd` | `runLoop` and `runWithLifecycle` from one await to the next, the listeners of each event included |
| `RetryElapsed`, `RetryCancelled`, `Recovered`, `Compacted`, `HoldReleased`, `HoldExpired`, `Settled` | `_runAgentPrompt` and `OperationLoop.afterRun` from one await to the next |
| `Stop`, `CallAbort`, `CallClearQueue` | `ChannelSession.stop`, `abort`, `clearQueue` |

What is abstracted: a message is a model value; a response is its kind
(`Responses`) and whether it calls tools; token usage and the turn arithmetic of
the Compaction Trigger are a choice among the decisions it can take for that kind
of response (for an overflow also none: it may be another model's, or older than
the last compaction); a compaction completes or does not; the tools of one response are one step here and all of
`ToolBatch`. Two constants select the environment: `Channel` (calls come through
a Channel Session, or directly as RPC and the interactive mode make them) and
`Customs` (messages of extensions, which no test of `isStreaming` holds apart).

Three consequences of the grain: the gap of a microtask between the run loop's
two polls at its end (`agent/src/agent-loop.ts:259` and `:263`) is below it;
handlers of one event are one step, whatever their number; and a compaction
started by hand while a prompt runs is not in the model.

### ToolBatch

One assistant message with calls `1..N`, handled by the parallel, the sequential
or the truncated-message loop. `call[i]` is where call `i` is, `outcome[i]` what
its result says, `executed` what really ran, `transcript` what
`agent.state.messages` and the log hold from the message on. `StartCall`,
`RefuseCall`, `PassCall` are `prepareToolCall` and the loops' checks of the
signal; `Launch`, `SkipRest`, `ReportResult` the parallel loop; `SkipNext` the
sequential loop after an abort; `RecordBash` and `BlockMessage` are what
AgentSession may add meanwhile (the first is held back until the operation ends,
the second is not); `Crash` ends the process and keeps the log. `MCToolBatch`
hands the transcript to `TransformMessages!Sent`, the pass that makes up the
missing results when the conversation goes on.

### TurnQueue

Per chat: queue, current turn, stage (`preparing`, `running`, `finishing`),
whether its signal is aborted, and the turn its resume timer is set for.
`NextTurn` is one turn of the drain loop, `Submit`, `Stop` and `ResumeFires` the
entry points, `PrepareEnds`, `SubmitEnds`, `FinishEnds` the awaits of `run`,
each of which may fail. Deciding to resume (`SubmitEnds`) and setting the timer
(`FinishEnds`) are two steps, because `finish` is awaited between them.

### FileEdits and AtomicEdits

`withFileMutationQueue` has two chains of promises. `registrations` is the
module's `registrationQueue`: one call at a time resolves its real path
(`Register`, `RegistrationFails`) and then joins the chain of that path, of
which `queues[p]` is the end and `before[o]` what call `o` waits for. A call
that has its turn goes through `open`, `read` (the edit tool only) and `write`;
every await may fail, and the abort signal is looked at after it and not
before. `Release` is the `finally`. Contents are the sequence of calls applied
since the file was last written whole, so a lost or reordered update shows.
A write that fails halfway leaves the file empty. After its write an edit may
search the project for a hint about sibling files (`hint`, ended by `HintEnds`),
with its path's queue still held. What the tools do with their text (matching,
line endings, what the hint says) is data.

`AtomicEdits` has none of this: `Change`, `Truncate` or `Refuse` is one step,
taken when every earlier call on the same file has reported. `Serializable` is
its specification, and the refinement mapping is the identity on the variables
both have, but for an edit that still searches for its hint: its file is written
and nothing can fail any more, so the mapping (`reported`) counts it as reported.
A call's step in `AtomicEdits` otherwise is the one in which its promise settles.

### LiveSessions

One stored session. `runtime[i]` is the `i`-th runtime the service was asked
for, with the fields of `LiveSession`: `state` tells how far it is (`starting`
is `create` waiting for the first snapshot; `disposing` is a set `disposing`
promise or, in `create` and `close`, an awaited `dispose`), `members` is
`connections`, `operations` `operationCount`, `busy` a phase other than idle.
`entry` and `opening` are the session's entry in `liveSessions` and
`openingSessions`; `line` the requests waiting for the opening or a disposal, in
order. The server does not await `handleRequest`, so one connection may have
several requests under way: `Requests` are pairs of a connection and a number,
`at[r]` is the await of request `r` and `ref[r]` the object it holds, which may no
longer be the one in the map.

`AcquireLive`, `Await`, `AttachFirst` are the three ways through `acquire`;
`Acquired`, `OpenEnds`, `OpenFails`, `OpenDisposes` are `create` and what its
promise resumes; `Disposed` is the end of a disposal and of the loop in
`acquire`; `Detach`, `DetachSnapshotEnds`, `Operate`, `OperationEnds`,
`RunEnds`, `Terminate`, `Disconnect`, `Close`, `CloseSessions` the rest of the
class and of the server. `AttachAndDetach` is the one place where the gap of a
microtask matters: an attach and a detach that arrive in one chunk, the detach
handled between the attach's `acquire` and its `attach`. A connection may close at
any time, also while it opens the session. Snapshots and progress sent to clients change nothing
and are left out, but not the awaits they take.

`create` differs from `attach` only in that its identifier is fresh, so no other
request can meet it before the answer; it is `AttachFirst` followed by `OpenEnds`.

### SessionLog

`disk[n]` is the `n`-th log of one session: its lines and whether the last lacks
its newline. `mem[m]` is one `SessionManager`: its entries, leaf, `flushed`,
`_loadedWithUnclosedTurn`, `_writableLog`, and whether it has passed
`_assertWritable` and not yet written (`passed`). An entry is a user message, a reply,
the end of an operation or a compaction, which says from which entry on it keeps
(`kept`) and which entries its summary covers (`covers`).

| Actions | Code |
|---|---|
| `Open`, `Create`, `Die` | `_setSessionFile` with what it calls (following rotation markers, skipping lines that do not parse, ending a torn line), `newSession`, the end of a process |
| `AppendEntry`, `AppendFails` | `_appendEntry` and `_persist`: the deferred first write of a CLI session, appending, and a write that fails at its start or halfway, after which the entry stays in memory |
| `Check` | `_assertWritable`, where another process writes between it and the write it allows |
| `Branch` | `branch` and `resetLeaf` |
| `Prepare`, `RunEnds`, `RunFails` | `prepareCompaction`; `appendCompaction` with the rewrite that prunes signatures and with `rotate`, which may fail before the new log, or while it marks the old one, or die before it sets the new one's time |

A manager is synchronous, but another process is not held up by that: its system
calls may fall between the test whether a log may be written and the write.
`Check` is that test where it is a step of its own; a call whose test nothing comes
behind is one step. Another process may come before the first write of a call, not
between its later ones, and a log is continued by one log; both are bounds of the
model. The test compares sizes. The model has no sizes; whoever has looked at a log
that another process has rewritten since (pruning signatures shrinks it, appending
makes up for it) may find the size it knows (`resized`), and otherwise equal size is
equal content, as logs are only appended to. Dying within one leaves on disk
what a failed call followed by a death leaves, hence `Die` needs no such case. A
torn line is one that does not parse; a line that lacks only its newline parses,
and is as good as written once `Open` ends it. `tailStart`'s dependence on
Durable Memory and the Task Plan is a choice among the user messages it may move
back to. A task reset covers the entries it drops, without a summary. Of the point state a rotation carries forward only the last
`operation_finished` matters to a property.

`steady` is a history variable: it is true until one of four things happens
after which, as the code stands, history may be lost (`Upset`); the properties
about reading back are claimed of steady histories. Section 3 says what happens
in the others.

## 3. Runs

Passing:

| Run | Question | Instance | Distinct states |
|---|---|---|---|
| `session_channel` | Is there one operation at a time, is the idle state truthful, what does the log say wherever the process may die, and how often can requests fail in a row? | 2 submits, 1 steer, 1 follow-up, 2 stops; every kind of response, overflowing and truncated ones included; compaction on; one message per poll | 6.0 million |
| `session_direct` | Is the display truthful, is a message in intake dropped by clearQueue, are messages delivered once and in order? | direct calls, an extension message delivered in each of its ways, both queues drained whole | 2.7 million |
| `session_liveness` | Do operations end, each with its outcome and with nothing accepted left behind, stops return and queued messages arrive? | 1 submit, 1 steer, 1 follow-up, 1 stop, 1 push by beforeStop; no overflow; intake that may never return | 97 thousand |
| `tool_batch` | Does every call get exactly one truthful result, in order, and does the provider see it so? | 4 calls, all loops, an abort and a crash anywhere, one bash result | 30 thousand |
| `turn_queue` | Is every turn served in order, resumed at most once and not when that was cancelled, and is the chat shown busy exactly then? | 3 turns, 2 chats, 1 stop | 42 thousand |
| `file_edits` | Do the tools implement `AtomicEdits`, one at a file at a time, and does every call end? | 4 calls: an edit by a link, an edit and a rewrite of one file, a call on another file; one may be aborted | 262 thousand |
| `server_sessions` | Is there one runtime at a time, kept exactly while somebody needs it, are requests answered, and is nothing left when the server has closed? | 2 connections with 2 requests each, 2 runtimes, 1 operation at a time | 170 thousand |
| `session_log` | Is what was written read back, is an interrupted turn found, and does a closed log stay closed? | 2 managers, 5 entries, 2 logs, 2 Compaction Runs | 506 thousand |

Why the bounds are enough. Two prompts are what a race between submits takes,
and a third only waits behind them; order takes two messages in one queue, which
`session_direct` has, one follow-up its rank behind steering. `MaxRetries = 1`
makes the budget run out, be reset and be cancelled. One response that calls
tools makes each poll happen both within and at the end of a run. A second stop
meets what the first one leaves to stop, in `session_channel`; pushes by
`beforeStop` are in `session_liveness`. Four calls let the abort fall before, between and after prepared, refused
and unreached calls. Three turns put one in progress, one to skip and one
behind it. Three calls on one file are a holder, one that waits for it and one
registered while the first ends; the fourth shows that other files interleave
freely. Two connections with two requests each are one request that opens, one
that joins and one that comes during the disposal, of the same connection or of
another, either of which may have closed; the second runtime is what a request
that waited opens, so `acquire`'s loop goes round once, and a third would only
repeat it. Five entries are two turns with a compaction
between or at the end of them, and a second compaction over the first; a rotated
log is followed once, since following it again is the same step. Bounds are
constants: `MaxStops`, `MaxToolTurns`, `MaxBash`, `Abortable`, `MaxRequests`, `MaxRuntimes`,
`MaxOperations`, `MaxEntries`, `MaxUpset`, `MaxLogs`, `MaxRuns` are bounds of
the models; `MaxRetries` and `MaxPushes` are settings of the program, taken
small. `Quiet` lets a finished behaviour stutter, so deadlock stays checked:
every other state without a successor would be reported.

What each property would catch is in its comment. Some that deserve a remark:

- `IdleMeansIdle` relates three independent flags; a session that says idle
  while a retry sleeps would let a second operation in.
- `OutcomeRecorded` is about every possible crash point: `finish` runs before a
  compaction that may take a minute, and must not run before one that continues
  the operation.
- `FailuresBounded` allows a budget more per stop. A stop that cancels a backoff
  while a follow-up waits makes the operation continue for the follow-up, and
  `agent.continue()` first repeats the request whose retry was cancelled.
- `NothingStranded` excepts messages whose intake outlasted the bounded hold;
  the code chooses to end the operation rather than wait for a handler that may
  itself be waiting for the session to be idle.

- `Serializable` is a refinement, so it also says what mutual exclusion alone
  does not: that the order of the chain is the order of the calls, and that an
  aborted write which goes on is over before anyone else reads.
- `NothingPassesAbort` speaks of what is let through, not only of what runs: a
  gate that answers after the abort lets nothing through, while the parallel loop
  runs what was let through before, which is what the code means to do.
- `Attended` has no step of its own to fail in: members, operations and a run
  end in any order, and each of six callers of `maybeDispose` may be the last.
- `AbandonedEnds` would fail on any way to leave that forgets to look whether it
  was the last, and on any way to attach a connection that is already gone.
- `ClosedForGood` is a leads-to with a box: a request that waited for a
  disposal may open a runtime after `close` collected the sessions to dispose.
- `ContextRestored` compares what a restart would load with a history the
  program does not have: the entries as they were written, minus what the last
  compaction covers. It speaks of steady histories (see below); and what a task
  reset drops counts as covered, although no summary tells of it.
- `MutualExclusion` and `Serializable` hold where no link dangles (see below).
- `DeliveredOnce` also says that what the caller was told is blocked, dropped or
  refused is not delivered. The same cannot be said of what `clearQueue` returned
  (see below).
- `OwnerCancelsResume` says it of every later step, not only of the one that
  cancels: a cancelled turn has no other way back into a queue.
- `ClosedStaysClosed` is about processes that had the log open before it was
  rotated; its exceptions are described below.

Violations, each a disagreement between the code and what a comment or document
of the repository says of it (`PROJECT.json`, "findings", quotes both):

| Run | What happens |
|---|---|
| `direct_prompts` | Two prompts called directly while idle both pass the busy test; the second one's failure settles the session while the first one's run goes on. |
| `told_attached` | The connection that opened a session closes meanwhile, `attach` disposes of the session, and one that waited with it is told that it is attached. |
| `recovery_refused` | After a retried error and then an overflow, the rebuilt state ends in the earlier failed response; `agent.continue()` refuses, and the operation settles without an outcome. |
| `hook_blocked_mid_batch` | A blocked message lands between calls and results, and the provider is sent a made-up result beside the real one. |

`SettledWithOutcome`, `OneOperation` and `CallsAnsweredOnce` are checked in
instances without the respective trigger (no overflow after an error, calls
through a Channel Session, no message blocked before the batch is done), because of these findings.

### What the models showed besides

Behaviour met while modelling that no run records, since the runs ask other
questions. In each case the model has it, and a formula over its variables
(named here) is violated.

- A stop during preflight, during `agent_end` handlers before a backoff, or
  during an overflow recovery's compaction finds nothing to abort, and the
  operation begins an agent run afterwards (`AgentSession`: `Stop`, then
  `at[o]` goes from `preflight`, `sleep` or `recover` to `run`).
- The run loop drains follow-ups into a local variable at its last poll
  (`agent/src/agent-loop.ts:263`) and delivers them only after `turn_start`.
  `clearQueue` in between hands them back to its caller, since the display still
  shows them, and the model gets them all the same (`AgentSession`: a message in
  `cleared` that is delivered later). `agent-session.ts:1927` calls this
  "Clear all queued messages and return them."
- A submit or a stop while `finish` announces a resume
  (`telegram/src/turn-queue.ts:103`) finds no timer to cancel; the timer is set
  when `finish` returns, and the failed turn runs again (`TurnQueue`: `SubmitEnds`,
  `Submit`, `FinishEnds`, `ResumeFires`), although `GLOSSARY.md:105` says "A new
  owner turn or /stop cancels it".
- A closed log can be written after all. `_assertWritable`
  (`session-manager.ts:1060`, `:1101`) and the append (`:1088`) are separate system
  calls with no lock, and the marker of another process's rotation (`:1339`) may
  fall between (`SessionLog`: `Check` of one manager, `Rotate` of another,
  `AppendEntry` of the first); and the test compares only sizes, which a rewrite
  that prunes signatures may make equal again. The entry then stands behind the
  marker, in a log that nobody reads on from, although
  `session-manager.ts:1196-1197` says that it is "never written again".
- A path that is a symbolic link to a file that does not exist has a key of its
  own, since `realpath` fails for it, so a call by the link and one by the file's
  name do not exclude each other until the file exists. `NoDanglingLinks`, in
  `LinkedSpec`, excludes it. (No call removes a file, so it is a matter of the
  initial state.)
- Four ways to lose history, each of which `steady` excludes and each needed:
  (1) an append fails, the entry stays in memory as the leaf, and the process
  appends again: the file then holds a child whose parent it lacks, and a restart
  finds only what follows; (2) two processes have the session open and both
  append, so that the later one's entries hang on a leaf the earlier ones are not
  under; (3) the leaf moves (`navigateTree`) while a Compaction Run waits, so that
  the entry lands on a branch it does not summarise, or moves behind the
  compaction a rotated log begins with; (4) a rotation happens under a second
  Compaction Run, whose kept entry the new log may not carry.

### Fairness

`AgentSession`: weak fairness of `AgentStep` and of each operation's
`OperationStep`. Provider streams and tools end by themselves or by timeouts,
and both react to the abort signal; the backoff and the hold are timers; the
summarizer is a provider call. Nothing is assumed of intake hooks, preflight,
submits or stops, so `OperationEnds` covers an input handler that never returns.
`TurnQueue`: weak fairness of a turn's stages and of the resume timer: downloads
and Telegram requests time out, and an operation ends (that is `OperationEnds`).
`FileEdits`: weak fairness of each call's steps: file operations settle.
`LiveSessions`: weak fairness of what the service, a runtime and a transport owe
(an opening, an operation, a run, a disposal, a snapshot, the closing of a
connection the server closes); nothing is assumed of clients. `SessionLog` has no
liveness: its calls are synchronous.

## 4. Proofs

All leaves are checked by the SMT, Zenon and LS4 backends; nothing is assumed
except the named ASSUMEs on constants, which TLC evaluates in the runs, and the
hypotheses stated in the theorems.

**`AgentSession_proofs`**: `TypeCorrect`, for every environment, and
`OneOperationAtATime`, `IdleIsIdle`, `OutcomeIsRecorded`, for every set of
messages, every setting and bound, under two hypotheses: `Channel` (calls come
through a Channel Session) and `Customs = {}` (no extension triggers a turn). They
are needed: `direct_prompts` is a counterexample without the first, and an
extension message starts an operation with no lock either. `session_channel` is
an instance that satisfies them.

The inductive invariants. `TypeOK` alone is not inductive: dropping one failed
response after a rebuild yields a natural number only because the state never
holds more of them than the log, and sending a run's events to its operation
needs an owner. `TypeInv` adds `failedInState <= failedInLog`, that only prompts
are in `Starting`, `Operating` and `settle` places, and that a run has an owner.
`OneOperation` says two calls are never both operating, and a call in intake or
preflight will start to operate without a further test; so the invariant
`SingleInv` says that at most one *prompt* is anywhere from intake to settling
(`OneInProgress`: the promise chain), that an agent run belongs to a prompt at
`run`, that `active` is exactly "some prompt operates", and that the outcome
count fits the place. `OneOperation`, `IdleMeansIdle` and `OutcomeRecorded`
follow from it. The proof has a lemma per way of moving on (`BeginRunSingle`,
`ContinueSingle`, `MoveOnSingle`, `SettleSingle`, `ElsewhereSingle`), and one
per group of actions that applies them.

**`AgentSession_messages_proofs`**: `MessagesDeliveredOnce`,
`NothingQueuedBeforeClear`, `DisplayTellsTheTruth`, `DeliveredOldestFirst`,
with no hypothesis at all: they hold of overlapping
operations too. The inductive `MessageInv` has five parts. `SubmitsWait`: the
promise chain holds calls that wait, each once. `OwnerRuns`: a run belongs to an
operation at `run`. `Accepted`: a message that is queued, held by the run loop or
delivered is past its intake, which is why nobody can accept it again.
`SinceClear`: what is queued has the current generation. `QueueInv`: the queues,
what the loop holds and what was delivered are disjoint and without repetition
(`Apart`); the display is the queue in its order behind what the loop holds of
that queue (`Displayed`); and the loop holds messages only where it delivers them
next (`HeldToDeliver`), without which an `agent_end` could drop some. The
action property `OldestFirst` follows from it in each step. `DisplayIsQueue` is stated
with quantifiers over places instead of with filtered sequences (`Shows`), which
says the same of sequences without repetitions and is what SMT can use.

**`AgentSession_retry_proofs`**: `RetriesHideTheFailure` and `FailuresAreBounded`
(under `Channel`, `Customs = {}`), `SettlesWithOutcome` and `NothingIsStranded`
(also under `NoRecovery`). `CleanInv` says wherever the provider is asked next
that the request can be repeated: no failed response in the state, and the
conversation does not end in an answer. `RoomInv` bounds failures by a potential:
while an operation may ask again, the failures in the log, one more, the retry
budget and what an unused recovery can add fit under
`2 * (MaxRetries + 1) + stops * MaxRetries`, the attempts used already counted in
its favour. A retry moves one unit from `attempt` to the failures, a recovery
spends `Recovery`, and a stop that cancels a backoff buys a budget more, which is
why the bound has the term in `stops`. `SettleInv` and `StrandInv` are one
invariant each about the steps after the run; `Caught` says that a message in
intake is one the hold waits for or has given up. `NoRecovery` (compaction is off, or
no response overflows or is truncated) is needed because of `recovery_refused`:
there, an operation whose recovery is refused settles with no outcome. It
excludes more than the finding takes (an overflow after a retried error), which no
constant expresses; `session_liveness` satisfies it.

**`ToolBatch_proofs`**: `TypeCorrect`, `ResultsAreTruthful`, `RunningIsShown`,
`AbortStopsCalls`, and, under `~HookMessages` (no hook blocks a message before the
batch is done, see `hook_blocked_mid_batch`), `ResultsAreInOrder` and
`CallsAreAnsweredOnce`, for every number of calls. `ReportedTruthfully` speaks
of ended calls; the invariant says of every place what has been done by then,
and that the calls not reached are those after the cursor, which is why the
skipped ones never ran. `ResultsInOrder` counts answered calls; the invariant
`Answers` names the number `m` of them and says that their results follow the
message, and that a bash result or a custom message comes after them only when
`m` is the number of calls, so that the result of call `m + 1` can only come next.

`CallsAreAnsweredOnce` adds the provider's view. `TransformMessages!Sent` folds over
the transcript with a function that the community modules define on sets of
positions and choose by its equation. `StepsExist` shows that there is one, by
adding a position at a time (an induction over a set of numbers, from the well-founded
order, with no operator as a parameter); `SentSteps` turns the fold into a sequence of
views; `ViewStep` says where the view stands after each message, and `SentIs`
that what is sent is the transcript and a made-up result for each of the calls
after `m`. `SyntheticIs` says of these that each is there once.

**`TurnQueue_proofs`**: `TypeCorrect`, `BusyIsShown`,
`TurnsRunAtMostTwice`, `TurnsStartInOrder`, `CancelledResumesStay`, for every set of chats and turns.
`TypeOK /\ BusyShown` is inductive: that a chat at rest has no queue is what makes
a starting drain loop serve the entry it was started for. For the other two,
`FullInv` says where a turn is: in one queue once, or current in one chat, or set
as a timer (`OncePlaced`); how often it was started follows from the place
(`Counted`), and it is known to its chat (`Known`). `InOrder` needs the future as
well as the past: a submitted turn was started, was skipped, or still waits
(`Waiting`), and the turns that wait stand in the order of submission with none
behind them started (`WaitInOrder`). Since a step may put a turn in the queue and
let the drain loop take the first one, each part takes the state as parameters
and is shown of the state in between. `CancelledResumesStay` adds that a cancelled
turn is in no place (`Gone`): the timer was its only one (`OncePlaced`), and a turn
enters a queue only new or by its timer.

**`FileEdits_proofs`**: `TypeCorrect`, `Exclusion`, `EntriesHeld`, `Implements`,
for every set of calls, files and paths, the last three under `NoDanglingLinks`.
Exclusion does not follow from the state of the queue map alone: a call whose
entry was overwritten by a later one still holds. The inductive invariant `Inv`
orders everything by the number of the call: registrations stand in line in that
order (`InLine`) and behind all that are registered (`RegisteredFirst`); the key
of a registered call is its file (`Keyed`, where the hypothesis is needed); a
call with others registered before it waits for one at least as late as any of
them (`WaitsForLatest`), so whoever holds a file is the first of its registered
calls (`HolderFirst`), which is both exclusion and `AtomicEdits!IsNext`; and a
queue's entry is the last of them (`QueueEnds`). The refinement needs one thing
more: what an edit has read is still in the file when it writes (`SeenIsThere`).

**`LiveSessions_proofs`**: `TypeCorrect`, `OneRuntimeOnly`, `AlwaysAttended`, for
every number of connections, requests, and runtimes, with no hypothesis: clients
may close at any time. `Placed` says where a runtime in use is: in
`openingSessions`, in `liveSessions`, of which never both have one, or held by the
server's close; so there is one. `Settled` says of a live runtime that
`MaybeDispose` would not change it, and every step that takes a reason away applies
`MaybeDispose` in the same step; those who join a runtime that is being disposed
do not make it live again.

**`SessionLog_proofs`**: `TypeCorrect`, `MarkersLeadOn`,
`InterruptionsReported`, `ContextSurvives`, `RotatedLogsStayClosed`, for every number of managers, entries,
logs and runs. The path to a leaf, the lines that parse and the log a chain of markers leads to are
recursive functions over numbers. A `CHOOSE` hides behind such a definition, so
each is first shown to satisfy its equation and to have its type, by the smallest
argument for which it would not (`LeastNat`, from the library's well-founded `<`) or by
`UpTo`, induction for a property given as a set. This needs that a parent comes
before its child and that a marker names a later log, so `TypeInv` is the type
with `LinesInv` (the lines that parse are in the order of their entries, each
after its parent; only a last line is a marker, and it names the next log) and
`Present` (what a marker names is there).

`InterruptionFound` compares three things that failing writes set apart: what the
log says, what the manager's memory says, and what happened. `SteadyInv` says, of
steady histories, that one manager is up (`Alone`), that a turn is on record only
if there is a log (`NothingRuns`), that what a restart finds tells the turn
(`FoundTells`), and (`ManagerTells`) that the log a manager appends to tells it
too, is line for line its memory until a write fails, and that before the first
write there is no reply. `Asks`, a first-order form of `Unclosed` (there is a user
message with no end after it), is what the lemmas about appending, tearing,
rewriting and carrying over are stated with.

`ContextRestored` compares sets: paths rise, so a path is its entries (`On`), and
the history is the path through all entries as they were made (`Made`).
`Remembers` is what the property says of the two: they are equal, or agree on
their last compaction and, from the entry it keeps, on all but what it covers.
Held only at the leaf, that is not inductive, because a branch may go back to any
entry. `Good` says it of every entry of a log; of a rotated log, which starts in
the middle of the history, of every entry behind the compaction it was rotated
for, and the leaf is one of these (`Rooted`). That is the condition under which
`Branch` leaves a history steady. `GoodInv` says it of the log a restart would
read, of a manager's memory, of the log it appends to, and (`RunGood`) that the
entry a waiting Compaction Run would append may be the last compaction there: what
it covers is what stands before the entry it keeps, however many entries, and
whichever other run's compaction, came between. `EntryInv` says that parents and
covered entries were made before. A rotation preserves it since the tail starts at
or before the kept entry (`TailBefore`, `CarriedFrom`), so what it drops is covered.
`RotatedLogsStayClosed` needs neither steadiness nor more than the type: what a
manager last tested was open then (`CheckedOpen`), or the log was rewritten behind
its back; so a test that finds the log as it was finds it open, and what is
written behind a marker is written after such a test.
TLC checked `SteadyInv`, `EntryInv` and `GoodInv` on the instance of `session_log`
before they were proved.

Only model-checked. Liveness under fairness and anything with ENABLED is out of
the prover's reach. Every invariant and action property that a passing run checks
is stated by a theorem; `CallsAnsweredOnce` and what is above about the fold are
shown for the transcripts a batch can leave, not for every conversation.

## 5. Not modelled

- Front ends and wire formats (RPC, TUI, dashboard, provider adapters, schemas):
  rendering and translation, with no state the models would tell apart. Their
  calls are the environment actions of `AgentSession` and `LiveSessions`.
- Tools other than edit and write, hooks, extensions, Durable Memory: file,
  process and network I/O and text ranking; the models see a step with an outcome.
- In modelled components: streaming deltas, model management and session
  switching in AgentSession; error classification and delays of retries; forks,
  labels, notes, images and artifacts of the session log; the cut point's token
  arithmetic, task resets and the abort controller of a Compaction Run; the
  server's handshake and snapshot publisher.
- A listener that throws in the middle of a parallel batch
  (`agent/src/agent-loop.ts:559`), and a session-log write that fails under the
  run loop (`:185`): `ToolBatch` and `AgentSession` have no failing listener.

## 6. Plan

Done: the modules of section 2 and the theorems of section 4. Left, in order of
weight:

1. `ClientLeases` (client: acquire, release, reconnect), composed with
   `LiveSessions` over a channel that may break; `SnapshotPublisher`.
   Property: a connected client's state becomes the session's.
2. The busy marker and turn settlement beside `SessionLog`: a restart reports
   exactly the turns whose outcome is missing, once.
3. A failing listener in `ToolBatch`; a compaction by hand beside a prompt's
   intake in `AgentSession`.
4. `Framing` (decoder against a reference over all chunkings), `TaskPlanGuard`.
5. Abstract specifications: a turn service (accepted turns are served one at a
   time, in order, or cancelled) implemented by `TurnQueue` over `AgentSession`;
   `ToolBatch` as the refinement of `AgentSession`'s `tools` phase.
6. Theorems: the refinement steps of 5.
