-------------------------- MODULE AgentSession_proofs --------------------------
(***************************************************************************)
(* Proofs about AgentSession, for every set of messages, every settings    *)
(* and every bound.                                                        *)
(***************************************************************************)
EXTENDS AgentSession, SequenceTheorems, TLAPS

-----------------------------------------------------------------------------
(* Sequences. *)

(* What drain() returns and what it leaves hold messages of the queue.     *)
LEMMA DrainType ==
    ASSUME NEW S, NEW mode, NEW q \in Seq(S)
    PROVE  Drained(mode, q) \in Seq(S) /\ Left(mode, q) \in Seq(S)
  <1>1. CASE q = <<>>
    BY <1>1, EmptySeq DEF Drained, Left
  <1>2. CASE q # <<>>
    <2>1. Head(q) \in S /\ Tail(q) \in Seq(S) /\ <<>> \in Seq(S)
      BY <1>2, HeadTailProperties, EmptySeq
    <2> QED BY <1>2, <2>1 DEF Drained, Left
  <1> QED BY <1>1, <1>2

(* Removing a message from a display leaves a sequence of messages.        *)
LEMMA WithoutType ==
    ASSUME NEW S, NEW q \in Seq(S), NEW m
    PROVE  Without(q, m) \in Seq(S)
  <1>1. CASE ~Contains(q, m)
    BY <1>1 DEF Without
  <1>2. CASE Contains(q, m)
    <2> DEFINE i == CHOOSE j \in DOMAIN q : q[j] = m
    <2>1. i \in 1 .. Len(q)
      BY <1>2, LenProperties DEF Contains
    <2>2. SubSeq(q, 1, i - 1) \in Seq(S)
      <3>1. \A k \in 1 .. (i - 1) : q[k] \in S
        BY <2>1, ElementOfSeq, LenProperties
      <3> QED BY <2>1, <3>1, SubSeqProperties, LenProperties
    <2>3. SubSeq(q, i + 1, Len(q)) \in Seq(S)
      <3>1. \A k \in (i + 1) .. Len(q) : q[k] \in S
        BY <2>1, ElementOfSeq, LenProperties
      <3> QED BY <2>1, <3>1, SubSeqProperties, LenProperties
    <2>4. Without(q, m) = SubSeq(q, 1, i - 1) \o SubSeq(q, i + 1, Len(q))
      BY <1>2 DEF Without, RemoveAt
    <2> QED BY <2>2, <2>3, <2>4, ConcatProperties
  <1> QED BY <1>1, <1>2

-----------------------------------------------------------------------------
(* Types. *)

(* Where a message is that passed intake and starts an operation next. *)
PromptPlaces == {"preflight", "precompact", "prerecover", "ready"}

(* Only prompts go through preflight. *)
OnlyPrompts == \A m \in Msgs : at[m] \in PromptPlaces => m \in Prompts

USE DEF PromptPlaces

(* Every agent run belongs to an operation.                                *)
RunHasOwner == phase # "none" => owner \in Starters

(* Failed responses leave the state, never the log alone: the state has no *)
(* more of them than the log.  A compaction before a prompt that takes one *)
(* out of either count needs this.                                         *)
TypeInv ==
    TypeOK /\ failedInState <= failedInLog /\ OnlyPrompts /\ RunHasOwner

(* Going to another place.                                                 *)
LEMMA GotoType ==
    ASSUME at \in [Msgs -> Places], OnlyPrompts,
           NEW m, NEW place \in Places \ PromptPlaces, Goto(m, place)
    PROVE  at' \in [Msgs -> Places] /\ OnlyPrompts'
  BY DEF Goto, OnlyPrompts

(* The starters are messages.                                              *)
LEMMA StartersAreMessages ==
    Starters \subseteq Msgs /\ Prompts \subseteq UserMsgs
        /\ UserMsgs \subseteq Msgs /\ Customs \subseteq Msgs
  BY DEF Starters, Msgs, UserMsgs

(* A run that begins.                                                      *)
LEMMA BeginRunType ==
    ASSUME TypeInv, NEW o \in Starters, NEW first \in Phases,
           NEW messages \in Seq(Msgs), BeginRun(o, first, messages)
    PROVE  /\ at' \in [Msgs -> Places] /\ OnlyPrompts'
           /\ active' \in BOOLEAN /\ aborted' \in BOOLEAN
           /\ phase' \in Phases /\ owner' \in Starters \cup {NoOne} /\ RunHasOwner'
           /\ pending' \in Seq(Msgs) /\ outcomes' \in Nat
  <1>1. "run" \in Places \ PromptPlaces
    BY DEF Places, Operating
  <1> QED BY <1>1, GotoType DEF BeginRun, TypeInv, TypeOK, RunHasOwner

(* A run that the agent refuses.                                           *)
LEMMA RefuseType ==
    ASSUME TypeInv, NEW o \in Starters, Refuse(o)
    PROVE  /\ at' \in [Msgs -> Places] /\ OnlyPrompts'
           /\ active' \in BOOLEAN /\ aborted' \in BOOLEAN
           /\ phase' \in Phases /\ owner' \in Starters \cup {NoOne} /\ RunHasOwner'
           /\ pending' \in Seq(Msgs) /\ outcomes' \in Nat
  <1>1. "settle" \in Places \ PromptPlaces
    BY DEF Places
  <1> QED BY <1>1, GotoType DEF Refuse, runVars, TypeInv, TypeOK, RunHasOwner

(* agent.continue(), which also takes from the queues.                     *)
LEMMA ContinueType ==
    ASSUME TypeInv, NEW o \in Starters, NEW afterAssistant,
           Continue(o, afterAssistant)
    PROVE  /\ at' \in [Msgs -> Places] /\ OnlyPrompts'
           /\ active' \in BOOLEAN /\ aborted' \in BOOLEAN
           /\ phase' \in Phases /\ owner' \in Starters \cup {NoOne} /\ RunHasOwner'
           /\ pending' \in Seq(Msgs) /\ outcomes' \in Nat
           /\ steerQ' \in Seq(Msgs) /\ followQ' \in Seq(Msgs)
  <1> USE DEF Continue
  <1>1. steerQ \in Seq(Msgs) /\ followQ \in Seq(Msgs)
    BY DEF TypeInv, TypeOK
  <1>2. /\ Drained(SteeringMode, steerQ) \in Seq(Msgs)
        /\ Left(SteeringMode, steerQ) \in Seq(Msgs)
        /\ Drained(FollowUpMode, followQ) \in Seq(Msgs)
        /\ Left(FollowUpMode, followQ) \in Seq(Msgs)
    BY <1>1, DrainType
  <1>3. "prompts" \in Phases /\ "steered" \in Phases /\ <<>> \in Seq(Msgs)
    BY EmptySeq DEF Phases
  <1>4. CASE Refuse(o) /\ UNCHANGED <<steerQ, followQ>>
    BY <1>1, <1>4, RefuseType
  <1>5. CASE BeginRun(o, "prompts", <<>>) /\ UNCHANGED <<steerQ, followQ>>
    BY <1>1, <1>3, <1>5, BeginRunType
  <1>6. CASE /\ BeginRun(o, "steered", Drained(SteeringMode, steerQ))
             /\ steerQ' = Left(SteeringMode, steerQ)
             /\ UNCHANGED followQ
    BY <1>1, <1>2, <1>3, <1>6, BeginRunType
  <1>7. CASE /\ BeginRun(o, "prompts", Drained(FollowUpMode, followQ))
             /\ followQ' = Left(FollowUpMode, followQ)
             /\ UNCHANGED steerQ
    BY <1>1, <1>2, <1>3, <1>7, BeginRunType
  <1> QED BY <1>4, <1>5, <1>6, <1>7
(* The decision after a run that is not retried.                           *)
LEMMA CheckCompactionType ==
    ASSUME TypeInv, NEW o \in Starters, NEW kind, CheckCompaction(o, kind)
    PROVE  /\ at' \in [Msgs -> Places] /\ OnlyPrompts' /\ recovered' \in BOOLEAN
           /\ failedInState' \in Nat /\ failedInState' <= failedInLog
           /\ outcomes' \in Nat
  <1>1. {"recover", "compact", "hold"} \subseteq Places \ PromptPlaces
    BY DEF Places, Operating
  <1>2. DropFailed(failedInState) \in Nat /\ DropFailed(failedInState) <= failedInLog
    BY DEF DropFailed, TypeInv, TypeOK
  <1>3. at' \in [Msgs -> Places] /\ OnlyPrompts'
    BY <1>1, GotoType DEF CheckCompaction, TypeInv, TypeOK
  <1>4. recovered' \in BOOLEAN
    <2>1. recovered' \in {TRUE, recovered}
      BY DEF CheckCompaction
    <2> QED BY <2>1 DEF TypeInv, TypeOK
  <1>5. outcomes' \in Nat
    BY DEF CheckCompaction, TypeInv, TypeOK
  <1>6. failedInState' \in {DropFailed(failedInState), failedInState}
    BY DEF CheckCompaction
  <1>7. failedInState' \in Nat /\ failedInState' <= failedInLog
    BY <1>2, <1>6 DEF TypeInv, TypeOK
  <1> QED BY <1>3, <1>4, <1>5, <1>7

(* Every step of submitting a message keeps the types.                     *)
LEMMA SubmitStepType ==
    ASSUME TypeInv, NEW m \in Msgs, SubmitStep(m)
    PROVE  TypeInv'
  <1> USE DEF TypeInv, TypeOK, RunHasOwner, queueVars, runVars, contextVars,
             loopVars, stopVars
  <1>1. CASE Submit(m)
    <2>1. "waiting" \in Places \ PromptPlaces
      BY DEF Places
    <2> QED BY <1>1, <2>1, GotoType, AppendProperties DEF Submit
  <1>2. CASE Call(m)
    <2>1. "intake" \in Places \ PromptPlaces
      BY DEF Places, Starting
    <2> QED BY <1>2, <2>1, GotoType DEF Call, EnterIntake
  <1>3. CASE Block(m)
    <2>1. "blocked" \in Places \ PromptPlaces
      BY DEF Places, Ended
    <2>2. at' \in [Msgs -> Places] /\ OnlyPrompts'
      BY <1>3, <2>1, GotoType DEF Block
    <2>3. held' \subseteq Msgs
      BY <1>3 DEF Block
    <2>4. /\ UNCHANGED <<gen, generation, submits, nextTurn, active, expired, toolTurns>>
          /\ UNCHANGED <<queueVars, runVars, delivered, pushes, loopVars, stopVars>>
      BY <1>3 DEF Block
    <2>5. /\ base' \in {"custom", base} /\ failedInState' \in {0, failedInState}
          /\ failedInLog' \in {0, failedInLog}
          /\ failedInState' <= failedInLog'
      <3>1. failedInState <= failedInLog
        OBVIOUS
      <3>2. CASE UNCHANGED contextVars
        BY ONLY <3>1, <3>2 DEF contextVars
      <3>3. CASE base' = "custom" /\ failedInState' = 0 /\ failedInLog' = 0
        BY ONLY <3>3
      <3> QED BY ONLY <1>3, <3>2, <3>3 DEF Block
    <2>6. base' \in {"none", "user", "custom", "assistant", "toolResult"}
      BY <2>5
    <2>7. failedInState' \in Nat /\ failedInLog' \in Nat
      BY <2>5
    <2>8. TypeOK'
      BY ONLY TypeOK, <2>2, <2>3, <2>4, <2>6, <2>7
         DEF TypeOK, queueVars, runVars, loopVars, stopVars
    <2>9. RunHasOwner'
      BY <2>4
    <2> QED BY ONLY <2>2, <2>5, <2>8, <2>9 DEF TypeInv
  <1>4. CASE Admit(m)
    <2>1. Append(steerQ, m) \in Seq(Msgs) /\ Append(followQ, m) \in Seq(Msgs)
          /\ Append(steerShown, m) \in Seq(Msgs) /\ Append(followShown, m) \in Seq(Msgs)
      BY AppendProperties
    <2>2. {"rejected", "queued", "dropped"} \subseteq Places \ PromptPlaces
      BY DEF Places, Ended
    <2>3. at' \in [Msgs -> Places] /\ OnlyPrompts'
      BY <1>4, <2>2, GotoType DEF Admit
    <2> QED BY <1>4, <2>1, <2>3 DEF Admit, Enqueue
  <1>5. CASE AdmitIdle(m)
    BY <1>5 DEF AdmitIdle, Goto, Places, Starting, OnlyPrompts
  <1>6. CASE PreflightFail(m)
    <2>1. "rejected" \in Places \ PromptPlaces
      BY DEF Places, Ended
    <2> QED BY <1>6, <2>1, GotoType DEF PreflightFail
  <1>7. CASE BeginPreCompaction(m)
    <2>1. {"precompact", "prerecover"} \subseteq Places
      BY DEF Places, Starting
    <2>2. m \in Prompts
      BY <1>7 DEF BeginPreCompaction, OnlyPrompts
    <2>3. at' \in [Msgs -> Places] /\ OnlyPrompts'
      BY <1>7, <2>1, <2>2 DEF BeginPreCompaction, Goto, OnlyPrompts
    <2>4. failedInState' \in {failedInState, DropFailed(failedInState)}
      BY <1>7 DEF BeginPreCompaction
    <2>5. failedInState' \in Nat /\ failedInState' <= failedInLog
      BY <2>4 DEF DropFailed
    <2>6. recovered' \in BOOLEAN
      <3>1. recovered' \in {TRUE, recovered}
        BY <1>7 DEF BeginPreCompaction
      <3> QED BY <3>1
    <2>7. /\ UNCHANGED <<gen, generation, held, submits, nextTurn, active, expired>>
          /\ UNCHANGED <<toolTurns, queueVars, runVars, delivered, base>>
          /\ UNCHANGED <<failedInLog, pushes, last, attempt, outcomes, stopVars>>
      BY <1>7 DEF BeginPreCompaction
    <2>8. TypeOK'
      BY ONLY TypeOK, <2>3, <2>5, <2>6, <2>7
         DEF TypeOK, queueVars, runVars, stopVars
    <2>9. RunHasOwner'
      BY <2>7
    <2> QED BY <2>3, <2>5, <2>7, <2>8, <2>9
  <1>8. CASE PreCompacted(m)
    <2>1. "ready" \in Places
      BY DEF Places, Starting
    <2>2. m \in Prompts
      BY <1>8 DEF PreCompacted, OnlyPrompts
    <2>3. at' \in [Msgs -> Places] /\ OnlyPrompts'
      BY <1>8, <2>1, <2>2 DEF PreCompacted, Goto, OnlyPrompts
    <2>4. failedInState' \in {failedInState, failedInLog, DropFailed(failedInLog)}
      BY <1>8 DEF PreCompacted
    <2>5. failedInState' \in Nat /\ failedInState' <= failedInLog
      BY <2>4 DEF DropFailed
    <2>7. /\ UNCHANGED <<gen, generation, held, submits, nextTurn, active, expired>>
          /\ UNCHANGED <<toolTurns, queueVars, runVars, delivered, base>>
          /\ UNCHANGED <<failedInLog, pushes, loopVars, stopVars>>
      BY <1>8 DEF PreCompacted
    <2>8. TypeOK'
      BY ONLY TypeOK, <2>3, <2>5, <2>7
         DEF TypeOK, queueVars, runVars, loopVars, stopVars
    <2>9. RunHasOwner'
      BY <2>7
    <2> QED BY <2>3, <2>5, <2>7, <2>8, <2>9
  <1>9. CASE StartOperation(m)
    <2>1. m \in Starters
      BY <1>9 DEF StartOperation, OnlyPrompts, Starters
    <2>2. "prompts" \in Phases /\ <<m>> \o nextTurn \in Seq(Msgs) /\ <<>> \in Seq(Msgs)
      <3>1. <<m>> \in Seq(Msgs)
        OBVIOUS
      <3> QED BY <3>1, ConcatProperties, EmptySeq DEF Phases
    <2> QED BY <1>9, <2>1, <2>2, BeginRunType, RefuseType
            DEF StartOperation, RunAgentPrompt
  <1>10. CASE SendCustom(m)
    <2>1. m \in Starters
      BY <1>10 DEF SendCustom, Starters
    <2>2. "prompts" \in Phases /\ <<m>> \in Seq(Msgs)
          /\ Append(steerQ, m) \in Seq(Msgs) /\ Append(followQ, m) \in Seq(Msgs)
      BY AppendProperties DEF Phases
    <2>3. "queued" \in Places \ PromptPlaces
      BY DEF Places, Ended
    <2>4. CASE active
      BY <1>10, <2>2, <2>3, <2>4, GotoType DEF SendCustom
    <2>5. CASE ~active
      BY <1>10, <2>1, <2>2, <2>5, BeginRunType, RefuseType
         DEF SendCustom, RunAgentPrompt
    <2> QED BY <2>4, <2>5
  <1>11. CASE SendForNextTurn(m)
    <2>1. Append(nextTurn, m) \in Seq(Msgs)
      BY AppendProperties
    <2>2. "queued" \in Places \ PromptPlaces
      BY DEF Places, Ended
    <2> QED BY <1>11, <2>1, <2>2, GotoType DEF SendForNextTurn
  <1>12. CASE AppendCustom(m)
    <2>1. Append(delivered, m) \in Seq(Msgs)
      BY AppendProperties
    <2>2. "over" \in Places \ PromptPlaces
      BY DEF Places, Ended
    <2>3. at' \in [Msgs -> Places] /\ OnlyPrompts'
      BY <1>12, <2>2, GotoType DEF AppendCustom
    <2>4. delivered' \in Seq(Msgs)
      BY <1>12, <2>1 DEF AppendCustom
    <2>5. base' = "custom" /\ failedInState' = 0 /\ failedInLog' = 0
      BY <1>12 DEF AppendCustom
    <2>6. /\ UNCHANGED <<gen, generation, held, submits, nextTurn, active, expired>>
          /\ UNCHANGED <<toolTurns, queueVars, runVars, pushes, loopVars, stopVars>>
      BY <1>12 DEF AppendCustom
    <2>7. TypeOK'
      BY ONLY TypeOK, <2>3, <2>4, <2>5, <2>6
         DEF TypeOK, queueVars, runVars, loopVars, stopVars
    <2>8. RunHasOwner'
      BY <2>6
    <2> QED BY ONLY <2>3, <2>5, <2>7, <2>8 DEF TypeInv
  <1> QED BY <1>1, <1>2, <1>3, <1>4, <1>5, <1>6, <1>7, <1>8, <1>9, <1>10, <1>11,
             <1>12 DEF SubmitStep

(* Every step of the agent's run loop keeps the types.                     *)
LEMMA AgentStepType ==
    ASSUME TypeInv, AgentStep
    PROVE  TypeInv'
  <1> USE DEF TypeInv, TypeOK, RunHasOwner, queueVars, runVars, contextVars,
             loopVars, stopVars
  <1>1. /\ Drained(SteeringMode, steerQ) \in Seq(Msgs)
        /\ Left(SteeringMode, steerQ) \in Seq(Msgs)
        /\ Drained(FollowUpMode, followQ) \in Seq(Msgs)
        /\ Left(FollowUpMode, followQ) \in Seq(Msgs)
    BY DrainType
  <1>2. {"inject", "stream", "tools", "nextTurn", "turnEnd", "stopping",
         "ending", "none"} \subseteq Phases
    BY DEF Phases
  <1>3. UNCHANGED at => OnlyPrompts'
    BY DEF OnlyPrompts
  <1>4. CASE InjectPending
    <2>1. pending # <<>> /\ Head(pending) \in Msgs /\ Tail(pending) \in Seq(Msgs)
      BY <1>4, HeadTailProperties DEF InjectPending
    <2>2. /\ Without(steerShown, Head(pending)) \in Seq(Msgs)
          /\ Without(followShown, Head(pending)) \in Seq(Msgs)
      BY WithoutType
    <2>3. Append(delivered, Head(pending)) \in Seq(Msgs)
      BY <2>1, AppendProperties
    <2>4. recovered' \in BOOLEAN
      <3>1. recovered' \in {FALSE, recovered}
        BY <1>4 DEF InjectPending, Deliver
      <3> QED BY <3>1
    <2>8. pushes' \in Nat
      BY <1>4 DEF InjectPending, Deliver
    <2>5. base' \in {"user", "custom"}
      BY <1>4 DEF InjectPending, Deliver
    <2>6. failedInState' = 0 /\ failedInLog' = 0
      BY <1>4 DEF InjectPending, Deliver
    <2>7. /\ delivered' \in Seq(Msgs) /\ pending' \in Seq(Msgs)
          /\ steerShown' \in Seq(Msgs) /\ followShown' \in Seq(Msgs)
      BY <1>4, <2>1, <2>2, <2>3 DEF InjectPending, Deliver
    <2>9. /\ UNCHANGED <<at, gen, generation, held, submits, nextTurn, active, expired>>
          /\ UNCHANGED <<toolTurns, steerQ, followQ, phase, owner, aborted>>
          /\ UNCHANGED <<last, attempt, outcomes, stopVars>>
      BY <1>4 DEF InjectPending
    <2>10. TypeOK'
      BY ONLY TypeOK, <2>4, <2>5, <2>6, <2>7, <2>8, <2>9 DEF TypeOK, stopVars
    <2>11. OnlyPrompts' /\ RunHasOwner'
      BY <1>3, <2>9 DEF RunHasOwner
    <2> QED BY ONLY <2>6, <2>10, <2>11 DEF TypeInv
  <1>5. CASE EnterLoop
    BY <1>1, <1>2, <1>3, <1>5 DEF EnterLoop, PollSteering
  <1>6. CASE CallProvider
    BY <1>2, <1>3, <1>6 DEF CallProvider
  <1>7. CASE \E kind \in Kinds, callsTools \in BOOLEAN : Respond(kind, callsTools)
    <2>1. PICK kind \in Kinds, callsTools \in BOOLEAN : Respond(kind, callsTools)
      BY <1>7
    <2>2. /\ failedInState' \in Nat /\ failedInLog' \in Nat
          /\ failedInState' <= failedInLog'
      <3>1. CASE kind \in Failures \cup {"length"}
        <4>1. failedInState' = failedInState + 1 /\ failedInLog' = failedInLog + 1
          BY <2>1, <3>1 DEF Respond
        <4> QED BY <4>1
      <3>2. CASE kind \notin Failures \cup {"length"}
        BY <2>1, <3>2 DEF Respond
      <3> QED BY <3>1, <3>2
    <2>3. /\ recovered' \in {FALSE, recovered} /\ base' \in {"assistant", base}
          /\ toolTurns' \in Nat /\ attempt' \in Nat /\ last' \in Kinds
      <3>1. recovered' \in {FALSE, recovered}
        BY ONLY <2>1 DEF Respond
      <3>2. base' \in {"assistant", base} /\ last' \in Kinds
        BY ONLY <2>1 DEF Respond
      <3>3. attempt' \in Nat /\ toolTurns' \in Nat
        BY ONLY <2>1, attempt \in Nat, toolTurns \in Nat DEF Respond
      <3> QED BY <3>1, <3>2, <3>3
    <2>4. phase' \in {"tools", "ending", "turnEnd"}
      BY <2>1 DEF Respond
    <2>5. /\ UNCHANGED <<at, gen, generation, held, submits, nextTurn, active, expired>>
          /\ UNCHANGED <<queueVars, owner, aborted, pending, delivered, pushes>>
          /\ UNCHANGED <<outcomes, stopVars>>
      BY <2>1 DEF Respond
    <2>6. recovered' \in BOOLEAN
      <3>1. recovered' \in {FALSE, recovered}
        BY <2>3
      <3> QED BY <3>1
    <2>7. phase' \in Phases /\ OnlyPrompts'
      BY <1>2, <1>3, <2>4, <2>5
    <2>8. TypeOK'
      BY ONLY TypeOK, <2>2, <2>3, <2>5, <2>6, <2>7 DEF TypeOK, queueVars, stopVars
    <2>9. phase # "none"
      BY <2>1 DEF Respond
    <2>10. RunHasOwner'
      BY <2>5, <2>9
    <2> QED BY ONLY <2>2, <2>7, <2>8, <2>10 DEF TypeInv
  <1>8. CASE ToolsDone
    BY <1>2, <1>3, <1>8 DEF ToolsDone
  <1>9. CASE NextTurn
    BY <1>1, <1>2, <1>3, <1>9 DEF NextTurn, PollSteering
  <1>10. CASE TurnEnd
    BY <1>1, <1>2, <1>3, <1>10 DEF TurnEnd, PollSteering
  <1>11. CASE BeforeStop
    <2>1. /\ UNCHANGED <<at, gen, generation, held, submits, nextTurn, active, expired>>
          /\ UNCHANGED <<toolTurns, queueVars, owner, aborted, pending, loopVars>>
          /\ UNCHANGED <<delivered, stopVars>>
      BY ONLY <1>11 DEF BeforeStop, contextVars
    <2>2. base' \in {"custom", base} /\ phase' \in {"inject", "ending"} /\ phase # "none"
      BY ONLY <1>11 DEF BeforeStop, contextVars
    <2>3. /\ pushes' \in Nat /\ failedInState' \in Nat /\ failedInLog' \in Nat
          /\ failedInState' <= failedInLog'
      BY <1>11 DEF BeforeStop
    <2>4. TypeOK'
      BY ONLY TypeOK, <1>2, <2>1, <2>2, <2>3 DEF TypeOK, queueVars, stopVars, loopVars
    <2>5. OnlyPrompts' /\ RunHasOwner'
      BY <1>3, <2>1, <2>2
    <2> QED BY ONLY <2>3, <2>4, <2>5 DEF TypeInv
  <1>12. CASE AgentEnd
    <2>1. owner \in Starters
      BY <1>12 DEF AgentEnd
    <2>2. "sleep" \in Places \ PromptPlaces
      BY DEF Places, Operating
    <2>3. CASE WillRetry
      <3>1. failedInState' \in Nat /\ failedInState' <= failedInLog
        BY <1>12, <2>3 DEF AgentEnd, DropFailed
      <3>2. at' \in [Msgs -> Places] /\ OnlyPrompts'
        BY <1>12, <2>2, <2>3, GotoType DEF AgentEnd
      <3> QED BY <1>2, <1>12, <2>3, <3>1, <3>2 DEF AgentEnd
    <2>4. CASE ~WillRetry
      <3>1. CheckCompaction(owner, last) /\ attempt' \in Nat
        BY <1>12, <2>4 DEF AgentEnd
      <3> QED BY <1>2, <1>12, <2>1, <3>1, CheckCompactionType DEF AgentEnd
    <2> QED BY <2>3, <2>4
  <1> QED BY <1>4, <1>5, <1>6, <1>7, <1>8, <1>9, <1>10, <1>11, <1>12 DEF AgentStep

(* Every step of the Operation Loop keeps the types.                       *)
LEMMA OperationStepType ==
    ASSUME TypeInv, NEW o \in Starters, OperationStep(o)
    PROVE  TypeInv'
  <1> USE DEF TypeInv, TypeOK, RunHasOwner, queueVars, runVars, contextVars,
             loopVars, stopVars
  <1>1. {"hold", "settle", "over"} \subseteq Places \ PromptPlaces
    BY DEF Places, Operating, Ended
  <1>2. CASE RetryElapsed(o)
    BY <1>2, ContinueType DEF RetryElapsed
  <1>3. CASE RetryCancelled(o)
    BY <1>3, CheckCompactionType DEF RetryCancelled
  <1>4. CASE Recovered(o)
    <2>1. /\ failedInState' \in Nat /\ failedInState' <= failedInLog
      BY <1>4 DEF Recovered, DropFailed
    <2>2. CASE Continue(o, failedInState' > 0 \/ base = "assistant")
      BY <1>4, <2>1, <2>2, ContinueType DEF Recovered
    <2>3. CASE Goto(o, "hold") /\ outcomes' = outcomes + 1
               /\ UNCHANGED <<active, runVars, steerQ, followQ, failedInState>>
      <3>1. at' \in [Msgs -> Places] /\ OnlyPrompts'
        BY <1>1, <2>3, GotoType
      <3>2. outcomes' \in Nat
        BY <2>3
      <3>3. /\ UNCHANGED <<gen, generation, held, submits, nextTurn, expired>>
            /\ UNCHANGED <<toolTurns, steerShown, followShown, delivered, base>>
            /\ UNCHANGED <<failedInLog, pushes, last, attempt, recovered, stopVars>>
        BY <1>4 DEF Recovered
      <3>4. TypeOK'
        BY ONLY TypeOK, <2>1, <2>3, <3>1, <3>2, <3>3 DEF TypeOK, runVars, stopVars
      <3>5. RunHasOwner'
        BY <2>3
      <3> QED BY ONLY TypeInv, <2>1, <2>3, <3>1, <3>3, <3>4, <3>5 DEF TypeInv
    <2> QED BY <1>4, <2>2, <2>3 DEF Recovered
  <1>5. CASE Compacted(o)
    <2>1. /\ failedInState' \in Nat /\ failedInState' <= failedInLog
      BY <1>5 DEF Compacted
    <2>2. CASE Continue(o, failedInState' > 0 \/ base = "assistant")
      BY <1>5, <2>1, <2>2, ContinueType DEF Compacted
    <2>3. CASE Goto(o, "hold") /\ UNCHANGED <<active, runVars, outcomes, steerQ, followQ>>
      BY <1>1, <1>5, <2>1, <2>3, GotoType DEF Compacted
    <2> QED BY <1>5, <2>2, <2>3 DEF Compacted
  <1>6. ASSUME ContinueOrSettle(o)
        PROVE  /\ at' \in [Msgs -> Places] /\ OnlyPrompts'
               /\ active' \in BOOLEAN /\ aborted' \in BOOLEAN
               /\ phase' \in Phases /\ owner' \in Starters \cup {NoOne} /\ RunHasOwner'
               /\ pending' \in Seq(Msgs) /\ outcomes' \in Nat
               /\ steerQ' \in Seq(Msgs) /\ followQ' \in Seq(Msgs)
    <2>1. CASE QueuedMessages
      BY <1>6, <2>1, ContinueType DEF ContinueOrSettle
    <2>2. CASE ~QueuedMessages
      BY <1>1, <1>6, <2>2, GotoType DEF ContinueOrSettle
    <2> QED BY <2>1, <2>2
  <1>7. CASE HoldReleased(o)
    BY <1>6, <1>7 DEF HoldReleased
  <1>8. CASE HoldExpired(o)
    BY <1>6, <1>8 DEF HoldExpired
  <1>9. CASE Settled(o)
    BY <1>1, <1>9, GotoType DEF Settled
  <1> QED BY <1>2, <1>3, <1>4, <1>5, <1>7, <1>8, <1>9 DEF OperationStep

(* Stopping keeps the types.                                               *)
LEMMA StopStepType ==
    ASSUME TypeInv, StopStep
    PROVE  TypeInv'
  <1> USE DEF TypeInv, TypeOK, RunHasOwner, queueVars, runVars, contextVars,
             loopVars, stopVars
  <1>1. ASSUME Abort
        PROVE  at' \in [Msgs -> Places] /\ OnlyPrompts'
    <2>1. "cancelled" \in Places \ PromptPlaces
      BY DEF Places, Operating
    <2> QED BY <1>1, <2>1 DEF Abort, OnlyPrompts
  <1>2. ASSUME Abort
        PROVE  aborted' \in BOOLEAN /\ stopWaiting' \in BOOLEAN
    BY <1>2 DEF Abort
  <1>3. ASSUME ClearQueue
        PROVE  /\ cleared' \subseteq Msgs /\ generation' \in Nat
               /\ steerShown' \in Seq(Msgs) /\ followShown' \in Seq(Msgs)
               /\ steerQ' \in Seq(Msgs) /\ followQ' \in Seq(Msgs)
    <2>1. ToSet(steerShown) \subseteq Msgs /\ ToSet(followShown) \subseteq Msgs
      BY ElementOfSeq, LenProperties DEF ToSet
    <2> QED BY <1>3, <2>1, EmptySeq DEF ClearQueue
  <1>4. CASE Stop
    <2>1. stops' \in Nat
      BY <1>4 DEF Stop
    <2> QED BY <1>1, <1>2, <1>3, <1>4, <2>1 DEF Stop
  <1>5. CASE CallAbort
    BY <1>1, <1>2, <1>5 DEF CallAbort
  <1>6. CASE CallClearQueue
    BY <1>3, <1>6 DEF CallClearQueue, OnlyPrompts
  <1> QED BY <1>4, <1>5, <1>6 DEF StopStep

(* So does starting a submit that waited its turn.                         *)
LEMMA StartSubmitType ==
    ASSUME TypeInv, StartSubmit
    PROVE  TypeInv'
  <1> USE DEF TypeInv, TypeOK, RunHasOwner, queueVars, runVars, contextVars,
             loopVars, stopVars
  <1>1. Head(submits) \in Prompts /\ Tail(submits) \in Seq(Prompts)
    BY HeadTailProperties DEF StartSubmit
  <1>2. Head(submits) \in Msgs
    BY <1>1, StartersAreMessages
  <1>3. "intake" \in Places \ PromptPlaces
    BY DEF Places, Starting
  <1> QED BY <1>1, <1>2, <1>3, GotoType DEF StartSubmit, EnterIntake

(* No step breaks the types.                                               *)
LEMMA TypeStep ==
    ASSUME TypeInv, [Next]_vars
    PROVE  TypeInv'
  <1>1. ASSUME UNCHANGED vars
        PROVE  TypeInv'
    BY <1>1 DEF vars, TypeInv, TypeOK, RunHasOwner, OnlyPrompts, queueVars,
                runVars, contextVars, loopVars, stopVars
  <1>2. Quiet => UNCHANGED vars
    BY DEF Quiet
  <1> QED BY <1>1, <1>2, SubmitStepType, StartSubmitType, AgentStepType,
             OperationStepType, StopStepType DEF Next

(* The types hold initially. *)
LEMMA TypeInit ==
    ASSUME Init
    PROVE  TypeInv
  <1>2. "new" \in Places /\ "none" \in Phases
    BY DEF Places, Phases
  <1>3. at \in [Msgs -> Places] /\ gen \in [Msgs -> Nat] /\ OnlyPrompts
    BY <1>2 DEF Init, OnlyPrompts
  <1>4. /\ submits \in Seq(Prompts)
        /\ steerQ \in Seq(Msgs) /\ followQ \in Seq(Msgs)
        /\ steerShown \in Seq(Msgs) /\ followShown \in Seq(Msgs)
        /\ pending \in Seq(Msgs) /\ delivered \in Seq(Msgs)
        /\ nextTurn \in Seq(Msgs)
    BY EmptySeq DEF Init
  <1>5. /\ active \in BOOLEAN /\ aborted \in BOOLEAN
        /\ recovered \in BOOLEAN /\ stopWaiting \in BOOLEAN
    BY DEF Init
  <1>6. phase \in Phases /\ owner \in Starters \cup {NoOne} /\ RunHasOwner
    BY <1>2 DEF Init, RunHasOwner
  <1>7. /\ generation \in Nat /\ failedInState \in Nat /\ failedInLog \in Nat
        /\ failedInState <= failedInLog
        /\ attempt \in Nat /\ outcomes \in Nat /\ pushes \in Nat
        /\ toolTurns \in Nat /\ stops \in Nat
    BY DEF Init
  <1>8. /\ held \subseteq Msgs /\ expired \subseteq Msgs
        /\ cleared \subseteq Msgs
        /\ base = "none" /\ last = "none"
    BY DEF Init
  <1> QED BY <1>3, <1>4, <1>5, <1>6, <1>7, <1>8 DEF TypeInv, TypeOK

(* Type correctness: every variable keeps its type in every execution, for *)
(* all sets of messages, settings and bounds (agent-session.ts's state).   *)
THEOREM TypeCorrect == Spec => []TypeOK
  <1>1. Init => TypeInv
    BY TypeInit
  <1>2. TypeInv /\ [Next]_vars => TypeInv'
    BY TypeStep
  <1>3. TypeInv => TypeOK
    BY DEF TypeInv
  <1> QED BY <1>1, <1>2, <1>3, PTL DEF Spec

-----------------------------------------------------------------------------
(* One operation at a time, behind a Channel Session.                      *)

(* The places of a submit whose prompt() is in progress.                   *)
InProgress == Starting \cup Operating \cup {"settle"}

(* The Channel Session's promise chain lets one prompt() in at a time.     *)
OneInProgress ==
    \A p, q \in Prompts : at[p] \in InProgress /\ at[q] \in InProgress => p = q

(* An agent run belongs to the operation that is running it.               *)
RunInOperation == phase # "none" => owner \in Prompts /\ at[owner] = "run"

(* isStreaming, and what the log says while an operation goes on.          *)
ActiveInOperation == active <=> \E o \in Prompts : at[o] \in Operating

(* The inductive invariant.  OneOperation alone is not one: it does not    *)
(* see a second prompt() in intake or preflight that would start an        *)
(* operation next.                                                         *)
SingleInv ==
    /\ OneInProgress /\ RunInOperation /\ ActiveInOperation
    /\ OutcomeRecorded

(* Without extension messages only prompts start operations.               *)
LEMMA StartersArePrompts ==
    ASSUME Customs = {}
    PROVE  Starters = Prompts
  BY DEF Starters

(* The places of an operation are places of a submit in progress.          *)
LEMMA PlacesOfOperations ==
    /\ Operating \subseteq InProgress /\ Starting \subseteq InProgress
    /\ Starting \cap Operating = {}
    /\ "settle" \in InProgress /\ "settle" \notin Operating
    /\ \A place \in Ended \cup {"new", "waiting"} : place \notin InProgress
  BY DEF InProgress, Starting, Operating, Ended

(* No run is active when the submit in progress is not running one.        *)
LEMMA NoRunElsewhere ==
    ASSUME SingleInv, NEW o \in Prompts, at[o] \in InProgress \ {"run"}
    PROVE  phase = "none"
  <1>1. "run" \in InProgress
    BY DEF InProgress, Operating
  <1> QED BY <1>1 DEF SingleInv, OneInProgress, RunInOperation

(* The submit in progress begins an agent run.                             *)
LEMMA BeginRunSingle ==
    ASSUME TypeInv, SingleInv, Customs = {}, NEW o \in Prompts,
           at[o] \in InProgress, NEW first \in Phases \ {"none"}, NEW messages,
           BeginRun(o, first, messages)
    PROVE  SingleInv'
  <1>1. at' = [at EXCEPT ![o] = "run"] /\ at \in [Msgs -> Places] /\ o \in Msgs
    BY StartersAreMessages DEF BeginRun, Goto, TypeInv, TypeOK, Starters
  <1>2. "run" \in Operating /\ "run" \in InProgress
    BY DEF InProgress, Operating
  <1>3. \A p \in Prompts : p \in Msgs
    BY StartersAreMessages DEF Starters
  <1>4. OneInProgress'
    BY <1>1, <1>2, <1>3 DEF OneInProgress, SingleInv
  <1>5. RunInOperation'
    BY <1>1 DEF BeginRun, RunInOperation
  <1>6. ActiveInOperation'
    BY <1>1, <1>2 DEF BeginRun, ActiveInOperation
  <1>7. OutcomeRecorded'
    <2>1. \A p \in Prompts : at'[p] \in Operating => p = o
      BY <1>1, <1>2, <1>3, PlacesOfOperations DEF OneInProgress, SingleInv
    <2>2. outcomes' = 0
      BY DEF BeginRun
    <2> QED BY <1>1, <2>1, <2>2, StartersArePrompts DEF OutcomeRecorded, Operating
  <1> QED BY <1>4, <1>5, <1>6, <1>7 DEF SingleInv

(* The submit in progress goes straight to settling, with no run active.   *)
LEMMA SettleSingle ==
    ASSUME TypeInv, SingleInv, Customs = {}, NEW o \in Prompts,
           at[o] \in InProgress, phase' = "none",
           Goto(o, "settle"), active' = FALSE
    PROVE  SingleInv'
  <1>1. at' = [at EXCEPT ![o] = "settle"] /\ at \in [Msgs -> Places] /\ o \in Msgs
    BY StartersAreMessages DEF Goto, TypeInv, TypeOK, Starters
  <1>2. \A p \in Prompts : p \in Msgs
    BY StartersAreMessages DEF Starters
  <1>3. \A p \in Prompts : at'[p] \in InProgress => p = o
    BY <1>1, <1>2, PlacesOfOperations DEF OneInProgress, SingleInv
  <1>4. \A p \in Prompts : at'[p] \notin Operating
    BY <1>1, <1>3, PlacesOfOperations
  <1>5. OneInProgress'
    BY <1>3 DEF OneInProgress
  <1>6. RunInOperation' /\ ActiveInOperation'
    BY <1>4 DEF RunInOperation, ActiveInOperation
  <1>7. OutcomeRecorded'
    BY <1>4, StartersArePrompts DEF OutcomeRecorded, Operating
  <1> QED BY <1>5, <1>6, <1>7 DEF SingleInv

(* An operation moves on between two runs, with the outcomes that belong   *)
(* to where it goes.                                                       *)
LEMMA MoveOnSingle ==
    ASSUME TypeInv, SingleInv, Customs = {}, NEW o \in Prompts,
           NEW place \in Operating \ {"run"},
           at[o] \in Operating, Goto(o, place),
           phase' = "none", active' = active,
           place \in {"sleep", "cancelled", "recover"} => outcomes' = 0,
           place \in {"compact", "hold"} => outcomes' = 1
    PROVE  SingleInv'
  <1>1. at' = [at EXCEPT ![o] = place] /\ at \in [Msgs -> Places] /\ o \in Msgs
    BY StartersAreMessages DEF Goto, TypeInv, TypeOK, Starters
  <1>2. \A p \in Prompts : p \in Msgs
    BY StartersAreMessages DEF Starters
  <1>3. \A p \in Prompts : at'[p] \in InProgress => p = o
    BY <1>1, <1>2, PlacesOfOperations DEF OneInProgress, SingleInv
  <1>4. OneInProgress'
    BY <1>3 DEF OneInProgress
  <1>5. RunInOperation'
    BY DEF RunInOperation
  <1>6. ActiveInOperation'
    BY <1>1 DEF ActiveInOperation, SingleInv
  <1>7. OutcomeRecorded'
    BY <1>1, <1>3, PlacesOfOperations, StartersArePrompts DEF OutcomeRecorded, Operating
  <1> QED BY <1>4, <1>5, <1>6, <1>7 DEF SingleInv

(* A message moves from one place outside of operations to another.        *)
LEMMA ElsewhereSingle ==
    ASSUME TypeInv, SingleInv, Customs = {}, NEW m \in Msgs, NEW place,
           at[m] \notin Operating, place \notin Operating, Goto(m, place),
           UNCHANGED <<active, phase, owner, outcomes>>
    PROVE  RunInOperation' /\ ActiveInOperation' /\ OutcomeRecorded'
  <1>1. at' = [at EXCEPT ![m] = place] /\ at \in [Msgs -> Places]
    BY DEF Goto, TypeInv, TypeOK
  <1>2. \A p \in Prompts : p \in Msgs
    BY StartersAreMessages DEF Starters
  <1>3. \A p \in Prompts : /\ at'[p] \in Operating <=> at[p] \in Operating
                           /\ at[p] \in Operating => at'[p] = at[p]
    BY <1>1, <1>2
  <1>4. RunInOperation'
    BY <1>3 DEF RunInOperation, SingleInv, Operating
  <1>5. ActiveInOperation'
    BY <1>3 DEF ActiveInOperation, SingleInv
  <1>6. OutcomeRecorded'
    BY <1>3, StartersArePrompts DEF OutcomeRecorded, SingleInv, Operating
  <1> QED BY <1>4, <1>5, <1>6

(* agent.continue() after a run of the same operation.                     *)
LEMMA ContinueSingle ==
    ASSUME TypeInv, SingleInv, Customs = {}, NEW o \in Prompts,
           at[o] \in Operating \ {"run"}, NEW afterAssistant,
           Continue(o, afterAssistant)
    PROVE  SingleInv'
  <1>1. at[o] \in InProgress /\ phase = "none"
    BY NoRunElsewhere, PlacesOfOperations
  <1>2. {"prompts", "steered"} \subseteq Phases \ {"none"}
    BY DEF Phases
  <1>3. CASE \E first \in Phases \ {"none"} : \E messages : BeginRun(o, first, messages)
    BY <1>1, <1>3, BeginRunSingle
  <1>4. CASE Refuse(o)
    BY <1>1, <1>4, SettleSingle DEF Refuse, runVars
  <1> QED BY <1>1, <1>2, <1>3, <1>4 DEF Continue

(* Taking a message in leaves one submit in progress.                      *)
LEMMA SubmitStepSingle ==
    ASSUME TypeInv, SingleInv, Channel, Customs = {},
           NEW m \in Msgs, SubmitStep(m)
    PROVE  SingleInv'
  <1>1. at \in [Msgs -> Places] /\ \A p \in Prompts : p \in Msgs
    BY StartersAreMessages DEF Starters, TypeInv, TypeOK
  <1>2. ASSUME NEW place, Goto(m, place),
               place \notin InProgress \/ at[m] \in InProgress \/ m \notin Prompts
        PROVE  OneInProgress'
    BY <1>1, <1>2 DEF Goto, OneInProgress, SingleInv
  <1>3. {"new", "waiting", "intake", "preflight", "blocked", "queued", "dropped",
         "rejected"} \cap Operating = {}
    BY DEF Operating
  <1> USE DEF SingleInv, queueVars, runVars, contextVars, loopVars, stopVars
  <1>4. CASE Submit(m)
    BY <1>2, <1>3, <1>4, PlacesOfOperations, ElsewhereSingle DEF Submit
  <1>5. CASE Call(m)
    BY <1>2, <1>3, <1>5, PlacesOfOperations, ElsewhereSingle DEF Call, EnterIntake
  <1>6. CASE Block(m)
    BY <1>2, <1>3, <1>6, PlacesOfOperations, ElsewhereSingle DEF Block, Ended
  <1>7. CASE Admit(m)
    BY <1>2, <1>3, <1>7, PlacesOfOperations, ElsewhereSingle DEF Admit, Ended
  <1>8. CASE AdmitIdle(m)
    <2>1. at[m] \in InProgress
      BY <1>8 DEF AdmitIdle, InProgress, Starting
    <2> QED BY <1>2, <1>3, <1>8, <2>1, ElsewhereSingle DEF AdmitIdle
  <1>9. CASE PreflightFail(m)
    BY <1>2, <1>3, <1>9, PlacesOfOperations, ElsewhereSingle DEF PreflightFail, Ended
  <1>10. CASE BeginPreCompaction(m) \/ PreCompacted(m)
    <2>1. at[m] \in Starting
      BY <1>10 DEF BeginPreCompaction, PreCompacted, Starting
    <2>2. PICK place \in {"precompact", "prerecover", "ready"} : Goto(m, place)
      BY <1>10 DEF BeginPreCompaction, PreCompacted
    <2>3. place \notin Operating /\ at[m] \notin Operating /\ at[m] \in InProgress
      BY <2>1, <2>2, PlacesOfOperations DEF Operating
    <2>4. UNCHANGED <<active, phase, owner, outcomes>>
      BY <1>10 DEF BeginPreCompaction, PreCompacted
    <2> QED BY <1>2, <2>2, <2>3, <2>4, ElsewhereSingle
  <1>11. CASE StartOperation(m)
    <2>1. m \in Prompts /\ at[m] \in InProgress \ {"run"}
      BY <1>11 DEF StartOperation, TypeInv, OnlyPrompts, InProgress, Starting
    <2>2. phase = "none" /\ "prompts" \in Phases \ {"none"}
      BY <2>1, NoRunElsewhere DEF Phases
    <2> QED BY <1>11, <2>1, <2>2, BeginRunSingle DEF StartOperation, RunAgentPrompt
  <1>12. CASE SendCustom(m) \/ SendForNextTurn(m) \/ AppendCustom(m)
    BY <1>12 DEF SendCustom, SendForNextTurn, AppendCustom
  <1> QED BY <1>4, <1>5, <1>6, <1>7, <1>8, <1>9, <1>10, <1>11, <1>12 DEF SubmitStep

(* The promise chain lets the next submit in when no other is in progress. *)
LEMMA StartSubmitSingle ==
    ASSUME TypeInv, SingleInv, Customs = {}, StartSubmit
    PROVE  SingleInv'
  <1>1. Head(submits) \in Prompts /\ Goto(Head(submits), "intake")
    BY HeadTailProperties DEF StartSubmit, EnterIntake, TypeInv, TypeOK
  <1>2. OneInProgress'
    BY <1>1, StartersAreMessages
       DEF StartSubmit, ChannelFree, Goto, OneInProgress, InProgress, TypeInv,
           TypeOK, Starters
  <1>3. "intake" \notin Operating /\ at[Head(submits)] \notin Operating
    BY <1>1 DEF Operating, StartSubmit, ChannelFree
  <1> QED BY <1>1, <1>2, <1>3, ElsewhereSingle, StartersAreMessages
          DEF StartSubmit, SingleInv, runVars, loopVars, Starters

(* The agent's run loop.                                                   *)
LEMMA AgentStepSingle ==
    ASSUME TypeInv, SingleInv, Customs = {}, AgentStep
    PROVE  SingleInv'
  <1>1. CASE UNCHANGED <<at, active, owner, outcomes>> /\ phase # "none"
    BY <1>1 DEF SingleInv, OneInProgress, RunInOperation, ActiveInOperation,
                OutcomeRecorded
  <1>2. CASE AgentEnd
    <2>1. owner \in Prompts /\ at[owner] = "run" /\ outcomes = 0
      BY <1>2, StartersArePrompts
         DEF AgentEnd, SingleInv, RunInOperation, OutcomeRecorded
    <2>2. at[owner] \in Operating
      BY <2>1 DEF Operating
    <2>3. {"sleep", "recover", "compact", "hold"} \subseteq Operating \ {"run"}
      BY DEF Operating
    <2>4. CASE WillRetry
      BY <1>2, <2>1, <2>2, <2>3, <2>4, MoveOnSingle DEF AgentEnd
    <2>5. CASE ~WillRetry
      BY <1>2, <2>1, <2>2, <2>3, <2>5, MoveOnSingle DEF AgentEnd, CheckCompaction
    <2> QED BY <2>4, <2>5
  <1> USE DEF queueVars, runVars, contextVars, loopVars, stopVars
  <1>3. InjectPending \/ EnterLoop \/ CallProvider
            => UNCHANGED <<at, active, owner, outcomes>> /\ phase # "none"
    BY DEF InjectPending, EnterLoop, CallProvider
  <1>4. (\E kind \in Kinds, callsTools \in BOOLEAN : Respond(kind, callsTools))
            => UNCHANGED <<at, active, owner, outcomes>> /\ phase # "none"
    BY DEF Respond
  <1>5. ToolsDone \/ NextTurn \/ TurnEnd \/ BeforeStop
            => UNCHANGED <<at, active, owner, outcomes>> /\ phase # "none"
    BY DEF ToolsDone, NextTurn, TurnEnd, BeforeStop
  <1> QED BY <1>1, <1>2, <1>3, <1>4, <1>5 DEF AgentStep

(* The Operation Loop.                                                     *)
LEMMA OperationStepSingle ==
    ASSUME TypeInv, SingleInv, Customs = {}, NEW o \in Prompts, OperationStep(o)
    PROVE  SingleInv'
  <1>1. {"sleep", "cancelled", "recover", "compact", "hold"} \subseteq Operating \ {"run"}
    BY DEF Operating
  <1>2. ASSUME at[o] \in Operating \ {"run"}
        PROVE  at[o] \in InProgress /\ phase = "none" /\ active = TRUE
    BY <1>2, NoRunElsewhere, PlacesOfOperations
       DEF SingleInv, ActiveInOperation, TypeInv, TypeOK
  <1>3. ASSUME at[o] \in Operating \ {"run"}, ContinueOrSettle(o)
        PROVE  SingleInv'
    BY <1>2, <1>3, ContinueSingle, SettleSingle DEF ContinueOrSettle, runVars
  <1> USE DEF runVars, loopVars
  <1>4. CASE RetryElapsed(o)
    BY <1>1, <1>4, ContinueSingle DEF RetryElapsed
  <1>5. CASE RetryCancelled(o)
    <2>1. at[o] \in Operating \ {"run"} /\ outcomes = 0
      BY <1>1, <1>5, StartersArePrompts DEF RetryCancelled, SingleInv, OutcomeRecorded
    <2> QED BY <1>1, <1>2, <1>5, <2>1, MoveOnSingle DEF RetryCancelled, CheckCompaction
  <1>6. CASE Recovered(o)
    <2>1. at[o] \in Operating \ {"run"} /\ outcomes = 0
      BY <1>1, <1>6, StartersArePrompts DEF Recovered, SingleInv, OutcomeRecorded
    <2>2. CASE Continue(o, failedInState' > 0 \/ base = "assistant")
      BY <2>1, <2>2, ContinueSingle
    <2>3. CASE Goto(o, "hold") /\ outcomes' = outcomes + 1
               /\ UNCHANGED <<active, runVars, steerQ, followQ, failedInState>>
      <3>1. outcomes' \in {0, 1} /\ outcomes' = 1
        BY <2>1, <2>3
      <3>2. at[o] \in InProgress /\ phase = "none" /\ active = TRUE
        BY <1>2, <2>1
      <3>3. UNCHANGED <<active, phase, owner>>
        BY <2>3
      <3>4. "hold" \in Operating \ {"run"}
        BY <1>1
      <3> QED BY <2>1, <2>3, <3>1, <3>2, <3>3, <3>4, MoveOnSingle
    <2> QED BY <1>6, <2>2, <2>3 DEF Recovered
  <1>7. CASE Compacted(o)
    <2>1. at[o] \in Operating \ {"run"} /\ outcomes = 1
      BY <1>1, <1>7, StartersArePrompts DEF Compacted, SingleInv, OutcomeRecorded
    <2> QED BY <1>1, <1>2, <1>7, <2>1, ContinueSingle, MoveOnSingle DEF Compacted
  <1>8. CASE HoldReleased(o)
    BY <1>1, <1>3, <1>8 DEF HoldReleased
  <1>9. CASE HoldExpired(o)
    BY <1>1, <1>3, <1>9 DEF HoldExpired
  <1>10. CASE Settled(o)
    <2>1. OneInProgress'
      BY <1>10, PlacesOfOperations, StartersAreMessages
         DEF Settled, Goto, SingleInv, OneInProgress, TypeInv, TypeOK, Starters, Ended
    <2>2. "over" \notin Operating /\ "settle" \notin Operating /\ o \in Msgs
      BY StartersAreMessages DEF Operating, Starters
    <2> QED BY <1>10, <2>1, <2>2, ElsewhereSingle DEF Settled, SingleInv
  <1> QED BY <1>4, <1>5, <1>6, <1>7, <1>8, <1>9, <1>10 DEF OperationStep

(* Stopping moves an operation from its backoff to its end, at most.       *)
LEMMA StopStepSingle ==
    ASSUME TypeInv, SingleInv, Channel, Customs = {}, StopStep
    PROVE  SingleInv'
  <1>1. Stop
    BY DEF StopStep, CallAbort, CallClearQueue
  <1>2. \A p \in Prompts : /\ at'[p] = IF at[p] = "sleep" THEN "cancelled" ELSE at[p]
                           /\ at'[p] \in Operating <=> at[p] \in Operating
                           /\ at'[p] \in InProgress <=> at[p] \in InProgress
    BY <1>1, StartersAreMessages DEF Stop, Abort, Starters, Operating, InProgress
  <1>3. UNCHANGED <<active, phase, owner, outcomes>>
    BY <1>1 DEF Stop, loopVars
  <1>4. OneInProgress' /\ RunInOperation' /\ ActiveInOperation'
    BY <1>2, <1>3 DEF OneInProgress, RunInOperation, ActiveInOperation, SingleInv
  <1>5. OutcomeRecorded'
    BY <1>2, <1>3, StartersArePrompts DEF OutcomeRecorded, SingleInv
  <1> QED BY <1>4, <1>5 DEF SingleInv

(* No step breaks the invariant.                                           *)
LEMMA SingleStep ==
    ASSUME TypeInv, SingleInv, Channel, Customs = {}, [Next]_vars
    PROVE  SingleInv'
  <1>1. ASSUME UNCHANGED vars
        PROVE  SingleInv'
    BY <1>1 DEF vars, SingleInv, OneInProgress, RunInOperation,
                ActiveInOperation, OutcomeRecorded, runVars, loopVars
  <1>2. Quiet => UNCHANGED vars
    BY DEF Quiet
  <1> QED BY <1>1, <1>2, SubmitStepSingle, StartSubmitSingle, AgentStepSingle,
             OperationStepSingle, StopStepSingle, StartersArePrompts DEF Next

(* It holds initially. *)
LEMMA SingleInit ==
    ASSUME Init
    PROVE  SingleInv
  <1>1. \A m \in Msgs : at[m] = "new"
    BY DEF Init
  <1>2. \A p \in Starters : p \in Msgs
    BY StartersAreMessages
  <1>3. \A p \in Starters : at[p] \notin InProgress
    BY <1>1, <1>2, PlacesOfOperations
  <1>4. phase = "none" /\ active = FALSE
    BY DEF Init
  <1> QED BY <1>3, <1>4, PlacesOfOperations
          DEF SingleInv, OneInProgress, RunInOperation, ActiveInOperation,
              OutcomeRecorded, Operating, Starters

(* Behind a Channel Session both invariants hold always.                   *)
LEMMA SingleAlways ==
    ASSUME Channel, Customs = {}
    PROVE  Spec => [](TypeInv /\ SingleInv)
  <1>1. Init => TypeInv /\ SingleInv
    BY TypeInit, SingleInit
  <1>2. TypeInv /\ SingleInv /\ [Next]_vars => TypeInv' /\ SingleInv'
    BY TypeStep, SingleStep
  <1> QED BY <1>1, <1>2, PTL DEF Spec

(* Two operations never overlap: the promise chain of ChannelSession.submit*)
(* does what _runAgentPrompt, which keeps no lock, needs.                  *)
THEOREM OneOperationAtATime ==
    ASSUME Channel, Customs = {}
    PROVE  Spec => []OneOperation
  <1>1. TypeInv /\ SingleInv => OneOperation
    BY PlacesOfOperations, StartersArePrompts
       DEF SingleInv, OneInProgress, OneOperation
  <1> QED BY <1>1, SingleAlways, PTL

(* isStreaming is true exactly while an operation goes on, and no agent    *)
(* run goes on without it: agent_settled is the end.                       *)
THEOREM IdleIsIdle ==
    ASSUME Channel, Customs = {}
    PROVE  Spec => []IdleMeansIdle
  <1>1. TypeInv /\ SingleInv => IdleMeansIdle
    BY StartersArePrompts
       DEF SingleInv, ActiveInOperation, RunInOperation, IdleMeansIdle
  <1> QED BY <1>1, SingleAlways, PTL

(* Wherever the process dies in an operation, the log holds its outcome if *)
(* and only if the operation was finished (operation-loop.ts, afterRun).   *)
THEOREM OutcomeIsRecorded ==
    ASSUME Channel, Customs = {}
    PROVE  Spec => []OutcomeRecorded
  <1>1. TypeInv /\ SingleInv => OutcomeRecorded
    BY DEF SingleInv
  <1> QED BY <1>1, SingleAlways, PTL

=============================================================================
