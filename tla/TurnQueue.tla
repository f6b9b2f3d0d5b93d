------------------------------- MODULE TurnQueue -------------------------------
(***************************************************************************)
(* The Telegram adapter's turn queue (telegram/src/turn-queue.ts): per     *)
(* chat, turns are prepared, submitted to the Channel Session and finished *)
(* one after the other; a turn that ends on a provider error is resumed    *)
(* once, after a delay; /stop halts, skips or cancels.                     *)
(*                                                                         *)
(* Code between two awaits runs in one step.  In particular the drain loop *)
(* takes the next turn, or leaves, in the step in which a turn ends.       *)
(***************************************************************************)
EXTENDS Naturals, SequencesExt

CONSTANTS
    Chats,     \* Telegram chats
    Turns,     \* turns owners submit
    NoTurn,    \* no turn
    MaxStops   \* bound: calls of stop

ASSUME TurnsAssumption == NoTurn \notin Turns /\ MaxStops \in Nat

(* What waits in a queue: an owner's turn, or its Auto-Resume. *)
Owner(t) == [turn |-> t, resume |-> FALSE]
Resume(t) == [turn |-> t, resume |-> TRUE]
Entries == [turn : Turns, resume : BOOLEAN]
Nothing == [turn |-> NoTurn, resume |-> FALSE]

VARIABLES
    known,          \* chats that have an entry in the map
    queued,         \* each chat's queue
    current,        \* each chat's current turn
    stage,          \* where it is
    halted,         \* its signal is aborted
    willResume,     \* it is finishing and will be resumed
    pendingResumes, \* the turn each chat's resume timer is set for
    busy,           \* chats whose last notification was onBusy
    stops,          \* calls of stop so far
    submitted,      \* history: the turns of each chat, in order
    started,        \* history: how often each turn was started
    skipped,        \* history: queued turns a stop removed
    overtaken       \* history: turns whose set timer a new turn or a stop met

drainVars == <<known, queued, current, stage, halted, willResume, busy, started>>
vars == <<drainVars, pendingResumes, stops, submitted, skipped, overtaken>>

Stages == {"idle", "preparing", "running", "finishing"}

TypeOK ==
    /\ known \subseteq Chats /\ busy \subseteq Chats
    /\ queued \in [Chats -> Seq(Entries)]
    /\ current \in [Chats -> Entries \cup {Nothing}]
    /\ stage \in [Chats -> Stages]
    /\ halted \in [Chats -> BOOLEAN] /\ willResume \in [Chats -> BOOLEAN]
    /\ pendingResumes \in [Chats -> Turns \cup {NoTurn}]
    /\ stops \in Nat
    /\ submitted \in [Chats -> Seq(Turns)] /\ started \in [Turns -> Nat]
    /\ skipped \subseteq Entries /\ overtaken \subseteq Turns

Init ==
    /\ known = {} /\ busy = {}
    /\ queued = [c \in Chats |-> <<>>]
    /\ current = [c \in Chats |-> Nothing]
    /\ stage = [c \in Chats |-> "idle"]
    /\ halted = [c \in Chats |-> FALSE]
    /\ willResume = [c \in Chats |-> FALSE]
    /\ pendingResumes = [c \in Chats |-> NoTurn]
    /\ stops = 0
    /\ submitted = [c \in Chats |-> <<>>]
    /\ started = [t \in Turns |-> 0]
    /\ skipped = {} /\ overtaken = {}

-----------------------------------------------------------------------------
(* Mutant: a chat that has nothing left to do is not reported idle. *)
NextTurnStaysBusy(c, q) ==
    /\ known' = IF q = <<>> THEN known \ {c} ELSE known \cup {c}
    /\ busy' = busy \cup {c}
    /\ current' = [current EXCEPT ![c] = IF q = <<>> THEN Nothing ELSE Head(q)]
    /\ queued' = [queued EXCEPT ![c] = IF q = <<>> THEN q ELSE Tail(q)]
    /\ stage' = [stage EXCEPT ![c] = IF q = <<>> THEN "idle" ELSE "preparing"]
    /\ started' = [t \in Turns |-> IF q # <<>> /\ t = Head(q).turn
                                   THEN started[t] + 1 ELSE started[t]]
    /\ halted' = [halted EXCEPT ![c] = FALSE]
    /\ willResume' = [willResume EXCEPT ![c] = FALSE]

(* The drain loop, with q the chat's queue: it takes the next turn, or the *)
(* chat's entry is deleted and the chat is idle.                           *)
NextTurn(c, q) ==
    /\ known' = IF q = <<>> THEN known \ {c} ELSE known \cup {c}
    /\ busy' = IF q = <<>> THEN busy \ {c} ELSE busy \cup {c}
    /\ current' = [current EXCEPT ![c] = IF q = <<>> THEN Nothing ELSE Head(q)]
    /\ queued' = [queued EXCEPT ![c] = IF q = <<>> THEN q ELSE Tail(q)]
    /\ stage' = [stage EXCEPT ![c] = IF q = <<>> THEN "idle" ELSE "preparing"]
    /\ started' = [t \in Turns |-> IF q # <<>> /\ t = Head(q).turn
                                   THEN started[t] + 1 ELSE started[t]]
    /\ halted' = [halted EXCEPT ![c] = FALSE]
    /\ willResume' = [willResume EXCEPT ![c] = FALSE]

(* Mutant: a new turn is served before the ones that wait. *)
EnqueueFirst(c, e) ==
    IF current[c] = Nothing THEN NextTurn(c, <<e>> \o queued[c])
    ELSE /\ queued' = [queued EXCEPT ![c] = <<e>> \o @]
         /\ UNCHANGED <<known, current, stage, halted, willResume, busy, started>>

(* enqueue: a chat without a current turn starts draining at once.         *)
Enqueue(c, e) ==
    IF current[c] = Nothing THEN NextTurn(c, Append(queued[c], e))
    ELSE /\ queued' = [queued EXCEPT ![c] = Append(@, e)]
         /\ UNCHANGED <<known, current, stage, halted, willResume, busy, started>>

(* Mutant: a new turn leaves the resume timer set. *)
SubmitKeepsResume(c, t) ==
    /\ \A d \in Chats : ~Contains(submitted[d], t)
    /\ submitted' = [submitted EXCEPT ![c] = Append(@, t)]
    /\ Enqueue(c, Owner(t))
    /\ overtaken' = overtaken \cup {u \in Turns : u = pendingResumes[c]}
    /\ UNCHANGED <<stops, skipped, pendingResumes>>

(* submit: cancels a pending resume. *)
Submit(c, t) ==
    /\ \A d \in Chats : ~Contains(submitted[d], t)
    /\ submitted' = [submitted EXCEPT ![c] = Append(@, t)]
    /\ pendingResumes' = [pendingResumes EXCEPT ![c] = NoTurn]
    /\ Enqueue(c, Owner(t))
    /\ overtaken' = overtaken \cup {u \in Turns : u = pendingResumes[c]}
    /\ UNCHANGED <<stops, skipped>>

(* The resume timer fires. *)
ResumeFires(c) ==
    /\ pendingResumes[c] # NoTurn
    /\ pendingResumes' = [pendingResumes EXCEPT ![c] = NoTurn]
    /\ Enqueue(c, Resume(pendingResumes[c]))
    /\ UNCHANGED <<stops, submitted, skipped, overtaken>>

(* prepare returned: with something to submit, with nothing, or it threw.  *)
PrepareEnds(c) ==
    /\ stage[c] = "preparing"
    /\ \/ /\ ~halted[c]
          /\ stage' = [stage EXCEPT ![c] = "running"]
          /\ UNCHANGED <<known, queued, current, halted, willResume, busy, started>>
       \/ NextTurn(c, queued[c])
    /\ UNCHANGED <<pendingResumes, stops, submitted, skipped, overtaken>>

(* Mutant: a resume that fails is resumed again. *)
ResumableAlways(c) == TRUE

(* Capped at one: a resume is not resumed. *)
Resumable(c) == ~current[c].resume

(* The Channel Session's submit returned, with a final error or without,   *)
(* or it threw.                                                            *)
SubmitEnds(c) ==
    /\ stage[c] = "running"
    /\ \/ /\ stage' = [stage EXCEPT ![c] = "finishing"]
          /\ \E finalError \in BOOLEAN :
                willResume' = [willResume EXCEPT ![c] = finalError /\ Resumable(c)]
          /\ UNCHANGED <<known, queued, current, halted, busy, started>>
       \/ NextTurn(c, queued[c])
    /\ UNCHANGED <<pendingResumes, stops, submitted, skipped, overtaken>>

(* Mutant: an error of finish is not caught, and the drain loop dies with  *)
(* it.                                                                     *)
FinishEndsUncaught(c) ==
    /\ stage[c] = "finishing"
    /\ \/ /\ willResume[c]
          /\ pendingResumes' = [pendingResumes EXCEPT ![c] = current[c].turn]
          /\ NextTurn(c, queued[c])
       \/ /\ ~willResume[c]
          /\ NextTurn(c, queued[c])
          /\ UNCHANGED pendingResumes
       \/ /\ stage' = [stage EXCEPT ![c] = "idle"]
          /\ UNCHANGED <<known, queued, current, halted, willResume, busy,
                         started, pendingResumes>>
    /\ UNCHANGED <<stops, submitted, skipped, overtaken>>

(* finish returned, and the resume timer is set; or it threw. *)
FinishEnds(c) ==
    /\ stage[c] = "finishing"
    /\ \/ /\ willResume[c]
          /\ pendingResumes' = [pendingResumes EXCEPT ![c] = current[c].turn]
       \/ UNCHANGED pendingResumes
    /\ NextTurn(c, queued[c])
    /\ UNCHANGED <<stops, submitted, skipped, overtaken>>

(* stop: cancels a pending resume, or else halts the turn that is being    *)
(* prepared or runs and skips the next queued one.                         *)
Stop(c) ==
    /\ stops < MaxStops
    /\ stops' = stops + 1
    /\ IF pendingResumes[c] # NoTurn
       THEN /\ pendingResumes' = [pendingResumes EXCEPT ![c] = NoTurn]
            /\ UNCHANGED <<drainVars, skipped>>
       ELSE /\ halted' = [halted EXCEPT
                   ![c] = @ \/ stage[c] \in {"preparing", "running"}]
            /\ IF queued[c] # <<>>
               THEN /\ skipped' = skipped \cup {Head(queued[c])}
                    /\ queued' = [queued EXCEPT ![c] = Tail(@)]
               ELSE UNCHANGED <<skipped, queued>>
            /\ UNCHANGED <<known, current, stage, willResume, busy, started,
                           pendingResumes>>
    /\ overtaken' = overtaken \cup {u \in Turns : u = pendingResumes[c]}
    /\ UNCHANGED submitted

-----------------------------------------------------------------------------
TurnEnds(c) == PrepareEnds(c) \/ SubmitEnds(c) \/ FinishEnds(c)

(* Everything submitted was served, and no timer is set. *)
Quiet ==
    /\ known = {} /\ \A c \in Chats : pendingResumes[c] = NoTurn
    /\ UNCHANGED vars

Next ==
    \/ \E c \in Chats : \/ \E t \in Turns : Submit(c, t)
                        \/ ResumeFires(c)
                        \/ TurnEnds(c)
                        \/ Stop(c)
    \/ Quiet

(* Preparing, running and finishing a turn come to an end: downloads and   *)
(* requests to Telegram have timeouts, and an operation always ends        *)
(* (AgentSession's OperationEnds).  Timers fire.                           *)
Fairness ==
    \A c \in Chats : WF_vars(TurnEnds(c)) /\ WF_vars(ResumeFires(c))

Spec == Init /\ [][Next]_vars
FairSpec == Spec /\ Fairness

-----------------------------------------------------------------------------
(* The typing indicator is on exactly while a chat has a turn under way,   *)
(* and nothing waits in the queue of a chat that has none: there is always *)
(* a drain loop to take it, and only one.                                  *)
BusyShown ==
    /\ busy = known
    /\ \A c \in Chats :
        /\ c \in known <=> current[c] # Nothing
        /\ current[c] = Nothing => stage[c] = "idle" /\ queued[c] = <<>>

(* A turn runs at most twice, as its owner's and as its one Auto-Resume,   *)
(* however its runs fail.                                                  *)
RunsAtMostTwice ==
    \A t \in Turns : started[t] <= 2

(* Turns of a chat start in the order they were submitted, unless a stop   *)
(* skipped them.                                                           *)
InOrder ==
    \A c \in Chats : \A i, j \in DOMAIN submitted[c] :
        i < j /\ started[submitted[c][j]] > 0
            => started[submitted[c][i]] > 0 \/ Owner(submitted[c][i]) \in skipped

(* A resume whose timer is set does not happen once the owner has sent a   *)
(* new turn or /stop, however the turns end that come between: there is no *)
(* other way back into a queue.  It says nothing of a submit or a stop     *)
(* while finish announces the resume: the timer is set afterwards then.    *)
OwnerCancelsResume ==
    \A t \in overtaken : started[t] < 2

(* Every submitted turn is served or was skipped by a stop.                *)
EveryTurnServed ==
    \A c \in Chats, t \in Turns :
        Contains(submitted[c], t) ~> started[t] > 0 \/ Owner(t) \in skipped

=============================================================================
