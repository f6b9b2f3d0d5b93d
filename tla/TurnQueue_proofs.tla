--------------------------- MODULE TurnQueue_proofs ---------------------------
(***************************************************************************)
(* Proofs about TurnQueue, for every set of chats and turns.               *)
(***************************************************************************)
EXTENDS TurnQueue, SequenceTheorems, TLAPS

(* An entry names a turn, so it is not the empty current turn.             *)
LEMMA EntriesAreSomething ==
    /\ Nothing \notin Entries
    /\ \A e \in Entries : e.turn \in Turns /\ e # Nothing
    /\ \A t \in Turns : Owner(t) \in Entries /\ Resume(t) \in Entries
  BY TurnsAssumption DEF Nothing, Entries, Owner, Resume

(* The drain loop keeps the types, whatever entries it is handed.          *)
LEMMA NextTurnType ==
    ASSUME TypeOK, NEW c \in Chats, NEW q \in Seq(Entries), NextTurn(c, q)
    PROVE  /\ known' \subseteq Chats /\ busy' \subseteq Chats
           /\ queued' \in [Chats -> Seq(Entries)]
           /\ current' \in [Chats -> Entries \cup {Nothing}]
           /\ stage' \in [Chats -> Stages]
           /\ halted' \in [Chats -> BOOLEAN] /\ willResume' \in [Chats -> BOOLEAN]
           /\ started' \in [Turns -> Nat]
  <1> DEFINE rest == IF q = <<>> THEN q ELSE Tail(q)
             next == IF q = <<>> THEN Nothing ELSE Head(q)
  <1>1. rest \in Seq(Entries) /\ next \in Entries \cup {Nothing}
    BY HeadTailProperties
  <1>2. known' \subseteq Chats /\ busy' \subseteq Chats
    BY DEF NextTurn, TypeOK
  <1>3. queued' \in [Chats -> Seq(Entries)]
    BY <1>1 DEF NextTurn, TypeOK
  <1>4. current' \in [Chats -> Entries \cup {Nothing}]
    BY <1>1 DEF NextTurn, TypeOK
  <1>5. stage' \in [Chats -> Stages]
    BY DEF NextTurn, TypeOK, Stages
  <1>6. halted' \in [Chats -> BOOLEAN] /\ willResume' \in [Chats -> BOOLEAN]
    BY DEF NextTurn, TypeOK
  <1>7. started' \in [Turns -> Nat]
    BY DEF NextTurn, TypeOK
  <1> QED BY <1>2, <1>3, <1>4, <1>5, <1>6, <1>7

(* So does handing it a new entry.                                         *)
LEMMA EnqueueType ==
    ASSUME TypeOK, NEW c \in Chats, NEW e \in Entries, Enqueue(c, e)
    PROVE  /\ known' \subseteq Chats /\ busy' \subseteq Chats
           /\ queued' \in [Chats -> Seq(Entries)]
           /\ current' \in [Chats -> Entries \cup {Nothing}]
           /\ stage' \in [Chats -> Stages]
           /\ halted' \in [Chats -> BOOLEAN] /\ willResume' \in [Chats -> BOOLEAN]
           /\ started' \in [Turns -> Nat]
  <1>1. queued[c] \in Seq(Entries) /\ Append(queued[c], e) \in Seq(Entries)
    BY DEF TypeOK
  <1>2. CASE current[c] = Nothing
    BY <1>1, <1>2, NextTurnType DEF Enqueue
  <1>3. CASE current[c] # Nothing
    BY <1>1, <1>3 DEF Enqueue, TypeOK
  <1> QED BY <1>2, <1>3

(***************************************************************************)
(* The invariant.  BusyShown needs the types (an entry is never taken for  *)
(* the empty current turn) and nothing else: that a chat at rest has no    *)
(* queue is what makes the step in which a drain loop starts serve the     *)
(* entry it was started for.                                               *)
(***************************************************************************)
Inv == TypeOK /\ BusyShown

(* Taking the next turn, or leaving, shows the chat busy or idle.          *)
LEMMA NextTurnShown ==
    ASSUME Inv, NEW c \in Chats, NEW q \in Seq(Entries), NextTurn(c, q)
    PROVE  BusyShown'
  <1>1. busy' = known'
    BY DEF NextTurn, Inv, BusyShown
  <1>2. ASSUME NEW d \in Chats, d # c
        PROVE  /\ d \in known' <=> d \in known
               /\ current'[d] = current[d] /\ stage'[d] = stage[d]
               /\ queued'[d] = queued[d]
    BY <1>2 DEF NextTurn, Inv, TypeOK
  <1>3. CASE q = <<>>
    <2>1. c \notin known' /\ current'[c] = Nothing /\ stage'[c] = "idle"
          /\ queued'[c] = <<>>
      BY <1>3 DEF NextTurn, Inv, TypeOK
    <2> QED BY <1>1, <1>2, <2>1 DEF BusyShown, Inv
  <1>4. CASE q # <<>>
    <2>1. Head(q) \in Entries
      BY <1>4, HeadTailProperties
    <2>2. c \in known' /\ current'[c] = Head(q)
      BY <1>4 DEF NextTurn, Inv, TypeOK
    <2> QED BY <1>1, <1>2, <2>1, <2>2, EntriesAreSomething DEF BusyShown, Inv
  <1> QED BY <1>3, <1>4

LEMMA EnqueueShown ==
    ASSUME Inv, NEW c \in Chats, NEW e \in Entries, Enqueue(c, e)
    PROVE  BusyShown'
  <1>1. Append(queued[c], e) \in Seq(Entries)
    BY DEF Inv, TypeOK
  <1>2. CASE current[c] = Nothing
    BY <1>1, <1>2, NextTurnShown DEF Enqueue
  <1>3. CASE current[c] # Nothing
    BY <1>3 DEF Enqueue, BusyShown, Inv, TypeOK
  <1> QED BY <1>2, <1>3

(* A turn that is prepared, runs or finishes is the current one of a chat. *)
LEMMA StagesHaveTurns ==
    ASSUME Inv, NEW c \in Chats, stage[c] # "idle"
    PROVE  current[c] \in Entries /\ current[c].turn \in Turns /\ c \in known
  BY EntriesAreSomething DEF Inv, TypeOK, BusyShown

LEMMA InvInit == Init => Inv
  BY DEF Init, Inv, TypeOK, BusyShown, Stages

LEMMA InvStep ==
    ASSUME Inv, [Next]_vars
    PROVE  Inv'
  <1> USE DEF drainVars
  <1>1. ASSUME NEW c \in Chats, NEW t \in Turns, Submit(c, t)
        PROVE  Inv'
    <2>1. Owner(t) \in Entries /\ Enqueue(c, Owner(t))
      BY <1>1, EntriesAreSomething DEF Submit
    <2>3. overtaken' \subseteq Turns
      BY <1>1 DEF Submit, Inv, TypeOK
    <2>2. TypeOK'
      BY <1>1, <2>1, <2>3, EnqueueType DEF Submit, Inv, TypeOK
    <2> QED BY <2>1, <2>2, EnqueueShown DEF Inv
  <1>2. ASSUME NEW c \in Chats, ResumeFires(c)
        PROVE  Inv'
    <2>1. Resume(pendingResumes[c]) \in Entries
          /\ Enqueue(c, Resume(pendingResumes[c]))
      BY <1>2, EntriesAreSomething DEF ResumeFires, Inv, TypeOK
    <2>2. TypeOK'
      BY <1>2, <2>1, EnqueueType DEF ResumeFires, Inv, TypeOK
    <2> QED BY <2>1, <2>2, EnqueueShown DEF Inv
  <1>3. ASSUME NEW c \in Chats, NextTurn(c, queued[c]),
               UNCHANGED <<stops, submitted, skipped, overtaken>>,
               pendingResumes' \in [Chats -> Turns \cup {NoTurn}]
        PROVE  Inv'
    <2>1. queued[c] \in Seq(Entries)
      BY DEF Inv, TypeOK
    <2>2. TypeOK'
      BY <1>3, <2>1, NextTurnType DEF Inv, TypeOK
    <2> QED BY <1>3, <2>1, <2>2, NextTurnShown DEF Inv
  <1>4. ASSUME NEW c \in Chats, PrepareEnds(c)
        PROVE  Inv'
    <2>1. CASE NextTurn(c, queued[c]) /\ UNCHANGED pendingResumes
      BY <1>3, <1>4, <2>1 DEF PrepareEnds, Inv, TypeOK
    <2>2. CASE stage' = [stage EXCEPT ![c] = "running"]
               /\ UNCHANGED <<known, queued, current, halted, willResume, busy,
                              started, pendingResumes>>
      BY <1>4, <2>2, StagesHaveTurns
         DEF PrepareEnds, Inv, TypeOK, BusyShown, Stages
    <2> QED BY <1>4, <2>1, <2>2 DEF PrepareEnds
  <1>5. ASSUME NEW c \in Chats, SubmitEnds(c)
        PROVE  Inv'
    <2>1. CASE NextTurn(c, queued[c]) /\ UNCHANGED pendingResumes
      BY <1>3, <1>5, <2>1 DEF SubmitEnds, Inv, TypeOK
    <2>2. ASSUME NEW finalError \in BOOLEAN,
                 stage' = [stage EXCEPT ![c] = "finishing"],
                 willResume' = [willResume EXCEPT ![c] = finalError /\ Resumable(c)],
                 UNCHANGED <<known, queued, current, halted, busy, started>>
          PROVE  Inv'
      <3>1. willResume' \in [Chats -> BOOLEAN]
        BY <2>2 DEF Inv, TypeOK, Resumable
      <3> QED BY <1>5, <2>2, <3>1, StagesHaveTurns
              DEF SubmitEnds, Inv, TypeOK, BusyShown, Stages
    <2> QED BY <1>5, <2>1, <2>2 DEF SubmitEnds
  <1>6. ASSUME NEW c \in Chats, FinishEnds(c)
        PROVE  Inv'
    <2>1. current[c].turn \in Turns
      BY <1>6, StagesHaveTurns DEF FinishEnds
    <2>2. pendingResumes' \in [Chats -> Turns \cup {NoTurn}]
      BY <1>6, <2>1 DEF FinishEnds, Inv, TypeOK
    <2> QED BY <1>3, <1>6, <2>2 DEF FinishEnds
  <1>7. ASSUME NEW c \in Chats, Stop(c)
        PROVE  Inv'
    <2>2. stops' \in Nat /\ submitted' = submitted /\ overtaken' \subseteq Turns
      BY <1>7 DEF Stop, Inv, TypeOK
    <2>3. CASE pendingResumes[c] # NoTurn
      BY <1>7, <2>2, <2>3 DEF Stop, Inv, TypeOK, BusyShown
    <2>4. CASE pendingResumes[c] = NoTurn
      <3>1. halted' \in [Chats -> BOOLEAN]
        BY <1>7, <2>4 DEF Stop, Inv, TypeOK
      <3>2. queued' \in [Chats -> Seq(Entries)] /\ skipped' \subseteq Entries
            /\ \A d \in Chats : queued[d] = <<>> => queued'[d] = <<>>
        <4>1. CASE queued[c] = <<>>
          BY <1>7, <2>4, <4>1 DEF Stop, Inv, TypeOK
        <4>2. CASE queued[c] # <<>>
          <5>1. Head(queued[c]) \in Entries /\ Tail(queued[c]) \in Seq(Entries)
            BY <4>2, HeadTailProperties DEF Inv, TypeOK
          <5>2. queued' = [queued EXCEPT ![c] = Tail(queued[c])]
                /\ skipped' = skipped \cup {Head(queued[c])}
            BY <1>7, <2>4, <4>2 DEF Stop
          <5>3. queued' \in [Chats -> Seq(Entries)]
            BY <5>1, <5>2 DEF Inv, TypeOK
          <5>4. skipped' \subseteq Entries
            BY <5>1, <5>2 DEF Inv, TypeOK
          <5>5. \A d \in Chats : queued[d] = <<>> => queued'[d] = <<>>
            BY <4>2, <5>2 DEF Inv, TypeOK
          <5> QED BY <5>3, <5>4, <5>5
        <4> QED BY <4>1, <4>2
      <3>3. UNCHANGED <<known, current, stage, willResume, busy, started,
                        pendingResumes>>
        BY <1>7, <2>4 DEF Stop
      <3> QED BY <2>2, <3>1, <3>2, <3>3 DEF Inv, TypeOK, BusyShown
    <2> QED BY <2>3, <2>4
  <1>8. ASSUME UNCHANGED vars
        PROVE  Inv'
    BY <1>8 DEF vars, Inv, TypeOK, BusyShown
  <1> QED BY <1>1, <1>2, <1>4, <1>5, <1>6, <1>7, <1>8 DEF Next, TurnEnds, Quiet

(* Every state of the queue is of its type, however many chats and turns.  *)
THEOREM TypeCorrect == Spec => []TypeOK
  <1>1. Inv /\ [Next]_vars => Inv'
    BY InvStep
  <1>2. Inv => TypeOK
    BY DEF Inv
  <1> QED BY InvInit, <1>1, <1>2, PTL DEF Spec

(* There is a drain loop exactly for the chats that have something to do,  *)
(* and the typing indicator is on exactly for those.                       *)
THEOREM BusyIsShown == Spec => []BusyShown
  <1>1. Inv /\ [Next]_vars => Inv'
    BY InvStep
  <1>2. Inv => BusyShown
    BY DEF Inv
  <1> QED BY InvInit, <1>1, <1>2, PTL DEF Spec

-----------------------------------------------------------------------------
(***************************************************************************)
(* A turn is in one place at a time: it waits in a queue, is a chat's      *)
(* current turn, or is set as a resume timer.  The count of its starts     *)
(* follows from the place, and so does its bound.  The parts take the      *)
(* state as parameters because a step moves turns more than once: a turn   *)
(* joins the queue and the drain loop takes the first one at once.         *)
(***************************************************************************)
QueuedOnce(qs) ==
    \A c, d \in Chats : \A i \in DOMAIN qs[c], j \in DOMAIN qs[d] :
        qs[c][i].turn = qs[d][j].turn => c = d /\ i = j

QueuedOnly(qs, cur, pend) ==
    \A c, d \in Chats : \A i \in DOMAIN qs[c] :
        qs[c][i].turn # cur[d].turn /\ qs[c][i].turn # pend[d]

CurrentOnce(cur, pend) ==
    \A c, d \in Chats : cur[c].turn # NoTurn =>
        cur[c].turn # pend[d] /\ (cur[c].turn = cur[d].turn => c = d)

TimedOnce(pend) ==
    \A c, d \in Chats : pend[c] # NoTurn /\ pend[c] = pend[d] => c = d

OncePlaced(qs, cur, pend) ==
    /\ QueuedOnce(qs) /\ QueuedOnly(qs, cur, pend)
    /\ CurrentOnce(cur, pend) /\ TimedOnce(pend)

Counted(qs, cur, pend, st) ==
    /\ \A c \in Chats : \A i \in DOMAIN qs[c] :
          st[qs[c][i].turn] = IF qs[c][i].resume THEN 1 ELSE 0
    /\ \A c \in Chats : cur[c].turn # NoTurn =>
          st[cur[c].turn] = IF cur[c].resume THEN 2 ELSE 1
    /\ \A c \in Chats : pend[c] # NoTurn => st[pend[c]] = 1
    /\ \A t \in Turns : st[t] <= 2

(* Only turns submitted to a chat are in its queue, current there, or to   *)
(* be resumed there, and no other was ever started.                        *)
Known(qs, cur, pend, st, sub) ==
    /\ \A c \in Chats : \A i \in DOMAIN qs[c] : Contains(sub[c], qs[c][i].turn)
    /\ \A c \in Chats : cur[c].turn # NoTurn => Contains(sub[c], cur[c].turn)
    /\ \A c \in Chats : pend[c] # NoTurn => Contains(sub[c], pend[c])
    /\ \A t \in Turns : st[t] > 0 => \E c \in Chats : Contains(sub[c], t)

ResumedOnce == \A c \in Chats : willResume[c] => ~current[c].resume

(* Owners' turns wait in the order in which they were submitted, and no    *)
(* turn was started while an earlier one of its chat waits.                *)
Distinct(sub) ==
    \A c, d \in Chats : \A i \in DOMAIN sub[c], j \in DOMAIN sub[d] :
        sub[c][i] = sub[d][j] => c = d /\ i = j

Waiting(qs, st, sub, sk) ==
    \A c \in Chats : \A i \in DOMAIN sub[c] :
        \/ st[sub[c][i]] > 0 \/ Owner(sub[c][i]) \in sk
        \/ \E k \in DOMAIN qs[c] : qs[c][k] = Owner(sub[c][i])

WaitInOrder(qs, st, sub) ==
    \A c \in Chats : \A i, j \in DOMAIN sub[c] : \A k \in DOMAIN qs[c] :
        i < j /\ qs[c][k] = Owner(sub[c][i]) =>
            /\ st[sub[c][j]] = 0
            /\ \A l \in DOMAIN qs[c] : qs[c][l] = Owner(sub[c][j]) => k < l

Ordered(qs, st, sub, sk) ==
    Distinct(sub) /\ Waiting(qs, st, sub, sk) /\ WaitInOrder(qs, st, sub)

Accounted(qs, cur, pend, st, sub, sk) ==
    /\ OncePlaced(qs, cur, pend)
    /\ Counted(qs, cur, pend, st)
    /\ Known(qs, cur, pend, st, sub)
    /\ Ordered(qs, st, sub, sk)

(* The inductive invariant.                                                *)
FullInv ==
    /\ Inv /\ ResumedOnce
    /\ Accounted(queued, current, pendingResumes, started, submitted, skipped)

(* What the drain loop takes from a queue and what it leaves there.        *)
First(q) == IF q = <<>> THEN Nothing ELSE Head(q)
Rest(q) == IF q = <<>> THEN q ELSE Tail(q)
Count(st, q) ==
    [t \in Turns |-> IF q # <<>> /\ t = Head(q).turn THEN st[t] + 1 ELSE st[t]]

(* The rest of a queue is the queue without its first place.               *)
LEMMA RestOfQueue ==
    ASSUME NEW q \in Seq(Entries), q # <<>>
    PROVE  /\ Head(q) = q[1] /\ Head(q) \in Entries /\ 1 \in DOMAIN q
           /\ Rest(q) \in Seq(Entries)
           /\ \A i \in DOMAIN Rest(q) : i + 1 \in DOMAIN q /\ Rest(q)[i] = q[i + 1]
                                        /\ i \in Nat /\ i > 0
           /\ \A i \in DOMAIN q : i = 1 \/ (i - 1 \in DOMAIN Rest(q)
                                            /\ q[i] = Rest(q)[i - 1])
  <1>1. /\ Len(q) \in Nat \ {0} /\ DOMAIN q = 1 .. Len(q)
        /\ Len(Tail(q)) = Len(q) - 1 /\ Tail(q) \in Seq(Entries)
        /\ Head(q) \in Entries
        /\ \A i \in 1 .. Len(Tail(q)) : Tail(q)[i] = q[i + 1]
    BY HeadTailProperties, EmptySeq, LenProperties
  <1>2. DOMAIN Tail(q) = 1 .. (Len(q) - 1)
    BY <1>1, LenProperties
  <1> QED BY <1>1, <1>2 DEF Rest

(* An entry is its turn and whether it is a resume.                        *)
LEMMA EntryIs ==
    ASSUME NEW e \in Entries
    PROVE  /\ e.turn \in Turns /\ e.turn # NoTurn /\ e.resume \in BOOLEAN
           /\ ~e.resume => e = Owner(e.turn)
           /\ e.resume => \A t \in Turns : e # Owner(t)
  BY TurnsAssumption DEF Entries, Owner

(* Where the turns are after the drain loop has taken the first one of a   *)
(* chat.                                                                   *)
Taken(qs, cur, c, qs2, cur2) ==
    /\ 1 \in DOMAIN qs[c] /\ qs[c][1] \in Entries /\ cur2[c] = qs[c][1]
    /\ qs[c] # <<>> /\ Head(qs[c]) = qs[c][1]
    /\ \A d \in Chats \ {c} : qs2[d] = qs[d] /\ cur2[d] = cur[d]
    /\ \A d \in Chats : \A i \in DOMAIN qs2[d] :
         \E k \in DOMAIN qs[d] : /\ qs2[d][i] = qs[d][k]
                                 /\ d = c => i \in Nat /\ k = i + 1 /\ k # 1
                                 /\ d # c => k = i
    /\ \A i \in DOMAIN qs[c] :
         i # 1 => \E k \in DOMAIN qs2[c] : qs2[c][k] = qs[c][i]

LEMMA Took ==
    ASSUME NEW qs \in [Chats -> Seq(Entries)],
           NEW cur \in [Chats -> Entries \cup {Nothing}],
           NEW c \in Chats, qs[c] # <<>>,
           NEW qs2, qs2 = [qs EXCEPT ![c] = Rest(qs[c])],
           NEW cur2, cur2 = [cur EXCEPT ![c] = First(qs[c])]
    PROVE  Taken(qs, cur, c, qs2, cur2)
  <1> DEFINE q == qs[c]
  <1>1. q \in Seq(Entries) /\ q # <<>>
    OBVIOUS
  <1>2. /\ 1 \in DOMAIN q /\ First(q) = q[1] /\ First(q) \in Entries /\ Head(q) = q[1]
        /\ \A i \in DOMAIN Rest(q) : i + 1 \in DOMAIN q /\ Rest(q)[i] = q[i + 1]
                                     /\ i \in Nat /\ i > 0
        /\ \A i \in DOMAIN q : i = 1 \/ (i - 1 \in DOMAIN Rest(q)
                                         /\ q[i] = Rest(q)[i - 1])
    BY <1>1, RestOfQueue DEF First
  <1>4. /\ qs2[c] = Rest(q) /\ cur2[c] = q[1]
        /\ \A d \in Chats \ {c} : qs2[d] = qs[d] /\ cur2[d] = cur[d]
    BY <1>2
  <1>5. \A i \in DOMAIN Rest(q) : i + 1 # 1
    BY <1>2
  <1>6. ASSUME NEW i \in DOMAIN q, i # 1
        PROVE  \E k \in DOMAIN Rest(q) : Rest(q)[k] = q[i]
    BY <1>2, <1>6
  <1>7. ASSUME NEW d \in Chats, NEW i \in DOMAIN qs2[d]
        PROVE  \E k \in DOMAIN qs[d] : /\ qs2[d][i] = qs[d][k]
                                       /\ d = c => i \in Nat /\ k = i + 1 /\ k # 1
                                       /\ d # c => k = i
    BY <1>2, <1>4, <1>5
  <1> QED BY <1>1, <1>2, <1>4, <1>6, <1>7 DEF Taken

(* Every turn is still in one place.                                       *)
LEMMA TakeOnce ==
    ASSUME NEW qs \in [Chats -> Seq(Entries)],
           NEW cur \in [Chats -> Entries \cup {Nothing}],
           NEW pend, NEW c \in Chats,
           NEW qs2, NEW cur2, Taken(qs, cur, c, qs2, cur2),
           OncePlaced(qs, cur, pend)
    PROVE  OncePlaced(qs2, cur2, pend)
  <1>1. /\ 1 \in DOMAIN qs[c] /\ qs[c][1] \in Entries
        /\ \A d \in Chats : cur2[d] = cur[d] \/ (d = c /\ cur2[d] = qs[c][1])
    BY DEF Taken
  <1>2. \A d \in Chats : \A i \in DOMAIN qs2[d] :
           \E k \in DOMAIN qs[d] : /\ qs2[d][i] = qs[d][k]
                                   /\ d = c => i \in Nat /\ k = i + 1 /\ k # 1
                                   /\ d # c => k = i
    BY DEF Taken
  <1>3. ASSUME NEW d \in Chats, NEW e \in Chats,
               NEW i \in DOMAIN qs2[d], NEW j \in DOMAIN qs2[e],
               qs2[d][i].turn = qs2[e][j].turn
        PROVE  d = e /\ i = j
    <2>1. PICK k \in DOMAIN qs[d] : /\ qs2[d][i] = qs[d][k]
                                    /\ d = c => i \in Nat /\ k = i + 1 /\ k # 1
                                    /\ d # c => k = i
      BY <1>2
    <2>2. PICK l \in DOMAIN qs[e] : /\ qs2[e][j] = qs[e][l]
                                    /\ e = c => j \in Nat /\ l = j + 1 /\ l # 1
                                    /\ e # c => l = j
      BY <1>2
    <2>3. d = e /\ k = l
      BY <1>3, <2>1, <2>2 DEF OncePlaced, QueuedOnce
    <2> QED BY <2>1, <2>2, <2>3
  <1>4. ASSUME NEW d \in Chats, NEW e \in Chats, NEW i \in DOMAIN qs2[d]
        PROVE  qs2[d][i].turn # cur2[e].turn /\ qs2[d][i].turn # pend[e]
    <2>1. PICK k \in DOMAIN qs[d] : qs2[d][i] = qs[d][k] /\ (d = c => k # 1)
      BY <1>2
    <2>2. qs[d][k].turn # qs[c][1].turn
      BY <1>1, <2>1 DEF OncePlaced, QueuedOnce
    <2>3. qs[d][k].turn # cur[e].turn /\ qs[d][k].turn # pend[e]
      BY DEF OncePlaced, QueuedOnly
    <2> QED BY <1>1, <2>1, <2>2, <2>3
  <1>5. ASSUME NEW d \in Chats, NEW e \in Chats, cur2[d].turn # NoTurn
        PROVE  cur2[d].turn # pend[e] /\ (cur2[d].turn = cur2[e].turn => d = e)
    <2>1. /\ CurrentOnce(cur, pend)
          /\ qs[c][1].turn # pend[e] /\ qs[c][1].turn # cur[d].turn
          /\ qs[c][1].turn # cur[e].turn
      BY <1>1 DEF OncePlaced, QueuedOnly
    <2>2. CASE cur2[d] = cur[d]
      BY <1>1, <1>5, <2>1, <2>2 DEF CurrentOnce
    <2>3. CASE d = c /\ cur2[d] = qs[c][1]
      BY <1>1, <2>1, <2>3
    <2> QED BY <1>1, <2>2, <2>3
  <1> QED BY <1>3, <1>4, <1>5 DEF OncePlaced,
      QueuedOnce, QueuedOnly, CurrentOnce, TimedOnce

(* The turn taken is counted, and no other.                                *)
LEMMA TakeCounted ==
    ASSUME NEW qs \in [Chats -> Seq(Entries)],
           NEW cur \in [Chats -> Entries \cup {Nothing}],
           NEW pend \in [Chats -> Turns \cup {NoTurn}],
           NEW st \in [Turns -> Nat],
           NEW c \in Chats,
           NEW qs2, NEW cur2, Taken(qs, cur, c, qs2, cur2),
           OncePlaced(qs, cur, pend), Counted(qs, cur, pend, st)
    PROVE  Counted(qs2, cur2, pend, Count(st, qs[c]))
  <1> DEFINE t == qs[c][1].turn
             st2 == Count(st, qs[c])
  <1>1. /\ 1 \in DOMAIN qs[c] /\ qs[c][1] \in Entries /\ Head(qs[c]) = qs[c][1]
        /\ cur2[c] = qs[c][1] /\ \A d \in Chats \ {c} : cur2[d] = cur[d]
    BY DEF Taken
  <1>2. \A d \in Chats : \A i \in DOMAIN qs2[d] :
           \E k \in DOMAIN qs[d] : qs2[d][i] = qs[d][k] /\ (d = c => k # 1)
    BY DEF Taken
  <1>3. t \in Turns /\ t # NoTurn /\ qs[c][1].resume \in BOOLEAN
    BY <1>1, EntryIs
  <1>4. /\ st2[t] = st[t] + 1 /\ \A u \in Turns \ {t} : st2[u] = st[u]
    BY <1>1, <1>3 DEF Count
  <1>5. st[t] = IF qs[c][1].resume THEN 1 ELSE 0
    BY <1>1 DEF Counted
  <1> HIDE DEF st2
  <1>6. ASSUME NEW d \in Chats, NEW i \in DOMAIN qs2[d]
        PROVE  st2[qs2[d][i].turn] = IF qs2[d][i].resume THEN 1 ELSE 0
    <2>1. PICK k \in DOMAIN qs[d] : qs2[d][i] = qs[d][k] /\ (d = c => k # 1)
      BY <1>2
    <2>2. qs[d][k].turn # t /\ qs[d][k].turn \in Turns
      <3>1. qs[d][k] \in Entries
        BY LenProperties, ElementOfSeq
      <3> QED BY <1>1, <2>1, <3>1, EntryIs DEF OncePlaced, QueuedOnce
    <2>3. st2[qs[d][k].turn] = IF qs[d][k].resume THEN 1 ELSE 0
      BY <1>4, <2>2 DEF Counted
    <2> QED BY <2>1, <2>3
  <1>7. ASSUME NEW d \in Chats, cur2[d].turn # NoTurn
        PROVE  st2[cur2[d].turn] = IF cur2[d].resume THEN 2 ELSE 1
    <2>1. CASE d = c
      BY <1>1, <1>3, <1>4, <1>5, <2>1
    <2>2. CASE d # c
      <3>1. cur2[d] = cur[d] /\ cur[d].turn # t
        BY <1>1, <2>2 DEF OncePlaced, QueuedOnly
      <3>2. cur[d] \in Entries
        BY <1>7, <3>1 DEF Nothing
      <3>3. cur[d].turn \in Turns \ {t}
        BY <3>1, <3>2, EntryIs
      <3>4. st2[cur[d].turn] = IF cur[d].resume THEN 2 ELSE 1
        BY <1>4, <1>7, <3>1, <3>3 DEF Counted
      <3> QED BY <3>1, <3>4
    <2> QED BY <2>1, <2>2
  <1>8. ASSUME NEW d \in Chats, pend[d] # NoTurn
        PROVE  st2[pend[d]] = 1
    <2>1. pend[d] \in Turns \ {t}
      BY <1>1, <1>8 DEF OncePlaced, QueuedOnly
    <2> QED BY <1>4, <1>8, <2>1 DEF Counted
  <1>9. \A u \in Turns : st2[u] <= 2
    BY <1>3, <1>4, <1>5 DEF Counted
  <1> QED BY <1>6, <1>7, <1>8, <1>9 DEF Counted, st2

(* Everything is still where only submitted turns are.                     *)
LEMMA TakeKnown ==
    ASSUME NEW qs \in [Chats -> Seq(Entries)],
           NEW cur \in [Chats -> Entries \cup {Nothing}],
           NEW pend, NEW st \in [Turns -> Nat], NEW sub,
           NEW c \in Chats,
           NEW qs2, NEW cur2, Taken(qs, cur, c, qs2, cur2),
           Known(qs, cur, pend, st, sub)
    PROVE  Known(qs2, cur2, pend, Count(st, qs[c]), sub)
  <1>1. /\ 1 \in DOMAIN qs[c] /\ Head(qs[c]) = qs[c][1]
        /\ cur2[c] = qs[c][1] /\ \A d \in Chats \ {c} : cur2[d] = cur[d]
    BY DEF Taken
  <1>2. \A d \in Chats : \A i \in DOMAIN qs2[d] :
           \E k \in DOMAIN qs[d] : qs2[d][i] = qs[d][k]
    BY DEF Taken
  <1>3. \A d \in Chats : \A i \in DOMAIN qs2[d] : Contains(sub[d], qs2[d][i].turn)
    BY <1>2 DEF Known
  <1>4. \A d \in Chats : cur2[d].turn # NoTurn => Contains(sub[d], cur2[d].turn)
    BY <1>1 DEF Known
  <1>5. \A t \in Turns : Count(st, qs[c])[t] > 0 => \E d \in Chats : Contains(sub[d], t)
    BY <1>1 DEF Known, Count
  <1> QED BY <1>3, <1>4, <1>5 DEF Known

(* The turn taken is the first of those that wait, and none of a later     *)
(* one's entries is its resume, which follows its start.                   *)
LEMMA TakeOrdered ==
    ASSUME NEW qs \in [Chats -> Seq(Entries)],
           NEW cur \in [Chats -> Entries \cup {Nothing}],
           NEW pend, NEW st \in [Turns -> Nat],
           NEW sub \in [Chats -> Seq(Turns)], NEW sk,
           NEW c \in Chats,
           NEW qs2, NEW cur2, Taken(qs, cur, c, qs2, cur2),
           Known(qs, cur, pend, st, sub), Counted(qs, cur, pend, st), Ordered(qs, st, sub, sk)
    PROVE  Ordered(qs2, Count(st, qs[c]), sub, sk)
  <1> DEFINE e == qs[c][1]
             st2 == Count(st, qs[c])
  <1>1. /\ 1 \in DOMAIN qs[c] /\ e \in Entries /\ Head(qs[c]) = e
        /\ \A d \in Chats \ {c} : qs2[d] = qs[d]
        /\ \A i \in DOMAIN qs[c] :
              i # 1 => \E k \in DOMAIN qs2[c] : qs2[c][k] = qs[c][i]
    BY DEF Taken
  <1>2. \A d \in Chats : \A i \in DOMAIN qs2[d] :
           \E k \in DOMAIN qs[d] : /\ qs2[d][i] = qs[d][k]
                                   /\ d = c => i \in Nat /\ k = i + 1 /\ k # 1
                                   /\ d # c => k = i
    BY DEF Taken
  <1>3. /\ e.turn \in Turns /\ (~e.resume => e = Owner(e.turn))
        /\ e.resume \in BOOLEAN /\ e.resume => \A t \in Turns : e # Owner(t)
    BY <1>1, EntryIs
  <1>4. /\ st2[e.turn] = st[e.turn] + 1
        /\ \A u \in Turns : u # e.turn => st2[u] = st[u]
        /\ \A u \in Turns : st[u] > 0 => st2[u] > 0
    BY <1>1, <1>3 DEF Count
  <1>5. \A d \in Chats : \A i \in DOMAIN sub[d] : sub[d][i] \in Turns
    BY LenProperties, ElementOfSeq
  <1>6. \A t, u \in Turns : Owner(t) = Owner(u) => t = u
    BY DEF Owner
  <1> HIDE DEF st2, e
  <1>7. ASSUME NEW d \in Chats, NEW i \in DOMAIN sub[d]
        PROVE  \/ st2[sub[d][i]] > 0 \/ Owner(sub[d][i]) \in sk
               \/ \E k \in DOMAIN qs2[d] : qs2[d][k] = Owner(sub[d][i])
    <2>1. CASE st[sub[d][i]] > 0
      BY <1>4, <1>5, <2>1
    <2>2. CASE Owner(sub[d][i]) \in sk
      BY <2>2
    <2>3. ASSUME NEW k \in DOMAIN qs[d], qs[d][k] = Owner(sub[d][i])
          PROVE  \/ st2[sub[d][i]] > 0
                 \/ \E l \in DOMAIN qs2[d] : qs2[d][l] = Owner(sub[d][i])
      <3>1. CASE d = c /\ k = 1
        <4>1. e.turn = sub[d][i]
          BY <2>3, <3>1 DEF Owner, e
        <4> QED BY <1>3, <1>4, <4>1
      <3>2. CASE ~(d = c /\ k = 1)
        BY <1>1, <2>3, <3>2
      <3> QED BY <3>1, <3>2
    <2> QED BY <2>1, <2>2, <2>3 DEF Ordered, Waiting
  <1>8. ASSUME NEW d \in Chats, NEW i \in DOMAIN sub[d], NEW j \in DOMAIN sub[d],
               NEW k \in DOMAIN qs2[d], i < j, qs2[d][k] = Owner(sub[d][i])
        PROVE  /\ st2[sub[d][j]] = 0
               /\ \A l \in DOMAIN qs2[d] : qs2[d][l] = Owner(sub[d][j]) => k < l
    <2>1. PICK m \in DOMAIN qs[d] : /\ qs2[d][k] = qs[d][m]
                                    /\ d = c => k \in Nat /\ m = k + 1 /\ m # 1
                                    /\ d # c => m = k
      BY <1>2
    <2>2. /\ st[sub[d][j]] = 0
          /\ \A l \in DOMAIN qs[d] : qs[d][l] = Owner(sub[d][j]) => m < l
      <3>1. WaitInOrder(qs, st, sub)
        BY DEF Ordered
      <3>2. qs[d][m] = Owner(sub[d][i]) /\ i < j
        BY <1>8, <2>1
      <3> QED BY <3>1, <3>2 DEF WaitInOrder
    <2>3. st2[sub[d][j]] = 0
      <3>1. SUFFICES ASSUME sub[d][j] = e.turn
                     PROVE  FALSE
        BY <1>4, <1>5, <2>2
      <3>2. ~e.resume
        BY <1>1, <2>2, <3>1, <1>3 DEF Counted, e
      <3> QED
        <4>1. CASE d = c
          <5>1. m < 1
            BY <1>1, <1>3, <2>2, <3>1, <3>2, <4>1 DEF e
          <5> QED BY <2>1, <4>1, <5>1
        <4>2. CASE d # c
          <5>1. PICK i2 \in DOMAIN sub[c] : sub[c][i2] = e.turn
            BY <1>1, LenProperties DEF Known, Contains, e
          <5> QED BY <3>1, <4>2, <5>1 DEF Ordered, Distinct
        <4> QED BY <4>1, <4>2
    <2>4. ASSUME NEW l \in DOMAIN qs2[d], qs2[d][l] = Owner(sub[d][j])
          PROVE  k < l
      <3>1. PICK n \in DOMAIN qs[d] : /\ qs2[d][l] = qs[d][n]
                                      /\ d = c => l \in Nat /\ n = l + 1 /\ n # 1
                                      /\ d # c => n = l
        BY <1>2
      <3>2. m < n
        BY <2>2, <2>4, <3>1
      <3> QED BY <2>1, <3>1, <3>2
    <2> QED BY <2>3, <2>4
  <1> QED
    <2>1. Waiting(qs2, st2, sub, sk)
      BY <1>7 DEF Waiting
    <2>2. WaitInOrder(qs2, st2, sub)
      BY <1>8 DEF WaitInOrder
    <2> QED BY <2>1, <2>2 DEF Ordered, st2

(* The drain loop takes the first turn of a chat, or finds none.           *)
LEMMA TakeAccounted ==
    ASSUME NEW qs \in [Chats -> Seq(Entries)],
           NEW cur \in [Chats -> Entries \cup {Nothing}],
           NEW pend \in [Chats -> Turns \cup {NoTurn}],
           NEW st \in [Turns -> Nat],
           NEW sub \in [Chats -> Seq(Turns)], NEW sk, NEW c \in Chats,
           Accounted(qs, cur, pend, st, sub, sk)
    PROVE  Accounted([qs EXCEPT ![c] = Rest(qs[c])], [cur EXCEPT ![c] = First(qs[c])],
                     pend, Count(st, qs[c]), sub, sk)
  <1> DEFINE qs2 == [qs EXCEPT ![c] = Rest(qs[c])]
             cur2 == [cur EXCEPT ![c] = First(qs[c])]
  <1>1. CASE qs[c] = <<>>
    <2>1. qs2 = qs /\ Count(st, qs[c]) = st
      BY <1>1 DEF Rest, Count
    <2>2. cur2[c].turn = NoTurn /\ \A d \in Chats : d # c => cur2[d] = cur[d]
      BY <1>1 DEF First, Nothing
    <2>3. OncePlaced(qs, cur2, pend)
      <3>0. OncePlaced(qs, cur, pend)
        BY DEF Accounted
      <3>1. \A d \in Chats : \A i \in DOMAIN qs[d] : qs[d][i].turn # NoTurn
        BY LenProperties, ElementOfSeq, EntryIs
      <3> HIDE DEF cur2
      <3>2. ASSUME NEW a \in Chats, NEW d \in Chats, NEW i \in DOMAIN qs[a]
            PROVE  qs[a][i].turn # cur2[d].turn /\ qs[a][i].turn # pend[d]
        <4>1. qs[a][i].turn # cur[d].turn /\ qs[a][i].turn # pend[d]
          BY <3>0 DEF OncePlaced, QueuedOnly
        <4>2. cur2[d].turn = NoTurn \/ cur2[d] = cur[d]
          BY <2>2
        <4> QED BY <3>1, <4>1, <4>2
      <3>3. ASSUME NEW a \in Chats, NEW d \in Chats, cur2[a].turn # NoTurn
            PROVE  cur2[a].turn # pend[d] /\ (cur2[a].turn = cur2[d].turn => a = d)
        BY <2>2, <3>0, <3>3 DEF OncePlaced, CurrentOnce
      <3>4. QueuedOnly(qs, cur2, pend)
        BY <3>2 DEF QueuedOnly
      <3>5. CurrentOnce(cur2, pend)
        BY <3>3 DEF CurrentOnce
      <3> QED BY <3>0, <3>4, <3>5 DEF OncePlaced
    <2> HIDE DEF cur2
    <2>4. Counted(qs, cur2, pend, st)
      BY <2>2 DEF Accounted, Counted
    <2>5. Known(qs, cur2, pend, st, sub)
      BY <2>2 DEF Accounted, Known
    <2> HIDE DEF qs2
    <2> QED BY <2>1, <2>3, <2>4, <2>5 DEF Accounted, cur2, qs2
  <1>2. CASE qs[c] # <<>>
    <2>1. Taken(qs, cur, c, qs2, cur2)
      BY <1>2, Took
    <2> HIDE DEF qs2, cur2
    <2>2. OncePlaced(qs2, cur2, pend)
      BY <2>1, TakeOnce DEF Accounted
    <2>3. Counted(qs2, cur2, pend, Count(st, qs[c]))
      BY <2>1, TakeCounted DEF Accounted
    <2>4. Known(qs2, cur2, pend, Count(st, qs[c]), sub)
      BY <2>1, TakeKnown DEF Accounted
    <2>5. Ordered(qs2, Count(st, qs[c]), sub, sk)
      BY <2>1, TakeOrdered DEF Accounted
    <2> QED BY <2>2, <2>3, <2>4, <2>5 DEF Accounted, qs2, cur2
  <1> QED BY <1>1, <1>2

(* A stop, or a new turn of the owner, cancels a resume.                   *)
LEMMA TimerCleared ==
    ASSUME NEW qs, NEW cur, NEW pend \in [Chats -> Turns \cup {NoTurn}],
           NEW st, NEW sub, NEW sk, NEW c \in Chats,
           \A d \in Chats : \A i \in DOMAIN qs[d] : qs[d][i].turn # NoTurn,
           Accounted(qs, cur, pend, st, sub, sk)
    PROVE  Accounted(qs, cur, [pend EXCEPT ![c] = NoTurn], st, sub, sk)
  <1> DEFINE pend2 == [pend EXCEPT ![c] = NoTurn]
  <1>1. pend2[c] = NoTurn /\ \A d \in Chats : d # c => pend2[d] = pend[d]
    OBVIOUS
  <1> HIDE DEF pend2
  <1>2. OncePlaced(qs, cur, pend2)
    BY <1>1 DEF Accounted, OncePlaced, QueuedOnly, CurrentOnce, TimedOnce
  <1>3. Counted(qs, cur, pend2, st) /\ Known(qs, cur, pend2, st, sub)
    BY <1>1 DEF Accounted, Counted, Known
  <1> QED BY <1>2, <1>3 DEF Accounted, pend2

(* The current turn ended on an error, was not a resume itself, and will   *)
(* be resumed.                                                             *)
LEMMA TimerSet ==
    ASSUME NEW qs \in [Chats -> Seq(Entries)],
           NEW cur \in [Chats -> Entries \cup {Nothing}],
           NEW pend \in [Chats -> Turns \cup {NoTurn}],
           NEW st \in [Turns -> Nat], NEW sub, NEW sk, NEW c \in Chats,
           ~cur[c].resume,
           Accounted(qs, cur, pend, st, sub, sk)
    PROVE  Accounted(qs, [cur EXCEPT ![c] = Nothing],
                     [pend EXCEPT ![c] = cur[c].turn], st, sub, sk)
  <1> DEFINE pend2 == [pend EXCEPT ![c] = cur[c].turn]
             cur2 == [cur EXCEPT ![c] = Nothing]
  <1>1. pend2[c] = cur[c].turn /\ \A d \in Chats : d # c => pend2[d] = pend[d]
    OBVIOUS
  <1>2. cur2[c].turn = NoTurn /\ \A d \in Chats : d # c => cur2[d] = cur[d]
    BY DEF Nothing
  <1>3. \A d \in Chats : \A i \in DOMAIN qs[d] : qs[d][i].turn # NoTurn
    BY LenProperties, ElementOfSeq, EntryIs
  <1> HIDE DEF pend2, cur2
  <1>4. OncePlaced(qs, cur2, pend2)
    <2>0. OncePlaced(qs, cur, pend)
      BY DEF Accounted
    <2>1. ASSUME NEW a \in Chats, NEW d \in Chats, NEW i \in DOMAIN qs[a]
          PROVE  qs[a][i].turn # cur2[d].turn /\ qs[a][i].turn # pend2[d]
      <3>1. qs[a][i].turn # cur[d].turn /\ qs[a][i].turn # pend[d]
        BY <2>0 DEF OncePlaced, QueuedOnly
      <3>2. qs[a][i].turn # NoTurn
        BY <1>3
      <3> QED BY <1>1, <1>2, <3>1, <3>2
    <2>2. ASSUME NEW a \in Chats, NEW d \in Chats, cur2[a].turn # NoTurn
          PROVE  cur2[a].turn # pend2[d] /\ (cur2[a].turn = cur2[d].turn => a = d)
      BY <1>1, <1>2, <2>0, <2>2 DEF OncePlaced, CurrentOnce
    <2>3. ASSUME NEW a \in Chats, NEW d \in Chats,
                 pend2[a] # NoTurn, pend2[a] = pend2[d]
          PROVE  a = d
      BY <1>1, <2>0, <2>3 DEF OncePlaced, TimedOnce, CurrentOnce
    <2>4. QueuedOnly(qs, cur2, pend2)
      BY <2>1 DEF QueuedOnly
    <2>5. CurrentOnce(cur2, pend2)
      BY <2>2 DEF CurrentOnce
    <2>6. TimedOnce(pend2)
      BY <2>3 DEF TimedOnce
    <2> QED BY <2>0, <2>4, <2>5, <2>6 DEF OncePlaced
  <1>5. Counted(qs, cur2, pend2, st)
    <2>1. Counted(qs, cur, pend, st)
      BY DEF Accounted
    <2>2. \A d \in Chats : pend2[d] # NoTurn => st[pend2[d]] = 1
      <3> TAKE d \in Chats
      <3>1. \A a \in Chats : /\ pend[a] # NoTurn => st[pend[a]] = 1
                             /\ cur[a].turn # NoTurn =>
                                  st[cur[a].turn] = IF cur[a].resume THEN 2 ELSE 1
        BY <2>1 DEF Counted
      <3> QED BY <1>1, <3>1
    <2>3. \A d \in Chats : cur2[d].turn # NoTurn =>
            st[cur2[d].turn] = IF cur2[d].resume THEN 2 ELSE 1
      BY <1>2, <2>1 DEF Counted
    <2> QED BY <2>1, <2>2, <2>3 DEF Counted
  <1>6. Known(qs, cur2, pend2, st, sub)
    BY <1>1, <1>2 DEF Accounted, Known
  <1> QED BY <1>4, <1>5, <1>6 DEF Accounted, pend2, cur2

(* What a queue, or a list of turns, is with one more at its end.          *)
Joined(qs, c, e, qs2, n) ==
    /\ DOMAIN qs2[c] = DOMAIN qs[c] \cup {n} /\ qs2[c][n] = e
    /\ \A i \in DOMAIN qs[c] : i \in Nat /\ i < n /\ i # n /\ qs2[c][i] = qs[c][i]
    /\ \A d \in Chats : d # c => qs2[d] = qs[d]

LEMMA Join ==
    ASSUME NEW S, NEW qs \in [Chats -> Seq(S)], NEW c \in Chats, NEW e \in S
    PROVE  Joined(qs, c, e, [qs EXCEPT ![c] = Append(qs[c], e)], Len(qs[c]) + 1)
  <1> DEFINE q == qs[c]
  <1>1. q \in Seq(S)
    OBVIOUS
  <1> HIDE DEF q
  <1>2. /\ DOMAIN q = 1 .. Len(q) /\ Len(q) \in Nat
        /\ Len(Append(q, e)) = Len(q) + 1
        /\ DOMAIN Append(q, e) = 1 .. (Len(q) + 1)
        /\ \A i \in 1 .. Len(q) : Append(q, e)[i] = q[i]
        /\ Append(q, e)[Len(q) + 1] = e
    BY <1>1, AppendProperties, LenProperties
  <1> QED BY <1>2 DEF Joined, q

(* An entry that joins is the last one.                                    *)
LEMMA JoinAccounted ==
    ASSUME NEW qs \in [Chats -> Seq(Entries)],
           NEW cur \in [Chats -> Entries \cup {Nothing}],
           NEW pend \in [Chats -> Turns \cup {NoTurn}],
           NEW st \in [Turns -> Nat], NEW sub, NEW sub2, NEW sk,
           NEW c \in Chats, NEW e \in Entries, NEW qs2, NEW n,
           Joined(qs, c, e, qs2, n),
           OncePlaced(qs, cur, pend), Counted(qs, cur, pend, st),
           Known(qs, cur, pend, st, sub),
           \A d \in Chats : cur[d].turn # e.turn /\ pend[d] # e.turn,
           \A d \in Chats : \A i \in DOMAIN qs[d] : qs[d][i].turn # e.turn,
           st[e.turn] = IF e.resume THEN 1 ELSE 0,
           \A d \in Chats : \A u : Contains(sub[d], u) => Contains(sub2[d], u),
           Contains(sub2[c], e.turn)
    PROVE  /\ OncePlaced(qs2, cur, pend) /\ Counted(qs2, cur, pend, st)
           /\ Known(qs2, cur, pend, st, sub2)
  <1>1. \A d \in Chats : \A i \in DOMAIN qs2[d] :
           \/ i \in DOMAIN qs[d] /\ qs2[d][i] = qs[d][i] /\ (d = c => i # n)
           \/ d = c /\ i = n /\ qs2[d][i] = e
    BY DEF Joined
  <1>2. OncePlaced(qs2, cur, pend)
    <2>1. ASSUME NEW a \in Chats, NEW b \in Chats,
                 NEW i \in DOMAIN qs2[a], NEW j \in DOMAIN qs2[b],
                 qs2[a][i].turn = qs2[b][j].turn
          PROVE  a = b /\ i = j
      <3>1. CASE /\ i \in DOMAIN qs[a] /\ qs2[a][i] = qs[a][i]
                 /\ j \in DOMAIN qs[b] /\ qs2[b][j] = qs[b][j]
        BY <2>1, <3>1 DEF OncePlaced, QueuedOnce
      <3>2. CASE a = c /\ i = n /\ qs2[a][i] = e
        BY <1>1, <2>1, <3>2
      <3>3. CASE b = c /\ j = n /\ qs2[b][j] = e
        BY <1>1, <2>1, <3>3
      <3> QED BY <1>1, <3>1, <3>2, <3>3
    <2>2. ASSUME NEW a \in Chats, NEW d \in Chats, NEW i \in DOMAIN qs2[a]
          PROVE  qs2[a][i].turn # cur[d].turn /\ qs2[a][i].turn # pend[d]
      <3>1. CASE i \in DOMAIN qs[a] /\ qs2[a][i] = qs[a][i]
        BY <3>1 DEF OncePlaced, QueuedOnly
      <3>2. CASE qs2[a][i] = e
        BY <3>2
      <3> QED BY <1>1, <3>1, <3>2
    <2> QED BY <2>1, <2>2 DEF OncePlaced, QueuedOnce, QueuedOnly
  <1>3. Counted(qs2, cur, pend, st)
    <2>1. ASSUME NEW d \in Chats, NEW i \in DOMAIN qs2[d]
          PROVE  st[qs2[d][i].turn] = IF qs2[d][i].resume THEN 1 ELSE 0
      <3>1. CASE i \in DOMAIN qs[d] /\ qs2[d][i] = qs[d][i]
        BY <3>1 DEF Counted
      <3>2. CASE qs2[d][i] = e
        BY <3>2
      <3> QED BY <1>1, <3>1, <3>2
    <2> QED BY <2>1 DEF Counted
  <1>4. Known(qs2, cur, pend, st, sub2)
    <2>1. ASSUME NEW d \in Chats, NEW i \in DOMAIN qs2[d]
          PROVE  Contains(sub2[d], qs2[d][i].turn)
      BY <1>1 DEF Known
    <2>2. \A u \in Turns : st[u] > 0 => \E d \in Chats : Contains(sub2[d], u)
      BY DEF Known
    <2>3. \A d \in Chats : cur[d].turn # NoTurn => Contains(sub2[d], cur[d].turn)
      BY DEF Known
    <2>4. \A d \in Chats : pend[d] # NoTurn => Contains(sub2[d], pend[d])
      BY DEF Known
    <2> QED BY <2>1, <2>2, <2>3, <2>4 DEF Known
  <1> QED BY <1>2, <1>3, <1>4

(* A turn its chat has not heard of. *)
NewTo(qs, st, sub, t) ==
    /\ \A d \in Chats : \A i \in DOMAIN sub[d] : sub[d][i] # t
    /\ \A d \in Chats : \A i \in DOMAIN qs[d] : qs[d][i] # Owner(t)
    /\ st[t] = 0

LEMMA OwnerJoinsInOrder ==
    ASSUME NEW qs, NEW qs2, NEW n \in Nat, NEW st, NEW sub, NEW sub2,
           NEW m \in Nat, NEW sk,
           NEW c \in Chats, NEW t \in Turns,
           Joined(qs, c, Owner(t), qs2, n), Joined(sub, c, t, sub2, m),
           NewTo(qs, st, sub, t), Ordered(qs, st, sub, sk)
    PROVE  Ordered(qs2, st, sub2, sk)
  <1>1. \A d \in Chats : \A i \in DOMAIN qs2[d] :
           \/ i \in DOMAIN qs[d] /\ qs2[d][i] = qs[d][i]
           \/ d = c /\ i = n /\ qs2[d][i] = Owner(t)
    BY DEF Joined
  <1>2. \A d \in Chats : \A i \in DOMAIN sub2[d] :
           \/ i \in DOMAIN sub[d] /\ sub2[d][i] = sub[d][i]
           \/ d = c /\ i = m /\ sub2[d][i] = t
    BY DEF Joined
  <1>3. /\ \A i \in DOMAIN qs[c] : i < n
        /\ n \in DOMAIN qs2[c] /\ qs2[c][n] = Owner(t)
        /\ \A i \in DOMAIN sub[c] : i \in Nat /\ i < m /\ ~(m < i)
        /\ ~(m < m)
        /\ \A d \in Chats : \A k \in DOMAIN qs[d] :
              k \in DOMAIN qs2[d] /\ qs2[d][k] = qs[d][k]
    <2>1. \A i \in DOMAIN sub[c] : i \in Nat /\ i < m /\ ~(m < i)
      BY DEF Joined
    <2>2. ~(m < m)
      OBVIOUS
    <2>3. \A d \in Chats : \A k \in DOMAIN qs[d] :
             k \in DOMAIN qs2[d] /\ qs2[d][k] = qs[d][k]
      BY DEF Joined
    <2> QED BY <2>1, <2>2, <2>3 DEF Joined
  <1>0. /\ \A d \in Chats : \A i \in DOMAIN sub[d] : sub[d][i] # t
        /\ \A d \in Chats : \A i \in DOMAIN qs[d] : qs[d][i] # Owner(t)
        /\ st[t] = 0
    BY DEF NewTo
  <1>4. \A u, v : Owner(u) = Owner(v) => u = v
    BY DEF Owner
  <1>5. ASSUME NEW a \in Chats, NEW b \in Chats,
               NEW i \in DOMAIN sub2[a], NEW j \in DOMAIN sub2[b],
               sub2[a][i] = sub2[b][j]
        PROVE  a = b /\ i = j
    <2>1. CASE /\ i \in DOMAIN sub[a] /\ sub2[a][i] = sub[a][i]
               /\ j \in DOMAIN sub[b] /\ sub2[b][j] = sub[b][j]
      <3>1. sub[a][i] = sub[b][j]
        BY <1>5, <2>1
      <3> QED BY <2>1, <3>1 DEF Ordered, Distinct
    <2>2. CASE a = c /\ i = m /\ sub2[a][i] = t
      BY <1>0, <1>2, <1>5, <2>2
    <2>3. CASE b = c /\ j = m /\ sub2[b][j] = t
      BY <1>0, <1>2, <1>5, <2>3
    <2> QED BY <1>2, <2>1, <2>2, <2>3
  <1>6. ASSUME NEW d \in Chats, NEW i \in DOMAIN sub2[d]
        PROVE  \/ st[sub2[d][i]] > 0 \/ Owner(sub2[d][i]) \in sk
               \/ \E k \in DOMAIN qs2[d] : qs2[d][k] = Owner(sub2[d][i])
    <2>1. CASE i \in DOMAIN sub[d] /\ sub2[d][i] = sub[d][i]
      <3>1. \/ st[sub[d][i]] > 0 \/ Owner(sub[d][i]) \in sk
            \/ \E k \in DOMAIN qs[d] : qs[d][k] = Owner(sub[d][i])
        BY <2>1 DEF Ordered, Waiting
      <3> QED BY <1>3, <2>1, <3>1
    <2>2. CASE d = c /\ i = m /\ sub2[d][i] = t
      BY <1>3, <2>2
    <2> QED BY <1>2, <2>1, <2>2
  <1>7. ASSUME NEW d \in Chats, NEW i \in DOMAIN sub2[d], NEW j \in DOMAIN sub2[d],
               NEW k \in DOMAIN qs2[d], i < j, qs2[d][k] = Owner(sub2[d][i])
        PROVE  /\ st[sub2[d][j]] = 0
               /\ \A l \in DOMAIN qs2[d] : qs2[d][l] = Owner(sub2[d][j]) => k < l
    <2>1. i \in DOMAIN sub[d] /\ sub2[d][i] = sub[d][i]
      BY <1>2, <1>3, <1>7
    <2>2. k \in DOMAIN qs[d] /\ qs2[d][k] = qs[d][k]
      BY <1>0, <1>1, <1>4, <1>7, <2>1
    <2>3. CASE d = c /\ j = m /\ sub2[d][j] = t
      <3>1. ASSUME NEW l \in DOMAIN qs2[d], qs2[d][l] = Owner(t)
            PROVE  k < l
        BY <1>0, <1>1, <1>3, <2>2, <2>3, <3>1
      <3> QED BY <1>0, <2>3, <3>1
    <2>4. CASE j \in DOMAIN sub[d] /\ sub2[d][j] = sub[d][j]
      <3>1. /\ st[sub[d][j]] = 0
            /\ \A l \in DOMAIN qs[d] : qs[d][l] = Owner(sub[d][j]) => k < l
        BY <1>7, <2>1, <2>2, <2>4 DEF Ordered, WaitInOrder
      <3>2. ASSUME NEW l \in DOMAIN qs2[d], qs2[d][l] = Owner(sub2[d][j])
            PROVE  k < l
        BY <1>0, <1>1, <1>4, <2>4, <3>1, <3>2
      <3> QED BY <2>4, <3>1, <3>2
    <2> QED BY <1>2, <2>3, <2>4
  <1>8. Distinct(sub2)
    BY <1>5 DEF Distinct
  <1>9. Waiting(qs2, st, sub2, sk)
    BY <1>6 DEF Waiting
  <1>10. WaitInOrder(qs2, st, sub2)
    BY <1>7 DEF WaitInOrder
  <1> QED BY <1>8, <1>9, <1>10 DEF Ordered

(* Which turns a list that got one more contains.                          *)
LEMMA JoinContains ==
    ASSUME NEW sub \in [Chats -> Seq(Turns)], NEW c \in Chats, NEW t \in Turns
    PROVE  \A d \in Chats : \A u :
             Contains([sub EXCEPT ![c] = Append(sub[c], t)][d], u)
               <=> Contains(sub[d], u) \/ (d = c /\ u = t)
  <1> DEFINE q == sub[c]
             q2 == Append(q, t)
  <1>1. /\ q \in Seq(Turns) /\ Len(q) \in Nat /\ Len(q2) = Len(q) + 1
        /\ \A i \in 1 .. Len(q) : q2[i] = q[i]
        /\ q2[Len(q) + 1] = t
    BY AppendProperties, LenProperties
  <1> HIDE DEF q, q2
  <1>2. ASSUME NEW u
        PROVE  Contains(q2, u) <=> Contains(q, u) \/ u = t
    <2>1. 1 .. Len(q2) = (1 .. Len(q)) \cup {Len(q) + 1}
      BY <1>1
    <2> QED BY <1>1, <2>1 DEF Contains
  <1> QED BY <1>2 DEF q, q2

(* A turn the owner submits joins the queue.                               *)
LEMMA OwnerAccounted ==
    ASSUME NEW qs \in [Chats -> Seq(Entries)],
           NEW cur \in [Chats -> Entries \cup {Nothing}],
           NEW pend \in [Chats -> Turns \cup {NoTurn}],
           NEW st \in [Turns -> Nat],
           NEW sub \in [Chats -> Seq(Turns)], NEW sk,
           NEW c \in Chats, NEW t \in Turns,
           \A d \in Chats : ~Contains(sub[d], t),
           Accounted(qs, cur, pend, st, sub, sk)
    PROVE  Accounted([qs EXCEPT ![c] = Append(qs[c], Owner(t))], cur, pend, st,
                     [sub EXCEPT ![c] = Append(sub[c], t)], sk)
  <1> DEFINE qs2 == [qs EXCEPT ![c] = Append(qs[c], Owner(t))]
             sub2 == [sub EXCEPT ![c] = Append(sub[c], t)]
             n == Len(qs[c]) + 1
             m == Len(sub[c]) + 1
  <1>1. Owner(t) \in Entries /\ Owner(t).turn = t /\ ~Owner(t).resume
    BY EntriesAreSomething DEF Owner
  <1>2. Joined(qs, c, Owner(t), qs2, n) /\ Joined(sub, c, t, sub2, m)
    BY <1>1, Join
  <1>3. \A d \in Chats : \A u :
           Contains(sub2[d], u) <=> Contains(sub[d], u) \/ (d = c /\ u = t)
    BY JoinContains
  <1> n \in Nat /\ m \in Nat
    BY LenProperties
  <1> HIDE DEF qs2, sub2, n, m
  <1>4. t # NoTurn
    BY TurnsAssumption
  <1>5. /\ \A d \in Chats : cur[d].turn # t /\ pend[d] # t
        /\ \A d \in Chats : \A i \in DOMAIN qs[d] : qs[d][i].turn # t
        /\ st[t] = 0
    <2>0. Known(qs, cur, pend, st, sub)
      BY DEF Accounted
    <2>1. \A d \in Chats : cur[d].turn # t /\ pend[d] # t
      BY <1>4, <2>0 DEF Known
    <2>2. \A d \in Chats : \A i \in DOMAIN qs[d] : qs[d][i].turn # t
      BY <2>0 DEF Known
    <2>3. st[t] = 0
      <3>1. \A u \in Turns : st[u] > 0 => \E d \in Chats : Contains(sub[d], u)
        BY <2>0 DEF Known
      <3>2. ~(st[t] > 0)
        BY <3>1
      <3>3. st[t] \in Nat
        OBVIOUS
      <3> QED BY <3>2, <3>3
    <2> QED BY <2>1, <2>2, <2>3
  <1>6. /\ OncePlaced(qs2, cur, pend) /\ Counted(qs2, cur, pend, st)
        /\ Known(qs2, cur, pend, st, sub2)
    <2>1. /\ \A d \in Chats : cur[d].turn # Owner(t).turn /\ pend[d] # Owner(t).turn
          /\ \A d \in Chats : \A i \in DOMAIN qs[d] : qs[d][i].turn # Owner(t).turn
          /\ st[Owner(t).turn] = IF Owner(t).resume THEN 1 ELSE 0
      BY <1>1, <1>5
    <2>2. /\ \A d \in Chats : \A u : Contains(sub[d], u) => Contains(sub2[d], u)
          /\ Contains(sub2[c], Owner(t).turn)
      BY <1>1, <1>3
    <2>3. /\ OncePlaced(qs, cur, pend) /\ Counted(qs, cur, pend, st)
          /\ Known(qs, cur, pend, st, sub)
      BY DEF Accounted
    <2> QED BY <1>1, <1>2, <2>1, <2>2, <2>3, JoinAccounted
  <1>7. \A d \in Chats : \A i \in DOMAIN sub[d] : sub[d][i] # t
    BY LenProperties DEF Contains
  <1>8. \A d \in Chats : \A i \in DOMAIN qs[d] : qs[d][i] # Owner(t)
    BY <1>1, <1>5
  <1>9. Ordered(qs2, st, sub2, sk)
    <2>1. Ordered(qs, st, sub, sk)
      BY DEF Accounted
    <2>2. NewTo(qs, st, sub, t)
      BY <1>5, <1>7, <1>8 DEF NewTo
    <2> QED BY <1>2, <2>1, <2>2, OwnerJoinsInOrder
  <1> QED BY <1>6, <1>9 DEF Accounted, qs2, sub2

(* A turn whose timer fires joins the queue as a resume.                   *)
LEMMA ResumeAccounted ==
    ASSUME NEW qs \in [Chats -> Seq(Entries)],
           NEW cur \in [Chats -> Entries \cup {Nothing}],
           NEW pend \in [Chats -> Turns \cup {NoTurn}],
           NEW st \in [Turns -> Nat],
           NEW sub, NEW sk, NEW c \in Chats, pend[c] # NoTurn,
           Accounted(qs, cur, pend, st, sub, sk)
    PROVE  Accounted([qs EXCEPT ![c] = Append(qs[c], Resume(pend[c]))], cur,
                     [pend EXCEPT ![c] = NoTurn], st, sub, sk)
  <1> DEFINE t == pend[c]
             qs2 == [qs EXCEPT ![c] = Append(qs[c], Resume(t))]
             pend2 == [pend EXCEPT ![c] = NoTurn]
             n == Len(qs[c]) + 1
  <1>1. Resume(t) \in Entries /\ Resume(t).turn = t /\ Resume(t).resume
    BY EntriesAreSomething DEF Resume
  <1>2. Joined(qs, c, Resume(t), qs2, n)
    BY <1>1, Join
  <1>3. pend2 \in [Chats -> Turns \cup {NoTurn}]
    OBVIOUS
  <1>4. \A d \in Chats : pend2[d] = IF d = c THEN NoTurn ELSE pend[d]
    OBVIOUS
  <1>5. \A d \in Chats : \A i \in DOMAIN qs[d] : qs[d][i].turn # NoTurn
    BY LenProperties, ElementOfSeq, EntryIs
  <1>6. Accounted(qs, cur, pend2, st, sub, sk)
    BY <1>5, TimerCleared
  <1> HIDE DEF qs2, pend2, n
  <1>7. \A d \in Chats : cur[d].turn # t /\ pend2[d] # t
    BY <1>4 DEF Accounted, OncePlaced, CurrentOnce, TimedOnce
  <1>8. \A d \in Chats : \A i \in DOMAIN qs[d] : qs[d][i].turn # t
    BY DEF Accounted, OncePlaced, QueuedOnly
  <1>9. st[t] = 1 /\ Contains(sub[c], t)
    BY DEF Accounted, Counted, Known
  <1>10. /\ OncePlaced(qs2, cur, pend2) /\ Counted(qs2, cur, pend2, st)
         /\ Known(qs2, cur, pend2, st, sub)
    <2>1. /\ \A d \in Chats : cur[d].turn # Resume(t).turn
                               /\ pend2[d] # Resume(t).turn
          /\ \A d \in Chats : \A i \in DOMAIN qs[d] : qs[d][i].turn # Resume(t).turn
          /\ st[Resume(t).turn] = IF Resume(t).resume THEN 1 ELSE 0
          /\ Contains(sub[c], Resume(t).turn)
      BY <1>1, <1>7, <1>8, <1>9
    <2>2. /\ OncePlaced(qs, cur, pend2) /\ Counted(qs, cur, pend2, st)
          /\ Known(qs, cur, pend2, st, sub)
      BY <1>6 DEF Accounted
    <2> QED BY <1>1, <1>2, <1>3, <2>1, <2>2, JoinAccounted
  <1>11. \A u : Resume(t) # Owner(u)
    BY DEF Resume, Owner
  <1>12. Ordered(qs2, st, sub, sk)
    <2>1. /\ \A d \in Chats : \A i \in DOMAIN qs2[d] : \A u :
               qs2[d][i] = Owner(u) => i \in DOMAIN qs[d] /\ qs[d][i] = Owner(u)
          /\ \A d \in Chats : \A i \in DOMAIN qs[d] :
               i \in DOMAIN qs2[d] /\ qs2[d][i] = qs[d][i]
      BY <1>2, <1>11 DEF Joined
    <2>2. Waiting(qs2, st, sub, sk)
      BY <2>1 DEF Accounted, Ordered, Waiting
    <2>3. WaitInOrder(qs2, st, sub)
      BY <2>1 DEF Accounted, Ordered, WaitInOrder
    <2> QED BY <2>2, <2>3 DEF Accounted, Ordered
  <1> QED BY <1>10, <1>12 DEF Accounted, qs2, pend2

(* A stop removes the first of those that wait.                            *)
LEMMA SkipAccounted ==
    ASSUME NEW qs \in [Chats -> Seq(Entries)],
           NEW cur \in [Chats -> Entries \cup {Nothing}],
           NEW pend \in [Chats -> Turns \cup {NoTurn}],
           NEW st \in [Turns -> Nat],
           NEW sub \in [Chats -> Seq(Turns)], NEW sk,
           NEW c \in Chats, qs[c] # <<>>,
           Accounted(qs, cur, pend, st, sub, sk)
    PROVE  Accounted([qs EXCEPT ![c] = Tail(qs[c])], cur, pend, st, sub,
                     sk \cup {Head(qs[c])})
  <1> DEFINE qs2 == [qs EXCEPT ![c] = Rest(qs[c])]
             cur2 == [cur EXCEPT ![c] = First(qs[c])]
             sk2 == sk \cup {Head(qs[c])}
  <1>1. qs2 = [qs EXCEPT ![c] = Tail(qs[c])]
    BY DEF Rest
  <1>2. Taken(qs, cur, c, qs2, cur2)
    BY Took
  <1> HIDE DEF qs2, cur2
  <1>3. /\ \A d \in Chats : \A i \in DOMAIN qs2[d] :
             \E k \in DOMAIN qs[d] : /\ qs2[d][i] = qs[d][k]
                                     /\ d = c => i \in Nat /\ k = i + 1 /\ k # 1
                                     /\ d # c => k = i
        /\ \A d \in Chats \ {c} : qs2[d] = qs[d]
        /\ \A i \in DOMAIN qs[c] :
             i # 1 => \E k \in DOMAIN qs2[c] : qs2[c][k] = qs[c][i]
        /\ qs[c][1] \in sk2
    BY <1>2 DEF Taken
  <1>4. /\ OncePlaced(qs, cur, pend) /\ Counted(qs, cur, pend, st)
        /\ Known(qs, cur, pend, st, sub) /\ Ordered(qs, st, sub, sk)
    BY DEF Accounted
  <1>5. OncePlaced(qs2, cur, pend)
    <2>1. OncePlaced(qs2, cur2, pend)
      BY <1>2, <1>4, TakeOnce
    <2>2. ASSUME NEW a \in Chats, NEW d \in Chats, NEW i \in DOMAIN qs2[a]
          PROVE  qs2[a][i].turn # cur[d].turn /\ qs2[a][i].turn # pend[d]
      <3>1. PICK k \in DOMAIN qs[a] : qs2[a][i] = qs[a][k]
        BY <1>3
      <3> QED BY <1>4, <3>1 DEF OncePlaced, QueuedOnly
    <2>3. QueuedOnly(qs2, cur, pend)
      BY <2>2 DEF QueuedOnly
    <2> QED BY <1>4, <2>1, <2>3 DEF OncePlaced
  <1>6. Counted(qs2, cur, pend, st)
    <2>1. ASSUME NEW d \in Chats, NEW i \in DOMAIN qs2[d]
          PROVE  st[qs2[d][i].turn] = IF qs2[d][i].resume THEN 1 ELSE 0
      <3>1. PICK k \in DOMAIN qs[d] : qs2[d][i] = qs[d][k]
        BY <1>3
      <3> QED BY <1>4, <3>1 DEF Counted
    <2> QED BY <1>4, <2>1 DEF Counted
  <1>7. Known(qs2, cur, pend, st, sub)
    <2>1. ASSUME NEW d \in Chats, NEW i \in DOMAIN qs2[d]
          PROVE  Contains(sub[d], qs2[d][i].turn)
      <3>1. PICK k \in DOMAIN qs[d] : qs2[d][i] = qs[d][k]
        BY <1>3
      <3> QED BY <1>4, <3>1 DEF Known
    <2> QED BY <1>4, <2>1 DEF Known
  <1> HIDE DEF sk2
  <1>8. Waiting(qs2, st, sub, sk2)
    <2>1. ASSUME NEW d \in Chats, NEW i \in DOMAIN sub[d],
                 NEW k \in DOMAIN qs[d], qs[d][k] = Owner(sub[d][i])
          PROVE  \/ Owner(sub[d][i]) \in sk2
                 \/ \E l \in DOMAIN qs2[d] : qs2[d][l] = Owner(sub[d][i])
      <3>1. CASE d = c /\ k = 1
        BY <1>3, <2>1, <3>1
      <3>2. CASE ~(d = c /\ k = 1)
        BY <1>3, <2>1, <3>2
      <3> QED BY <3>1, <3>2
    <2>2. ASSUME NEW d \in Chats, NEW i \in DOMAIN sub[d]
          PROVE  \/ st[sub[d][i]] > 0 \/ Owner(sub[d][i]) \in sk2
                 \/ \E l \in DOMAIN qs2[d] : qs2[d][l] = Owner(sub[d][i])
      <3>1. \/ st[sub[d][i]] > 0 \/ Owner(sub[d][i]) \in sk
            \/ \E k \in DOMAIN qs[d] : qs[d][k] = Owner(sub[d][i])
        BY <1>4 DEF Ordered, Waiting
      <3> QED BY <2>1, <3>1 DEF sk2
    <2> QED BY <2>2 DEF Waiting
  <1>9. WaitInOrder(qs2, st, sub)
    <2>1. ASSUME NEW d \in Chats, NEW i \in DOMAIN sub[d], NEW j \in DOMAIN sub[d],
                 NEW k \in DOMAIN qs2[d], i < j, qs2[d][k] = Owner(sub[d][i])
          PROVE  /\ st[sub[d][j]] = 0
                 /\ \A l \in DOMAIN qs2[d] : qs2[d][l] = Owner(sub[d][j]) => k < l
      <3>1. PICK m \in DOMAIN qs[d] : /\ qs2[d][k] = qs[d][m]
                                      /\ d = c => k \in Nat /\ m = k + 1 /\ m # 1
                                      /\ d # c => m = k
        BY <1>3
      <3>2. /\ st[sub[d][j]] = 0
            /\ \A l \in DOMAIN qs[d] : qs[d][l] = Owner(sub[d][j]) => m < l
        <4>1. WaitInOrder(qs, st, sub) /\ qs[d][m] = Owner(sub[d][i])
          BY <1>4, <2>1, <3>1 DEF Ordered
        <4> QED BY <2>1, <4>1 DEF WaitInOrder
      <3>3. ASSUME NEW l \in DOMAIN qs2[d], qs2[d][l] = Owner(sub[d][j])
            PROVE  k < l
        <4>1. PICK n \in DOMAIN qs[d] : /\ qs2[d][l] = qs[d][n]
                                        /\ d = c => l \in Nat /\ n = l + 1 /\ n # 1
                                        /\ d # c => n = l
          BY <1>3
        <4>2. m < n
          BY <3>2, <3>3, <4>1
        <4> QED BY <3>1, <4>1, <4>2
      <3> QED BY <3>2, <3>3
    <2> QED BY <2>1 DEF WaitInOrder
  <1> QED BY <1>1, <1>4, <1>5, <1>6, <1>7, <1>8, <1>9 DEF Accounted, Ordered, sk2

(* The drain loop in these terms.                                          *)
LEMMA NextTurnTakes ==
    ASSUME TypeOK, NEW c \in Chats, NEW qs \in [Chats -> Seq(Entries)],
           NextTurn(c, qs[c]), qs = [queued EXCEPT ![c] = qs[c]],
           NEW cur, cur = current \/ cur = [current EXCEPT ![c] = Nothing]
    PROVE  /\ queued' = [qs EXCEPT ![c] = Rest(qs[c])]
           /\ current' = [cur EXCEPT ![c] = First(qs[c])]
           /\ started' = Count(started, qs[c])
           /\ willResume' = [willResume EXCEPT ![c] = FALSE]
  <1>1. [qs EXCEPT ![c] = Rest(qs[c])] = [queued EXCEPT ![c] = Rest(qs[c])]
    BY DEF TypeOK
  <1>2. [cur EXCEPT ![c] = First(qs[c])] = [current EXCEPT ![c] = First(qs[c])]
    BY DEF TypeOK
  <1> QED BY <1>1, <1>2 DEF NextTurn, Rest, First, Count

LEMMA NextTurnAccounted ==
    ASSUME TypeOK, NEW c \in Chats, NEW qs \in [Chats -> Seq(Entries)],
           NextTurn(c, qs[c]), qs = [queued EXCEPT ![c] = qs[c]],
           NEW cur, cur = current \/ cur = [current EXCEPT ![c] = Nothing],
           NEW pend \in [Chats -> Turns \cup {NoTurn}],
           NEW sub \in [Chats -> Seq(Turns)], NEW sk,
           Accounted(qs, cur, pend, started, sub, sk)
    PROVE  /\ Accounted(queued', current', pend, started', sub, sk)
           /\ ResumedOnce => ResumedOnce'
  <1>1. /\ queued' = [qs EXCEPT ![c] = Rest(qs[c])]
        /\ current' = [cur EXCEPT ![c] = First(qs[c])]
        /\ started' = Count(started, qs[c])
        /\ willResume' = [willResume EXCEPT ![c] = FALSE]
    BY NextTurnTakes
  <1>2. /\ cur \in [Chats -> Entries \cup {Nothing}] /\ started \in [Turns -> Nat]
        /\ willResume \in [Chats -> BOOLEAN]
        /\ \A d \in Chats \ {c} : cur[d] = current[d]
    BY DEF TypeOK
  <1>3. Accounted(queued', current', pend, started', sub, sk)
    BY <1>1, <1>2, TakeAccounted
  <1>4. \A d \in Chats \ {c} : current'[d] = current[d] /\ willResume'[d] = willResume[d]
    BY <1>1, <1>2
  <1>5. ~willResume'[c]
    BY <1>1, <1>2
  <1> QED BY <1>3, <1>4, <1>5 DEF ResumedOnce

LEMMA EnqueueAccounted ==
    ASSUME TypeOK, NEW c \in Chats, NEW e \in Entries, Enqueue(c, e),
           NEW pend \in [Chats -> Turns \cup {NoTurn}],
           NEW sub \in [Chats -> Seq(Turns)], NEW sk,
           Accounted([queued EXCEPT ![c] = Append(queued[c], e)], current, pend,
                     started, sub, sk)
    PROVE  /\ Accounted(queued', current', pend, started', sub, sk)
           /\ ResumedOnce => ResumedOnce'
  <1> DEFINE qs == [queued EXCEPT ![c] = Append(queued[c], e)]
  <1>1. qs \in [Chats -> Seq(Entries)] /\ qs[c] = Append(queued[c], e)
    BY DEF TypeOK
  <1>2. CASE current[c] = Nothing
    <2>1. NextTurn(c, qs[c]) /\ qs = [queued EXCEPT ![c] = qs[c]]
      BY <1>1, <1>2 DEF Enqueue
    <2> HIDE DEF qs
    <2> QED BY <1>1, <2>1, NextTurnAccounted DEF qs
  <1>3. CASE current[c] # Nothing
    BY <1>3 DEF Enqueue, ResumedOnce
  <1> QED BY <1>2, <1>3

LEMMA FullInvInit == Init => FullInv
  <1> SUFFICES ASSUME Init PROVE FullInv
    OBVIOUS
  <1>1. Inv
    BY InvInit
  <1>2. ResumedOnce
    BY DEF Init, ResumedOnce
  <1>3. \A c \in Chats : /\ DOMAIN queued[c] = {} /\ DOMAIN submitted[c] = {}
                         /\ current[c].turn = NoTurn /\ pendingResumes[c] = NoTurn
    BY DEF Init, Nothing
  <1>4. OncePlaced(queued, current, pendingResumes)
    BY <1>3 DEF OncePlaced, QueuedOnce, QueuedOnly, CurrentOnce, TimedOnce
  <1>5. /\ Counted(queued, current, pendingResumes, started)
        /\ Known(queued, current, pendingResumes, started, submitted)
    BY <1>3 DEF Counted, Known, Init
  <1>6. Ordered(queued, started, submitted, skipped)
    BY <1>3 DEF Ordered, Distinct, Waiting, WaitInOrder
  <1> QED BY <1>1, <1>2, <1>4, <1>5, <1>6 DEF FullInv, Accounted

LEMMA FullInvStep == FullInv /\ [Next]_vars => FullInv'
  <1> SUFFICES ASSUME FullInv, [Next]_vars PROVE FullInv'
    OBVIOUS
  <1> DEFINE All == Accounted(queued, current, pendingResumes, started,
                              submitted, skipped)
  <1>1. Inv' /\ TypeOK /\ ResumedOnce /\ All
    BY InvStep DEF FullInv, Inv
  <1>2. /\ queued \in [Chats -> Seq(Entries)]
        /\ current \in [Chats -> Entries \cup {Nothing}]
        /\ pendingResumes \in [Chats -> Turns \cup {NoTurn}]
        /\ started \in [Turns -> Nat] /\ submitted \in [Chats -> Seq(Turns)]
    BY <1>1 DEF TypeOK
  <1>3. \A d \in Chats : \A i \in DOMAIN queued[d] : queued[d][i].turn # NoTurn
    BY <1>2, LenProperties, ElementOfSeq, EntryIs
  <1>4. ASSUME NEW c \in Chats, NEW t \in Turns, Submit(c, t)
        PROVE  All' /\ ResumedOnce'
    <2> DEFINE pend == [pendingResumes EXCEPT ![c] = NoTurn]
               sub == [submitted EXCEPT ![c] = Append(submitted[c], t)]
    <2>1. /\ pend \in [Chats -> Turns \cup {NoTurn}] /\ sub \in [Chats -> Seq(Turns)]
          /\ Owner(t) \in Entries
      BY <1>2, EntriesAreSomething
    <2>2. Accounted(queued, current, pend, started, submitted, skipped)
      BY <1>1, <1>2, <1>3, TimerCleared
    <2>3. \A d \in Chats : ~Contains(submitted[d], t)
      BY <1>4 DEF Submit
    <2> HIDE DEF pend
    <2>4. Accounted([queued EXCEPT ![c] = Append(queued[c], Owner(t))], current, pend,
                    started, sub, skipped)
      BY <1>2, <2>1, <2>2, <2>3, OwnerAccounted
    <2>5. /\ Enqueue(c, Owner(t)) /\ submitted' = sub /\ pendingResumes' = pend
          /\ skipped' = skipped
      BY <1>4 DEF Submit, pend
    <2> HIDE DEF sub
    <2>6. /\ Accounted(queued', current', pend, started', sub, skipped)
          /\ ResumedOnce => ResumedOnce'
      BY <1>1, <2>1, <2>4, <2>5, EnqueueAccounted
    <2> QED BY <1>1, <2>5, <2>6
  <1>5. ASSUME NEW c \in Chats, ResumeFires(c)
        PROVE  All' /\ ResumedOnce'
    <2> DEFINE pend == [pendingResumes EXCEPT ![c] = NoTurn]
               e == Resume(pendingResumes[c])
    <2>1. /\ pendingResumes[c] # NoTurn /\ Enqueue(c, e)
          /\ pendingResumes' = pend /\ submitted' = submitted /\ skipped' = skipped
      BY <1>5 DEF ResumeFires
    <2>2. pend \in [Chats -> Turns \cup {NoTurn}] /\ e \in Entries
      BY <1>2, <2>1, EntriesAreSomething
    <2>3. Accounted([queued EXCEPT ![c] = Append(queued[c], e)], current, pend,
                    started, submitted, skipped)
      BY <1>1, <1>2, <2>1, ResumeAccounted
    <2> HIDE DEF pend, e
    <2>4. /\ Accounted(queued', current', pend, started', submitted, skipped)
          /\ ResumedOnce => ResumedOnce'
      BY <1>1, <1>2, <2>1, <2>2, <2>3, EnqueueAccounted
    <2> QED BY <1>1, <2>1, <2>4
  <1>6. ASSUME NEW c \in Chats, NextTurn(c, queued[c]),
               UNCHANGED <<pendingResumes, submitted, skipped>>
        PROVE  All' /\ ResumedOnce'
    <2>1. queued = [queued EXCEPT ![c] = queued[c]]
      BY <1>2
    <2>2. /\ Accounted(queued', current', pendingResumes, started', submitted, skipped)
          /\ ResumedOnce => ResumedOnce'
      BY <1>1, <1>2, <1>6, <2>1, NextTurnAccounted
    <2> QED BY <1>1, <1>6, <2>2
  <1>7. ASSUME UNCHANGED <<queued, current, started, pendingResumes, submitted, skipped>>
        PROVE  All'
    BY <1>1, <1>7
  <1>8. ASSUME NEW c \in Chats, PrepareEnds(c)
        PROVE  All' /\ ResumedOnce'
    <2>1. CASE NextTurn(c, queued[c])
      BY <1>6, <1>8, <2>1 DEF PrepareEnds
    <2>2. CASE UNCHANGED <<known, queued, current, halted, willResume, busy, started>>
      BY <1>1, <1>7, <1>8, <2>2 DEF PrepareEnds, ResumedOnce
    <2> QED BY <1>8, <2>1, <2>2 DEF PrepareEnds
  <1>9. ASSUME NEW c \in Chats, SubmitEnds(c)
        PROVE  All' /\ ResumedOnce'
    <2>1. CASE NextTurn(c, queued[c])
      BY <1>6, <1>9, <2>1 DEF SubmitEnds
    <2>2. ASSUME NEW finalError \in BOOLEAN,
                 willResume' = [willResume EXCEPT ![c] = finalError /\ Resumable(c)],
                 UNCHANGED <<known, queued, current, halted, busy, started>>
          PROVE  All' /\ ResumedOnce'
      <3>1. \A d \in Chats : willResume'[d] => willResume[d] \/ (d = c /\ Resumable(c))
        BY <1>1, <2>2 DEF TypeOK
      <3>2. ResumedOnce'
        BY <1>1, <2>2, <3>1 DEF ResumedOnce, Resumable
      <3> QED BY <1>7, <1>9, <2>2, <3>2 DEF SubmitEnds
    <2> QED BY <1>9, <2>1, <2>2 DEF SubmitEnds
  <1>10. ASSUME NEW c \in Chats, FinishEnds(c)
         PROVE  All' /\ ResumedOnce'
    <2>1. NextTurn(c, queued[c]) /\ UNCHANGED <<submitted, skipped>>
      BY <1>10 DEF FinishEnds
    <2>2. CASE UNCHANGED pendingResumes
      BY <1>6, <2>1, <2>2
    <2>3. CASE /\ willResume[c]
               /\ pendingResumes' = [pendingResumes EXCEPT ![c] = current[c].turn]
      <3> DEFINE cur == [current EXCEPT ![c] = Nothing]
                 pend == [pendingResumes EXCEPT ![c] = current[c].turn]
      <3>1. Accounted(queued, cur, pend, started, submitted, skipped)
        BY <1>1, <1>2, <2>3, TimerSet DEF ResumedOnce
      <3>2. pend \in [Chats -> Turns \cup {NoTurn}]
        BY <1>2, EntriesAreSomething DEF Nothing
      <3>3. queued = [queued EXCEPT ![c] = queued[c]]
        BY <1>2
      <3> HIDE DEF pend
      <3>4. /\ Accounted(queued', current', pend, started', submitted, skipped)
            /\ ResumedOnce => ResumedOnce'
        BY <1>1, <1>2, <2>1, <3>1, <3>2, <3>3, NextTurnAccounted
      <3> QED BY <1>1, <2>1, <2>3, <3>4 DEF pend
    <2> QED BY <1>10, <2>2, <2>3 DEF FinishEnds
  <1>11. ASSUME NEW c \in Chats, Stop(c)
         PROVE  All' /\ ResumedOnce'
    <2>1. UNCHANGED <<current, willResume, started, submitted>>
      BY <1>11 DEF Stop, drainVars
    <2>2. ResumedOnce'
      BY <1>1, <2>1 DEF ResumedOnce
    <2>3. CASE pendingResumes[c] # NoTurn
      <3>1. /\ pendingResumes' = [pendingResumes EXCEPT ![c] = NoTurn]
            /\ queued' = queued /\ skipped' = skipped
        BY <1>11, <2>3 DEF Stop, drainVars
      <3> QED BY <1>1, <1>2, <1>3, <2>1, <2>2, <3>1, TimerCleared
    <2>4. CASE pendingResumes[c] = NoTurn /\ queued[c] # <<>>
      <3>1. /\ queued' = [queued EXCEPT ![c] = Tail(queued[c])]
            /\ skipped' = skipped \cup {Head(queued[c])}
            /\ pendingResumes' = pendingResumes
        BY <1>11, <2>4 DEF Stop
      <3> QED BY <1>1, <1>2, <2>1, <2>2, <2>4, <3>1, SkipAccounted
    <2>5. CASE pendingResumes[c] = NoTurn /\ queued[c] = <<>>
      BY <1>7, <1>11, <2>1, <2>2, <2>5 DEF Stop
    <2> QED BY <2>3, <2>4, <2>5
  <1>12. ASSUME UNCHANGED vars
         PROVE  All' /\ ResumedOnce'
    <2>1. /\ UNCHANGED <<queued, current, started, pendingResumes, submitted, skipped>>
          /\ UNCHANGED <<current, willResume>>
      BY <1>12 DEF vars, drainVars
    <2>2. All'
      BY <1>7, <2>1
    <2> QED BY <1>1, <2>1, <2>2 DEF ResumedOnce
  <1> HIDE DEF All
  <1>13. All' /\ ResumedOnce'
    BY <1>4, <1>5, <1>8, <1>9, <1>10, <1>11, <1>12 DEF Next, TurnEnds, Quiet
  <1> QED BY <1>1, <1>13 DEF FullInv, All

(* The count of a turn's starts is at most two wherever the turn is, even  *)
(* when each of its runs ends on an error.                                 *)
THEOREM TurnsRunAtMostTwice == Spec => []RunsAtMostTwice
  <1>1. FullInv => RunsAtMostTwice
    BY DEF FullInv, Accounted, Counted, RunsAtMostTwice
  <1> QED BY <1>1, FullInvInit, FullInvStep, PTL DEF Spec

(* Of two turns of a chat, the later one starts only when the earlier one  *)
(* has, or a stop removed that one from the queue.                         *)
THEOREM TurnsStartInOrder == Spec => []InOrder
  <1>1. FullInv => InOrder
    <2> SUFFICES ASSUME FullInv, NEW c \in Chats,
                        NEW i \in DOMAIN submitted[c], NEW j \in DOMAIN submitted[c],
                        i < j, started[submitted[c][j]] > 0
                 PROVE  \/ started[submitted[c][i]] > 0
                        \/ Owner(submitted[c][i]) \in skipped
      BY DEF InOrder
    <2>1. /\ Waiting(queued, started, submitted, skipped)
          /\ WaitInOrder(queued, started, submitted)
      BY DEF FullInv, Accounted, Ordered
    <2>2. ASSUME NEW k \in DOMAIN queued[c], queued[c][k] = Owner(submitted[c][i])
          PROVE  FALSE
      <3>1. started[submitted[c][j]] = 0
        BY <2>1, <2>2 DEF WaitInOrder
      <3> QED BY <3>1
    <2> QED BY <2>1, <2>2 DEF Waiting
  <1> QED BY <1>1, FullInvInit, FullInvStep, PTL DEF Spec

(***************************************************************************)
(* A turn whose timer was cancelled is in no place, and only a turn that   *)
(* was never submitted enters one.                                         *)
(***************************************************************************)
Gone(t, qs, cur, pend, st, sub) ==
    /\ st[t] < 2
    /\ \E c \in Chats : Contains(sub[c], t)
    /\ \A d \in Chats : cur[d].turn # t /\ pend[d] # t
    /\ \A d \in Chats : \A i \in DOMAIN qs[d] : qs[d][i].turn # t

GoneInv ==
    \A t \in overtaken :
        Gone(t, queued, current, pendingResumes, started, submitted)

LEMMA NextTurnGone ==
    ASSUME TypeOK, NEW c \in Chats, NEW qs \in [Chats -> Seq(Entries)],
           NextTurn(c, qs[c]), qs = [queued EXCEPT ![c] = qs[c]],
           NEW t \in Turns, NEW pend, NEW sub,
           Gone(t, qs, current, pend, started, sub)
    PROVE  Gone(t, queued', current', pend, started', sub)
  <1>1. /\ queued' = [qs EXCEPT ![c] = Rest(qs[c])]
        /\ current' = [current EXCEPT ![c] = First(qs[c])]
        /\ started' = Count(started, qs[c])
    BY NextTurnTakes
  <1>2. current \in [Chats -> Entries \cup {Nothing}] /\ started \in [Turns -> Nat]
    BY DEF TypeOK
  <1>3. t # NoTurn
    BY TurnsAssumption
  <1>4. CASE qs[c] = <<>>
    <2>1. queued' = qs /\ started' = started
      BY <1>1, <1>2, <1>4 DEF Rest, Count
    <2>2. \A d \in Chats : current'[d] = current[d] \/ current'[d].turn = NoTurn
      BY <1>1, <1>2, <1>4 DEF First, Nothing
    <2> QED BY <1>3, <2>1, <2>2 DEF Gone
  <1>5. CASE qs[c] # <<>>
    <2>1. Taken(qs, current, c, queued', current')
      BY <1>1, <1>2, <1>5, Took
    <2>2. /\ 1 \in DOMAIN qs[c] /\ Head(qs[c]) = qs[c][1]
          /\ \A d \in Chats : current'[d] = current[d] \/ current'[d] = qs[c][1]
          /\ \A d \in Chats : \A i \in DOMAIN queued'[d] :
               \E k \in DOMAIN qs[d] : queued'[d][i] = qs[d][k]
      BY <2>1 DEF Taken
    <2>3. qs[c][1].turn # t
      BY <2>2 DEF Gone
    <2>4. started'[t] = started[t]
      BY <1>1, <2>2, <2>3 DEF Count
    <2>5. \A d \in Chats : current'[d].turn # t /\ pend[d] # t
      BY <2>2, <2>3 DEF Gone
    <2>6. \A d \in Chats : \A i \in DOMAIN queued'[d] : queued'[d][i].turn # t
      BY <2>2 DEF Gone
    <2>7. started[t] < 2 /\ \E d \in Chats : Contains(sub[d], t)
      BY DEF Gone
    <2> QED BY ONLY <2>4, <2>5, <2>6, <2>7 DEF Gone
  <1> QED BY <1>4, <1>5

LEMMA EnqueueGone ==
    ASSUME TypeOK, NEW c \in Chats, NEW e \in Entries, Enqueue(c, e),
           NEW t \in Turns, e.turn # t, NEW pend, NEW sub,
           Gone(t, queued, current, pend, started, sub)
    PROVE  Gone(t, queued', current', pend, started', sub)
  <1> DEFINE qs == [queued EXCEPT ![c] = Append(queued[c], e)]
             n == Len(queued[c]) + 1
  <1>1. qs \in [Chats -> Seq(Entries)] /\ qs[c] = Append(queued[c], e)
    BY DEF TypeOK
  <1>2. Joined(queued, c, e, qs, n)
    BY Join DEF TypeOK
  <1> HIDE DEF n
  <1>3. Gone(t, qs, current, pend, started, sub)
    <2> HIDE DEF qs
    <2> QED BY <1>2 DEF Gone, Joined
  <1>4. CASE current[c] = Nothing
    <2>1. NextTurn(c, qs[c]) /\ qs = [queued EXCEPT ![c] = qs[c]]
      BY <1>1, <1>4 DEF Enqueue
    <2> HIDE DEF qs
    <2> QED BY <1>1, <1>3, <2>1, NextTurnGone
  <1>5. CASE current[c] # Nothing
    BY <1>3, <1>5 DEF Enqueue
  <1> QED BY <1>4, <1>5

(* A cancelled timer's turn is gone: it was in no other place.             *)
LEMMA CancelledGone ==
    ASSUME FullInv, NEW c \in Chats, NEW t \in Turns, t = pendingResumes[c]
    PROVE  Gone(t, queued, current, [pendingResumes EXCEPT ![c] = NoTurn], started,
                submitted)
  <1> DEFINE pend == [pendingResumes EXCEPT ![c] = NoTurn]
  <1>1. t # NoTurn /\ pendingResumes \in [Chats -> Turns \cup {NoTurn}]
    BY TurnsAssumption DEF FullInv, Inv, TypeOK
  <1>2. \A d \in Chats : pend[d] = IF d = c THEN NoTurn ELSE pendingResumes[d]
    BY <1>1
  <1> HIDE DEF pend
  <1>3. \A d \in Chats : pend[d] # t /\ current[d].turn # t
    BY <1>1, <1>2 DEF FullInv, Accounted, OncePlaced, CurrentOnce, TimedOnce
  <1>4. \A d \in Chats : \A i \in DOMAIN queued[d] : queued[d][i].turn # t
    BY DEF FullInv, Accounted, OncePlaced, QueuedOnly
  <1>5. started[t] < 2 /\ Contains(submitted[c], t)
    BY <1>1 DEF FullInv, Accounted, Counted, Known
  <1> QED BY <1>3, <1>4, <1>5 DEF Gone, pend

LEMMA GoneStep == FullInv /\ GoneInv /\ [Next]_vars => GoneInv'
  <1> SUFFICES ASSUME FullInv, GoneInv, [Next]_vars PROVE GoneInv'
    OBVIOUS
  <1>1. /\ TypeOK /\ queued \in [Chats -> Seq(Entries)] /\ overtaken \subseteq Turns
        /\ pendingResumes \in [Chats -> Turns \cup {NoTurn}]
        /\ submitted \in [Chats -> Seq(Turns)]
    BY DEF FullInv, Inv, TypeOK
  <1>2. ASSUME NEW c \in Chats, overtaken' = overtaken \cup {u \in Turns : u = pendingResumes[c]},
               NEW t \in overtaken'
        PROVE  /\ t \in Turns
               /\ Gone(t, queued, current, [pendingResumes EXCEPT ![c] = NoTurn],
                       started, submitted)
    <2>1. CASE t \in overtaken
      <3>1. t # NoTurn /\ t \in Turns
        BY <1>1, <2>1, TurnsAssumption
      <3>2. Gone(t, queued, current, pendingResumes, started, submitted)
        BY <2>1 DEF GoneInv
      <3> QED BY <1>1, <3>1, <3>2 DEF Gone
    <2>2. CASE t \in Turns /\ t = pendingResumes[c]
      BY <2>2, CancelledGone
    <2> QED BY <1>2, <2>1, <2>2
  <1>3. ASSUME NEW c \in Chats, NEW u \in Turns, Submit(c, u)
        PROVE  GoneInv'
    <2> SUFFICES ASSUME NEW t \in overtaken'
                 PROVE  Gone(t, queued', current', pendingResumes', started', submitted')
      BY DEF GoneInv
    <2> DEFINE pend == [pendingResumes EXCEPT ![c] = NoTurn]
               sub == [submitted EXCEPT ![c] = Append(submitted[c], u)]
    <2>1. t \in Turns /\ Gone(t, queued, current, pend, started, submitted)
      BY <1>2, <1>3 DEF Submit
    <2>2. \A d \in Chats : ~Contains(submitted[d], u)
      BY <1>3 DEF Submit
    <2>3. \A d \in Chats : Contains(submitted[d], t) => Contains(sub[d], t)
      BY <1>1, <2>1, JoinContains
    <2>4. submitted' = sub /\ pendingResumes' = pend /\ Enqueue(c, Owner(u))
      BY <1>3 DEF Submit
    <2> HIDE DEF pend, sub
    <2>5. t # u /\ Gone(t, queued, current, pend, started, sub)
      BY <2>1, <2>2, <2>3 DEF Gone
    <2>6. Owner(u) \in Entries /\ Owner(u).turn # t
      BY <2>5, EntriesAreSomething DEF Owner
    <2> QED BY <1>1, <2>1, <2>4, <2>5, <2>6, EnqueueGone
  <1>4. ASSUME NEW c \in Chats, ResumeFires(c)
        PROVE  GoneInv'
    <2> SUFFICES ASSUME NEW t \in overtaken'
                 PROVE  Gone(t, queued', current', pendingResumes', started', submitted')
      BY DEF GoneInv
    <2> DEFINE pend == [pendingResumes EXCEPT ![c] = NoTurn]
               e == Resume(pendingResumes[c])
    <2>1. /\ t \in overtaken /\ pendingResumes[c] # NoTurn /\ Enqueue(c, e)
          /\ pendingResumes' = pend /\ submitted' = submitted
      BY <1>4 DEF ResumeFires
    <2>2. t \in Turns /\ t # NoTurn
      BY <1>1, <2>1, TurnsAssumption
    <2>3. Gone(t, queued, current, pendingResumes, started, submitted)
      BY <2>1 DEF GoneInv
    <2>4. Gone(t, queued, current, pend, started, submitted)
      BY <1>1, <2>2, <2>3 DEF Gone
    <2>5. e \in Entries /\ e.turn # t
      BY <1>1, <2>1, <2>3, EntriesAreSomething DEF Gone, Resume
    <2> HIDE DEF pend, e
    <2> QED BY <1>1, <2>1, <2>2, <2>4, <2>5, EnqueueGone
  <1>5. ASSUME NEW c \in Chats, NextTurn(c, queued[c]), UNCHANGED <<submitted, overtaken>>,
               \A d \in Chats : \/ pendingResumes'[d] = pendingResumes[d]
                                \/ pendingResumes'[d] = current[d].turn
        PROVE  GoneInv'
    <2> SUFFICES ASSUME NEW t \in overtaken
                 PROVE  Gone(t, queued', current', pendingResumes', started', submitted)
      BY <1>5 DEF GoneInv
    <2>1. Gone(t, queued, current, pendingResumes, started, submitted)
      BY DEF GoneInv
    <2>2. Gone(t, queued, current, pendingResumes', started, submitted)
      BY <1>5, <2>1 DEF Gone
    <2>3. t \in Turns /\ queued = [queued EXCEPT ![c] = queued[c]]
      BY <1>1
    <2> DEFINE pend == pendingResumes'
    <2>4. Gone(t, queued, current, pend, started, submitted)
      BY <2>2
    <2> HIDE DEF pend
    <2>5. Gone(t, queued', current', pend, started', submitted)
      BY <1>1, <1>5, <2>3, <2>4, NextTurnGone
    <2> QED BY <2>5 DEF pend
  <1>6. ASSUME UNCHANGED <<queued, current, started, pendingResumes, submitted, overtaken>>
        PROVE  GoneInv'
    BY <1>6 DEF GoneInv
  <1>7. ASSUME NEW c \in Chats, PrepareEnds(c)
        PROVE  GoneInv'
    BY <1>5, <1>6, <1>7 DEF PrepareEnds
  <1>8. ASSUME NEW c \in Chats, SubmitEnds(c)
        PROVE  GoneInv'
    BY <1>5, <1>6, <1>8 DEF SubmitEnds
  <1>9. ASSUME NEW c \in Chats, FinishEnds(c)
        PROVE  GoneInv'
    <2>1. \A d \in Chats : \/ pendingResumes'[d] = pendingResumes[d]
                           \/ pendingResumes'[d] = current[d].turn
      BY <1>1, <1>9 DEF FinishEnds
    <2> QED BY <1>5, <1>9, <2>1 DEF FinishEnds
  <1>10. ASSUME NEW c \in Chats, Stop(c)
         PROVE  GoneInv'
    <2> SUFFICES ASSUME NEW t \in overtaken'
                 PROVE  Gone(t, queued', current', pendingResumes', started', submitted')
      BY DEF GoneInv
    <2> DEFINE pend == [pendingResumes EXCEPT ![c] = NoTurn]
    <2>1. t \in Turns /\ Gone(t, queued, current, pend, started, submitted)
      BY <1>2, <1>10 DEF Stop
    <2>2. UNCHANGED <<current, started, submitted>> /\ pendingResumes' = pend
      BY <1>1, <1>10 DEF Stop, drainVars
    <2> HIDE DEF pend
    <2>3. CASE queued' = queued
      BY <2>1, <2>2, <2>3
    <2>4. CASE queued[c] # <<>> /\ queued' = [queued EXCEPT ![c] = Tail(queued[c])]
      <3>1. queued[c] \in Seq(Entries) /\ Tail(queued[c]) = Rest(queued[c])
        BY <1>1, <2>4 DEF Rest
      <3>2. \A i \in DOMAIN Rest(queued[c]) :
              i + 1 \in DOMAIN queued[c] /\ Rest(queued[c])[i] = queued[c][i + 1]
        BY <2>4, <3>1, RestOfQueue
      <3>3. \A d \in Chats : \A i \in DOMAIN queued'[d] :
              \E k \in DOMAIN queued[d] : queued'[d][i] = queued[d][k]
        BY <1>1, <2>4, <3>1, <3>2
      <3> QED BY <2>1, <2>2, <3>3 DEF Gone
    <2> QED BY <1>10, <2>3, <2>4 DEF Stop, drainVars
  <1>11. ASSUME UNCHANGED vars
         PROVE  GoneInv'
    BY <1>6, <1>11 DEF vars, drainVars
  <1> QED BY <1>3, <1>4, <1>7, <1>8, <1>9, <1>10, <1>11 DEF Next, TurnEnds, Quiet

(* Once a submit or a stop has cancelled the resume timer of a turn, the   *)
(* turn is not run a second time.                                          *)
THEOREM CancelledResumesStay == Spec => []OwnerCancelsResume
  <1>1. Init => GoneInv
    BY DEF Init, GoneInv
  <1>2. GoneInv => OwnerCancelsResume
    BY DEF GoneInv, Gone, OwnerCancelsResume
  <1> QED BY <1>1, <1>2, FullInvInit, FullInvStep, GoneStep, PTL DEF Spec

=============================================================================
