-------------------------- MODULE FileEdits_proofs --------------------------
(***************************************************************************)
(* Proofs about FileEdits: its types; that two tools are never at one file *)
(* together; and that the tools implement AtomicEdits, for any number of   *)
(* calls, files and links, where no link dangles.                          *)
(*                                                                         *)
(* The argument: registrations come in the order of the calls, so the      *)
(* calls registered under one key are ordered by turn, and each waits for  *)
(* one that is at least as late as all that came before it.  A call that   *)
(* holds its file therefore is the first of those still to end, which is   *)
(* also what AtomicEdits asks of a call that changes its file.             *)
(***************************************************************************)
EXTENDS FileEdits, SequenceTheorems, TLAPS

(* Types, with the facts about single calls.                               *)

LEMMA FileOfType ==
    \A o \in Ops : FileOf(o) \in Files /\ FileOf(o) \in Paths /\ Path[o] \in Paths
  BY PathsAssumption DEF FileOf, Atomic!FileOf

LEMMA KeyOfType == \A o \in Ops : KeyOf(o) \in Paths
  BY FileOfType DEF KeyOf

(* A call that writes gives its file contents. *)
LEMMA AppliedType ==
    ASSUME NEW o \in Ops, NEW text, o \in Rewrites \/ text \in Seq(Ops)
    PROVE  Atomic!Applied(o, text) \in Seq(Ops)
  BY DEF Atomic!Applied

(* An edit that is about to write has read contents.                       *)
SeenText == \A o \in Ops \ Rewrites : at[o] = "write" => seen[o] # Missing

Typed == TypeOK /\ SeenText

LEMMA InitTyped == Init => Typed
  <1> SUFFICES ASSUME Init PROVE Typed
    OBVIOUS
  <1>1. /\ content \in [Files -> Atomic!Contents]
        /\ made \in Nat /\ turn \in [Ops -> Nat]
        /\ result \in [Ops -> {"none", "ok", "failed"}]
    <2>1. {<<>>, Missing} \subseteq Atomic!Contents
      BY DEF Atomic!Contents
    <2> QED
      BY <2>1 DEF Init
  <1>2. key \in [Ops -> Paths]
    BY PathsAssumption DEF Init
  <1>3. registrations \in Seq(Ops) /\ aborted \subseteq Ops
    BY DEF Init
  <1>4. queues \in [Paths -> Ops \cup {NoOp}]
    BY DEF Init
  <1>5. at \in [Ops -> Places] /\ SeenText
    BY DEF Init, Places, SeenText
  <1>6. before \in [Ops -> Ops \cup {NoOp}]
    BY DEF Init
  <1>7. seen \in [Ops -> Atomic!Contents]
    BY DEF Init, Atomic!Contents
  <1> QED
    BY <1>1, <1>2, <1>3, <1>4, <1>5, <1>6, <1>7 DEF Typed, TypeOK

LEMMA ReleaseTyped ==
    ASSUME Typed, NEW o \in Ops, NEW r \in {"ok", "failed"}, Release(o, r)
    PROVE  /\ at' \in [Ops -> Places]
           /\ result' \in [Ops -> {"none", "ok", "failed"}]
           /\ queues' \in [Paths -> Ops \cup {NoOp}]
  <1>1. at' \in [Ops -> Places]
    BY DEF Typed, TypeOK, Release, Goto, Places
  <1>2. result' \in [Ops -> {"none", "ok", "failed"}]
    BY DEF Typed, TypeOK, Release
  <1>3. queues' \in [Paths -> Ops \cup {NoOp}]
    BY DEF Typed, TypeOK, Release
  <1> QED
    BY <1>1, <1>2, <1>3

LEMMA StepTyped == Typed /\ [Next]_vars => Typed'
  <1> SUFFICES ASSUME Typed, [Next]_vars PROVE Typed'
    OBVIOUS
  <1> USE DEF Typed, TypeOK, SeenText
  <1>1. ASSUME NEW o \in Ops, Call(o) PROVE Typed'
    BY <1>1 DEF Call, Goto, Places
  <1>2. ASSUME NEW o \in Ops, Abort(o) PROVE Typed'
    BY <1>2 DEF Abort
  <1>3. ASSUME NEW o \in Ops, Register(o) PROVE Typed'
    <2>1. registrations' \in Seq(Ops)
      BY <1>3 DEF Register, NextToRegister
    <2>2. key' \in [Ops -> Paths] /\ queues' \in [Paths -> Ops \cup {NoOp}]
      BY <1>3, KeyOfType DEF Register
    <2>3. before' \in [Ops -> Ops \cup {NoOp}]
      BY <1>3, KeyOfType DEF Register
    <2>4. at' \in [Ops -> Places] /\ SeenText'
      BY <1>3 DEF Register, Goto, Places
    <2> QED
      BY <1>3, <2>1, <2>2, <2>3, <2>4 DEF Register
  <1>4. ASSUME NEW o \in Ops, RegistrationFails(o) PROVE Typed'
    BY <1>4 DEF RegistrationFails, NextToRegister, Goto, Places
  <1>5. ASSUME NEW o \in Ops, Begin(o) PROVE Typed'
    <2>1. CASE Release(o, "failed")
      BY <1>5, <2>1, ReleaseTyped DEF Begin, Release, Goto
    <2>2. CASE Goto(o, "open") /\ UNCHANGED <<result, queues>>
      BY <1>5, <2>2 DEF Begin, Goto, Places, Holding
    <2> QED
      BY <1>5, <2>1, <2>2 DEF Begin
  <1>6. ASSUME NEW o \in Ops, OpenEnds(o) PROVE Typed'
    <2>1. CASE Release(o, "failed")
      BY <1>6, <2>1, ReleaseTyped DEF OpenEnds, Release, Goto
    <2>2. CASE /\ Goto(o, IF o \in Rewrites THEN "write" ELSE "read")
               /\ UNCHANGED <<result, queues>>
      BY <1>6, <2>2 DEF OpenEnds, Goto, Places, Holding
    <2> QED
      BY <1>6, <2>1, <2>2 DEF OpenEnds
  <1>7. ASSUME NEW o \in Ops, ReadEnds(o) PROVE Typed'
    <2>1. CASE Release(o, "failed") /\ UNCHANGED seen
      BY <1>7, <2>1, ReleaseTyped DEF ReadEnds, Release, Goto
    <2>2. CASE /\ content[FileOf(o)] # Missing
               /\ seen' = [seen EXCEPT ![o] = content[FileOf(o)]]
               /\ Goto(o, "write")
               /\ UNCHANGED <<result, queues>>
      BY <1>7, <2>2, FileOfType DEF ReadEnds, Goto, Places, Holding
    <2> QED
      BY <1>7, <2>1, <2>2 DEF ReadEnds
  <1>8. ASSUME NEW o \in Ops, WriteEnds(o) PROVE Typed'
    <2>1. /\ at' \in [Ops -> Places]
          /\ result' \in [Ops -> {"none", "ok", "failed"}]
          /\ queues' \in [Paths -> Ops \cup {NoOp}]
      <3>1. CASE \E r \in {"ok", "failed"} : Release(o, r)
        BY <3>1, ReleaseTyped
      <3>2. CASE Goto(o, "hint") /\ UNCHANGED <<result, queues>>
        BY <3>2 DEF Goto, Places, Holding
      <3> QED
        BY <1>8, <3>1, <3>2 DEF WriteEnds
    <2>2. o \in Rewrites \/ seen[o] \in Seq(Ops)
      BY <1>8 DEF WriteEnds, Atomic!Contents
    <2>3. Atomic!Applied(o, seen[o]) \in Atomic!Contents
      BY <2>2, AppliedType DEF Atomic!Contents
    <2>4. content' \in [Files -> Atomic!Contents]
      <3>1. <<>> \in Atomic!Contents
        BY DEF Atomic!Contents
      <3>2. \A text \in Atomic!Contents :
              [content EXCEPT ![FileOf(o)] = text] \in [Files -> Atomic!Contents]
        BY FileOfType
      <3> QED
        BY <1>8, <2>3, <3>1, <3>2 DEF WriteEnds
    <2>5. SeenText'
      BY <1>8 DEF WriteEnds, Release, Goto
    <2> QED
      BY <1>8, <2>1, <2>4, <2>5 DEF WriteEnds
  <1>10. ASSUME NEW o \in Ops, HintEnds(o) PROVE Typed'
    BY <1>10, ReleaseTyped DEF HintEnds, Release, Goto
  <1>9. CASE UNCHANGED vars
    BY <1>9 DEF vars
  <1> QED
    BY <1>1, <1>2, <1>3, <1>4, <1>5, <1>6, <1>7, <1>8, <1>9, <1>10
       DEF Next, Step, Quiet

(* Every variable of the tools keeps its type: a call ends in a report,    *)
(* contents are made of calls, and an entry of the queues is a call or     *)
(* none.                                                                   *)
THEOREM TypeCorrect == Spec => []TypeOK
  <1>1. Typed => TypeOK
    BY DEF Typed
  <1> QED
    BY <1>1, InitTyped, StepTyped, PTL DEF Spec

-----------------------------------------------------------------------------
(* The inductive invariant.                                                *)

(* The calls that hold their file or wait for it. *)
Registered == {o \in Ops : at[o] \in Holding \cup {"waiting"}}

Numbered ==
    \A o \in Ops :
        /\ at[o] = "new" <=> turn[o] = 0
        /\ turn[o] <= made
        /\ \A p \in Ops : turn[o] = turn[p] /\ turn[o] > 0 => o = p

Reported == \A o \in Ops : result[o] = "none" <=> at[o] # "ended"

(* Exactly the calls still to register are in line, in the order they were *)
(* made.                                                                   *)
InLine ==
    /\ \A i \in 1 .. Len(registrations) : at[registrations[i]] = "registering"
    /\ \A o \in Ops : at[o] = "registering" =>
           \E i \in 1 .. Len(registrations) : registrations[i] = o
    /\ \A i, j \in 1 .. Len(registrations) :
           i < j => turn[registrations[i]] < turn[registrations[j]]

RegisteredFirst ==
    \A o, p \in Ops : o \in Registered /\ at[p] = "registering" => turn[o] < turn[p]

Keyed == \A o \in Ops : o \in Registered => key[o] = FileOf(o)

(* A call waits for one that is no earlier than any other before it. *)
WaitsForLatest ==
    \A o, p \in Ops :
        o \in Registered /\ p \in Registered /\ FileOf(o) = FileOf(p) /\ turn[p] < turn[o]
        => /\ before[o] \in Ops /\ before[o] \in Registered
           /\ FileOf(before[o]) = FileOf(o)
           /\ turn[p] <= turn[before[o]] /\ turn[before[o]] < turn[o]

HolderFirst ==
    \A o, p \in Ops :
        at[o] \in Holding /\ p \in Registered /\ FileOf(o) = FileOf(p)
        => turn[o] <= turn[p]

(* The queues' entries are the last calls registered. *)
QueueEnds ==
    \A f \in Paths :
        /\ queues[f] # NoOp => queues[f] \in Registered /\ FileOf(queues[f]) = f
        /\ \A p \in Ops : p \in Registered /\ FileOf(p) = f
                          => queues[f] # NoOp /\ turn[p] <= turn[queues[f]]

(* What an edit has read is still there. *)
SeenIsThere ==
    \A o \in Ops \ Rewrites : at[o] = "write" => seen[o] = content[FileOf(o)]

Order == Numbered /\ Reported /\ InLine /\ RegisteredFirst

Queue == Keyed /\ WaitsForLatest /\ HolderFirst /\ QueueEnds

Inv == Typed /\ NoDanglingLinks /\ Order /\ Queue /\ SeenIsThere

LEMMA InitInv == Init /\ NoDanglingLinks => Inv
  <1> SUFFICES ASSUME Init, NoDanglingLinks PROVE Inv
    OBVIOUS
  <1>1. Typed
    BY InitTyped
  <1>2. \A o \in Ops : at[o] = "new" /\ turn[o] = 0 /\ result[o] = "none"
    BY DEF Init
  <1>3. registrations = <<>> /\ made = 0 /\ \A f \in Paths : queues[f] = NoOp
    BY DEF Init
  <1>4. Order
    BY <1>2, <1>3
       DEF Order, Numbered, Reported, InLine, RegisteredFirst, Registered, Holding
  <1>5. Queue
    BY <1>2, <1>3
       DEF Queue, Keyed, WaitsForLatest, HolderFirst, QueueEnds, Registered, Holding
  <1>6. SeenIsThere
    BY <1>2 DEF SeenIsThere
  <1> QED
    BY <1>1, <1>4, <1>5, <1>6 DEF Inv

-----------------------------------------------------------------------------
(* The order of the calls.                                                 *)

LEMMA CallOrder ==
    ASSUME Typed, Order, NEW o \in Ops, Call(o)
    PROVE  Order'
  <1> USE DEF Typed, TypeOK
  <1>1. /\ at' = [at EXCEPT ![o] = "registering"] /\ at[o] = "new"
        /\ made' = made + 1 /\ turn' = [turn EXCEPT ![o] = made + 1]
        /\ registrations' = Append(registrations, o) /\ result' = result
    BY DEF Call, Goto
  <1>2. Numbered'
    BY <1>1 DEF Order, Numbered
  <1>3. Reported'
    BY <1>1 DEF Order, Reported
  <1>4. /\ Len(registrations') = Len(registrations) + 1
        /\ registrations'[Len(registrations) + 1] = o
        /\ \A i \in 1 .. Len(registrations) :
             registrations'[i] = registrations[i] /\ registrations[i] \in Ops \ {o}
    BY <1>1 DEF Order, InLine
  <1>5. InLine'
    <2>1. \A i \in 1 .. Len(registrations') : at'[registrations'[i]] = "registering"
      BY <1>1, <1>4 DEF Order, InLine
    <2>2. ASSUME NEW p \in Ops, at'[p] = "registering"
          PROVE  \E i \in 1 .. Len(registrations') : registrations'[i] = p
      <3>1. CASE p = o
        <4>1. Len(registrations) \in Nat
          BY LenProperties
        <4>2. Len(registrations) + 1 \in 1 .. Len(registrations')
          BY <1>4, <4>1
        <4> QED
          BY <1>4, <3>1, <4>2
      <3>2. CASE p # o
        <4>1. PICK i \in 1 .. Len(registrations) : registrations[i] = p
          BY <1>1, <2>2, <3>2 DEF Order, InLine
        <4> QED
          BY <1>4, <4>1
      <3> QED
        BY <3>1, <3>2
    <2>3. ASSUME NEW i \in 1 .. Len(registrations'), NEW j \in 1 .. Len(registrations'),
                 i < j
          PROVE  turn'[registrations'[i]] < turn'[registrations'[j]]
      <3>1. i \in 1 .. Len(registrations) /\ registrations'[i] # o
        BY <1>4, <2>3
      <3>2. CASE j = Len(registrations) + 1
        BY <1>1, <1>4, <3>1, <3>2 DEF Order, Numbered
      <3>3. CASE j \in 1 .. Len(registrations)
        BY <1>1, <1>4, <2>3, <3>1, <3>3 DEF Order, InLine
      <3>4. j = Len(registrations) + 1 \/ j \in 1 .. Len(registrations)
        BY <1>4
      <3> QED
        BY <3>2, <3>3, <3>4
    <2> QED
      BY <2>1, <2>2, <2>3 DEF InLine
  <1>6. RegisteredFirst'
    BY <1>1 DEF Order, Numbered, RegisteredFirst, Registered, Holding
  <1> QED
    BY <1>2, <1>3, <1>5, <1>6 DEF Order

(* The first in line leaves the line. *)
LEMMA LeaveOrder ==
    ASSUME Typed, Order, NEW o \in Ops, NEW place \in {"waiting", "ended"},
           NextToRegister(o), registrations' = Tail(registrations),
           at' = [at EXCEPT ![o] = place], UNCHANGED <<made, turn>>,
           result' = IF place = "ended" THEN [result EXCEPT ![o] = "failed"] ELSE result
    PROVE  /\ Order'
           /\ at[o] = "registering"
           /\ \A p \in Ops \ {o} : at[p] = "registering" => turn[o] < turn[p]
           /\ \A p \in Ops : p \in Registered => turn[p] < turn[o]
  <1> USE DEF Typed, TypeOK
  <1>1. /\ Len(registrations) > 0 /\ registrations[1] = o
        /\ Len(registrations') = Len(registrations) - 1
        /\ \A i \in 1 .. Len(registrations') : registrations'[i] = registrations[i + 1]
    BY DEF NextToRegister
  <1>a. 1 \in 1 .. Len(registrations)
    BY <1>1, LenProperties
  <1>2. at[o] = "registering"
    BY <1>1, <1>a DEF Order, InLine
  <1>3. ASSUME NEW p \in Ops \ {o}, at[p] = "registering"
        PROVE  /\ turn[o] < turn[p]
               /\ \E i \in 1 .. Len(registrations') : registrations'[i] = p
    <2>1. PICK i \in 1 .. Len(registrations) : registrations[i] = p
      BY <1>3 DEF Order, InLine
    <2>2. i > 1
      BY <1>1, <1>3, <2>1
    <2>3. turn[o] < turn[p]
      BY <1>1, <1>a, <2>1, <2>2 DEF Order, InLine
    <2>4. i - 1 \in 1 .. Len(registrations') /\ registrations'[i - 1] = p
      BY <1>1, <2>1, <2>2
    <2> QED
      BY <2>3, <2>4
  <1>4. \A p \in Ops : p \in Registered => turn[p] < turn[o]
    BY <1>2 DEF Order, RegisteredFirst
  <1>5. ASSUME NEW i \in 1 .. Len(registrations')
        PROVE  /\ i + 1 \in 1 .. Len(registrations)
               /\ registrations'[i] \in Ops \ {o}
               /\ at'[registrations'[i]] = "registering"
    <2>1. i + 1 \in 1 .. Len(registrations) /\ registrations'[i] = registrations[i + 1]
      BY <1>1
    <2>2. turn[registrations[1]] < turn[registrations[i + 1]]
      BY <1>a, <2>1, 1 < i + 1 DEF Order, InLine
    <2>3. registrations'[i] \in Ops \ {o}
      BY <1>1, <2>1, <2>2
    <2> QED
      BY <2>1, <2>3 DEF Order, InLine
  <1>6. InLine'
    <2>1. \A p \in Ops : at'[p] = "registering" =>
             \E i \in 1 .. Len(registrations') : registrations'[i] = p
      BY <1>3
    <2>2. ASSUME NEW i \in 1 .. Len(registrations'), NEW j \in 1 .. Len(registrations'),
                 i < j
          PROVE  turn'[registrations'[i]] < turn'[registrations'[j]]
      <3>1. /\ registrations'[i] = registrations[i + 1]
            /\ registrations'[j] = registrations[j + 1]
            /\ i + 1 < j + 1
        BY <1>1, <2>2
      <3> QED
        BY <1>5, <3>1 DEF Order, InLine
    <2> QED
      BY <1>5, <2>1, <2>2 DEF InLine
  <1>7. Numbered'
    BY <1>2 DEF Order, Numbered
  <1>8. Reported'
    BY <1>2 DEF Order, Reported
  <1>9. RegisteredFirst'
    BY <1>2, <1>3, <1>4 DEF Order, RegisteredFirst, Registered
  <1> QED
    BY <1>2, <1>3, <1>4, <1>6, <1>7, <1>8, <1>9 DEF Order

(* A registered call moves on or ends. *)
LEMMA MoveOrder ==
    ASSUME Typed, Order, NEW o \in Ops, NEW place \in Holding \cup {"ended"},
           NEW r \in {"ok", "failed"}, o \in Registered,
           at' = [at EXCEPT ![o] = place], UNCHANGED <<made, turn, registrations>>,
           result' = IF place = "ended" THEN [result EXCEPT ![o] = r] ELSE result
    PROVE  Order'
  <1> USE DEF Typed, TypeOK, Registered, Holding
  <1>1. \A p \in Ops : at'[p] = "registering" <=> at[p] = "registering"
    OBVIOUS
  <1>2. Numbered'
    BY DEF Order, Numbered
  <1>3. Reported'
    BY DEF Order, Reported
  <1>4. InLine'
    BY <1>1 DEF Order, InLine
  <1>5. RegisteredFirst'
    BY DEF Order, RegisteredFirst
  <1> QED
    BY <1>2, <1>3, <1>4, <1>5 DEF Order

-----------------------------------------------------------------------------
(* The queues.                                                             *)

(* A step that registers nobody and ends nobody's turn leaves the queues.  *)
LEMMA OutsideQueue ==
    ASSUME Typed, Order, Queue, NEW o \in Ops, NEW place \in {"registering", "ended"},
           o \notin Registered, at' = [at EXCEPT ![o] = place],
           \A p \in Ops \ {o} : turn'[p] = turn[p],
           UNCHANGED <<queues, key, before>>
    PROVE  Queue'
  <1> USE DEF Typed, TypeOK
  <1>1. \A p \in Ops : /\ p \in Registered' <=> p \in Registered
                       /\ at'[p] \in Holding <=> at[p] \in Holding
                       /\ p \in Registered => turn'[p] = turn[p]
    BY DEF Registered, Holding
  <1>2. Keyed'
    BY <1>1 DEF Queue, Keyed, FileOf
  <1>3. WaitsForLatest'
    BY <1>1 DEF Queue, WaitsForLatest, FileOf
  <1>4. HolderFirst'
    BY <1>1 DEF Queue, HolderFirst, FileOf, Registered
  <1>5. QueueEnds'
    BY <1>1, NoOpAssumption DEF Queue, QueueEnds, FileOf
  <1> QED
    BY <1>2, <1>3, <1>4, <1>5 DEF Queue

(* Where no link dangles, the key of a call is its file.                   *)
LEMMA KeyIsFile ==
    ASSUME Typed, NoDanglingLinks, NEW o \in Ops
    PROVE  KeyOf(o) = FileOf(o)
  <1>1. CASE Path[o] \in Files
    BY <1>1, PathsAssumption DEF KeyOf, FileOf, Atomic!FileOf
  <1>2. CASE Path[o] \in Paths \ Files
    BY <1>2 DEF NoDanglingLinks, KeyOf, FileOf, Atomic!FileOf
  <1> QED
    BY <1>1, <1>2, FileOfType

LEMMA RegisterQueue ==
    ASSUME Typed, NoDanglingLinks, Queue, NEW o \in Ops, Register(o),
           at[o] = "registering",
           \A p \in Ops : p \in Registered => turn[p] < turn[o]
    PROVE  Queue'
  <1> USE DEF Typed, TypeOK
  <1> DEFINE f == FileOf(o)
  <1>1. /\ at' = [at EXCEPT ![o] = "waiting"] /\ turn' = turn
        /\ key' = [key EXCEPT ![o] = f]
        /\ before' = [before EXCEPT ![o] = queues[f]]
        /\ queues' = [queues EXCEPT ![f] = o]
        /\ f \in Paths
    BY KeyIsFile, FileOfType DEF Register, Goto
  <1> HIDE DEF f
  <1>2. \A p \in Ops : /\ p \in Registered' <=> p = o \/ p \in Registered
                       /\ at'[p] \in Holding <=> at[p] \in Holding
    BY <1>1 DEF Registered, Holding
  <1>3. o \notin Registered
    BY DEF Registered, Holding
  <1>a. \A p \in Registered : p \in Ops /\ turn[p] < turn[o] /\ turn[p] \in Nat
    BY DEF Registered
  <1>b. turn[o] \in Nat
    OBVIOUS
  <1>4. Keyed'
    BY <1>1, <1>2 DEF Queue, Keyed, FileOf, f
  <1>5. WaitsForLatest'
    <2> SUFFICES ASSUME NEW q \in Ops, NEW p \in Ops,
                        q \in Registered', p \in Registered', FileOf(q) = FileOf(p),
                        turn[p] < turn[q]
                 PROVE  /\ before'[q] \in Ops /\ before'[q] \in Registered'
                        /\ FileOf(before'[q]) = FileOf(q)
                        /\ turn[p] <= turn[before'[q]]
                        /\ turn[before'[q]] < turn[q]
      BY <1>1 DEF WaitsForLatest, FileOf, Registered
    <2>1. p # o /\ p \in Registered
      <3>1. CASE p = o
        <4>1. turn[q] < turn[o] /\ turn[q] \in Nat
          BY <1>2, <1>a, <3>1
        <4> QED
          BY <1>b, <3>1, <4>1
      <3> QED
        BY <1>2, <3>1
    <2>2. CASE q = o
      <3>1. queues[f] # NoOp /\ turn[p] <= turn[queues[f]]
        BY <1>1, <2>1, <2>2 DEF Queue, QueueEnds, f
      <3>2. queues[f] \in Ops /\ queues[f] \in Registered /\ FileOf(queues[f]) = f
        BY <1>1, <3>1 DEF Queue, QueueEnds
      <3>3. before'[q] = queues[f]
        BY <1>1, <2>2
      <3> QED
        BY <1>2, <2>2, <3>1, <3>2, <3>3 DEF f
    <2>3. CASE q # o
      <3>1. q \in Registered /\ before'[q] = before[q]
        BY <1>1, <1>2, <2>3
      <3>2. /\ before[q] \in Ops /\ before[q] \in Registered
            /\ FileOf(before[q]) = FileOf(q)
            /\ turn[p] <= turn[before[q]] /\ turn[before[q]] < turn[q]
        BY <2>1, <3>1 DEF Queue, WaitsForLatest
      <3> QED
        BY <1>2, <3>1, <3>2
    <2> QED
      BY <2>2, <2>3
  <1>6. HolderFirst'
    <2> SUFFICES ASSUME NEW q \in Ops, NEW p \in Ops, at'[q] \in Holding,
                        p \in Registered', FileOf(q) = FileOf(p)
                 PROVE  turn[q] <= turn[p]
      BY <1>1 DEF HolderFirst, FileOf
    <2>1. at[q] \in Holding /\ q \in Registered
      BY <1>2 DEF Registered
    <2>2. CASE p = o
      BY <2>1, <2>2
    <2>3. CASE p # o
      BY <1>2, <2>1, <2>3 DEF Queue, HolderFirst
    <2> QED
      BY <2>2, <2>3
  <1>7. QueueEnds'
    <2> SUFFICES ASSUME NEW g \in Paths
                 PROVE  /\ queues'[g] # NoOp => queues'[g] \in Registered'
                                                /\ FileOf(queues'[g]) = g
                        /\ \A p \in Ops : p \in Registered' /\ FileOf(p) = g
                              => queues'[g] # NoOp /\ turn[p] <= turn[queues'[g]]
      BY <1>1 DEF QueueEnds, FileOf, Registered
    <2>1. CASE g = f
      <3>1. queues'[g] = o
        BY <1>1, <2>1
      <3>2. o \in Registered' /\ FileOf(o) = g /\ o # NoOp
        BY <1>2, <2>1, NoOpAssumption DEF f
      <3>3. ASSUME NEW p \in Ops, p \in Registered' PROVE turn[p] <= turn[o]
        <4>1. CASE p = o
          BY <1>b, <4>1
        <4>2. CASE p # o
          <5>1. turn[p] < turn[o] /\ turn[p] \in Nat
            BY <1>2, <1>a, <3>3, <4>2
          <5> QED
            BY <1>b, <5>1
        <4> QED
          BY <4>1, <4>2
      <3> QED
        BY <3>1, <3>2, <3>3
    <2>2. CASE g # f
      <3>1. queues'[g] = queues[g]
        BY <1>1, <2>2
      <3>2. queues[g] # NoOp => /\ queues[g] \in Ops /\ queues[g] \in Registered
                                /\ FileOf(queues[g]) = g
        BY DEF Queue, QueueEnds
      <3>3. \A p \in Ops : p \in Registered' /\ FileOf(p) = g => p \in Registered
        BY <1>2, <2>2 DEF f
      <3>4. \A p \in Ops : p \in Registered /\ FileOf(p) = g
                           => queues[g] # NoOp /\ turn[p] <= turn[queues[g]]
        BY DEF Queue, QueueEnds
      <3> QED
        BY <1>2, <3>1, <3>2, <3>3, <3>4
    <2> QED
      BY <2>1, <2>2
  <1> QED
    BY <1>4, <1>5, <1>6, <1>7 DEF Queue

(* The call whose turn it is, is the first of those at its file.           *)
LEMMA MyTurnFirst ==
    ASSUME Typed, Queue, NEW o \in Ops, at[o] = "waiting", MyTurn(o),
           NEW p \in Ops, p \in Registered, FileOf(p) = FileOf(o)
    PROVE  turn[o] <= turn[p]
  <1> SUFFICES ASSUME turn[p] < turn[o] PROVE FALSE
    BY DEF Typed, TypeOK
  <1>1. o \in Registered
    BY DEF Registered
  <1>2. before[o] \in Ops /\ before[o] \in Registered
    BY <1>1 DEF Queue, WaitsForLatest
  <1>3. at[before[o]] = "ended"
    BY <1>2, NoOpAssumption DEF MyTurn
  <1> QED
    BY <1>2, <1>3 DEF Registered, Holding

(* The first of those at its file goes on. *)
LEMMA AdvanceQueue ==
    ASSUME Typed, Queue, NEW o \in Ops, NEW place \in Holding, o \in Registered,
           \A p \in Ops : p \in Registered /\ FileOf(p) = FileOf(o) => turn[o] <= turn[p],
           at' = [at EXCEPT ![o] = place], UNCHANGED <<turn, queues, key, before>>
    PROVE  Queue'
  <1> USE DEF Typed, TypeOK
  <1>1. \A p \in Ops : /\ p \in Registered' <=> p \in Registered
                       /\ p # o => (at'[p] \in Holding <=> at[p] \in Holding)
    BY DEF Registered
  <1>2. Keyed'
    BY <1>1 DEF Queue, Keyed, FileOf
  <1>3. WaitsForLatest'
    BY <1>1 DEF Queue, WaitsForLatest, FileOf
  <1>4. HolderFirst'
    BY <1>1 DEF Queue, HolderFirst, FileOf
  <1>5. QueueEnds'
    BY <1>1, NoOpAssumption DEF Queue, QueueEnds, FileOf
  <1> QED
    BY <1>2, <1>3, <1>4, <1>5 DEF Queue

(* The first of those at its file ends and is released.                    *)
LEMMA ReleaseQueue ==
    ASSUME Typed, Order, Queue, NEW o \in Ops, NEW r, o \in Registered,
           \A p \in Ops : p \in Registered /\ FileOf(p) = FileOf(o) => turn[o] <= turn[p],
           Release(o, r), UNCHANGED <<turn, key, before>>
    PROVE  Queue'
  <1> USE DEF Typed, TypeOK
  <1> DEFINE f == FileOf(o)
  <1>1. /\ at' = [at EXCEPT ![o] = "ended"]
        /\ queues' = IF queues[f] = o THEN [queues EXCEPT ![f] = NoOp] ELSE queues
        /\ f \in Paths
    BY FileOfType DEF Queue, Keyed, Release, Goto
  <1> HIDE DEF f
  <1>2. \A p \in Ops : /\ p \in Registered' <=> p # o /\ p \in Registered
                       /\ at'[p] \in Holding => at[p] \in Holding
    BY <1>1 DEF Registered, Holding
  <1>3. \A p \in Ops : p \in Registered' /\ FileOf(p) = f => turn[o] < turn[p]
    <2> SUFFICES ASSUME NEW p \in Ops, p \in Registered', FileOf(p) = f
                 PROVE  turn[o] < turn[p]
      OBVIOUS
    <2>1. turn[o] <= turn[p] /\ p # o
      BY <1>2 DEF f
    <2>2. turn[o] > 0
      BY DEF Order, Numbered, Registered, Holding
    <2>3. turn[o] # turn[p]
      BY <2>1, <2>2 DEF Order, Numbered
    <2> QED
      BY <2>1, <2>3
  <1>4. Keyed'
    BY <1>2 DEF Queue, Keyed, FileOf
  <1>5. WaitsForLatest'
    <2> SUFFICES ASSUME NEW q \in Ops, NEW p \in Ops,
                        q \in Registered', p \in Registered', FileOf(q) = FileOf(p),
                        turn[p] < turn[q]
                 PROVE  /\ before[q] \in Ops /\ before[q] \in Registered'
                        /\ FileOf(before[q]) = FileOf(q)
                        /\ turn[p] <= turn[before[q]]
                        /\ turn[before[q]] < turn[q]
      BY DEF WaitsForLatest, FileOf, Registered
    <2>1. /\ before[q] \in Ops /\ before[q] \in Registered
          /\ FileOf(before[q]) = FileOf(q)
          /\ turn[p] <= turn[before[q]] /\ turn[before[q]] < turn[q]
      BY <1>2 DEF Queue, WaitsForLatest
    <2>2. before[q] # o
      BY <1>3, <2>1 DEF f
    <2> QED
      BY <1>2, <2>1, <2>2
  <1>6. HolderFirst'
    BY <1>2 DEF Queue, HolderFirst, FileOf
  <1>7. QueueEnds'
    <2> SUFFICES ASSUME NEW g \in Paths
                 PROVE  /\ queues'[g] # NoOp => queues'[g] \in Registered'
                                                /\ FileOf(queues'[g]) = g
                        /\ \A p \in Ops : p \in Registered' /\ FileOf(p) = g
                              => queues'[g] # NoOp /\ turn[p] <= turn[queues'[g]]
      BY DEF QueueEnds, FileOf, Registered
    <2>1. /\ queues[g] # NoOp => /\ queues[g] \in Ops /\ queues[g] \in Registered
                                 /\ FileOf(queues[g]) = g
          /\ \A p \in Ops : p \in Registered /\ FileOf(p) = g
                            => queues[g] # NoOp /\ turn[p] <= turn[queues[g]]
      BY DEF Queue, QueueEnds
    <2>2. CASE g = f /\ queues[f] = o
      <3>1. queues'[g] = NoOp
        BY <1>1, <2>2
      <3>2. \A p \in Ops : ~(p \in Registered' /\ FileOf(p) = g)
        BY <1>2, <1>3, <2>1, <2>2
      <3> QED
        BY <3>1, <3>2
    <2>3. CASE ~(g = f /\ queues[f] = o)
      <3>1. queues'[g] = queues[g]
        BY <1>1, <2>3
      <3>2. queues[g] # NoOp => queues[g] # o
        BY <2>1, <2>3 DEF f
      <3> QED
        BY <1>2, <2>1, <3>1, <3>2
    <2> QED
      BY <2>2, <2>3
  <1> QED
    BY <1>4, <1>5, <1>6, <1>7 DEF Queue

-----------------------------------------------------------------------------
(* The invariant. *)

LEMMA Holders ==
    ASSUME Queue, NEW o \in Ops, at[o] \in Holding
    PROVE  /\ o \in Registered
           /\ \A p \in Ops : p \in Registered /\ FileOf(p) = FileOf(o)
                             => turn[o] <= turn[p]
  BY DEF Queue, HolderFirst, Registered

(* Nobody else is at the file of a call that holds it. *)
LEMMA Alone ==
    ASSUME Inv, NEW o \in Ops, NEW p \in Ops, at[o] \in Holding, at[p] \in Holding,
           FileOf(o) = FileOf(p)
    PROVE  o = p
  <1>1. turn[o] <= turn[p] /\ turn[p] <= turn[o]
    BY Holders DEF Inv
  <1>2. turn[o] \in Nat /\ turn[p] \in Nat
    BY DEF Inv, Typed, TypeOK
  <1>3. turn[o] # 0
    BY DEF Inv, Order, Numbered, Holding
  <1> QED
    BY <1>1, <1>2, <1>3 DEF Inv, Order, Numbered

(* A registered call that is first at its file moves on or is released.    *)
LEMMA MoveInv ==
    ASSUME Inv, NEW o \in Ops, NEW place \in Holding, NEW r \in {"ok", "failed"},
           o \in Registered,
           \A p \in Ops : p \in Registered /\ FileOf(p) = FileOf(o) => turn[o] <= turn[p],
           \/ Release(o, r)
           \/ Goto(o, place) /\ UNCHANGED <<result, queues>>,
           UNCHANGED <<made, turn, registrations, key, before>>
    PROVE  Order' /\ Queue'
  <1>1. CASE Release(o, r)
    <2>1. /\ at' = [at EXCEPT ![o] = "ended"]
          /\ result' = IF "ended" = "ended" THEN [result EXCEPT ![o] = r] ELSE result
      BY <1>1 DEF Release, Goto
    <2>2. Order'
      BY <2>1, MoveOrder DEF Inv
    <2>3. Queue'
      BY <1>1, ReleaseQueue DEF Inv
    <2> QED
      BY <2>2, <2>3
  <1>2. CASE Goto(o, place) /\ UNCHANGED <<result, queues>>
    <2>1. /\ at' = [at EXCEPT ![o] = place]
          /\ result' = IF place = "ended" THEN [result EXCEPT ![o] = r] ELSE result
      BY <1>2 DEF Goto, Holding
    <2>2. Order'
      BY <2>1, MoveOrder DEF Inv
    <2>3. Queue'
      BY <1>2, <2>1, AdvanceQueue DEF Inv
    <2> QED
      BY <2>2, <2>3
  <1> QED
    BY <1>1, <1>2

LEMMA StepOrderQueue ==
    ASSUME Inv, [Next]_vars PROVE Order' /\ Queue'
  <1>1. ASSUME NEW o \in Ops, Call(o) PROVE Order' /\ Queue'
    <2>1. Order'
      BY <1>1, CallOrder DEF Inv
    <2>2. o \notin Registered /\ at' = [at EXCEPT ![o] = "registering"]
      BY <1>1 DEF Call, Goto, Registered, Holding
    <2>3. /\ \A p \in Ops \ {o} : turn'[p] = turn[p]
          /\ UNCHANGED <<queues, key, before>>
      BY <1>1 DEF Call, Inv, Typed, TypeOK
    <2> QED
      BY <2>1, <2>2, <2>3, OutsideQueue DEF Inv
  <1>2. ASSUME UNCHANGED <<made, turn, result, registrations, queues, at, key, before>>
        PROVE  Order' /\ Queue'
    BY <1>2 DEF Inv, Order, Numbered, Reported, InLine, RegisteredFirst, Queue, Keyed,
                WaitsForLatest, HolderFirst, QueueEnds, Registered, FileOf
  <1>3. ASSUME NEW o \in Ops, Register(o) PROVE Order' /\ Queue'
    <2>1. /\ NextToRegister(o) /\ registrations' = Tail(registrations)
          /\ at' = [at EXCEPT ![o] = "waiting"] /\ UNCHANGED <<made, turn>>
          /\ result' = IF "waiting" = "ended" THEN [result EXCEPT ![o] = "failed"]
                       ELSE result
      BY <1>3 DEF Register, Goto
    <2>2. /\ Order' /\ at[o] = "registering"
          /\ \A p \in Ops : p \in Registered => turn[p] < turn[o]
      BY <2>1, LeaveOrder DEF Inv
    <2> QED
      BY <1>3, <2>2, RegisterQueue DEF Inv
  <1>4. ASSUME NEW o \in Ops, RegistrationFails(o) PROVE Order' /\ Queue'
    <2>1. /\ NextToRegister(o) /\ registrations' = Tail(registrations)
          /\ at' = [at EXCEPT ![o] = "ended"] /\ UNCHANGED <<made, turn>>
          /\ result' = IF "ended" = "ended" THEN [result EXCEPT ![o] = "failed"]
                       ELSE result
          /\ UNCHANGED <<queues, key, before>>
      BY <1>4 DEF RegistrationFails, Goto
    <2>2. Order' /\ at[o] = "registering"
      BY <2>1, LeaveOrder DEF Inv
    <2>3. o \notin Registered
      BY <2>2 DEF Registered, Holding
    <2> QED
      BY <2>1, <2>2, <2>3, OutsideQueue DEF Inv
  <1>5. ASSUME NEW o \in Ops, Begin(o) PROVE Order' /\ Queue'
    <2>1. /\ at[o] = "waiting" /\ MyTurn(o)
          /\ UNCHANGED <<made, turn, registrations, key, before>>
          /\ \/ Release(o, "failed")
             \/ Goto(o, "open") /\ UNCHANGED <<result, queues>>
      BY <1>5 DEF Begin
    <2>2. o \in Registered /\ "open" \in Holding
      BY <2>1 DEF Registered, Holding
    <2>3. \A p \in Ops : p \in Registered /\ FileOf(p) = FileOf(o) => turn[o] <= turn[p]
      BY <2>1, MyTurnFirst DEF Inv
    <2> QED
      BY <2>1, <2>2, <2>3, MoveInv
  <1>6. ASSUME NEW o \in Ops, OpenEnds(o) \/ ReadEnds(o) \/ WriteEnds(o) \/ HintEnds(o)
        PROVE  Order' /\ Queue'
    <2>1. PICK place \in Holding, r \in {"ok", "failed"} :
             \/ Release(o, r)
             \/ Goto(o, place) /\ UNCHANGED <<result, queues>>
      <3>1. CASE OpenEnds(o)
        BY <3>1 DEF OpenEnds, Holding
      <3>2. CASE ReadEnds(o)
        BY <3>2 DEF ReadEnds, Holding
      <3>3. CASE WriteEnds(o)
        BY <3>3 DEF WriteEnds, Holding
      <3>4. CASE HintEnds(o)
        BY <3>4 DEF HintEnds, Holding
      <3> QED
        BY <1>6, <3>1, <3>2, <3>3, <3>4
    <2>2. at[o] \in Holding /\ UNCHANGED <<made, turn, registrations, key, before>>
      BY <1>6 DEF OpenEnds, ReadEnds, WriteEnds, HintEnds, Holding
    <2> QED
      BY <2>1, <2>2, Holders, MoveInv DEF Inv
  <1>7. ASSUME NEW o \in Ops, Abort(o) PROVE Order' /\ Queue'
    BY <1>2, <1>7 DEF Abort
  <1>8. CASE UNCHANGED vars
    BY <1>2, <1>8 DEF vars
  <1> QED
    BY <1>1, <1>3, <1>4, <1>5, <1>6, <1>7, <1>8 DEF Next, Step, Quiet

(* Only a write changes contents; the call that writes is alone at its     *)
(* file, and gives it contents.                                            *)
LEMMA WriteContent ==
    ASSUME Inv, NEW o \in Ops, WriteEnds(o)
    PROVE  /\ at[o] = "write" /\ seen' = seen
           /\ \E place \in {"hint", "ended"} : at' = [at EXCEPT ![o] = place]
           /\ \A f \in Files : f # FileOf(o) => content'[f] = content[f]
           /\ \A f \in Files : content[f] # Missing => content'[f] # Missing
  <1>1. /\ at[o] = "write" /\ seen' = seen
        /\ \E place \in {"hint", "ended"} : at' = [at EXCEPT ![o] = place]
    BY DEF WriteEnds, Release, Goto
  <1>2. o \in Rewrites \/ seen[o] \in Seq(Ops)
    BY <1>1 DEF Inv, Typed, TypeOK, SeenText, Atomic!Contents
  <1>3. Atomic!Applied(o, seen[o]) # Missing /\ <<>> # Missing
    <2>1. Atomic!Applied(o, seen[o]) \in Seq(Ops)
      BY <1>2, AppliedType
    <2>2. <<>> \in Seq(Ops)
      OBVIOUS
    <2> QED
      BY <2>1, <2>2, PathsAssumption
  <1>4. PICK text : text # Missing /\ content' \in {content, [content EXCEPT ![FileOf(o)] = text]}
    BY <1>3 DEF WriteEnds
  <1>5. content \in [Files -> Atomic!Contents]
    BY DEF Inv, Typed, TypeOK
  <1> QED
    BY <1>1, <1>4, <1>5

LEMMA StepSeen ==
    ASSUME Inv, [Next]_vars PROVE SeenIsThere' /\ NoDanglingLinks'
  <1> USE DEF SeenIsThere, NoDanglingLinks
  <1>0. /\ seen \in [Ops -> Atomic!Contents] /\ at \in [Ops -> Places]
        /\ content \in [Files -> Atomic!Contents]
        /\ SeenIsThere /\ NoDanglingLinks
    BY DEF Inv, Typed, TypeOK
  <1>1. ASSUME NEW o \in Ops, WriteEnds(o) PROVE SeenIsThere' /\ NoDanglingLinks'
    <2>1. /\ at[o] = "write" /\ seen' = seen
          /\ \E place \in {"hint", "ended"} : at' = [at EXCEPT ![o] = place]
          /\ \A f \in Files : f # FileOf(o) => content'[f] = content[f]
          /\ \A f \in Files : content[f] # Missing => content'[f] # Missing
      BY <1>1, WriteContent
    <2>2. NoDanglingLinks'
      BY <1>0, <2>1, PathsAssumption
    <2>3. ASSUME NEW p \in Ops \ Rewrites, at'[p] = "write"
          PROVE  seen'[p] = content'[FileOf(p)]
      <3>1. p # o /\ at[p] = "write"
        BY <1>0, <2>1, <2>3
      <3>2. FileOf(p) # FileOf(o)
        BY <2>1, <3>1, Alone DEF Holding
      <3> QED
        BY <1>0, <2>1, <3>1, <3>2, FileOfType
    <2> QED
      BY <2>2, <2>3 DEF FileOf
  <1>2. ASSUME NEW o \in Ops, ReadEnds(o) PROVE SeenIsThere' /\ NoDanglingLinks'
    BY <1>0, <1>2 DEF ReadEnds, Release, Goto, FileOf
  <1>3. ASSUME UNCHANGED <<content, seen>>,
               \A o \in Ops \ Rewrites : at'[o] = "write" => at[o] = "write"
        PROVE  SeenIsThere' /\ NoDanglingLinks'
    BY <1>0, <1>3 DEF FileOf
  <1>4. ASSUME NEW o \in Ops,
               \/ Call(o) \/ Abort(o) \/ Register(o) \/ RegistrationFails(o) \/ Begin(o)
               \/ OpenEnds(o) \/ HintEnds(o)
        PROVE  SeenIsThere' /\ NoDanglingLinks'
    <2>1. UNCHANGED <<content, seen>>
      BY <1>4 DEF Call, Abort, Register, RegistrationFails, Begin, OpenEnds, HintEnds
    <2>2. \/ at' = at
          \/ \E place \in {"registering", "waiting", "ended", "open", "read"} : Goto(o, place)
          \/ o \in Rewrites /\ Goto(o, "write")
      BY <1>4 DEF Call, Abort, Register, RegistrationFails, Begin, OpenEnds, HintEnds,
                 Release
    <2>3. \A p \in Ops \ Rewrites : at'[p] = "write" => at[p] = "write"
      BY <1>0, <2>2 DEF Goto
    <2> QED
      BY <1>3, <2>1, <2>3
  <1>5. CASE UNCHANGED vars
    BY <1>3, <1>5 DEF vars
  <1> QED
    BY <1>1, <1>2, <1>4, <1>5 DEF Next, Step, Quiet

LEMMA StepInv == Inv /\ [Next]_vars => Inv'
  BY StepTyped, StepOrderQueue, StepSeen DEF Inv

LEMMA Invariance == LinkedSpec => []Inv
  BY InitInv, StepInv, PTL DEF LinkedSpec, LinkedInit

(* Two tools are never at one file together, for any number of calls, files *)
(* and links.                                                               *)
THEOREM Exclusion == LinkedSpec => []MutualExclusion
  <1>1. Inv => MutualExclusion
    BY Alone DEF MutualExclusion
  <1> QED
    BY <1>1, Invariance, PTL

(* The map of queues never holds an entry that nobody holds or waits for,  *)
(* and never misses one.                                                   *)
THEOREM EntriesHeld == LinkedSpec => []QueuesHeld
  <1>1. Inv => QueuesHeld
    BY NoOpAssumption DEF Inv, Queue, Keyed, QueueEnds, QueuesHeld, Registered
  <1> QED
    BY <1>1, Invariance, PTL

-----------------------------------------------------------------------------
(* The refinement. *)

(* What AtomicEdits is told of one call's step. *)
LEMMA ReportedIs ==
    /\ \A o \in Ops : reported[o] = IF at[o] = "hint" THEN "ok" ELSE result[o]
    /\ \A o \in Ops : reported'[o] = IF at'[o] = "hint" THEN "ok" ELSE result'[o]
    /\ DOMAIN reported = Ops /\ DOMAIN reported' = Ops
    /\ reported = [o \in Ops |-> reported[o]] /\ reported' = [o \in Ops |-> reported'[o]]
  BY DEF reported

LEMMA ReportStep ==
    ASSUME Typed, NEW o \in Ops, NEW place \in Places, NEW r,
           at' = [at EXCEPT ![o] = place], result' = [result EXCEPT ![o] = r]
    PROVE  reported' = [reported EXCEPT ![o] = IF place = "hint" THEN "ok" ELSE r]
  <1>1. at'[o] = place /\ result'[o] = r
    BY DEF Typed, TypeOK
  <1>2. \A p \in Ops \ {o} : at'[p] = at[p] /\ result'[p] = result[p]
    BY DEF Typed, TypeOK
  <1>3. reported'[o] = IF place = "hint" THEN "ok" ELSE r
    BY <1>1, ReportedIs
  <1>4. \A p \in Ops \ {o} : reported'[p] = reported[p]
    BY <1>2, ReportedIs
  <1> QED
    BY <1>3, <1>4, ReportedIs

LEMMA InitAtomic == Init => Atomic!Init
  <1> SUFFICES ASSUME Init PROVE Atomic!Init
    OBVIOUS
  <1>1. \A o \in Ops : reported[o] = "none"
    BY DEF Init, reported
  <1>2. reported = [o \in Ops |-> "none"]
    BY <1>1, ReportedIs
  <1> QED
    BY <1>2 DEF Init, Atomic!Init

(* The holder of a file is the next of AtomicEdits, until it has reported. *)
LEMMA HolderIsNext ==
    ASSUME Inv, NEW o \in Ops, at[o] \in Holding \ {"hint"}
    PROVE  turn[o] > 0 /\ reported[o] = "none" /\ Atomic!IsNext(o)
  <1>1. turn[o] \in Nat /\ turn[o] # 0 /\ reported[o] = "none"
    BY ReportedIs DEF Inv, Typed, TypeOK, Order, Numbered, Reported, Holding
  <1>2. ASSUME NEW p \in Ops, 0 < turn[p], turn[p] < turn[o],
               Atomic!FileOf(p) = Atomic!FileOf(o)
        PROVE  reported[p] # "none"
    <2>1. turn[p] \in Nat
      BY DEF Inv, Typed, TypeOK
    <2>2. p \notin Registered
      BY <1>1, <1>2, <2>1, Holders DEF Inv, FileOf
    <2>3. at[p] # "registering"
      BY <1>1, <1>2, <2>1, Holders DEF Inv, Order, RegisteredFirst
    <2>4. at[p] # "new"
      BY <1>2 DEF Inv, Order, Numbered
    <2>5. at[p] = "ended"
      BY <2>2, <2>3, <2>4 DEF Inv, Typed, TypeOK, Places, Registered
    <2> QED
      BY <2>5, ReportedIs DEF Inv, Order, Reported
  <1> QED
    BY <1>1, <1>2 DEF Atomic!IsNext

(* A call that fails without a write refuses. *)
LEMMA ReleaseRefuses ==
    ASSUME Inv, NEW o \in Ops,
           at[o] \in (Holding \ {"hint"}) \cup {"waiting", "registering"},
           at' = [at EXCEPT ![o] = "ended"],
           result' = [result EXCEPT ![o] = "failed"], UNCHANGED <<content, made, turn>>
    PROVE  Atomic!Next
  <1>1. turn[o] > 0 /\ reported[o] = "none"
    BY ReportedIs DEF Inv, Typed, TypeOK, Order, Numbered, Reported, Holding
  <1>2. reported' = [reported EXCEPT ![o] = "failed"]
    BY ReportStep DEF Inv, Places
  <1> QED
    BY <1>1, <1>2 DEF Atomic!Next, Atomic!Refuse

LEMMA WriteAtomic ==
    ASSUME Inv, NEW o \in Ops, WriteEnds(o)
    PROVE  Atomic!Next
  <1>1. at[o] \in Holding \ {"hint"} /\ UNCHANGED <<made, turn>>
    BY DEF WriteEnds, Holding
  <1>2. turn[o] > 0 /\ reported[o] = "none" /\ Atomic!IsNext(o)
    BY <1>1, HolderIsNext
  <1>3. CASE /\ content' = [content EXCEPT ![FileOf(o)] = Atomic!Applied(o, seen[o])]
             /\ \/ Release(o, IF o \in aborted THEN "failed" ELSE "ok")
                \/ Goto(o, "hint") /\ UNCHANGED result
    <2>1. \E r \in {"ok", "failed"} : reported' = [reported EXCEPT ![o] = r]
      <3>1. ASSUME NEW r \in {"ok", "failed"}, Release(o, r)
            PROVE  reported' = [reported EXCEPT ![o] = r]
        BY <3>1, ReportStep DEF Inv, Places, Release, Goto
      <3>2. CASE Goto(o, "hint") /\ UNCHANGED result
        <4>1. result' = [result EXCEPT ![o] = result[o]]
          BY <3>2 DEF Inv, Typed, TypeOK
        <4>2. reported' = [reported EXCEPT ![o] = "ok"]
          BY <3>2, <4>1, ReportStep DEF Inv, Places, Holding, Goto
        <4> QED
          BY <4>2
      <3> QED
        BY <1>3, <3>1, <3>2
    <2>2. content \in [Files -> Atomic!Contents] /\ Atomic!FileOf(o) \in Files
      BY FileOfType DEF Inv, Typed, TypeOK, FileOf
    <2>3. o \in Rewrites \/ /\ seen[o] = content[Atomic!FileOf(o)]
                            /\ content[Atomic!FileOf(o)] # Missing
      BY DEF Inv, Typed, SeenText, SeenIsThere, WriteEnds, FileOf
    <2>4. content' = [content EXCEPT ![Atomic!FileOf(o)] = Atomic!Applied(o, @)]
      BY <1>3, <2>2, <2>3 DEF Atomic!Applied, FileOf
    <2> QED
      BY <1>1, <1>2, <2>1, <2>3, <2>4 DEF Atomic!Next, Atomic!Change
  <1>4. CASE /\ content' = [content EXCEPT ![FileOf(o)] = <<>>]
             /\ Release(o, "failed")
    <2>1. reported' = [reported EXCEPT ![o] = "failed"]
      BY <1>4, ReportStep DEF Inv, Places, Release, Goto
    <2> QED
      BY <1>1, <1>2, <1>4, <2>1 DEF Atomic!Next, Atomic!Truncate, FileOf
  <1>5. CASE UNCHANGED content /\ Release(o, "failed")
    BY <1>1, <1>5, ReleaseRefuses DEF Release, Goto
  <1> QED
    BY <1>3, <1>4, <1>5 DEF WriteEnds

LEMMA StepAtomic == Inv /\ [Next]_vars => [Atomic!Next]_(Atomic!vars)
  <1> SUFFICES ASSUME Inv, [Next]_vars
               PROVE  Atomic!Next \/ UNCHANGED <<content, made, turn, reported>>
    BY DEF Atomic!vars
  <1>1. ASSUME NEW o \in Ops, Call(o) PROVE Atomic!Next
    <2>1. turn[o] = 0 /\ result' = [result EXCEPT ![o] = result[o]] /\ at[o] = "new"
      BY <1>1 DEF Call, Inv, Typed, TypeOK, Order, Numbered
    <2>2. reported' = [reported EXCEPT ![o] = result[o]]
      BY <1>1, <2>1, ReportStep DEF Call, Goto, Inv, Places
    <2>3. reported' = reported
      BY <2>1, <2>2, ReportedIs
    <2> QED
      BY <1>1, <2>1, <2>3 DEF Call, Atomic!Next, Atomic!Call
  (* A call that neither comes from its hint nor goes to it, and reports   *)
  (* nothing.                                                              *)
  <1>2. ASSUME NEW o \in Ops, NEW place \in Places, UNCHANGED <<content, made, turn, result>>,
               at[o] # "hint", place # "hint", at' = [at EXCEPT ![o] = place]
        PROVE  UNCHANGED <<content, made, turn, reported>>
    <2>1. result' = [result EXCEPT ![o] = result[o]]
      BY <1>2 DEF Inv, Typed, TypeOK
    <2>2. reported' = [reported EXCEPT ![o] = result[o]]
      BY <1>2, <2>1, ReportStep DEF Inv
    <2>3. reported' = reported
      BY <1>2, <2>2, ReportedIs
    <2> QED
      BY <1>2, <2>3
  <1>3. ASSUME NEW o \in Ops, NextToRegister(o) PROVE at[o] = "registering"
    <2>1. o = registrations[1] /\ 1 \in 1 .. Len(registrations)
      BY <1>3, LenProperties DEF NextToRegister, Inv, Typed, TypeOK
    <2> QED
      BY <2>1 DEF Inv, Order, InLine
  <1>4. ASSUME NEW o \in Ops, Register(o)
        PROVE  UNCHANGED <<content, made, turn, reported>>
    BY <1>2, <1>3, <1>4 DEF Register, Goto, Places
  <1>5. ASSUME NEW o \in Ops, RegistrationFails(o) PROVE Atomic!Next
    BY <1>3, <1>5, ReleaseRefuses DEF RegistrationFails, Goto
  <1>6. ASSUME NEW o \in Ops, Begin(o) \/ OpenEnds(o) \/ ReadEnds(o)
        PROVE  Atomic!Next \/ UNCHANGED <<content, made, turn, reported>>
    <2>1. /\ at[o] \in (Holding \ {"hint"}) \cup {"waiting"}
          /\ UNCHANGED <<content, made, turn>>
      BY <1>6 DEF Begin, OpenEnds, ReadEnds, Holding
    <2>2. CASE Release(o, "failed")
      BY <2>1, <2>2, ReleaseRefuses DEF Release, Goto
    <2>3. CASE UNCHANGED result /\ \E place \in {"open", "read", "write"} : Goto(o, place)
      BY <1>2, <2>1, <2>3 DEF Goto, Places, Holding
    <2> QED
      BY <1>6, <2>2, <2>3 DEF Begin, OpenEnds, ReadEnds
  <1>7. ASSUME NEW o \in Ops, WriteEnds(o) PROVE Atomic!Next
    BY <1>7, WriteAtomic
  <1>8. ASSUME NEW o \in Ops, HintEnds(o)
        PROVE  UNCHANGED <<content, made, turn, reported>>
    <2>1. /\ at[o] = "hint" /\ at' = [at EXCEPT ![o] = "ended"]
          /\ result' = [result EXCEPT ![o] = "ok"] /\ UNCHANGED <<content, made, turn>>
      BY <1>8 DEF HintEnds, Release, Goto
    <2>2. reported' = [reported EXCEPT ![o] = "ok"]
      BY <2>1, ReportStep DEF Inv, Places
    <2>3. reported' = reported
      BY <2>1, <2>2, ReportedIs
    <2> QED
      BY <2>1, <2>3
  <1>9. ASSUME NEW o \in Ops, Abort(o) PROVE UNCHANGED <<content, made, turn, reported>>
    BY <1>9 DEF Abort, reported
  <1>10. CASE UNCHANGED vars
    BY <1>10 DEF vars, reported
  <1> QED
    BY <1>1, <1>4, <1>5, <1>6, <1>7, <1>8, <1>9, <1>10 DEF Next, Step, Quiet

(* The tools change files as if each did so in one step, in the order of   *)
(* the calls, for any number of calls, files and links.                    *)
THEOREM Implements == LinkedSpec => Serializable
  BY InitAtomic, StepAtomic, Invariance, PTL DEF LinkedSpec, LinkedInit, Serializable, Atomic!Spec

=============================================================================
