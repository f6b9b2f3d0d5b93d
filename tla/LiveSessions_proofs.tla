------------------------ MODULE LiveSessions_proofs ------------------------
(***************************************************************************)
(* Proofs about LiveSessions: its types; that a session never has two      *)
(* runtimes; and that a live runtime is kept for somebody, for any number  *)
(* of connections, of requests each has under way, and of runtimes.        *)
(*                                                                         *)
(* The argument: a runtime that is in use is the one in openingSessions or *)
(* the one in liveSessions, of which never both have one, and after the    *)
(* server's close it is the one that the close disposes.  Every step that  *)
(* can make a live runtime idle and unattended looks whether it has, so    *)
(* that maybeDispose would change nothing.                                 *)
(***************************************************************************)
EXTENDS LiveSessions, SequenceTheorems, TLAPS

(* The types by part; a detach that waits for its snapshot holds a runtime. *)
RequestsOK ==
    /\ at \in [Requests -> {"idle", "line", "snapshot", "detach", "dispose"}]
    /\ ref \in [Requests -> 0..MaxRuntimes]
    /\ \A r \in Requests : at[r] = "detach" => ref[r] # 0

RuntimesOK == runtime \in [Runtimes -> LiveSession]

ServerOK ==
    /\ conn \in [Connections -> {"ready", "closing", "gone"}]
    /\ ids \subseteq Connections /\ told \subseteq Connections
    /\ entry \in 0..MaxRuntimes /\ opening \in 0..MaxRuntimes
    /\ line \in Seq(Requests)
    /\ closing \in {"no", "closing", "closed"}

Typed == RequestsOK /\ RuntimesOK /\ ServerOK

LEMMA RuntimesType == Runtimes \subseteq Nat \ {0} /\ Runtimes = (0..MaxRuntimes) \ {0}
  BY BoundsAssumption DEF Runtimes

LEMMA FreshType == Fresh \in LiveSession /\ Gone \in LiveSession /\ Fresh.state = "none"
                   /\ Gone.state = "disposed"
  BY DEF Fresh, Gone, LiveSession

(* Somebody is attached or something runs. *)
AttendedBy(live) ==
    \/ live.members # {} \/ live.operations > 0
    \/ live.busy /\ ~live.terminal

(* What maybeDispose may change, and what it looks for. *)
LEMMA MaybeDisposeType ==
    ASSUME NEW live \in LiveSession
    PROVE  /\ MaybeDispose(live) \in LiveSession
           /\ MaybeDispose(live).members = live.members
           /\ \/ MaybeDispose(live) = live
              \/ /\ live.state = "live" /\ live.members = {}
                 /\ MaybeDispose(live).state = "disposing"
           /\ MaybeDispose(live).state = "live" /\ closing = "no" =>
                 AttendedBy(MaybeDispose(live))
  <1>1. live.operations \in Nat
    BY DEF LiveSession
  <1>2. CASE /\ closing = "no" /\ live.state = "live"
             /\ live.members = {} /\ live.operations = 0
             /\ live.terminal \/ ~live.busy
    <2>1. MaybeDispose(live) = [live EXCEPT !.state = "disposing"]
      BY <1>2 DEF MaybeDispose
    <2>2. MaybeDispose(live) \in LiveSession
      BY <2>1 DEF LiveSession
    <2>3. MaybeDispose(live).members = live.members
      BY <2>1 DEF LiveSession
    <2>4. MaybeDispose(live).state = "disposing"
      BY <2>1 DEF LiveSession
    <2> QED
      BY <1>2, <2>2, <2>3, <2>4
  <1>3. CASE ~(/\ closing = "no" /\ live.state = "live"
               /\ live.members = {} /\ live.operations = 0
               /\ live.terminal \/ ~live.busy)
    <2>1. MaybeDispose(live) = live
      BY <1>3 DEF MaybeDispose
    <2>2. live.state = "live" /\ closing = "no" => AttendedBy(live)
      BY <1>1, <1>3 DEF AttendedBy
    <2> QED
      BY <2>1, <2>2
  <1> QED
    BY <1>2, <1>3

LEMMA LeftType ==
    ASSUME NEW live \in LiveSession, NEW c \in Connections
    PROVE  /\ Left(live, c) \in LiveSession
           /\ Left(live, c).members = live.members \ {c}
           /\ Left(live, c).state = live.state
           /\ Left(live, c).operations = live.operations
           /\ Left(live, c).busy = live.busy
           /\ Left(live, c).terminal = live.terminal
  BY DEF Left, LiveSession

LEMMA JoinedType ==
    ASSUME NEW live \in LiveSession, NEW c \in Connections
    PROVE  /\ Joined(live, c) \in LiveSession
           /\ Joined(live, c).members # {}
           /\ Joined(live, c).state = live.state
  BY DEF Joined, LiveSession

(* A request is one connection's. *)
LEMMA OfType ==
    /\ \A r \in Requests : Of(r) \in Connections
    /\ \A requests : requests \subseteq Requests => OfAll(requests) \subseteq Connections
  BY DEF Requests, Of, OfAll

LEMMA NextRuntimeType == Unopened # {} => NextRuntime \in Unopened
  BY DEF NextRuntime

LEMMA WaitersType == Typed => Waiters \subseteq Requests
  BY DEF Typed, ServerOK, Waiters

LEMMA Zero == 0 \in 0..MaxRuntimes /\ \A i \in Runtimes : i \in 0..MaxRuntimes
  BY RuntimesType, BoundsAssumption

LEMMA InitTyped == Init => Typed
  <1> SUFFICES ASSUME Init PROVE Typed
    OBVIOUS
  <1>1. RuntimesOK
    BY FreshType DEF Init, RuntimesOK
  <1>2. RequestsOK
    BY Zero DEF Init, RequestsOK
  <1>3. ServerOK
    BY Zero DEF Init, ServerOK
  <1> QED
    BY <1>1, <1>2, <1>3 DEF Typed

(* The requests. *)
LEMMA EndRequestsType ==
    ASSUME RequestsOK, NEW requests, EndRequests(requests)
    PROVE  RequestsOK'
  <1>1. at' \in [Requests -> {"idle", "line", "snapshot", "detach", "dispose"}]
    BY DEF RequestsOK, EndRequests
  <1>2. ref' \in [Requests -> 0..MaxRuntimes]
    BY Zero DEF RequestsOK, EndRequests
  <1>3. \A r \in Requests : at'[r] = "detach" => ref'[r] # 0
    BY DEF RequestsOK, EndRequests
  <1> QED
    BY <1>1, <1>2, <1>3 DEF RequestsOK

LEMMA GotoType ==
    ASSUME RequestsOK, NEW r \in Requests, NEW i \in 0..MaxRuntimes,
           NEW place \in {"idle", "line", "snapshot", "detach", "dispose"},
           place = "detach" => i # 0, Goto(r, place, i)
    PROVE  RequestsOK'
  BY DEF RequestsOK, Goto

LEMMA EndDetachType ==
    ASSUME Typed, NEW r \in Requests, NEW i \in Runtimes, NEW live \in LiveSession,
           EndDetach(r, i, live)
    PROVE  RequestsOK' /\ RuntimesOK'
  <1>1. RuntimesOK'
    BY MaybeDisposeType DEF EndDetach, Typed, RuntimesOK
  <1>2. Goto(r, "dispose", i) \/ Goto(r, "idle", 0)
    BY DEF EndDetach
  <1>3. RequestsOK'
    BY <1>2, Zero, GotoType DEF Typed
  <1> QED
    BY <1>1, <1>3

LEMMA RequestTyped ==
    ASSUME Typed, NEW r \in Requests,
           \/ Attach(r) \/ AttachFirst(r) \/ SnapshotEnds(r) \/ Detach(r)
           \/ DetachSnapshotEnds(r)
    PROVE  Typed'
  <1>a. Of(r) \in Connections
    BY OfType
  <1>1. CASE Attach(r)
    <2>1. CASE AcquireLive(r)
      <3>1. entry \in Runtimes
        BY <2>1, RuntimesType DEF AcquireLive, Typed, ServerOK
      <3>2. RuntimesOK'
        BY <1>a, <2>1, <3>1, JoinedType DEF AcquireLive, Typed, RuntimesOK
      <3>3. RequestsOK'
        BY <2>1, <3>1, Zero, GotoType DEF AcquireLive, Typed
      <3>4. ServerOK'
        BY <1>1, <1>a, <2>1 DEF Attach, AcquireLive, Typed, ServerOK
      <3> QED
        BY <3>2, <3>3, <3>4 DEF Typed
    <2>2. CASE Await(r)
      <3>1. RequestsOK'
        BY <2>2, Zero, GotoType DEF Await, Typed
      <3>2. RuntimesOK' /\ ServerOK'
        BY <1>1, <2>2 DEF Attach, Await, Typed, RuntimesOK, ServerOK
      <3> QED
        BY <3>1, <3>2 DEF Typed
    <2> QED
      BY <1>1, <2>1, <2>2 DEF Attach
  <1>2. CASE AttachFirst(r)
    <2>1. NextRuntime \in Runtimes
      BY <1>2, NextRuntimeType DEF AttachFirst, Unopened
    <2>2. RuntimesOK'
      BY <1>2, <2>1 DEF AttachFirst, LiveSession, Typed, RuntimesOK
    <2>3. RequestsOK'
      BY <1>2, Zero, GotoType DEF AttachFirst, Typed
    <2>4. ServerOK'
      BY <1>2, <2>1, Zero DEF AttachFirst, Typed, ServerOK
    <2> QED
      BY <2>2, <2>3, <2>4 DEF Typed
  <1>3. CASE SnapshotEnds(r)
    <2>1. RequestsOK'
      BY <1>3, Zero, GotoType DEF SnapshotEnds, Typed
    <2>2. RuntimesOK' /\ ServerOK'
      BY <1>3, <1>a DEF SnapshotEnds, Typed, RuntimesOK, ServerOK
    <2> QED
      BY <2>1, <2>2 DEF Typed
  <1>4. CASE Detach(r)
    <2>1. ServerOK'
      BY <1>4 DEF Detach, Typed, ServerOK
    <2>2. CASE entry = 0
      BY <1>4, <2>1, <2>2 DEF Detach, Typed, RequestsOK, RuntimesOK
    <2>3. CASE entry # 0
      <3>1. entry \in Runtimes
        BY <2>3, RuntimesType DEF Typed, ServerOK
      <3>2. Left(runtime[entry], Of(r)) \in LiveSession
        BY <1>a, <3>1, LeftType DEF Typed, RuntimesOK
      <3>3. CASE /\ runtime' = [runtime EXCEPT ![entry] = Left(runtime[entry], Of(r))]
                 /\ Goto(r, "detach", entry)
        <4>1. RuntimesOK'
          BY <3>2, <3>3 DEF Typed, RuntimesOK
        <4>2. RequestsOK'
          BY <2>3, <3>1, <3>3, Zero, GotoType DEF Typed
        <4> QED
          BY <2>1, <4>1, <4>2 DEF Typed
      <3>4. CASE EndDetach(r, entry, Left(runtime[entry], Of(r)))
        BY <2>1, <3>1, <3>2, <3>4, EndDetachType DEF Typed
      <3> QED
        BY <1>4, <2>3, <3>3, <3>4 DEF Detach
    <2> QED
      BY <2>2, <2>3
  <1>5. CASE DetachSnapshotEnds(r)
    <2>1. ServerOK' /\ at[r] = "detach"
      BY <1>5 DEF DetachSnapshotEnds, Typed, ServerOK
    <2>2. ref[r] \in Runtimes /\ runtime[ref[r]] \in LiveSession
      BY <2>1, RuntimesType DEF Typed, RequestsOK, RuntimesOK
    <2>3. CASE EndDetach(r, ref[r], runtime[ref[r]])
      BY <2>1, <2>2, <2>3, EndDetachType DEF Typed
    <2>4. CASE Goto(r, "idle", 0) /\ UNCHANGED runtime
      <3>1. RequestsOK'
        BY <2>4, Zero, GotoType DEF Typed
      <3>2. RuntimesOK'
        BY <2>4 DEF Typed, RuntimesOK
      <3> QED
        BY <2>1, <3>1, <3>2 DEF Typed
    <2> QED
      BY <1>5, <2>3, <2>4 DEF DetachSnapshotEnds
  <1> QED
    BY <1>1, <1>2, <1>3, <1>4, <1>5

LEMMA PairTyped ==
    ASSUME Typed, NEW r \in Requests, NEW q \in Requests, AttachAndDetach(r, q)
    PROVE  Typed'
  <1> DEFINE left == MaybeDispose(Left(runtime[entry], Of(r)))
             detaching == IF left.state = "disposing" THEN "dispose"
                          ELSE IF left.members # {} THEN "detach" ELSE "idle"
  <1>1. Of(r) \in Connections
    BY OfType
  <1>2. entry \in Runtimes /\ runtime[entry] \in LiveSession
    BY RuntimesType DEF AttachAndDetach, Typed, ServerOK, RuntimesOK
  <1>3. left \in LiveSession
    BY <1>1, <1>2, LeftType, MaybeDisposeType
  <1>4. runtime' = [runtime EXCEPT ![entry] = Joined(left, Of(r))]
    BY DEF AttachAndDetach
  <1>5. /\ r # q
        /\ at' = [at EXCEPT ![r] = "snapshot", ![q] = detaching]
        /\ ref' = [ref EXCEPT ![r] = entry,
                              ![q] = IF detaching = "idle" THEN 0 ELSE entry]
    BY DEF AttachAndDetach
  <1>6. detaching \in {"dispose", "detach", "idle"}
    OBVIOUS
  <1> HIDE DEF left, detaching
  <1>7. RuntimesOK'
    BY <1>1, <1>2, <1>3, <1>4, JoinedType DEF Typed, RuntimesOK
  <1>8. RequestsOK'
    <2>1. at' \in [Requests -> {"idle", "line", "snapshot", "detach", "dispose"}]
      BY <1>5, <1>6 DEF Typed, RequestsOK
    <2>2. ref' \in [Requests -> 0..MaxRuntimes]
      BY <1>2, <1>5, Zero DEF Typed, RequestsOK
    <2>3. \A t \in Requests : at'[t] = "detach" => ref'[t] # 0
      BY <1>2, <1>5, RuntimesType DEF Typed, RequestsOK
    <2> QED
      BY <2>1, <2>2, <2>3 DEF RequestsOK
  <1>9. ServerOK'
    BY DEF AttachAndDetach, Typed, ServerOK
  <1> QED
    BY <1>7, <1>8, <1>9 DEF Typed

LEMMA ConnectionTyped ==
    ASSUME Typed, NEW c \in Connections, Operate(c) \/ Disconnect(c)
    PROVE  Typed'
  <1>1. CASE Operate(c)
    <2>1. entry \in Runtimes
      BY <1>1, RuntimesType DEF Operate, Typed, ServerOK
    <2>2. PICK prompt \in BOOLEAN :
             runtime' = [runtime EXCEPT ![entry].operations = @ + 1,
                                        ![entry].busy = @ \/ prompt]
      BY <1>1 DEF Operate
    <2>3. [runtime[entry] EXCEPT !.operations = @ + 1, !.busy = @ \/ prompt]
             \in LiveSession
      <3>1. runtime[entry] \in LiveSession
        BY <2>1 DEF Typed, RuntimesOK
      <3>2. runtime[entry].operations + 1 \in Nat
        BY <3>1 DEF LiveSession
      <3>3. \A n \in Nat, b \in BOOLEAN :
               [runtime[entry] EXCEPT !.operations = n, !.busy = b] \in LiveSession
        BY <3>1 DEF LiveSession
      <3>4. (runtime[entry].busy \/ prompt) \in BOOLEAN
        OBVIOUS
      <3> QED
        BY <3>2, <3>3, <3>4
    <2>4. RuntimesOK'
      BY <2>1, <2>2, <2>3 DEF Typed, RuntimesOK
    <2>5. RequestsOK' /\ ServerOK'
      BY <1>1 DEF Operate, Typed, RequestsOK, ServerOK
    <2> QED
      BY <2>4, <2>5 DEF Typed
  <1>2. CASE Disconnect(c)
    <2>1. RuntimesOK'
      <3>1. CASE entry # 0
        <4>1. entry \in Runtimes
          BY <3>1, RuntimesType DEF Typed, ServerOK
        <4>2. MaybeDispose(Left(runtime[entry], c)) \in LiveSession
          BY <4>1, LeftType, MaybeDisposeType DEF Typed, RuntimesOK
        <4> QED
          BY <1>2, <4>1, <4>2 DEF Disconnect, Typed, RuntimesOK
      <3>2. CASE entry = 0
        BY <1>2, <3>2 DEF Disconnect, Typed, RuntimesOK
      <3> QED
        BY <3>1, <3>2
    <2>2. RequestsOK' /\ ServerOK'
      BY <1>2 DEF Disconnect, Typed, RequestsOK, ServerOK
    <2> QED
      BY <2>1, <2>2 DEF Typed
  <1> QED
    BY <1>1, <1>2

(* The runtimes and the server. *)
LEMMA RuntimeTyped ==
    ASSUME Typed, NEW i \in Runtimes, RuntimeStep(i) \/ Terminate(i),
           line # <<>> /\ opening = 0 => Unopened # {}
    PROVE  Typed'
  <1>a. runtime[i] \in LiveSession
    BY DEF Typed, RuntimesOK
  <1>1. CASE Acquired(i) \/ OpenDisposes(i)
    <2>1. PICK state \in {"starting", "disposing"} :
             runtime' = [runtime EXCEPT ![i].state = state]
      BY <1>1 DEF Acquired, OpenDisposes
    <2>2. [runtime[i] EXCEPT !.state = state] \in LiveSession
      BY <1>a DEF LiveSession
    <2>3. RuntimesOK'
      BY <2>1, <2>2 DEF Typed, RuntimesOK
    <2>4. RequestsOK' /\ ServerOK'
      BY <1>1 DEF Acquired, OpenDisposes, Typed, RequestsOK, ServerOK
    <2> QED
      BY <2>3, <2>4 DEF Typed
  <1>2. CASE OpenEnds(i)
    <2> DEFINE joining == {r \in Waiters : conn[Of(r)] = "ready"}
               first == OfAll(joining \cap {Head(line)})
               all == OfAll(joining)
               live == MaybeDispose([Fresh EXCEPT
                          !.state = "live", !.members = first])
    <2>1. first \subseteq Connections /\ all \subseteq Connections
      BY WaitersType, OfType
    <2> HIDE DEF first, all
    <2>2. [Fresh EXCEPT !.state = "live", !.members = first] \in LiveSession
      BY <2>1 DEF Fresh, LiveSession
    <2>3. live \in LiveSession
      BY <2>2, MaybeDisposeType
    <2>4. [live EXCEPT !.members = all] \in LiveSession
      BY <2>1, <2>3 DEF LiveSession
    <2>5. runtime' = [runtime EXCEPT ![i] = [live EXCEPT !.members = all]]
      BY <1>2 DEF OpenEnds, first, all
    <2>6. RuntimesOK'
      BY <2>4, <2>5 DEF Typed, RuntimesOK
    <2>7. RequestsOK'
      <3>1. at' = [r \in Requests |->
                      IF r \notin Waiters THEN at[r]
                      ELSE IF r \in joining THEN "snapshot"
                      ELSE IF live.state = "live" THEN "idle" ELSE "dispose"]
        BY <1>2 DEF OpenEnds, first
      <3> HIDE DEF joining, live
      <3>2. ref' = [r \in Requests |->
                       IF r \in Waiters /\ at'[r] # "idle" THEN i ELSE ref[r]]
        BY <1>2 DEF OpenEnds
      <3>3. at' \in [Requests -> {"idle", "line", "snapshot", "detach", "dispose"}]
        BY <3>1 DEF Typed, RequestsOK
      <3>4. ref' \in [Requests -> 0..MaxRuntimes]
        BY <3>2, Zero DEF Typed, RequestsOK
      <3>5. \A r \in Requests : at'[r] = "detach" => ref'[r] # 0
        BY <3>1, <3>2 DEF Typed, RequestsOK
      <3> QED
        BY <3>3, <3>4, <3>5 DEF RequestsOK
    <2>8. ids' = ids \cup all
      BY <1>2 DEF OpenEnds, all
    <2>9. ServerOK'
      <3>1. /\ opening' = 0 /\ entry' = i /\ line' = <<>>
            /\ UNCHANGED <<conn, told, closing>>
        BY <1>2 DEF OpenEnds
      <3>2. line' \in Seq(Requests)
        BY <3>1
      <3>3. ids' \subseteq Connections
        BY <2>1, <2>8 DEF Typed, ServerOK
      <3> QED
        BY <3>1, <3>2, <3>3, Zero DEF Typed, ServerOK
    <2> QED
      BY <2>6, <2>7, <2>9 DEF Typed
  <1>3. CASE OpenFails(i)
    <2>1. RequestsOK'
      BY <1>3, EndRequestsType DEF OpenFails, Typed
    <2>2. RuntimesOK' /\ ServerOK'
      BY <1>3, Zero, FreshType DEF OpenFails, Typed, RuntimesOK, ServerOK
    <2> QED
      BY <2>1, <2>2 DEF Typed
  <1>4. ASSUME NEW live \in LiveSession,
               runtime' = [runtime EXCEPT ![i] = MaybeDispose(live)]
               \/ runtime' = [runtime EXCEPT ![i] = live],
               conn' \in [Connections -> {"ready", "closing", "gone"}],
               UNCHANGED <<ids, at, ref, told, entry, opening, line, closing>>
        PROVE  Typed'
    <2>1. RuntimesOK'
      BY <1>4, MaybeDisposeType DEF Typed, RuntimesOK
    <2>2. RequestsOK' /\ ServerOK'
      BY <1>4 DEF Typed, RequestsOK, ServerOK
    <2> QED
      BY <2>1, <2>2 DEF Typed
  <1>5. CASE OperationEnds(i)
    <2>1. OneLess(runtime[i]) \in LiveSession
      <3>1. runtime[i].operations - 1 \in Nat
        BY <1>a, <1>5 DEF OperationEnds, LiveSession
      <3> QED
        BY <1>a, <3>1 DEF OneLess, LiveSession
    <2>2. runtime' = [runtime EXCEPT ![i] = MaybeDispose(OneLess(runtime[i]))]
      BY <1>5 DEF OperationEnds
    <2>3. /\ conn' \in [Connections -> {"ready", "closing", "gone"}]
          /\ UNCHANGED <<ids, at, ref, told, entry, opening, line, closing>>
      BY <1>5 DEF OperationEnds, Typed, ServerOK
    <2> QED
      BY <1>4, <2>1, <2>2, <2>3
  <1>6. CASE RunEnds(i)
    <2>1. [runtime[i] EXCEPT !.busy = FALSE] \in LiveSession
      BY <1>a DEF LiveSession
    <2>2. \/ runtime' = [runtime EXCEPT
                ![i] = MaybeDispose([runtime[i] EXCEPT !.busy = FALSE])]
          \/ runtime' = [runtime EXCEPT ![i] = [runtime[i] EXCEPT !.busy = FALSE]]
      BY <1>6 DEF RunEnds, Typed, RuntimesOK
    <2>3. /\ conn' \in [Connections -> {"ready", "closing", "gone"}]
          /\ UNCHANGED <<ids, at, ref, told, entry, opening, line, closing>>
      BY <1>6 DEF RunEnds, Typed, ServerOK
    <2> QED
      BY <1>4, <2>1, <2>2, <2>3
  <1>7. CASE Terminate(i)
    <2>1. [runtime[i] EXCEPT !.terminal = TRUE] \in LiveSession
      BY <1>a DEF LiveSession
    <2>2. runtime' = [runtime EXCEPT
             ![i] = MaybeDispose([runtime[i] EXCEPT !.terminal = TRUE])]
      BY <1>7 DEF Terminate, Typed, RuntimesOK
    <2>3. /\ conn' \in [Connections -> {"ready", "closing", "gone"}]
          /\ UNCHANGED <<ids, at, ref, told, entry, opening, line, closing>>
      BY <1>7 DEF Terminate, Typed, ServerOK
    <2> QED
      BY <1>4, <2>1, <2>2, <2>3
  <1>8. CASE Disposed(i)
    <2>1. opening' \in 0..MaxRuntimes /\ RuntimesOK'
      <3>1. CASE runtime' = [runtime EXCEPT ![i] = Gone] /\ opening' \in {0, opening}
        BY <3>1, FreshType, Zero DEF Typed, RuntimesOK, ServerOK
      <3>2. CASE /\ opening = 0 /\ line # <<>> /\ opening' = NextRuntime
                 /\ runtime' = [runtime EXCEPT ![i] = Gone,
                                               ![NextRuntime].state = "opening"]
        <4>1. NextRuntime \in Runtimes
          BY <3>2, NextRuntimeType DEF Unopened
        <4>2. RuntimesOK'
          BY <3>2, <4>1, FreshType DEF LiveSession, Typed, RuntimesOK
        <4> QED
          BY <3>2, <4>1, <4>2, Zero
      <3> QED
        BY <1>8, <3>1, <3>2 DEF Disposed
    <2>2. RequestsOK'
      BY <1>8, EndRequestsType DEF Disposed, Typed
    <2>3. line' \in Seq(Requests) /\ entry' \in 0..MaxRuntimes
      <3>1. line' \in {line, <<>>} /\ entry' \in {entry, 0}
        BY <1>8 DEF Disposed
      <3>2. <<>> \in Seq(Requests)
        OBVIOUS
      <3> QED
        BY <3>1, <3>2, Zero DEF Typed, ServerOK
    <2>4. UNCHANGED <<conn, ids, told, closing>>
      BY <1>8 DEF Disposed
    <2>5. ServerOK'
      BY <2>1, <2>3, <2>4 DEF Typed, ServerOK
    <2> QED
      BY <2>1, <2>2, <2>5 DEF Typed
  <1> QED
    BY <1>1, <1>2, <1>3, <1>5, <1>6, <1>7, <1>8 DEF RuntimeStep, Opens

LEMMA CloseTyped ==
    ASSUME Typed, Close \/ CloseSessions
    PROVE  Typed'
  <1>1. CASE Close
    BY <1>1 DEF Close, Typed, RequestsOK, RuntimesOK, ServerOK
  <1>2. CASE CloseSessions
    <2>1. RequestsOK' /\ ServerOK'
      BY <1>2, Zero DEF CloseSessions, Typed, RequestsOK, ServerOK
    <2>2. CASE entry = 0
      BY <1>2, <2>1, <2>2 DEF CloseSessions, Typed, RuntimesOK
    <2>3. CASE entry # 0
      <3>1. entry \in Runtimes /\ runtime[entry] \in LiveSession
        BY <2>3, RuntimesType DEF Typed, ServerOK, RuntimesOK
      <3>2. [runtime[entry] EXCEPT !.state = "disposing"] \in LiveSession
        BY <3>1 DEF LiveSession
      <3>3. runtime' = [runtime EXCEPT ![entry] = [runtime[entry] EXCEPT !.state = "disposing"]]
        BY <1>2, <2>3, <3>1 DEF CloseSessions, Typed, RuntimesOK
      <3> QED
        BY <2>1, <3>2, <3>3 DEF Typed, RuntimesOK
    <2> QED
      BY <2>2, <2>3
  <1> QED
    BY <1>1, <1>2

-----------------------------------------------------------------------------
(* Where the runtimes are, and that live ones are attended. *)

Placed ==
    /\ entry # 0 => opening = 0 /\ runtime[entry].state \in {"live", "disposing"}
    /\ opening # 0 => runtime[opening].state \in {"opening", "starting", "disposing"}
    /\ \A i \in Runtimes :
          /\ runtime[i].state \in {"opening", "starting"} => i = opening
          /\ runtime[i].state = "starting" => closing # "closed"
          /\ runtime[i].state = "live" => i = entry
          /\ runtime[i].state = "disposing" => i \in {entry, opening} \/ closing = "closed"
    /\ closing = "closed" => entry = 0 /\ \A c \in Connections : conn[c] = "gone"
    /\ line # <<>> => opening # 0 \/ Unopened # {}
    /\ line # <<>> /\ entry # 0 => runtime[entry].state = "disposing"

Settled ==
    \A i \in Runtimes :
        runtime[i].state = "live" /\ closing = "no" => AttendedBy(runtime[i])

Inv == Typed /\ Placed /\ OneRuntime /\ Settled

LEMMA InitInv == Init => Inv
  <1> SUFFICES ASSUME Init PROVE Inv
    OBVIOUS
  <1>1. /\ \A i \in Runtimes : runtime[i].state = "none"
        /\ entry = 0 /\ opening = 0 /\ line = <<>> /\ closing = "no"
    BY FreshType DEF Init
  <1>2. Placed
    BY <1>1 DEF Placed
  <1>3. OneRuntime
    BY <1>1 DEF OneRuntime, InUse
  <1>4. Settled
    BY <1>1 DEF Settled
  <1> QED
    BY <1>2, <1>3, <1>4, InitTyped DEF Inv

(* A step that opens nothing and at most begins to dispose a live runtime. *)
StatesKept ==
    \A i \in Runtimes :
        \/ runtime'[i].state = runtime[i].state
        \/ runtime[i].state = "live" /\ runtime'[i].state = "disposing"

LEMMA Looked ==
    ASSUME Typed, Settled, NEW i \in Runtimes, NEW live \in LiveSession,
           live.state = runtime[i].state,
           runtime' = [runtime EXCEPT ![i] = MaybeDispose(live)], closing' = closing
    PROVE  StatesKept /\ Settled'
  <1>1. /\ runtime'[i] = MaybeDispose(live)
        /\ \A j \in Runtimes \ {i} : runtime'[j] = runtime[j]
    BY DEF Typed, RuntimesOK
  <1>2. StatesKept
    BY <1>1, MaybeDisposeType DEF StatesKept
  <1>3. MaybeDispose(live).state = "live" /\ closing = "no" =>
           AttendedBy(MaybeDispose(live))
    BY MaybeDisposeType
  <1>4. Settled'
    BY <1>1, <1>3 DEF Settled, AttendedBy
  <1> QED
    BY <1>2, <1>4

LEMMA Kept ==
    ASSUME Typed, Settled, NEW i \in Runtimes, NEW live,
           live.state = runtime[i].state,
           live.state = "live" /\ closing = "no" => AttendedBy(live),
           runtime' = [runtime EXCEPT ![i] = live], closing' = closing
    PROVE  StatesKept /\ Settled'
  <1>1. /\ runtime'[i] = live
        /\ \A j \in Runtimes \ {i} : runtime'[j] = runtime[j]
    BY DEF Typed, RuntimesOK
  <1> QED
    BY <1>1 DEF StatesKept, Settled, AttendedBy

LEMMA Untouched ==
    ASSUME Settled, UNCHANGED runtime, closing' = closing \/ closing' # "no"
    PROVE  StatesKept /\ Settled'
  BY DEF StatesKept, Settled, AttendedBy

LEMMA EntryType ==
    ASSUME Typed, entry # 0 PROVE entry \in Runtimes /\ runtime[entry] \in LiveSession
  BY RuntimesType DEF Typed, ServerOK, RuntimesOK

LEMMA EndDetachKept ==
    ASSUME Typed, Settled, NEW r \in Requests, NEW i \in Runtimes,
           NEW live \in LiveSession, live.state = runtime[i].state,
           EndDetach(r, i, live), closing' = closing
    PROVE  StatesKept /\ Settled'
  BY Looked DEF EndDetach

Mild(r) ==
    \/ Attach(r) /\ AcquireLive(r)
    \/ SnapshotEnds(r) \/ Detach(r) \/ DetachSnapshotEnds(r)

LEMMA MildRequest ==
    ASSUME Inv, NEW r \in Requests, Mild(r)
    PROVE  StatesKept /\ Settled'
  <1>0. Typed /\ Settled
    BY DEF Inv
  <1>a. Of(r) \in Connections
    BY OfType
  <1>1. CASE Attach(r) /\ AcquireLive(r)
    <2>1. entry \in Runtimes /\ runtime[entry] \in LiveSession
      BY <1>0, <1>1, EntryType DEF AcquireLive
    <2> DEFINE live == Joined(runtime[entry], Of(r))
    <2>2. live.state = runtime[entry].state /\ AttendedBy(live)
      BY <1>a, <2>1, JoinedType DEF AttendedBy
    <2>3. runtime' = [runtime EXCEPT ![entry] = live] /\ closing' = closing
      BY <1>1 DEF Attach, AcquireLive
    <2> HIDE DEF live
    <2> QED
      BY <1>0, <2>1, <2>2, <2>3, Kept
  <1>2. CASE SnapshotEnds(r)
    BY <1>0, <1>2, Untouched DEF SnapshotEnds
  <1>3. CASE Detach(r)
    <2>1. CASE entry = 0
      BY <1>0, <1>3, <2>1, Untouched DEF Detach
    <2>2. CASE entry # 0
      <3>1. entry \in Runtimes /\ runtime[entry] \in LiveSession
        BY <1>0, <2>2, EntryType
      <3> DEFINE live == Left(runtime[entry], Of(r))
      <3>2. live \in LiveSession /\ live.state = runtime[entry].state
        BY <1>a, <3>1, LeftType
      <3>3. closing' = closing
        BY <1>3 DEF Detach
      <3>4. CASE live.members # {} /\ runtime' = [runtime EXCEPT ![entry] = live]
        <4>1. AttendedBy(live)
          BY <3>4 DEF AttendedBy
        <4> HIDE DEF live
        <4> QED
          BY <1>0, <3>1, <3>2, <3>3, <3>4, <4>1, Kept
      <3>5. CASE EndDetach(r, entry, live)
        <4> HIDE DEF live
        <4> QED
          BY <1>0, <3>1, <3>2, <3>3, <3>5, EndDetachKept
      <3> QED
        BY <1>3, <2>2, <3>4, <3>5 DEF Detach
    <2> QED
      BY <2>1, <2>2
  <1>4. CASE DetachSnapshotEnds(r)
    <2>1. ref[r] \in Runtimes /\ runtime[ref[r]] \in LiveSession /\ closing' = closing
      BY <1>0, <1>4, RuntimesType DEF DetachSnapshotEnds, Typed, RequestsOK, RuntimesOK
    <2>2. CASE EndDetach(r, ref[r], runtime[ref[r]])
      BY <1>0, <2>1, <2>2, EndDetachKept
    <2>3. CASE UNCHANGED runtime
      BY <1>0, <2>1, <2>3, Untouched
    <2> QED
      BY <1>4, <2>2, <2>3 DEF DetachSnapshotEnds
  <1> QED
    BY <1>1, <1>2, <1>3, <1>4 DEF Mild

LEMMA PairKept ==
    ASSUME Inv, NEW r \in Requests, NEW q \in Requests, AttachAndDetach(r, q)
    PROVE  StatesKept /\ Settled'
  <1> DEFINE left == MaybeDispose(Left(runtime[entry], Of(r)))
             live == Joined(left, Of(r))
  <1>0. Typed /\ Settled /\ Of(r) \in Connections
    BY OfType DEF Inv
  <1>1. entry \in Runtimes /\ runtime[entry] \in LiveSession
    BY <1>0, EntryType DEF AttachAndDetach
  <1>2. /\ \/ left.state = runtime[entry].state
           \/ runtime[entry].state = "live" /\ left.state = "disposing"
        /\ left \in LiveSession
    <2> DEFINE apart == Left(runtime[entry], Of(r))
    <2>1. apart \in LiveSession /\ apart.state = runtime[entry].state
      BY <1>0, <1>1, LeftType
    <2> HIDE DEF apart
    <2>2. /\ MaybeDispose(apart) \in LiveSession
          /\ \/ MaybeDispose(apart) = apart
             \/ apart.state = "live" /\ MaybeDispose(apart).state = "disposing"
      BY <2>1, MaybeDisposeType
    <2>3. left = MaybeDispose(apart)
      BY DEF apart
    <2> HIDE DEF left
    <2> QED
      BY <2>1, <2>2, <2>3
  <1> HIDE DEF left
  <1>3. live.state = left.state /\ AttendedBy(live)
    BY <1>0, <1>2, JoinedType DEF AttendedBy
  <1>4. runtime' = [runtime EXCEPT ![entry] = live] /\ closing' = closing
    BY DEF AttachAndDetach, left
  <1> HIDE DEF live
  <1>5. /\ runtime'[entry] = live
        /\ \A j \in Runtimes \ {entry} : runtime'[j] = runtime[j]
    BY <1>0, <1>1, <1>4 DEF Typed, RuntimesOK
  <1>6. StatesKept
    BY <1>1, <1>2, <1>3, <1>5 DEF StatesKept
  <1>7. Settled'
    BY <1>0, <1>3, <1>4, <1>5 DEF Settled, AttendedBy
  <1> QED
    BY <1>6, <1>7

LEMMA MildConnection ==
    ASSUME Inv, NEW c \in Connections, Operate(c) \/ Disconnect(c)
    PROVE  StatesKept /\ Settled'
  <1>0. Typed /\ Settled
    BY DEF Inv
  <1>1. CASE Operate(c)
    <2>1. entry \in Runtimes /\ runtime[entry] \in LiveSession
      BY <1>0, <1>1, EntryType DEF Operate
    <2>2. PICK prompt \in BOOLEAN :
             runtime' = [runtime EXCEPT ![entry].operations = @ + 1,
                                        ![entry].busy = @ \/ prompt]
      BY <1>1 DEF Operate
    <2> DEFINE live == [runtime[entry] EXCEPT !.operations = @ + 1,
                                              !.busy = @ \/ prompt]
    <2>3. live.state = runtime[entry].state /\ AttendedBy(live)
      <3>1. live.state = runtime[entry].state /\ live.operations > 0
        BY <2>1 DEF LiveSession
      <3> HIDE DEF live
      <3> QED
        BY <3>1 DEF AttendedBy
    <2>4. runtime' = [runtime EXCEPT ![entry] = live] /\ closing' = closing
      BY <1>0, <1>1, <2>1, <2>2 DEF Operate, Typed, RuntimesOK
    <2> HIDE DEF live
    <2> QED
      BY <1>0, <2>1, <2>3, <2>4, Kept
  <1>2. CASE Disconnect(c)
    <2>1. CASE entry # 0 /\ c \in ids
      <3>1. entry \in Runtimes /\ runtime[entry] \in LiveSession
        BY <1>0, <2>1, EntryType
      <3>2. /\ Left(runtime[entry], c) \in LiveSession
            /\ Left(runtime[entry], c).state = runtime[entry].state
        BY <3>1, LeftType
      <3>3. runtime' = [runtime EXCEPT ![entry] = MaybeDispose(Left(runtime[entry], c))]
        BY <1>2, <2>1 DEF Disconnect
      <3>4. closing' = closing
        BY <1>2 DEF Disconnect
      <3> QED
        BY <1>0, <3>1, <3>2, <3>3, <3>4, Looked
    <2>2. CASE ~(entry # 0 /\ c \in ids)
      BY <1>0, <1>2, <2>2, Untouched DEF Disconnect
    <2> QED
      BY <2>1, <2>2
  <1> QED
    BY <1>1, <1>2

LEMMA MildRuntime ==
    ASSUME Inv, NEW i \in Runtimes, OperationEnds(i) \/ RunEnds(i) \/ Terminate(i)
    PROVE  StatesKept /\ Settled'
  <1>0. Typed /\ Settled /\ runtime[i] \in LiveSession
    BY DEF Inv, Typed, RuntimesOK
  <1>1. CASE OperationEnds(i)
    <2>1. OneLess(runtime[i]).state = runtime[i].state
      BY <1>0 DEF OneLess, LiveSession
    <2>2. OneLess(runtime[i]) \in LiveSession
      <3>1. runtime[i].operations - 1 \in Nat
        BY <1>0, <1>1 DEF OperationEnds, LiveSession
      <3> QED
        BY <1>0, <3>1 DEF OneLess, LiveSession
    <2>3. /\ runtime' = [runtime EXCEPT ![i] = MaybeDispose(OneLess(runtime[i]))]
          /\ closing' = closing
      BY <1>1 DEF OperationEnds
    <2> QED
      BY <1>0, <2>1, <2>2, <2>3, Looked
  <1>2. CASE RunEnds(i)
    <2> DEFINE idle == [runtime[i] EXCEPT !.busy = FALSE]
    <2>1. /\ idle \in LiveSession /\ idle.state = runtime[i].state
          /\ idle.members = runtime[i].members /\ idle.operations = runtime[i].operations
          /\ idle.terminal = runtime[i].terminal
      BY <1>0 DEF LiveSession
    <2>2. closing' = closing
      BY <1>2 DEF RunEnds
    <2>3. CASE idle.terminal
      <3>1. runtime' = [runtime EXCEPT ![i] = idle]
        BY <1>2, <2>3 DEF RunEnds
      <3>2. idle.state = "live" /\ closing = "no" => AttendedBy(idle)
        BY <1>0, <2>1, <2>3 DEF Settled, AttendedBy
      <3> HIDE DEF idle
      <3> QED
        BY <1>0, <2>1, <2>2, <3>1, <3>2, Kept
    <2>4. CASE ~idle.terminal
      <3>1. runtime' = [runtime EXCEPT ![i] = MaybeDispose(idle)]
        BY <1>2, <2>4 DEF RunEnds
      <3> HIDE DEF idle
      <3> QED
        BY <1>0, <2>1, <2>2, <3>1, Looked
    <2> QED
      BY <2>3, <2>4
  <1>3. CASE Terminate(i)
    <2> DEFINE live == [runtime[i] EXCEPT !.terminal = TRUE]
    <2>1. live \in LiveSession /\ live.state = runtime[i].state
      BY <1>0 DEF LiveSession
    <2>2. runtime' = [runtime EXCEPT ![i] = MaybeDispose(live)] /\ closing' = closing
      BY <1>3 DEF Terminate
    <2> HIDE DEF live
    <2> QED
      BY <1>0, <2>1, <2>2, Looked
  <1> QED
    BY <1>1, <1>2, <1>3

(* Changing one runtime's state. *)
SetState(i, state) ==
    /\ runtime'[i].state = state
    /\ \A j \in Runtimes \ {i} : runtime'[j] = runtime[j]

LEMMA PlacedKept ==
    ASSUME Inv, StatesKept, UNCHANGED <<entry, opening, line>>,
           closing' = closing \/ (closing = "no" /\ closing' = "closing"),
           \A c \in Connections : conn[c] = "gone" => conn'[c] = "gone"
    PROVE  Placed' /\ OneRuntime'
  <1>1. \A i \in Runtimes : runtime'[i].state \in {"opening", "starting", "live"}
                            => runtime'[i].state = runtime[i].state
    BY DEF StatesKept
  <1>2. \A i \in Runtimes : runtime'[i].state = "disposing"
                            => runtime[i].state \in {"live", "disposing"}
    BY DEF StatesKept
  <1>3. \A i \in Runtimes : InUse(i)' => InUse(i)
    BY <1>1, <1>2 DEF InUse
  <1>4. OneRuntime'
    BY <1>1, <1>2 DEF Inv, OneRuntime, InUse
  <1>5. Unopened' = Unopened
    BY DEF StatesKept, Unopened
  <1>6. entry # 0 => entry \in Runtimes
    BY EntryType DEF Inv
  <1>7. opening # 0 => opening \in Runtimes
    BY RuntimesType DEF Inv, Typed, ServerOK
  <1>8. /\ entry' # 0 => opening' = 0 /\ runtime'[entry'].state \in {"live", "disposing"}
        /\ line' # <<>> /\ entry' # 0 => runtime'[entry'].state = "disposing"
    BY <1>6 DEF Inv, Placed, StatesKept
  <1>9. opening' # 0 => runtime'[opening'].state \in {"opening", "starting", "disposing"}
    BY <1>7 DEF Inv, Placed, StatesKept
  <1>10. \A i \in Runtimes :
          /\ runtime'[i].state \in {"opening", "starting"} => i = opening'
          /\ runtime'[i].state = "starting" => closing' # "closed"
          /\ runtime'[i].state = "live" => i = entry'
          /\ runtime'[i].state = "disposing" => i \in {entry', opening'} \/ closing' = "closed"
    BY <1>1, <1>2 DEF Inv, Placed
  <1>11. /\ closing' = "closed" => entry' = 0 /\ \A c \in Connections : conn'[c] = "gone"
         /\ line' # <<>> => opening' # 0 \/ Unopened' # {}
    BY <1>5 DEF Inv, Placed
  <1> QED
    BY <1>4, <1>8, <1>9, <1>10, <1>11 DEF Placed

LEMMA MildRequestPlaced ==
    ASSUME Inv, NEW r \in Requests,
           Mild(r) \/ \E q \in Requests : AttachAndDetach(r, q)
    PROVE  Placed' /\ OneRuntime'
  <1>1. StatesKept
    BY MildRequest, PairKept
  <1>2. UNCHANGED <<conn, entry, opening, line, closing>>
    BY DEF Mild, Attach, AcquireLive, SnapshotEnds, Detach, DetachSnapshotEnds,
           AttachAndDetach
  <1> QED
    BY <1>1, <1>2, PlacedKept

LEMMA MildConnectionPlaced ==
    ASSUME Inv, NEW c \in Connections, Operate(c) \/ Disconnect(c)
    PROVE  Placed' /\ OneRuntime'
  <1>1. StatesKept
    BY MildConnection
  <1>2. UNCHANGED <<entry, opening, line, closing>>
    BY DEF Operate, Disconnect
  <1>3. conn' = conn \/ conn' = [conn EXCEPT ![c] = "gone"]
    BY DEF Operate, Disconnect
  <1>4. \A d \in Connections : conn[d] = "gone" => conn'[d] = "gone"
    BY <1>3 DEF Inv, Typed, ServerOK
  <1> QED
    BY <1>1, <1>2, <1>4, PlacedKept

LEMMA MildRuntimePlaced ==
    ASSUME Inv, NEW i \in Runtimes, OperationEnds(i) \/ RunEnds(i) \/ Terminate(i)
    PROVE  Placed' /\ OneRuntime'
  <1>1. StatesKept
    BY MildRuntime
  <1>2. UNCHANGED <<entry, opening, line, closing>>
    BY DEF OperationEnds, RunEnds, Terminate
  <1>3. \A d \in Connections : conn[d] = "gone" => conn'[d] = "gone"
    BY DEF OperationEnds, RunEnds, Terminate
  <1> QED
    BY <1>1, <1>2, <1>3, PlacedKept

(* Before the server has closed, what is in use is where Placed says.      *)
LEMMA InUseWhere ==
    ASSUME Inv, NEW i \in Runtimes, InUse(i)
    PROVE  closing # "closed" => i \in {entry, opening} /\ i # 0
  BY RuntimesType DEF Inv, Placed, InUse

LEMMA AwaitPlaced ==
    ASSUME Inv, NEW r \in Requests, Attach(r), Await(r)
    PROVE  Placed' /\ OneRuntime' /\ Settled'
  <1>1. /\ UNCHANGED <<conn, runtime, entry, opening, closing>> /\ line' = Append(line, r)
        /\ \/ opening # 0 /\ entry = 0
           \/ entry # 0 /\ runtime[entry].state = "disposing" /\ Unopened # {}
    BY DEF Attach, Await
  <1>2. Placed'
    BY <1>1 DEF Inv, Placed, Unopened
  <1>3. OneRuntime'
    BY <1>1 DEF Inv, OneRuntime, InUse
  <1>4. Settled'
    BY <1>1, Untouched DEF Inv
  <1> QED
    BY <1>2, <1>3, <1>4

(* A runtime that is the only one in use from now on. *)
LEMMA OnlyInUse ==
    ASSUME Inv, NEW i \in Runtimes, NEW state, SetState(i, state),
           \A j \in Runtimes \ {i} : ~InUse(j)
    PROVE  OneRuntime'
  BY DEF OneRuntime, InUse, SetState

LEMMA SettledElsewhere ==
    ASSUME Inv, NEW i \in Runtimes, NEW state, SetState(i, state), state # "live",
           closing' = closing
    PROVE  Settled'
  BY DEF Inv, Settled, SetState, AttendedBy

LEMMA AttachFirstPlaced ==
    ASSUME Inv, NEW r \in Requests, AttachFirst(r)
    PROVE  Placed' /\ OneRuntime' /\ Settled'
  <1> DEFINE i == NextRuntime
  <1>1. /\ i \in Runtimes /\ runtime[i].state = "none"
        /\ entry = 0 /\ opening = 0 /\ conn[Of(r)] = "ready"
        /\ entry' = 0 /\ opening' = i /\ line' = <<r>> /\ UNCHANGED <<conn, closing>>
    BY NextRuntimeType DEF AttachFirst, Receives, Unopened
  <1>2. runtime' = [runtime EXCEPT ![i].state = "opening"]
    BY DEF AttachFirst
  <1> HIDE DEF i
  <1>3. SetState(i, "opening")
    BY <1>1, <1>2 DEF SetState, Inv, Typed, RuntimesOK, LiveSession
  <1>4. closing # "closed"
    BY <1>1, OfType DEF Inv, Placed
  <1>5. \A j \in Runtimes : ~InUse(j)
    BY <1>1, <1>4, InUseWhere
  <1>6. OneRuntime' /\ Settled'
    BY <1>1, <1>3, <1>5, OnlyInUse, SettledElsewhere
  <1>7. Placed'
    BY <1>1, <1>3, <1>4, <1>5, RuntimesType DEF Placed, SetState, InUse
  <1> QED
    BY <1>6, <1>7

LEMMA OpeningPlaced ==
    ASSUME Inv, NEW i \in Runtimes, Acquired(i) \/ OpenDisposes(i)
    PROVE  Placed' /\ OneRuntime' /\ Settled'
  <1>1. PICK state \in {"starting", "disposing"} :
           /\ runtime' = [runtime EXCEPT ![i].state = state]
           /\ state = "starting" => closing = "no"
    BY DEF Acquired, OpenDisposes
  <1>2. /\ runtime[i].state \in {"opening", "starting"}
        /\ UNCHANGED <<conn, entry, opening, line, closing>>
    BY DEF Acquired, OpenDisposes
  <1>3. SetState(i, state)
    BY <1>1 DEF SetState, Inv, Typed, RuntimesOK, LiveSession
  <1>4. i = opening /\ entry = 0
    BY <1>2, RuntimesType DEF Inv, Placed
  <1>5. \A j \in Runtimes \ {i} : ~InUse(j)
    BY <1>2 DEF Inv, OneRuntime, InUse
  <1>6. OneRuntime' /\ Settled'
    BY <1>2, <1>3, <1>5, OnlyInUse, SettledElsewhere
  <1>7. Placed'
    BY <1>1, <1>2, <1>3, <1>4, <1>5, RuntimesType DEF Inv, Placed, SetState, InUse
  <1> QED
    BY <1>6, <1>7

LEMMA OpenEndsPlaced ==
    ASSUME Inv, NEW i \in Runtimes, OpenEnds(i)
    PROVE  Placed' /\ OneRuntime' /\ Settled'
  <1> DEFINE joining == {r \in Waiters : conn[Of(r)] = "ready"}
             first == OfAll(joining \cap {Head(line)})
             all == OfAll(joining)
             head == [Fresh EXCEPT !.state = "live", !.members = first]
             live == MaybeDispose(head)
  <1>1. /\ runtime[i].state = "starting"
        /\ opening' = 0 /\ entry' = i /\ line' = <<>> /\ UNCHANGED <<conn, closing>>
        /\ runtime' = [runtime EXCEPT ![i] = [live EXCEPT !.members = all]]
    BY DEF OpenEnds
  <1>2. first \subseteq Connections /\ all \subseteq Connections
    BY WaitersType, OfType DEF Inv
  <1>a. first \subseteq all
    BY DEF OfAll
  <1> HIDE DEF first, all
  <1>3. /\ head \in LiveSession /\ head.state = "live"
        /\ head.members = first
        /\ head.operations = 0 /\ head.busy = FALSE
    BY <1>2 DEF Fresh, LiveSession
  <1> HIDE DEF head
  <1>4. /\ live \in LiveSession /\ live.members = head.members
        /\ live.state \in {"live", "disposing"}
        /\ live.state = "live" /\ closing = "no" => live.members # {}
    <2>1. live = head \/ live.state = "disposing"
      BY <1>3, MaybeDisposeType
    <2>2. live.state = "live" /\ closing = "no" => AttendedBy(live)
      BY <1>3, MaybeDisposeType
    <2>3. live = head /\ AttendedBy(live) => live.members # {}
      BY <1>3 DEF AttendedBy
    <2>4. live \in LiveSession /\ live.members = head.members
      BY <1>3, MaybeDisposeType
    <2> QED
      BY <1>3, <2>1, <2>2, <2>3, <2>4
  <1> HIDE DEF live
  <1>5. /\ SetState(i, live.state) /\ runtime'[i].members = all
    BY <1>1, <1>2, <1>4 DEF SetState, Inv, Typed, RuntimesOK, LiveSession
  <1>6. i = opening /\ closing # "closed"
    BY <1>1 DEF Inv, Placed
  <1>7. \A j \in Runtimes \ {i} : ~InUse(j)
    BY <1>1 DEF Inv, OneRuntime, InUse
  <1>8. OneRuntime'
    BY <1>5, <1>7, OnlyInUse
  <1>9. live.state = "live" /\ closing = "no" => AttendedBy(runtime'[i])
    BY <1>3, <1>4, <1>5, <1>a DEF AttendedBy
  <1>10. Settled'
    BY <1>1, <1>5, <1>9 DEF Inv, Settled, SetState, AttendedBy
  <1>11. Placed'
    BY <1>1, <1>4, <1>5, <1>6, <1>7, RuntimesType DEF Placed, SetState, InUse
  <1> QED
    BY <1>8, <1>10, <1>11

LEMMA OpenFailsPlaced ==
    ASSUME Inv, NEW i \in Runtimes, OpenFails(i)
    PROVE  Placed' /\ OneRuntime' /\ Settled'
  <1>1. /\ runtime[i].state = "opening"
        /\ opening' = 0 /\ line' = <<>> /\ UNCHANGED <<conn, entry, closing>>
        /\ runtime' = [runtime EXCEPT ![i] = Gone]
    BY DEF OpenFails
  <1>2. SetState(i, "disposed")
    BY <1>1, FreshType DEF SetState, Inv, Typed, RuntimesOK
  <1>3. i = opening /\ entry = 0
    BY <1>1, RuntimesType DEF Inv, Placed
  <1>4. \A j \in Runtimes \ {i} : ~InUse(j)
    BY <1>1 DEF Inv, OneRuntime, InUse
  <1>5. OneRuntime' /\ Settled'
    BY <1>1, <1>2, <1>4, OnlyInUse, SettledElsewhere
  <1>6. Placed'
    BY <1>1, <1>2, <1>3, <1>4 DEF Inv, Placed, SetState, InUse
  <1> QED
    BY <1>5, <1>6

LEMMA DisposedPlaced ==
    ASSUME Inv, NEW i \in Runtimes, Disposed(i)
    PROVE  Placed' /\ OneRuntime' /\ Settled'
  <1>1. /\ runtime[i].state = "disposing"
        /\ entry' = IF entry = i THEN 0 ELSE entry
        /\ UNCHANGED <<conn, closing>>
    BY DEF Disposed
  <1>2. \A j \in Runtimes \ {i} : ~InUse(j)
    BY <1>1 DEF Inv, OneRuntime, InUse
  <1>3. entry' = 0
    <2>1. entry # 0 => entry \in Runtimes /\ InUse(entry)
      BY EntryType DEF Inv, Placed, InUse
    <2> QED
      BY <1>1, <1>2, <2>1
  <1>4. opening # 0 => opening = i
    <2>1. opening # 0 => opening \in Runtimes /\ InUse(opening)
      BY RuntimesType DEF Inv, Typed, ServerOK, Placed, InUse
    <2> QED
      BY <1>2, <2>1
  <1>5. CASE /\ opening' = 0 /\ line' = <<>>
             /\ runtime' = [runtime EXCEPT ![i] = Gone]
    <2>1. SetState(i, "disposed")
      BY <1>5, FreshType DEF SetState, Inv, Typed, RuntimesOK
    <2>2. OneRuntime' /\ Settled'
      BY <1>1, <1>2, <2>1, OnlyInUse, SettledElsewhere
    <2>3. Placed'
      BY <1>1, <1>2, <1>3, <1>5, <2>1 DEF Inv, Placed, SetState, InUse
    <2> QED
      BY <2>2, <2>3
  <1>6. CASE /\ opening = 0 /\ line # <<>> /\ opening' = NextRuntime /\ line' = line
             /\ runtime' = [runtime EXCEPT ![i] = Gone,
                                           ![NextRuntime].state = "opening"]
    <2> DEFINE n == NextRuntime
    <2>1. n \in Runtimes /\ runtime[n].state = "none" /\ n # i
      BY <1>1, <1>6, NextRuntimeType DEF Inv, Placed, Unopened
    <2> HIDE DEF n
    <2>2. /\ runtime' = [runtime EXCEPT ![i] = Gone, ![n].state = "opening"]
          /\ opening' = n
      BY <1>6 DEF n
    <2>3. /\ runtime'[n].state = "opening" /\ runtime'[i].state = "disposed"
          /\ \A j \in Runtimes \ {i, n} : runtime'[j] = runtime[j]
      BY <2>1, <2>2, FreshType DEF Inv, Typed, RuntimesOK, LiveSession
    <2>4. \A j \in Runtimes : InUse(j)' => j = n
      BY <1>2, <2>3 DEF InUse
    <2>5. OneRuntime'
      BY <1>2, <2>3 DEF OneRuntime, InUse
    <2>6. Settled'
      BY <1>1, <2>3 DEF Inv, Settled, AttendedBy
    <2>7. \A j \in Runtimes \ {n} :
             runtime'[j].state \notin {"opening", "starting", "live", "disposing"}
      BY <1>2, <2>3 DEF InUse
    <2>8. Placed'
      BY <1>1, <1>3, <1>6, <2>1, <2>2, <2>3, <2>7, RuntimesType DEF Inv, Placed
    <2> QED
      BY <2>5, <2>6, <2>8
  <1> QED
    BY <1>5, <1>6 DEF Disposed

LEMMA ClosePlaced ==
    ASSUME Inv, Close
    PROVE  Placed' /\ OneRuntime' /\ Settled'
  <1>1. /\ closing = "no" /\ closing' = "closing"
        /\ UNCHANGED <<entry, opening, line, runtime>>
        /\ \A c \in Connections : conn[c] = "gone" => conn'[c] = "gone"
    BY DEF Close
  <1>2. StatesKept /\ Settled'
    BY <1>1, Untouched DEF Inv
  <1> QED
    BY <1>1, <1>2, PlacedKept

LEMMA CloseSessionsPlaced ==
    ASSUME Inv, CloseSessions
    PROVE  Placed' /\ OneRuntime' /\ Settled'
  <1>1. /\ closing = "closing" /\ closing' = "closed"
        /\ \A c \in Connections : conn[c] = "gone"
        /\ opening = 0 /\ entry' = 0 /\ UNCHANGED <<conn, opening, line>>
        /\ entry = 0 => runtime' = runtime
        /\ entry # 0 => runtime' = [runtime EXCEPT ![entry].state = "disposing"]
    BY DEF CloseSessions
  <1>2. entry # 0 => SetState(entry, "disposing")
    BY <1>1, EntryType DEF SetState, Inv, Typed, RuntimesOK, LiveSession
  <1>3. \A i \in Runtimes : InUse(i) => i = entry
    BY <1>1, InUseWhere
  <1>4. Settled'
    BY <1>1 DEF Settled
  <1>5. \A i \in Runtimes : runtime'[i].state \in {"opening", "starting", "live", "disposing"}
                            => i = entry /\ runtime'[i].state = "disposing"
    <2>1. CASE entry = 0
      BY <1>1, <1>3, <2>1, RuntimesType DEF InUse
    <2>2. CASE entry # 0
      BY <1>2, <1>3, <2>2 DEF SetState, InUse
    <2> QED
      BY <2>1, <2>2
  <1>6. OneRuntime'
    BY <1>5 DEF OneRuntime, InUse
  <1>7. line # <<>> => Unopened' # {}
    <2>1. ASSUME NEW i \in Runtimes, runtime[i].state = "none"
          PROVE  runtime'[i].state = "none"
      <3>1. entry # 0 => i # entry
        BY <2>1 DEF Inv, Placed
      <3> QED
        BY <1>1, <1>2, <2>1, <3>1 DEF SetState
    <2>2. line # <<>> => Unopened # {}
      BY <1>1 DEF Inv, Placed
    <2> QED
      BY <2>1, <2>2 DEF Unopened
  <1>8. Placed'
    BY <1>1, <1>5, <1>7 DEF Placed
  <1> QED
    BY <1>4, <1>6, <1>8

LEMMA StepInv == Inv /\ [Next]_vars => Inv'
  <1> SUFFICES ASSUME Inv, [Next]_vars PROVE Inv'
    OBVIOUS
  <1>0. Typed /\ (line # <<>> /\ opening = 0 => Unopened # {})
    BY DEF Inv, Placed
  <1>1. ASSUME NEW r \in Requests, Mild(r) PROVE Inv'
    <2>1. Typed'
      BY <1>0, <1>1, RequestTyped DEF Mild
    <2> QED
      BY <1>1, <2>1, MildRequest, MildRequestPlaced DEF Inv
  <1>2. ASSUME NEW r \in Requests, (Attach(r) /\ Await(r)) \/ AttachFirst(r) PROVE Inv'
    BY <1>0, <1>2, RequestTyped, AwaitPlaced, AttachFirstPlaced DEF Inv
  <1>3. ASSUME NEW r \in Requests, NEW q \in Requests, AttachAndDetach(r, q) PROVE Inv'
    BY <1>0, <1>3, PairTyped, PairKept, MildRequestPlaced DEF Inv
  <1>4. ASSUME NEW c \in Connections, Operate(c) \/ Disconnect(c) PROVE Inv'
    BY <1>0, <1>4, ConnectionTyped, MildConnection, MildConnectionPlaced DEF Inv
  <1>8. ASSUME NEW r \in Requests, RequestStep(r) PROVE Inv'
    BY <1>1, <1>8 DEF RequestStep, Mild
  <1>9. ASSUME NEW c \in Connections, ConnectionEnds(c) \/ ClientStep(c) PROVE Inv'
    BY <1>1, <1>2, <1>3, <1>4, <1>9 DEF ConnectionEnds, ClientStep, Mild, Attach
  <1>5. ASSUME NEW i \in Runtimes, RuntimeStep(i) \/ Terminate(i) PROVE Inv'
    <2>1. Typed'
      BY <1>0, <1>5, RuntimeTyped
    <2>2. Placed' /\ OneRuntime' /\ Settled'
      BY <1>5, MildRuntime, MildRuntimePlaced, OpeningPlaced, OpenEndsPlaced,
         OpenFailsPlaced, DisposedPlaced DEF RuntimeStep, Opens
    <2> QED
      BY <2>1, <2>2 DEF Inv
  <1>6. CASE Close \/ CloseSessions
    BY <1>0, <1>6, CloseTyped, ClosePlaced, CloseSessionsPlaced DEF Inv
  <1>7. CASE UNCHANGED vars
    BY <1>7 DEF vars, Inv, Typed, RequestsOK, RuntimesOK, ServerOK, Placed, Unopened,
                OneRuntime, InUse, Settled, AttendedBy
  <1> QED
    BY <1>5, <1>6, <1>7, <1>8, <1>9 DEF Next, Quiet

LEMMA Invariance == Spec => []Inv
  BY InitInv, StepInv, PTL DEF Spec

(* Every variable of the server keeps its type, whatever connections and   *)
(* runtimes do.                                                            *)
THEOREM TypeCorrect == Spec => []TypeOK
  <1>1. Inv => TypeOK
    BY DEF Inv, Typed, RequestsOK, RuntimesOK, ServerOK, TypeOK
  <1> QED
    BY <1>1, Invariance, PTL

(* No session ever has two runtimes, for any number of connections and of  *)
(* runtimes opened.                                                        *)
THEOREM OneRuntimeOnly == Spec => []OneRuntime
  <1>1. Inv => OneRuntime
    BY DEF Inv
  <1> QED
    BY <1>1, Invariance, PTL

(* No live runtime is kept for nobody.                                     *)
THEOREM AlwaysAttended == Spec => []Attended
  <1>1. Inv => Attended
    BY DEF Inv, Settled, AttendedBy, Attended
  <1> QED
    BY <1>1, Invariance, PTL

=============================================================================
