---------------------------- MODULE LiveSessions ----------------------------
(***************************************************************************)
(* The server's LiveSessionManager, for one stored session: connections    *)
(* attach to it and detach from it, its runtime is opened for the first    *)
(* and disposed after the last, may fail by itself, and connections may    *)
(* close at any time, as may the server.                                   *)
(*                                                                         *)
(* A step is the code between two awaits of something slow: the service,   *)
(* the runtime, a transport.  What is resumed by one promise runs in one   *)
(* step, in the order in which it began to wait.                           *)
(***************************************************************************)
EXTENDS Naturals, Sequences, FiniteSets

CONSTANTS
    Connections,    \* the server's connections, ready to make requests
    MaxRequests,    \* bound of the model: a connection's requests at a time
    MaxRuntimes,    \* bound of the model: runtimes opened
    MaxOperations   \* bound of the model: operations under way at a time

ASSUME BoundsAssumption ==
    /\ MaxRequests \in Nat /\ MaxRuntimes \in Nat \ {0}
    /\ MaxOperations \in Nat

VARIABLES
    conn,       \* the connection's stage
    ids,        \* connections whose sessionIds has the session
    at,         \* the await at[r] of r, a request to attach or to detach
    ref,        \* ref[r]: the runtime that request holds, or 0
    told,       \* connections whose last answer says that they are attached
    entry,      \* the runtime in liveSessions, or 0
    opening,    \* the runtime in openingSessions, or 0
    line,       \* requests that wait for the opening, or for a disposal
    runtime,    \* LiveSession, by number
    closing     \* how far TheosesServer.close is

requestVars == <<at, ref, told>>
vars == <<conn, ids, at, ref, told, entry, opening, line, runtime, closing>>

Runtimes == 1..MaxRuntimes

(* A connection's requests are handled side by side, each by one of these. *)
Requests == Connections \X (1..MaxRequests)
Of(r) == r[1]
OfAll(requests) == {Of(r) : r \in requests}

LiveSession ==
    [state : {"none", "opening", "starting", "live", "disposing", "disposed"},
     members : SUBSET Connections, operations : Nat, busy : BOOLEAN,
     terminal : BOOLEAN]

TypeOK ==
    /\ conn \in [Connections -> {"ready", "closing", "gone"}]
    /\ ids \subseteq Connections /\ told \subseteq Connections
    /\ at \in [Requests -> {"idle", "line", "snapshot", "detach", "dispose"}]
    /\ ref \in [Requests -> 0..MaxRuntimes]
    /\ entry \in 0..MaxRuntimes /\ opening \in 0..MaxRuntimes
    /\ line \in Seq(Requests)
    /\ runtime \in [Runtimes -> LiveSession]
    /\ closing \in {"no", "closing", "closed"}

Fresh == [state |-> "none", members |-> {}, operations |-> 0, busy |-> FALSE,
          terminal |-> FALSE]

Init ==
    /\ conn = [c \in Connections |-> "ready"]
    /\ ids = {} /\ told = {}
    /\ at = [r \in Requests |-> "idle"]
    /\ ref = [r \in Requests |-> 0]
    /\ entry = 0 /\ opening = 0 /\ line = <<>>
    /\ runtime = [i \in Runtimes |-> Fresh]
    /\ closing = "no"

-----------------------------------------------------------------------------
(* Disposal. *)

(* maybeDispose: nobody is attached and nothing runs. *)
MaybeDispose(live) ==
    IF /\ closing = "no" /\ live.state = "live"
       /\ live.members = {} /\ live.operations = 0
       /\ live.terminal \/ ~live.busy
    THEN [live EXCEPT !.state = "disposing"] ELSE live

Left(live, c) == [live EXCEPT !.members = @ \ {c}]

Unopened == {i \in Runtimes : runtime[i].state = "none"}
NextRuntime == CHOOSE i \in Unopened : TRUE

(* Requests that await what has just been settled end.                     *)
EndRequests(requests) ==
    /\ at' = [r \in Requests |-> IF r \in requests THEN "idle" ELSE at[r]]
    /\ ref' = [r \in Requests |-> IF r \in requests THEN 0 ELSE ref[r]]

WaitingDisposal(i) == {r \in Requests : at[r] = "dispose" /\ ref[r] = i}

(* Nothing is asked of a runtime that has been disposed.                   *)
Gone == [Fresh EXCEPT !.state = "disposed"]

-----------------------------------------------------------------------------
(* Attaching. *)

Goto(r, place, i) ==
    /\ at' = [at EXCEPT ![r] = place]
    /\ ref' = [ref EXCEPT ![r] = i]

(* handleRequest, for a request that need not wait for the others.         *)
Receives(r) == conn[Of(r)] = "ready" /\ at[r] = "idle"

Joined(live, c) == [live EXCEPT !.members = @ \cup {c}]

(* acquire finds the session live, and attach adds the connection.         *)
AcquireLive(r) ==
    /\ entry # 0 /\ ~runtime[entry].terminal /\ runtime[entry].state = "live"
    /\ ids' = ids \cup {Of(r)}
    /\ runtime' = [runtime EXCEPT ![entry] = Joined(@, Of(r))]
    /\ Goto(r, "snapshot", entry)
    /\ UNCHANGED line

(* acquire waits: for the disposal to end or for the opening.              *)
Await(r) ==
    /\ \/ opening # 0 /\ entry = 0
       \/ /\ entry # 0 /\ runtime[entry].state = "disposing"
          /\ ~runtime[entry].terminal /\ Unopened # {}
    /\ line' = Append(line, r)
    /\ Goto(r, "line", 0)
    /\ UNCHANGED <<ids, runtime>>

(* A request to attach.  One that finds the runtime terminal is refused    *)
(* with session_locked, and changes nothing.                               *)
Attach(r) ==
    /\ Receives(r)
    /\ AcquireLive(r) \/ Await(r)
    /\ UNCHANGED <<conn, told, entry, opening, closing>>

(* Mutant: an opening under way is not joined. *)
AttachFirstAgain(r) ==
    /\ Receives(r)
    /\ entry = 0 /\ Unopened # {}
    /\ opening' = NextRuntime
    /\ runtime' = [runtime EXCEPT ![NextRuntime].state = "opening"]
    /\ line' = Append(line, r)
    /\ Goto(r, "line", 0)
    /\ UNCHANGED <<conn, ids, told, entry, closing>>

(* The first request to attach asks the service for a runtime.             *)
AttachFirst(r) ==
    /\ Receives(r)
    /\ entry = 0 /\ opening = 0 /\ Unopened # {}
    /\ opening' = NextRuntime
    /\ runtime' = [runtime EXCEPT ![NextRuntime].state = "opening"]
    /\ line' = <<r>>
    /\ Goto(r, "line", 0)
    /\ UNCHANGED <<conn, ids, told, entry, closing>>

Waiters == {line[n] : n \in DOMAIN line}

(* Mutant: create does not look whether the server closes.                 *)
AcquiredAnyway(i) ==
    /\ runtime[i].state = "opening"
    /\ runtime' = [runtime EXCEPT ![i].state = "starting"]
    /\ UNCHANGED <<conn, ids, at, ref, told, entry, opening, line, closing>>

(* create has got the runtime and asks for its first snapshot.             *)
Acquired(i) ==
    /\ runtime[i].state = "opening" /\ closing = "no"
    /\ runtime' = [runtime EXCEPT ![i].state = "starting"]
    /\ UNCHANGED <<conn, ids, at, ref, told, entry, opening, line, closing>>

(* Mutant: a connection that closed while it waited is attached.           *)
OpenEndsWithAll(i) ==
    LET joining == Waiters
        live == MaybeDispose([Fresh EXCEPT
                   !.state = "live", !.members = OfAll(joining \cap {Head(line)})])
    IN  /\ runtime[i].state = "starting"
        /\ opening' = 0 /\ entry' = i /\ line' = <<>>
        /\ ids' = ids \cup OfAll(joining)
        /\ runtime' = [runtime EXCEPT ![i] = [live EXCEPT !.members = OfAll(joining)]]
        /\ at' = [r \in Requests |->
                    IF r \notin Waiters THEN at[r]
                    ELSE IF r \in joining THEN "snapshot"
                    ELSE IF live.state = "live" THEN "idle" ELSE "dispose"]
        /\ ref' = [r \in Requests |->
                    IF r \in Waiters /\ at'[r] # "idle" THEN i ELSE ref[r]]
        /\ UNCHANGED <<conn, told, closing>>

(* create: the session is live, and those who waited attach in turn.  One  *)
(* whose connection is not ready disposes of it when nobody came before.   *)
OpenEnds(i) ==
    LET joining == {r \in Waiters : conn[Of(r)] = "ready"}
        live == MaybeDispose([Fresh EXCEPT
                   !.state = "live", !.members = OfAll(joining \cap {Head(line)})])
    IN  /\ runtime[i].state = "starting"
        /\ opening' = 0 /\ entry' = i /\ line' = <<>>
        /\ ids' = ids \cup OfAll(joining)
        /\ runtime' = [runtime EXCEPT ![i] = [live EXCEPT !.members = OfAll(joining)]]
        /\ at' = [r \in Requests |->
                    IF r \notin Waiters THEN at[r]
                    ELSE IF r \in joining THEN "snapshot"
                    ELSE IF live.state = "live" THEN "idle" ELSE "dispose"]
        /\ ref' = [r \in Requests |->
                    IF r \in Waiters /\ at'[r] # "idle" THEN i ELSE ref[r]]
        /\ UNCHANGED <<conn, told, closing>>

(* The service has no runtime to give: every waiting request fails.        *)
OpenFails(i) ==
    /\ runtime[i].state = "opening"
    /\ opening' = 0 /\ line' = <<>>
    /\ runtime' = [runtime EXCEPT ![i] = Gone]
    /\ EndRequests(Waiters)
    /\ UNCHANGED <<conn, ids, told, entry, closing>>

(* The server closes before the runtime is there, or its first snapshot    *)
(* fails: it is disposed before the waiting requests fail.                 *)
OpenDisposes(i) ==
    /\ \/ runtime[i].state = "opening" /\ closing # "no"
       \/ runtime[i].state = "starting"
    /\ runtime' = [runtime EXCEPT ![i].state = "disposing"]
    /\ UNCHANGED <<conn, ids, at, ref, told, entry, opening, line, closing>>

(* broadcastSnapshot at the end of an attach: the answer says whether the  *)
(* connection is attached; or the snapshot fails, and so does the request. *)
SnapshotEnds(r) ==
    LET c == Of(r)
    IN  /\ at[r] = "snapshot"
        /\ Goto(r, "idle", 0)
        /\ told' \in {told \ {c}, IF c \in ids THEN told \cup {c} ELSE told}
        /\ UNCHANGED <<conn, ids, entry, opening, line, runtime, closing>>

-----------------------------------------------------------------------------
(* Detaching, operations and runs. *)

(* What a detach does after its snapshot, if it needed one.                *)
EndDetach(r, i, live) ==
    /\ runtime' = [runtime EXCEPT ![i] = MaybeDispose(live)]
    /\ IF runtime'[i].state = "disposing" THEN Goto(r, "dispose", i)
       ELSE Goto(r, "idle", 0)

Detach(r) ==
    LET c == Of(r)
        live == Left(runtime[entry], c)
    IN  /\ Receives(r) /\ c \in ids
        /\ ids' = ids \ {c} /\ told' = told \ {c}
        /\ \/ entry = 0 /\ UNCHANGED <<at, ref, runtime>>
           \/ /\ entry # 0
              /\ IF live.members # {} /\ ~live.terminal /\ live.state = "live"
                 THEN /\ runtime' = [runtime EXCEPT ![entry] = live]
                      /\ Goto(r, "detach", entry)
                 ELSE EndDetach(r, entry, live)
        /\ UNCHANGED <<conn, entry, opening, line, closing>>

(* A request to attach and one to detach, q, of a connection that is       *)
(* attached arrive together.  The detach is handled between acquire and    *)
(* attach, so it may dispose of what attach joins.                         *)
AttachAndDetach(r, q) ==
    LET c == Of(r)
        left == MaybeDispose(Left(runtime[entry], c))
        detaching == IF left.state = "disposing" THEN "dispose"
                     ELSE IF left.members # {} THEN "detach" ELSE "idle"
    IN  /\ Receives(r) /\ Receives(q) /\ r # q /\ Of(q) = c
        /\ entry # 0 /\ ~runtime[entry].terminal /\ runtime[entry].state = "live"
        /\ c \in ids /\ told' = told \ {c}
        /\ runtime' = [runtime EXCEPT ![entry] = Joined(left, c)]
        /\ at' = [at EXCEPT ![r] = "snapshot", ![q] = detaching]
        /\ ref' = [ref EXCEPT ![r] = entry,
                              ![q] = IF detaching = "idle" THEN 0 ELSE entry]
        /\ UNCHANGED <<conn, ids, entry, opening, line, closing>>

(* The snapshot for those who stay was sent, or failed.                    *)
DetachSnapshotEnds(r) ==
    /\ at[r] = "detach"
    /\ \/ EndDetach(r, ref[r], runtime[ref[r]])
       \/ Goto(r, "idle", 0) /\ UNCHANGED runtime
    /\ UNCHANGED <<conn, ids, told, entry, opening, line, closing>>

(* runOperation; a prompt starts a run, which may outlast it.              *)
Operate(c) ==
    /\ conn[c] = "ready" /\ c \in ids /\ entry # 0
    /\ runtime[entry].state = "live" /\ ~runtime[entry].terminal
    /\ runtime[entry].operations < MaxOperations
    /\ \E prompt \in BOOLEAN :
          runtime' = [runtime EXCEPT ![entry].operations = @ + 1,
                                     ![entry].busy = @ \/ prompt]
    /\ UNCHANGED <<conn, ids, at, ref, told, entry, opening, line, closing>>

(* Mutant: an operation that ends does not look whether it was the last.   *)
OperationEndsOnly(i) ==
    /\ runtime[i].operations > 0
    /\ runtime' = [runtime EXCEPT ![i].operations = @ - 1]
    /\ UNCHANGED <<conn, ids, at, ref, told, entry, opening, line, closing>>

OneLess(live) == [live EXCEPT !.operations = @ - 1]

OperationEnds(i) ==
    /\ runtime[i].operations > 0
    /\ runtime' = [runtime EXCEPT ![i] = MaybeDispose(OneLess(@))]
    /\ UNCHANGED <<conn, ids, at, ref, told, entry, opening, line, closing>>

(* The runtime becomes idle and says so, to handleRuntimeEvent unless it   *)
(* has unsubscribed.                                                       *)
RunEnds(i) ==
    /\ runtime[i].busy
    /\ runtime' = [runtime EXCEPT
          ![i] = LET idle == [@ EXCEPT !.busy = FALSE]
                 IN  IF idle.terminal THEN idle ELSE MaybeDispose(idle)]
    /\ UNCHANGED <<conn, ids, at, ref, told, entry, opening, line, closing>>

(* terminate: the runtime reports an error, and all who are attached are   *)
(* closed.                                                                 *)
Terminate(i) ==
    /\ runtime[i].state = "live" /\ ~runtime[i].terminal
    /\ conn' = [c \in Connections |->
                  IF c \in runtime[i].members /\ conn[c] = "ready"
                  THEN "closing" ELSE conn[c]]
    /\ runtime' = [runtime EXCEPT ![i] = MaybeDispose([@ EXCEPT !.terminal = TRUE])]
    /\ UNCHANGED <<ids, at, ref, told, entry, opening, line, closing>>

(* Mutant: the requests that waited for the disposal are forgotten.        *)
DisposedForgets(i) ==
    /\ runtime[i].state = "disposing"
    /\ entry' = IF entry = i THEN 0 ELSE entry
    /\ opening' = 0
    /\ EndRequests(WaitingDisposal(i))
    /\ runtime' = [runtime EXCEPT ![i] = Gone]
    /\ UNCHANGED <<conn, ids, told, line, closing>>

(* runtime.dispose has ended.  Requests that waited for it start over: the *)
(* first asks the service again and the others join it.  When it failed,   *)
(* they fail as well.                                                      *)
Disposed(i) ==
    /\ runtime[i].state = "disposing"
    /\ entry' = IF entry = i THEN 0 ELSE entry
    /\ \/ /\ opening = i
          /\ opening' = 0 /\ line' = <<>>
          /\ runtime' = [runtime EXCEPT ![i] = Gone]
          /\ EndRequests(Waiters)
       \/ /\ opening = 0 /\ line' = <<>>
          /\ runtime' = [runtime EXCEPT ![i] = Gone]
          /\ EndRequests(WaitingDisposal(i) \cup Waiters)
          /\ UNCHANGED opening
       \/ /\ opening = 0 /\ line # <<>>
          /\ opening' = NextRuntime
          /\ runtime' = [runtime EXCEPT ![i] = Gone,
                                        ![NextRuntime].state = "opening"]
          /\ EndRequests(WaitingDisposal(i))
          /\ UNCHANGED line
    /\ UNCHANGED <<conn, ids, told, closing>>

-----------------------------------------------------------------------------
(* Connections and the server close. *)

(* disconnect: the client closes its connection, or the server has.        *)
Disconnect(c) ==
    /\ conn[c] # "gone"
    /\ conn' = [conn EXCEPT ![c] = "gone"]
    /\ ids' = ids \ {c} /\ told' = told \ {c}
    /\ runtime' = IF c \in ids /\ entry # 0
                  THEN [runtime EXCEPT ![entry] = MaybeDispose(Left(@, c))]
                  ELSE runtime
    /\ UNCHANGED <<at, ref, entry, opening, line, closing>>

Close ==
    /\ closing = "no" /\ closing' = "closing"
    /\ conn' = [c \in Connections |->
                  IF conn[c] = "ready" THEN "closing" ELSE conn[c]]
    /\ UNCHANGED <<ids, at, ref, told, entry, opening, line, runtime>>

(* LiveSessionManager.close: all connections are gone and what was being   *)
(* opened is settled; a live runtime is disposed.                          *)
CloseSessions ==
    /\ closing = "closing" /\ closing' = "closed"
    /\ \A c \in Connections : conn[c] = "gone"
    /\ opening = 0
    /\ entry' = 0
    /\ runtime' = IF entry = 0 THEN runtime
                  ELSE [runtime EXCEPT ![entry].state = "disposing"]
    /\ UNCHANGED <<conn, ids, at, ref, told, opening, line>>

-----------------------------------------------------------------------------

Opens(i) == Acquired(i) \/ OpenEnds(i) \/ OpenFails(i) \/ OpenDisposes(i)

RuntimeStep(i) ==
    \/ Opens(i)
    \/ OperationEnds(i) \/ RunEnds(i) \/ Disposed(i)

RequestStep(r) == SnapshotEnds(r) \/ DetachSnapshotEnds(r)
ConnectionEnds(c) == conn[c] = "closing" /\ Disconnect(c)

ClientStep(c) ==
    \/ \E r \in Requests :
          /\ Of(r) = c
          /\ \/ Attach(r) \/ AttachFirst(r) \/ Detach(r)
             \/ \E q \in Requests : AttachAndDetach(r, q)
    \/ Operate(c)
    \/ conn[c] = "ready" /\ Disconnect(c)

InUse(i) == runtime[i].state \in {"opening", "starting", "live", "disposing"}

(* The server has closed. *)
Quiet == closing = "closed" /\ UNCHANGED vars

Next ==
    \/ \E i \in Runtimes : RuntimeStep(i) \/ Terminate(i)
    \/ \E r \in Requests : RequestStep(r)
    \/ \E c \in Connections : ConnectionEnds(c) \/ ClientStep(c)
    \/ Close \/ CloseSessions \/ Quiet

(* The service, its runtimes and the transports answer in the end; nothing *)
(* is assumed of clients.                                                  *)
Fairness ==
    /\ \A i \in Runtimes : WF_vars(Opens(i))
    /\ \A i \in Runtimes : WF_vars(OperationEnds(i)) /\ WF_vars(RunEnds(i))
    /\ \A i \in Runtimes : WF_vars(Disposed(i))
    /\ \A r \in Requests : WF_vars(RequestStep(r))
    /\ \A c \in Connections : WF_vars(ConnectionEnds(c))
    /\ WF_vars(CloseSessions)

Spec == Init /\ [][Next]_vars
FairSpec == Spec /\ Fairness

-----------------------------------------------------------------------------
(* Properties. *)

(* The service is never asked for a runtime of a session while an earlier  *)
(* one is not disposed, so two runtimes never write one session's log      *)
(* (acquire, create, maybeDispose, close).                                 *)
OneRuntime == \A i, j \in Runtimes : InUse(i) /\ InUse(j) => i = j

(* No runtime is kept for nobody: a live one has a connection, an          *)
(* operation or, unless it failed, a run, until the server closes.  Each   *)
(* of these may end last (maybeDispose and all who call it).               *)
Attended ==
    \A i \in Runtimes :
        runtime[i].state = "live" /\ closing = "no" =>
            \/ runtime[i].members # {} \/ runtime[i].operations > 0
            \/ runtime[i].busy /\ ~runtime[i].terminal

(* A request to attach is answered, whether the session it waits for       *)
(* opens, fails to, or is disposed and opened again (acquire's loop, as    *)
(* far as MaxRuntimes lets it go round).                                   *)
AttachEnds == \A r \in Requests : at[r] = "line" ~> at[r] = "idle"

(* A session that all clients have left, while it opened, ran or was       *)
(* disposed, does not keep its runtime: nobody is counted as attached who  *)
(* is gone (attach, disconnect, maybeDispose).                             *)
AbandonedEnds ==
    (\A c \in Connections : conn[c] = "gone") ~> (\A i \in Runtimes : ~InUse(i))

(* When the server closes, every runtime is disposed for good, those       *)
(* included that were being opened or that a waiting request opens after   *)
(* the sessions were closed.                                               *)
ClosedForGood ==
    closing = "closing" ~> [](\A i \in Runtimes : ~InUse(i))

-----------------------------------------------------------------------------
(* What the documentation claims and the code does not do (see README).    *)

(* A connection that was told that it is attached is a member of a live    *)
(* session, which is not being disposed, until it asks to detach, closes   *)
(* or the runtime fails (attach against maybeDispose).                     *)
ToldAttached ==
    \A c \in told : conn[c] = "ready" =>
        /\ entry # 0 /\ c \in runtime[entry].members
        /\ runtime[entry].state = "live"

==============================================================================
