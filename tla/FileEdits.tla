------------------------------ MODULE FileEdits ------------------------------
(***************************************************************************)
(* withFileMutationQueue and the edit and write tools that run inside it.  *)
(* A step is the code between two awaits: the chain of registrations, each *)
(* of which resolves a real path; the chain of promises per real path; and *)
(* the file operations of the tool, with the abort signal tested after     *)
(* every one of them and never listened to.                                *)
(***************************************************************************)
EXTENDS Naturals, Sequences

CONSTANTS
    Ops,        \* calls of the edit and write tools
    Files,      \* files, by their real paths
    Paths,      \* the paths calls name, real ones and symbolic links
    Target,     \* the file each path leads to
    Path,       \* the path each call names
    Rewrites,   \* the calls of the write tool; the others edit
    Abortable,  \* bound of the model: the calls whose signal may be aborted
    Missing,    \* the contents of a file that does not exist
    NoOp        \* the value of an empty queue entry

ASSUME NoOpAssumption == NoOp \notin Ops

ASSUME PathsAssumption ==
    /\ Files \subseteq Paths
    /\ Target \in [Paths -> Files] /\ \A f \in Files : Target[f] = f
    /\ Path \in [Ops -> Paths] /\ Rewrites \subseteq Ops
    /\ Missing \notin Seq(Ops)

VARIABLES
    content,        \* content[f]: the file's contents
    made,           \* history: how many calls were made
    turn,           \* history: the number of the call, 0 if it was not made
    result,         \* result[o]: what the call's promise resolved to
    registrations,  \* the calls in the registrationQueue chain
    queues,         \* fileMutationQueues: the call whose chainedQueue a key has
    at,             \* at[o]: the await the call is at
    key,            \* key[o]: its real path, as resolved
    before,         \* before[o]: the call whose chainedQueue is its currentQueue
    seen,           \* seen[o]: the contents it read
    aborted         \* the calls whose signal is aborted

vars == <<content, made, turn, result, registrations, queues, at, key, before,
          seen, aborted>>

(* To AtomicEdits, an edit that has written and searches for its hint has  *)
(* reported already: nothing that follows can make it fail.                *)
reported == [o \in Ops |-> IF at[o] = "hint" THEN "ok" ELSE result[o]]

Atomic == INSTANCE AtomicEdits WITH content <- content, made <- made,
                                    turn <- turn, result <- reported

FileOf(o) == Atomic!FileOf(o)

Holding == {"open", "read", "write", "hint"}
Places == {"new", "registering", "waiting", "ended"} \cup Holding

TypeOK ==
    /\ content \in [Files -> Atomic!Contents]
    /\ made \in Nat /\ turn \in [Ops -> Nat]
    /\ result \in [Ops -> {"none", "ok", "failed"}]
    /\ registrations \in Seq(Ops)
    /\ queues \in [Paths -> Ops \cup {NoOp}]
    /\ at \in [Ops -> Places]
    /\ key \in [Ops -> Paths]
    /\ before \in [Ops -> Ops \cup {NoOp}]
    /\ seen \in [Ops -> Atomic!Contents]
    /\ aborted \subseteq Ops

Init ==
    /\ content \in [Files -> {<<>>, Missing}]
    /\ made = 0 /\ turn = [o \in Ops |-> 0]
    /\ result = [o \in Ops |-> "none"]
    /\ registrations = <<>>
    /\ queues = [p \in Paths |-> NoOp]
    /\ at = [o \in Ops |-> "new"]
    /\ key = Path
    /\ before = [o \in Ops |-> NoOp]
    /\ seen = [o \in Ops |-> Missing]
    /\ aborted = {}

-----------------------------------------------------------------------------
(* Registration. *)

Goto(o, place) == at' = [at EXCEPT ![o] = place]

Call(o) ==
    /\ at[o] = "new"
    /\ Goto(o, "registering")
    /\ made' = made + 1 /\ turn' = [turn EXCEPT ![o] = made + 1]
    /\ registrations' = Append(registrations, o)
    /\ UNCHANGED <<content, result, queues, key, before, seen, aborted>>

(* Mutant: the path is not resolved. *)
KeyAsNamed(o) == Path[o]

(* getMutationQueueKey: the real path; of a path that leads nowhere yet,   *)
(* the path itself under its nearest existing ancestor.                    *)
KeyOf(o) == IF content[FileOf(o)] = Missing THEN Path[o] ELSE FileOf(o)

NextToRegister(o) == registrations # <<>> /\ o = Head(registrations)

Register(o) ==
    /\ NextToRegister(o)
    /\ registrations' = Tail(registrations)
    /\ key' = [key EXCEPT ![o] = KeyOf(o)]
    /\ before' = [before EXCEPT ![o] = queues[KeyOf(o)]]
    /\ queues' = [queues EXCEPT ![KeyOf(o)] = o]
    /\ Goto(o, "waiting")
    /\ UNCHANGED <<content, made, turn, result, seen, aborted>>

(* realpath fails, and not because the path is missing.                    *)
RegistrationFails(o) ==
    /\ NextToRegister(o)
    /\ registrations' = Tail(registrations)
    /\ Goto(o, "ended")
    /\ result' = [result EXCEPT ![o] = "failed"]
    /\ UNCHANGED <<content, made, turn, queues, key, before, seen, aborted>>

-----------------------------------------------------------------------------
(* Holding the queue. *)

(* Mutant: the entry stays when the last call of a key has ended.          *)
ReleaseKeeping(o, r) ==
    /\ Goto(o, "ended")
    /\ result' = [result EXCEPT ![o] = r]
    /\ UNCHANGED queues

(* The finally of withFileMutationQueue. *)
Release(o, r) ==
    /\ Goto(o, "ended")
    /\ result' = [result EXCEPT ![o] = r]
    /\ queues' = IF queues[key[o]] = o
                 THEN [queues EXCEPT ![key[o]] = NoOp] ELSE queues

(* Mutant: only a call that succeeds releases the next one. *)
AfterSuccess(o) == before[o] # NoOp => result[before[o]] = "ok"

(* currentQueue has resolved. *)
MyTurn(o) == before[o] # NoOp => at[before[o]] = "ended"

Begin(o) ==
    /\ at[o] = "waiting" /\ MyTurn(o)
    /\ IF o \in aborted THEN Release(o, "failed")
       ELSE Goto(o, "open") /\ UNCHANGED <<result, queues>>
    /\ UNCHANGED <<content, made, turn, registrations, key, before, seen,
                   aborted>>

(* access of the edit tool, mkdir of the write tool. *)
OpenEnds(o) ==
    /\ at[o] = "open"
    /\ \/ Release(o, "failed")
       \/ /\ o \notin aborted
          /\ o \in Rewrites \/ content[FileOf(o)] # Missing
          /\ Goto(o, IF o \in Rewrites THEN "write" ELSE "read")
          /\ UNCHANGED <<result, queues>>
    /\ UNCHANGED <<content, made, turn, registrations, key, before, seen,
                   aborted>>

(* The edit tool has read; its texts may not be found in what it read.     *)
ReadEnds(o) ==
    /\ at[o] = "read"
    /\ \/ Release(o, "failed") /\ UNCHANGED seen
       \/ /\ o \notin aborted
          /\ content[FileOf(o)] # Missing
          /\ seen' = [seen EXCEPT ![o] = content[FileOf(o)]]
          /\ Goto(o, "write")
          /\ UNCHANGED <<result, queues>>
    /\ UNCHANGED <<content, made, turn, registrations, key, before, aborted>>

(* The file is written, or left truncated or alone by an error.  An edit   *)
(* then may search the project for a hint.                                 *)
WriteEnds(o) ==
    /\ at[o] = "write"
    /\ \/ /\ content' = [content EXCEPT ![FileOf(o)] = Atomic!Applied(o, seen[o])]
          /\ \/ Release(o, IF o \in aborted THEN "failed" ELSE "ok")
             \/ /\ o \notin Rewrites \cup aborted
                /\ Goto(o, "hint") /\ UNCHANGED <<result, queues>>
       \/ /\ content' = [content EXCEPT ![FileOf(o)] = <<>>]
          /\ Release(o, "failed")
       \/ UNCHANGED content /\ Release(o, "failed")
    /\ UNCHANGED <<made, turn, registrations, key, before, seen, aborted>>

(* siblingHint never throws, and no abort is looked for after it. *)
HintEnds(o) ==
    /\ at[o] = "hint"
    /\ Release(o, "ok")
    /\ UNCHANGED <<content, made, turn, registrations, key, before, seen,
                   aborted>>

(* Mutant: an abort rejects the tool's promise while its write goes on.    *)
AbortReleases(o) ==
    /\ o \in Abortable \ aborted /\ at[o] \notin {"new", "ended"}
    /\ aborted' = aborted \cup {o}
    /\ IF at[o] \in Holding
       THEN queues' = [queues EXCEPT ![key[o]] = NoOp]
       ELSE UNCHANGED queues
    /\ UNCHANGED <<content, made, turn, result, registrations, at, key,
                   before, seen>>

Abort(o) ==
    /\ o \in Abortable \ aborted /\ at[o] \notin {"new", "ended"}
    /\ aborted' = aborted \cup {o}
    /\ UNCHANGED <<content, made, turn, result, registrations, queues, at,
                   key, before, seen>>

(* The step a call takes by itself. *)
Step(o) ==
    \/ Register(o) \/ RegistrationFails(o)
    \/ Begin(o) \/ OpenEnds(o) \/ ReadEnds(o) \/ WriteEnds(o)
    \/ HintEnds(o)

(* Every call has ended. *)
Quiet == (\A o \in Ops : at[o] = "ended") /\ UNCHANGED vars

Next == (\E o \in Ops : Call(o) \/ Abort(o) \/ Step(o)) \/ Quiet

(* Path resolution and file operations end, well or in an error.           *)
Fairness == \A o \in Ops : WF_vars(Step(o))

(* No path is a symbolic link to a file that does not exist.               *)
NoDanglingLinks == \A p \in Paths \ Files : content[Target[p]] # Missing

Spec == Init /\ [][Next]_vars
LinkedInit == Init /\ NoDanglingLinks
LinkedSpec == LinkedInit /\ [][Next]_vars /\ Fairness

-----------------------------------------------------------------------------
(* Properties. *)

(* Two tools are never at one file together, by whatever paths that lead   *)
(* to a file they name it, however the calls before them ended and         *)
(* whenever they are aborted (withFileMutationQueue).  It holds where no   *)
(* link dangles: before its file exists a link is a key of its own.        *)
MutualExclusion ==
    \A o, p \in Ops : o # p /\ FileOf(o) = FileOf(p) /\ at[o] \in Holding
                      => at[p] \notin Holding

(* The map of queues holds an entry for exactly the real paths somebody    *)
(* holds or waits for, so it does not grow with the files ever edited.     *)
QueuesHeld ==
    \A p \in Paths : queues[p] # NoOp <=>
        \E o \in Ops : key[o] = p /\ at[o] \in Holding \cup {"waiting"}

(* The tools change files as if each did so in one step, in the order of   *)
(* the calls; as MutualExclusion, where no link dangles.                   *)
Serializable == Atomic!Spec

(* Every call of a tool ends, also behind calls that failed, were aborted  *)
(* or could not be registered.                                             *)
CallsEnd == \A o \in Ops : at[o] = "registering" ~> at[o] = "ended"

==============================================================================
