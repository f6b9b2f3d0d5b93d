----------------------------- MODULE AtomicEdits -----------------------------
(***************************************************************************)
(* What the edit and write tools promise together: each call changes its   *)
(* file in one step, or reports a failure, and calls that change the same  *)
(* file do so in the order in which they were made.  FileEdits shows that  *)
(* the tools keep it, where no link dangles, although each of them reads,   *)
(* computes and writes with awaits in between.                             *)
(***************************************************************************)
EXTENDS Naturals, Sequences

CONSTANTS
    Ops,        \* calls of the edit and write tools
    Files,      \* files, by their real paths
    Paths,      \* the paths calls name, real ones and symbolic links
    Target,     \* the file each path leads to
    Path,       \* the path each call names
    Rewrites,   \* the calls of the write tool; the others edit
    Missing     \* the contents of a file that does not exist

FileOf(o) == Target[Path[o]]

(* Contents are the calls applied since the file was last written whole.   *)
Contents == Seq(Ops) \cup {Missing}

(* What a call makes of the contents it has read.                          *)
Applied(o, text) == IF o \in Rewrites THEN <<o>> ELSE Append(text, o)

VARIABLES
    content,    \* content[f]: the file's contents
    made,       \* how many calls were made
    turn,       \* turn[o]: the number of call o, 0 if it was not made
    result      \* result[o]: what call o reported

vars == <<content, made, turn, result>>

TypeOK ==
    /\ content \in [Files -> Contents]
    /\ made \in Nat /\ turn \in [Ops -> Nat]
    /\ result \in [Ops -> {"none", "ok", "failed"}]

Init ==
    /\ content \in [Files -> {<<>>, Missing}]
    /\ made = 0 /\ turn = [o \in Ops |-> 0]
    /\ result = [o \in Ops |-> "none"]

(* The call is made, after all the calls made before it.                   *)
Call(o) ==
    /\ turn[o] = 0
    /\ made' = made + 1
    /\ turn' = [turn EXCEPT ![o] = made + 1]
    /\ UNCHANGED <<content, result>>

(* No earlier call on the same file is still to report.                    *)
IsNext(o) ==
    \A p \in Ops : /\ 0 < turn[p] /\ turn[p] < turn[o]
                   /\ FileOf(p) = FileOf(o)
                   => result[p] # "none"

(* The file changes and the call reports; it reports a failure if it was   *)
(* aborted while it wrote.                                                 *)
Change(o) ==
    /\ turn[o] > 0 /\ result[o] = "none" /\ IsNext(o)
    /\ o \in Rewrites \/ content[FileOf(o)] # Missing
    /\ content' = [content EXCEPT ![FileOf(o)] = Applied(o, @)]
    /\ \E r \in {"ok", "failed"} : result' = [result EXCEPT ![o] = r]
    /\ UNCHANGED <<made, turn>>

(* A write that fails half way leaves the file truncated.                  *)
Truncate(o) ==
    /\ turn[o] > 0 /\ result[o] = "none" /\ IsNext(o)
    /\ content' = [content EXCEPT ![FileOf(o)] = <<>>]
    /\ result' = [result EXCEPT ![o] = "failed"]
    /\ UNCHANGED <<made, turn>>

(* The call fails and leaves its file alone.                               *)
Refuse(o) ==
    /\ turn[o] > 0 /\ result[o] = "none"
    /\ result' = [result EXCEPT ![o] = "failed"]
    /\ UNCHANGED <<content, made, turn>>

Next == \E o \in Ops : Call(o) \/ Change(o) \/ Truncate(o) \/ Refuse(o)

Spec == Init /\ [][Next]_vars

==============================================================================
