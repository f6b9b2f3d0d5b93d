------------------------ MODULE PendingMessageQueue ------------------------
(***************************************************************************)
(* The agent's PendingMessageQueue (agent/src/agent.ts): a FIFO of         *)
(* messages that drain() empties according to the queue's mode.            *)
(***************************************************************************)
EXTENDS Sequences

QueueModes == {"all", "one-at-a-time"}

(* What drain() returns. *)
Drained(mode, q) ==
    IF mode = "all" \/ q = <<>> THEN q ELSE <<Head(q)>>

(* Mutant: draining everything forgets to empty the queue. *)
LeftBehind(mode, q) ==
    IF mode = "all" \/ q = <<>> THEN q ELSE Tail(q)

(* What drain() leaves in the queue. *)
Left(mode, q) ==
    IF mode = "all" \/ q = <<>> THEN <<>> ELSE Tail(q)

=============================================================================
