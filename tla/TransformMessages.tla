-------------------------- MODULE TransformMessages --------------------------
(***************************************************************************)
(* What a provider is sent of a conversation: the pass of                  *)
(* ai/src/api/transform-messages.ts that answers tool calls without a      *)
(* result.  A message is its role and, for an assistant message, the calls *)
(* it makes, for a tool result the call it answers.  "failed" is an        *)
(* assistant message that ended in an error or was aborted; every other    *)
(* role (a user, a custom message, a bash result) is sent as the user's.   *)
(***************************************************************************)
EXTENDS Naturals, FiniteSetsExt, SequencesExt

ToolResult(i) == [role |-> "toolResult", calls |-> {i}]

(* A synthetic "No result provided" for each call in the set, in the order *)
(* of the calls.                                                           *)
Synthetic(calls) ==
    CHOOSE s \in SetToSeqs({ToolResult(i) : i \in calls}) :
        \A j, k \in DOMAIN s : j < k => Min(s[j].calls) < Min(s[k].calls)

(* insertSyntheticToolResults *)
AnswerOpen(view) ==
    IF view.open = {} THEN view
    ELSE [view EXCEPT !.sent = @ \o Synthetic(view.open \ view.answered),
                      !.open = {}, !.answered = {}]

Translate(view, m) ==
    CASE m.role = "assistant" ->
            [AnswerOpen(view) EXCEPT !.sent = Append(@, m), !.open = m.calls,
                              !.answered = {}]
      [] m.role = "toolResult" ->
            [view EXCEPT !.sent = Append(@, m), !.answered = @ \cup m.calls]
      [] m.role = "failed" -> AnswerOpen(view)
      [] OTHER ->
            [AnswerOpen(view) EXCEPT !.sent = Append(@, m)]

(* The messages the provider is sent for a conversation. *)
Sent(messages) ==
    AnswerOpen(FoldLeft(Translate, [sent |-> <<>>, open |-> {}, answered |-> {}],
                        messages)).sent

(* How many results the provider is sent for a call. *)
Answers(messages, i) ==
    Cardinality({k \in DOMAIN messages : messages[k] = ToolResult(i)})

=============================================================================
