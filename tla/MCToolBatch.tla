------------------------------ MODULE MCToolBatch ------------------------------
(* Model-checking instance of ToolBatch, seen by the provider that is sent *)
(* the transcript afterwards.                                              *)
EXTENDS ToolBatch

View == INSTANCE TransformMessages

(* The next request answers every call exactly once, before any other      *)
(* message: after a complete batch, after an aborted one, and after a      *)
(* crash anywhere within it, when the missing results are made up.         *)
CallsAnsweredOnce ==
    stage \in {"done", "over"} =>
        LET sent == View!Sent(transcript) IN
        /\ \A i \in Calls : View!Answers(sent, i) = 1
        /\ \A k \in 2 .. (N + 1) : sent[k].role = "toolResult"

=============================================================================
