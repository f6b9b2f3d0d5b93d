---------------------------- MODULE MCAgentSession ----------------------------
(* Model-checking instances of AgentSession. *)
EXTENDS AgentSession, TLC

(* Prompts are interchangeable, and so are steering messages: no safety    *)
(* property names one of them.                                             *)
Symmetric == Permutations(Prompts) \cup Permutations(Steers)

=============================================================================
