---------------------------- MODULE MCSessionLog ----------------------------
(* SessionLog with managers that can be exchanged for each other.          *)
EXTENDS SessionLog

Symmetry == Permutations(Managers)

==============================================================================
