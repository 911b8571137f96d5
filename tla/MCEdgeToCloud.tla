---------------------------- MODULE MCEdgeToCloud ----------------------------
(* EdgeToCloud on small instances.                                             *)
EXTENDS EdgeToCloud, TLC

(* Events are interchangeable: no definition of the model orders them.         *)
EventSymmetry == Permutations(Event)
=============================================================================
