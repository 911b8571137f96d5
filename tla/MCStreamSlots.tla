---------------------------- MODULE MCStreamSlots ----------------------------
(* StreamSlots on small instances.                                             *)
EXTENDS StreamSlots, TLC

(* Readers, slots and workers are interchangeable.                             *)
SlotsSymmetry == Permutations(Reader) \cup Permutations(Slot) \cup Permutations(Worker)
=============================================================================
