----------------------------- MODULE MCEpisodes -----------------------------
(* Episodes on small instances.                                                *)
EXTENDS Episodes, TLC

(* Pairs are interchangeable.                                                  *)
KeySymmetry == Permutations(Key)
=============================================================================
