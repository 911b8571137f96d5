------------------------------- MODULE Common -------------------------------
(* What the services of the edge process share: nothing but Python's None.     *)
CONSTANT None
=============================================================================
