-------------------------------- MODULE Clock --------------------------------
(* The clock some services of the edge process read (external).                *)
EXTENDS Integers, Common

VARIABLE now

ClockInit == now = 0

(* The last tick is a bound of the model.                                      *)
Tick(last) == now < last /\ now' = now + 1
=============================================================================
