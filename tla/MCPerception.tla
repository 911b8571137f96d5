---------------------------- MODULE MCPerception ----------------------------
(* Perception at the frame rates the settings allow: a floor of three and a    *)
(* ceiling of six frames a second, six ticks to the second, a car that closes  *)
(* in on a person.                                                             *)
EXTENDS Perception

BrightImage == {[lum |-> 120, sharp |-> 60, sat |-> 5]}
StandOrDrive == {[up |-> 0, textured |-> 50], [up |-> 2, textured |-> 50]}
ShippedEnvelope == {<<3, 6>>}
ClosingIn ==
  {<<[cls |-> "car", conf |-> 70, x |-> 100, dx |-> 4, y |-> 300, dy |-> 0,
      w |-> 60, h |-> 50, grow |-> 3],
     [cls |-> "person", conf |-> 40, x |-> 220, dx |-> -3, y |-> 300, dy |-> 0,
      w |-> 20, h |-> 60, grow |-> 0]>>}
Both == {{1, 2}}
=============================================================================
