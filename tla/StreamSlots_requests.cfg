CONSTANTS
  Slot = {s1}
  Reader = {r1, r2, r3}
  Worker = {w1, w2}
  None = None
SYMMETRY SlotsSymmetry
SPECIFICATION Spec
INVARIANTS
  TypeOK
  OneFeeder
  LostReadersArePaused
  RemovedSourceIsQuiet
