CONSTANTS
  Slot = {s1}
  Reader = {r1, r2, r3}
  Worker = {w1}
  None = None
SPECIFICATION Spec
INVARIANT NoLostReader
