CONSTANTS
  Slot = {s1}
  Reader = {r1, r2}
  Worker = {w1, w2}
  None = None
SPECIFICATION LiveSpec
PROPERTIES
  StoppedReadersExit
  RequestsEnd
