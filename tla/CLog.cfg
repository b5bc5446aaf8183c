SPECIFICATION Spec
CONSTANTS
  w1 = w1
  w2 = w2
  Writers = {w1, w2}
  BufferSize = 2
  OffsetMod = 6
  Start = 1
  MaxText = 3
  MaxCalls = 2
INVARIANTS
  TypeOK
  OldTextKept
  Tiled
  AsLogged
CHECK_DEADLOCK FALSE
