SPECIFICATION Spec
CONSTANTS
  MaxGens = 3
  MaxCancels = 2
  MaxChunks = 1
  MaxDrops = 1
  Files = {f1, f2, f3}
  Old = {f3}
  Cap = 1
INVARIANTS NoCancelSwallowed
CHECK_DEADLOCK FALSE
