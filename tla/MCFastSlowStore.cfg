SPECIFICATION FssSpec
CONSTRAINT Regime
ACTION_CONSTRAINT Step
CONSTANTS
  Digest = {d1}
  Writer = {w1, w2}
  Reader = {r1}
  Size <- MCSize
  max_bytes = 1
  MaxWrites = 2
  MaxFails = 1
  None = None
SYMMETRY FssSymmetry
INVARIANTS
  InFlightBytesExact
  AckedTracked
  FlushThorough
  ReadFinds
CHECK_DEADLOCK FALSE
