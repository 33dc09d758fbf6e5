CONSTANTS
  Caller = {1, 2, 3}
  Key = {"a", "b"}
  Entry = {e1, e2, e3}
  Wants <- MCWants
  Size <- MCSize
  MaxInflightBytes = 2
  Outcome = {"ok", "error"}
  None = None
SPECIFICATION SfFairSpec
INVARIANTS OneLeaderPerKey ReservedWithinCap SlotsReclaimed
PROPERTIES EveryCallReturns SharedSpec
