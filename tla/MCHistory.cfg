SPECIFICATION Spec
CONSTANTS
  Accounts = {"reader"}
  Files = {"f", "g"}
  Requests = {"r1", "r2", "r3"}
  Mutexes = {"m1", "m2", "m3"}
  Sizes = {1, 2, 3}
  MaxFile = 2
  MaxTotal = 3
CHECK_DEADLOCK FALSE
INVARIANTS
  QuotaHolds
  OneHistoryWriter
PROPERTIES
  EveryWaiterIsServed
