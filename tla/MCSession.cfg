SPECIFICATION Spec
CONSTANTS
  s1 = s1
  c1 = c1
  c2 = c2
  b1 = b1
  w1 = w1
  w2 = w2
  None = None
  Sids <- OneSid
  Claims <- TwoClaims
  SidOf <- AllInOne
  Bids <- OneBid
  Workers <- TwoWorkers
  Scenes <- SafetyScenes
CHECK_DEADLOCK FALSE
INVARIANTS
  SaidOnce
  EndsInOrder
  ExitLeavesNoneBehind
  PauseMissesNoClaim
  UpdateWaits
  OwnerObeyed
