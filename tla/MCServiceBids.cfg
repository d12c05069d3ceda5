SPECIFICATION Spec
CONSTANTS
  Backends = {"redis", "memory"}
  Users = {u1, u2}
  NoUser = NoUser
  Requests = {r1, r2}
  NoReply = NoReply
  Amounts <- MCAmounts
  StartPrice = 1
  Increment = 2
  CeilingPrice = 5
  Duration = 1
  ExtendThreshold = 1
  ExtendBy = 1
  StateTTL = 9
  RankScale = 2
  MaxClock = 2
  LastStart = 0
  Failures = {}
  MaxFailures = 0
  Starters = {s1}
  Cancellers = {}
  Bids = {b1, b2}
  NoTimer = NoTimer
  NoOrder = NoOrder
  NoCommand = NoCommand
SYMMETRY MCSymmetry
INVARIANTS
  ServiceTypeOK
  OrderMatchesSale
  RepoNeverAhead
  AuditedOnce
  BidInHand
  EndedNewsHasOrder
CHECK_DEADLOCK FALSE
