SPECIFICATION Spec
CONSTANTS
  Backends = {"redis"}
  Users = {u1}
  NoUser = NoUser
  Requests = {r1}
  NoReply = NoReply
  Amounts <- MCAmounts
  StartPrice = 1
  Increment = 2
  CeilingPrice = 5
  Duration = 1
  ExtendThreshold = 1
  ExtendBy = 1
  StateTTL = 9
  RankScale = 2
  MaxClock = 2
  LastStart = 0
  Failures = {}
  MaxFailures = 0
  Starters = {s1, s2}
  Cancellers = {}
  Bids = {b1}
  NoTimer = NoTimer
  NoOrder = NoOrder
  NoCommand = NoCommand
PROPERTIES
  OpenPriceOnlyRises
CHECK_DEADLOCK FALSE
