SPECIFICATION StoreSpec
CONSTANTS
  Backends = {"redis", "memory"}
  Users = {u1, u2}
  NoUser = NoUser
  Requests = {r1, r2, r3, r4}
  NoReply = NoReply
  Amounts <- MCAmounts
  StartPrice = 1
  Increment = 2
  CeilingPrice = 9
  Duration = 2
  ExtendThreshold = 1
  ExtendBy = 1
  StateTTL = 4
  RankScale = 2
  MaxClock = 6
SYMMETRY MCSymmetry
INVARIANTS
  StoreTypeOK
  LeaderHoldsPrice
  RankingFollowsAmounts
  RepliesTruthful
  ClosureJustified
PROPERTIES
  MeetsContract
CHECK_DEADLOCK FALSE
