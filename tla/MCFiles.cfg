CONSTANTS
  Keys = {k1}
  Values = {v1, v2}
  DemoUsers = {k1}
  DemoValue = v1
  Called = {"CreateAuction", "UpdateAuction", "SaveBid", "UpsertOrder"}
  Failures = {"io", "crash"}
SPECIFICATION Spec
INVARIANTS
  RepositoryTypeOK
  FilesCurrent
  DemoUsersReady
PROPERTIES
  NothingLost
  TradesKept
  KeepsContract
CHECK_DEADLOCK FALSE
