CONSTANTS
  i1 = i1
  i2 = i2
  p1 = p1
  p2 = p2
  c = c
  Instances = {i1, i2}
  Calls = {p1, p2}
  Clients = {c}
  InstanceOf <- MCInstanceOf
  SourceId <- MCOwnIds
  Capacity = 1
  Failures = {"call", "bus", "read"}
SPECIFICATION FairSpec
INVARIANTS
  StreamTypeOK
  NoSendOnClosed
  NoMissedNews
PROPERTIES
  FollowsFeed
  RoomConverges
  StreamsEnd
CHECK_DEADLOCK FALSE
