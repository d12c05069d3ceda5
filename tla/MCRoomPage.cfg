CONSTANTS
  Auctions = {a1, a2}
  NoAuction = NoAuction
  MaxEffects = 2
  MaxVersion = 2
  MaxWire = 1
  MaxFaults = 2
  MaxCalls = 1
SPECIFICATION FairSpec
INVARIANTS
  RoomTypeOK
  NeverCutOff
PROPERTIES
  LeftRoomsWindDown
  EffectOnlyForward
  RoomDelivers
CHECK_DEADLOCK FALSE
