CONSTANTS
  Watched = {"status", "received_count"}
  WireRoom = 1
  OutboxRoom = 1
  EarlierCount = 2
  MaxCommands = 0
  MaxInbound = 1
  MaxLosses = 2
SPECIFICATION FairSpec
INVARIANT OnlineShown
PROPERTIES OnlineTold CountsCatchUp
