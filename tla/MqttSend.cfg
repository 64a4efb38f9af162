CONSTANTS
  Watched = {"send_status", "received_count"}
  WireRoom = 1
  OutboxRoom = 1
  EarlierCount = 2
  MaxCommands = 3
  MaxInbound = 2
  MaxLosses = 0
SPECIFICATION FairSpec
INVARIANTS TypeOK ReportsTrue
PROPERTIES SendReported HandlersEnd
