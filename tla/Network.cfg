CONSTANTS
  RebootAfter = 5
  MaxEvents = 3
  MaxRetry = 5
SPECIFICATION FairSpec
INVARIANTS TypeOK BitSound OnlineMeansMqtt
PROPERTIES OfflineEnds WifiRetried
