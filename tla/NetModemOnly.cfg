CONSTANTS
  RebootAfter = 5
  MaxEvents = 2
  MaxRetry = 5
SPECIFICATION FairSpec
PROPERTY ComesUp
