CONSTANTS
  Urls = {"u1", "bad"}
  BadUrls = {"bad"}
  NewKeys = {"k1", "k2"}
  Varied = {"webhook_url", "webhook_en"}
  MaxPosts = 1
  MaxRestarts = 1
  MaxFaults = 1
  QueueSize = 2
  MaxArrivals = 4
SPECIFICATION FairSpec
INVARIANTS ConfigKept NothingLost
PROPERTIES QueueDrains ImplementsQueue
CHECK_DEADLOCK FALSE
