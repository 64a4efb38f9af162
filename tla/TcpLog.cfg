CONSTANTS
  Loggers = {a, b}
  a = a
  b = b
  NoTask = NoTask
  LogTask = LogTask
  RingLines = 2
  Fds = {4, 5}
  MaxLines = 3
  MaxMonitors = 2
SPECIFICATION FairSpec
INVARIANTS TypeOK RingIsHistory StreamInOrder
PROPERTY LoggingReturns
CHECK_DEADLOCK FALSE
