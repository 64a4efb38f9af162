CONSTANTS
  Fds = {1, 2, 3}
  MaxOpen = 2
  MaxWsClients = 2
  MaxSessions = 4
  MaxMessages = 2
SPECIFICATION Spec
INVARIANTS TypeOK SeatKept BroadcastReaches StaleCleared
CHECK_DEADLOCK FALSE
