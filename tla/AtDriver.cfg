CONSTANTS
  m1 = m1
  mqtt = mqtt
  timer = timer
  Senders = {mqtt}
  Pollers = {timer}
  NoTask = NoTask
  MaxCalls = 2
  Inbound = {m1}
  Spoilt = {}
  NoMsg = NoMsg
  BodyLines <- TrickyBodies
  MaxResponse = 3
  MaxUrcs = 1
  SlowModem = TRUE
SPECIFICATION FairSpec
INVARIANTS TypeOK SuccessNeedsFreshOk
PROPERTIES CallsReturn ImplementsLink
CHECK_DEADLOCK FALSE
