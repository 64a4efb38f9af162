CONSTANTS
  httpd = httpd
  mqtt = mqtt
  Senders = {mqtt, httpd}
  Pollers = {}
  NoTask = NoTask
  MaxCalls = 2
  Inbound = {}
  Spoilt = {}
  NoMsg = NoMsg
  BodyLines <- SpeakingBodies
  MaxResponse = 4
  MaxUrcs = 0
  SlowModem = FALSE
SPECIFICATION Spec
INVARIANT OwnAnswerJudged
CHECK_DEADLOCK FALSE
