CONSTANTS
  httpd = httpd
  m1 = m1
  m2 = m2
  mqtt = mqtt
  Senders = {mqtt, httpd}
  Pollers = {httpd}
  NoTask = NoTask
  MaxCalls = 2
  Inbound = {m1, m2}
  Spoilt = {m2}
  NoMsg = NoMsg
  BodyLines <- SpeakingBodies
  MaxResponse = 5
  MaxUrcs = 2
  SlowModem = FALSE
SPECIFICATION FairSpec
INVARIANTS NoStaleToken NoCrossedSms InboundFaithful
PROPERTY InboundDelivered
CHECK_DEADLOCK FALSE
