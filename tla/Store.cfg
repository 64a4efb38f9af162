CONSTANTS
  reader = reader
  mqtt = mqtt
  httpd = httpd
  InboxWriters = {reader}
  OutboxWriters = {mqtt, httpd}
  BareCallers = {mqtt}
  Httpd = httpd
  NoTask = NoTask
  Max = 2
  ListRoom = 3
  MaxAdds = 4
SPECIFICATION Spec
INVARIANTS TypeOK UniqueIds DeleteHitsTarget ListingComplete
CHECK_DEADLOCK FALSE
