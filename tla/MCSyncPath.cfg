SPECIFICATION Spec
CONSTANTS
  NoConn = NoConn
  Ops <- PathOps
  Api <- PathApi
  Subject <- PathSubject
  Users = {}
  UserEvent <- NoUserEvent
  Conns = {c1, c2}
  Wire <- PathWire
  MaxEvents = 2
INVARIANTS
  ServedIsCleanedUp
PROPERTIES
  AbortedByUnsentRequest
  DisposedNeverServed
CHECK_DEADLOCK FALSE
