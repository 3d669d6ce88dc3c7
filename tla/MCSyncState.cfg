SPECIFICATION Spec
CONSTANTS
  NoConn = NoConn
  Ops <- StateOps
  Api <- StateApi
  Subject <- StateSubject
  Users = {}
  UserEvent <- NoUserEvent
  Conns = {c1}
  Wire <- StateWire
  MaxEvents = 2
INVARIANTS
  Inv
  ResolvedJustified
  ServedIsCleanedUp
PROPERTIES
  ServedBeatsTimeout
  ImplementsAwaitedEvent
CHECK_DEADLOCK FALSE
