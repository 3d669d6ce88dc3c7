SPECIFICATION Spec
CONSTANTS
  NoConn = NoConn
  Ops <- PathOps
  Api <- PathApi
  Subject <- PathSubject
  Users = {}
  UserEvent <- NoUserEvent
  Conns = {c1}
  Wire <- PathWire
  MaxEvents = 1
INVARIANTS
  HandlerRemovedOnSuccess
CHECK_DEADLOCK FALSE
