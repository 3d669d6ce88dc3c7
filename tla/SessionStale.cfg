SPECIFICATION SessionSpec
CONSTANTS
  NoConn = NoConn
  Ops <- RunOps
  Api <- RunApi
  Subject <- RunSubject
  Users = {}
  UserEvent <- NoUserEvent
  Conns = {c1}
  Wire <- SessionWire
  MaxEvents = 4
INVARIANTS
  StartedByThisCall
CHECK_DEADLOCK FALSE
