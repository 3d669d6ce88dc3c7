SPECIFICATION FairSessionSpec
CONSTANTS
  NoConn = NoConn
  Ops <- RunOps
  Api <- RunApi
  Subject <- RunSubject
  Users = {}
  UserEvent <- NoUserEvent
  Conns = {c1}
  Wire <- SessionWire
  MaxEvents = 3
INVARIANTS
  SessionTypeOK
  NoLostWakeup
  PendingIsUnmet
  ResolvedTellsState
PROPERTIES
  FulfilledSettles
CHECK_DEADLOCK FALSE
