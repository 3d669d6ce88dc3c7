SPECIFICATION Spec
CONSTANTS
  NoConn = NoConn
  Ops <- CreateOps
  Api <- CreateApi
  Subject <- CreateSubject
  Users = {"gui"}
  UserEvent <- CreateUserEvent
  Conns = {c1}
  Wire <- CreateWire
  MaxEvents = 1
INVARIANTS
  UserHearsAll
CHECK_DEADLOCK FALSE
