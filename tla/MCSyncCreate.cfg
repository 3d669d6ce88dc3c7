SPECIFICATION FairSpec
CONSTANTS
  NoConn = NoConn
  Ops <- CreateOps
  Api <- CreateApi
  Subject <- CreateSubject
  Users = {"gui"}
  UserEvent <- CreateUserEvent
  Conns = {c1}
  Wire <- CreateWire
  MaxEvents = 3
INVARIANTS
  TypeOK
  FirstMatchWins
  ServedIsCleanedUp
  UserHearsAllButAborted
  PendingIsArmed
PROPERTIES
  AbortedByUnsentRequest
  ListenersLeaveAlone
  ImplementsFairAwaitedEvent
  EveryCallSettles
CHECK_DEADLOCK FALSE
