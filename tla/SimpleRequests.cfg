SPECIFICATION FairSpec
CONSTANTS
  Plain = {getServerState}
  FromPath = {createFromPath}
  Timeout = 4
  MaxTime = 8
INVARIANTS
  TypeOK
  SettledInTime
  LateBeansCreateNothing
PROPERTIES
  EveryCallSettles
  ImplementsFairBoundedCall
CHECK_DEADLOCK FALSE
