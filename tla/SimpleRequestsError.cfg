SPECIFICATION Spec
CONSTANTS
  Plain = {getServerState}
  FromPath = {}
  Timeout = 2
  MaxTime = 2
INVARIANTS
  TimeoutMeansNoAnswer
CHECK_DEADLOCK FALSE
