SPECIFICATION Spec
CONSTANTS
  Attempts = 2
INVARIANTS
  DisposedWithSocket
CHECK_DEADLOCK FALSE
