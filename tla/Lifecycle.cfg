SPECIFICATION FairSpec
CONSTANTS
  Attempts = 3
INVARIANTS
  TypeOK
  ConnectionReadsSocket
  NeverOlderSocket
  ShutdownIsWritten
PROPERTIES
  ConnectedSurvivesErrors
  DisposesWithSocket
  ConnectSettles
CHECK_DEADLOCK FALSE
