SPECIFICATION PatientSpec
CONSTANTS
  Conns = {1}
  Callers = {a, b}
  Capacity = 1
  History = 2
  MaxFrames = 1
  MaxSends = 1
INVARIANTS
  TypeOK
  ClosedMeansReleased
  ConnectedIsServed
  ReadersCanBeStopped
  WritersHoldManager
PROPERTIES
  RecordsTranscript
  CommandsReturn
  ServerEndShows
  CloseSettles
CHECK_DEADLOCK FALSE
