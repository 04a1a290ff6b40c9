SPECIFICATION PatientSpec
CONSTANTS
  Conns = {1, 2}
  Callers = {a}
  Capacity = 1
  History = 2
  MaxFrames = 0
  MaxSends = 0
PROPERTIES
  RecordsTranscript
CHECK_DEADLOCK FALSE
