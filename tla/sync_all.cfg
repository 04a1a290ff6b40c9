SPECIFICATION WindowsSpec
CONSTANTS
  w = w
  f = f
  r = r
  e = e
  pw = pw
  pf = pf
  pr = pr
  pe = pe
  px = px
  Models = {w, e}
  Root = w
  Envs = {e}
  Inside <- MCInside
  Paths <- HomesAndSpare
  Home <- MCHome
  StateIds = {1, 2}
  Sessions = {1}
  Windows = {1}
  MaxClock = 4
  Nothing = Nothing
  Garbage = Garbage
INVARIANTS
  TypeOK
  EditsDetected
  InSyncMeansEqual
  MergesAsPromised
  OnePassSuffices
PROPERTY PrivateNeverWritten
CHECK_DEADLOCK FALSE
