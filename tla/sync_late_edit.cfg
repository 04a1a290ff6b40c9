SPECIFICATION WindowsSpec
CONSTANTS
  w = w
  f = f
  r = r
  e = e
  pw = pw
  pf = pf
  pr = pr
  pe = pe
  px = px
  Models = {w, r}
  Root = w
  Envs = {}
  Inside <- MCInside
  Paths <- HomesOnly
  Home <- MCHome
  StateIds = {1, 2}
  Sessions = {1}
  Windows = {1}
  MaxClock = 3
  Nothing = Nothing
  Garbage = Garbage
INVARIANT UnchangedMeansUnedited
CHECK_DEADLOCK FALSE
