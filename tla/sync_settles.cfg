SPECIFICATION FairSpec
CONSTANTS
  w = w
  f = f
  r = r
  e = e
  pw = pw
  pf = pf
  pr = pr
  pe = pe
  px = px
  Models = {w, f, r}
  Root = w
  Envs = {}
  Inside <- MCInside
  Paths <- HomesOnly
  Home <- MCHome
  StateIds = {1, 2, 3}
  Sessions = {1, 2}
  Windows = {1}
  MaxClock = 3
  Nothing = Nothing
  Garbage = Garbage
INVARIANT WindowsTypeOK
PROPERTY Settles
CHECK_DEADLOCK FALSE
