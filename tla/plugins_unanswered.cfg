SPECIFICATION FairSpec
CONSTANTS
  Calls = {c1, c2}
  Built = {p}
  Dirs = {p}
  Managed = {}
  Capacity = 2
  None = None
PROPERTY CallsReturn
CHECK_DEADLOCK FALSE
