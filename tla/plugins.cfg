SPECIFICATION FairSpec
CONSTANTS
  Calls = {c1, c2}
  Built = {p, q}
  Dirs = {p, q}
  Managed = {p, q}
  Capacity = 1
  None = None
INVARIANTS
  TypeOK
  RegistryIsSound
PROPERTIES
  AnswersPaired
  Served
  BootLockReturns
CHECK_DEADLOCK FALSE
