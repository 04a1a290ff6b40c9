SPECIFICATION Spec
CONSTANTS
    w1 = w1
    mine = mine
    shared = shared
    home = home
    Windows = {w1, w2}
    Ids = {mine, shared}
    Workspaces = {home}
    Global = Global
    HomeOf <- MCHomeOf
    Private = {shared}
    Background = Background
    MaxVersion = 2
    MaxLoads <- MCMaxLoads
INVARIANTS TypeOK ShowsTheRows
PROPERTY NoForeignModels
CHECK_DEADLOCK FALSE
