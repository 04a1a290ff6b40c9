SPECIFICATION Spec
INVARIANTS
    TypeOK
    EditorsKept
    RunsTheHighlighted
    TreeKept
    PanesShowTheirs
    ConvertedWhole
PROPERTIES
    MovesAsShown
    WorkIsKept
    SecretsStayClosed
CHECK_DEADLOCK FALSE
