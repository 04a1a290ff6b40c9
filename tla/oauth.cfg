SPECIFICATION Spec
CONSTANTS
    Calls = {c1, c2}
    None = None
    MaxIssued = 3
INVARIANTS TypeOK HeaderHasToken ReadsWhatItShows
PROPERTIES NeverStoresSpent CallsEnd
CHECK_DEADLOCK FALSE
