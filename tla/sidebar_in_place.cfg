SPECIFICATION Spec
INVARIANT DroppedInPlace
CHECK_DEADLOCK FALSE
