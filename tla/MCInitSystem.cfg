CONSTANTS
    None = None
SPECIFICATION Spec
INVARIANT TypeOK
INVARIANT DetectsFirstInOrder
CHECK_DEADLOCK FALSE
