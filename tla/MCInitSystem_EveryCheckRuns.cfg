CONSTANTS
    None = None
SPECIFICATION Spec
PROPERTY CallRefinement
CHECK_DEADLOCK FALSE
