CONSTANTS
    none = none
    intr = intr
    None = none
    Interrupt = intr
    Resolutions <- MCResolvable
SPECIFICATION Spec
INVARIANT ConfirmInterruptReturnsNone
