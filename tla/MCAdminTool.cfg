CONSTANTS
    none = none
    intr = intr
    None = none
    Interrupt = intr
    Resolutions <- MCBoth
SPECIFICATION Spec
INVARIANT TypeOK
PROPERTY DropOnlyConfirmed
