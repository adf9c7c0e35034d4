\* A panicking keyer against the table of fail-open paths.
SPECIFICATION Spec
CONSTANTS
    Kinds <- ModelKinds
    MaxLimiters = 2
CHECK_DEADLOCK FALSE
INVARIANTS
    KeyerPanicRecorded
