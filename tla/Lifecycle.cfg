\* Two connections; the process may also end before it serves.
SPECIFICATION Spec
CONSTANTS
    Request = {r1, r2}
CHECK_DEADLOCK FALSE
INVARIANTS
    CleanExitLosesNothing
PROPERTIES
    ProcessStops
    GaugeFollowsBreaker
