\* Three overlapping calls, each shorter than the cooldown, under fair
\* scheduling; a call may panic.
SPECIFICATION FairSpec
CONSTANTS
    Caller = {c1, c2, c3}
    Threshold = 2
    Cooldown = 3
    MaxCall = 2
INVARIANTS
    OpenIffTripped
    AtMostOneProbe
    ProbingHasOwner
PROPERTIES
    ProbesSpaced
    RecoversUnlessLeaked
    Trips
