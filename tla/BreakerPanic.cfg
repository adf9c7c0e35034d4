\* A probe that panics.
SPECIFICATION FairSpec
CONSTANTS
    Caller = {c1, c2}
    Threshold = 2
    Cooldown = 2
    MaxCall = 1
PROPERTIES
    Recovers
