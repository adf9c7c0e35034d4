\* Two calls on a window and a token bucket, one retry each.
SPECIFICATION FairSpec
CONSTANTS
    Windows = {w}
    Buckets = {b}
    Caller = {c1, c2}
    NoKey = NoKey
    MaxRetries = 1
    Threshold = 1
INVARIANTS
    ChargedWithinRetries
    AnswerIsCharged
    
PROPERTIES
    OutageIsShed
    CallEnds
    
