\* Every list of up to three limiters, every fate of each.
SPECIFICATION Spec
CONSTANTS
    Kinds <- ModelKinds
    MaxLimiters = 3
CHECK_DEADLOCK FALSE
INVARIANTS
    DecisionMatchesReference
    StoreConsultedOnce
    RejectsOnlyOnRefusal
    ResponseIsDeciders
    FailOpenIsVisible

    
