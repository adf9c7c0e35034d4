SPECIFICATION StartSpec
CONSTANTS
    Trials <- MCTrials
    Requests <- MCRequests
    Names = {"login", "orders"}
    KeyLevels <- MCKeyLevels
    Chars <- MCChars
    HMAC <- MCHMAC
CHECK_DEADLOCK FALSE
INVARIANTS
    StartTypeOK StoreAsConfigured OffIsLoud 
    ScopeMatchesReference HashedStaysHidden KeyedIfPossible CompositeSeparates
