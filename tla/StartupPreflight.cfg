SPECIFICATION StartSpec
CONSTANTS
    Trials <- MCTrials
    Requests <- MCRequests
    Names = {"login", "orders"}
    KeyLevels <- MCKeyLevels
    Chars <- MCChars
    HMAC <- MCHMAC
CHECK_DEADLOCK FALSE
INVARIANT PreflightPredicts
