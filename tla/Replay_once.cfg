SPECIFICATION Spec
CONSTANTS
    r1 = r1
    r2 = r2
    Request <- MCRequest
    Token <- MCTokensAndOther
    ReplayId <- MCIds
    IdOf <- MCIdOf
    ExpOf <- MCExpOf
    Leeway = 1
    TokenTtl = 2
    Modes = {FALSE}
    FaultsHappen = FALSE
    MaxClock = 3
    MaxRestarts = 0
CHECK_DEADLOCK FALSE
INVARIANT EachTokenExchangedOnce
