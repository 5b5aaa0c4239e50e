SPECIFICATION FairSpec
CONSTANTS
    r1 = r1
    r2 = r2
    Request <- MCRequest
    Token <- MCTokens
    ReplayId <- MCIds
    IdOf <- MCIdOf
    ExpOf <- MCExpOf
    Leeway = 1
    TokenTtl = 2
    Modes = {FALSE, TRUE}
    FaultsHappen = TRUE
    MaxClock = 2
    MaxRestarts = 1
CHECK_DEADLOCK FALSE
INVARIANTS
    TypeOK
    IInv
    NoRegrantBeforeExpiry
    StrictBlocksEveryVariant
    OneLiveTokenPerKey
PROPERTIES
    ReplayAnswerHasCause
    ImplementsLease
    ExpiredRowsArePurged
    EveryRequestAnswered
