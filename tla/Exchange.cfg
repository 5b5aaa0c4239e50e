SPECIFICATION FairSpec
CONSTANTS
    Request = {r1, r2}
    Id = {j, k}
    Unsliceable = {k}
    Rejections = {"MalformedToken", "UnknownKid", "Jwks"}
    Splunk = TRUE
    MaxRestarts = 1
CHECK_DEADLOCK FALSE
INVARIANTS
    TypeOK
    OneLiveTokenPerId
    RefusedForACause
    GrantsAreAccountedFor
    RecordMatchesAnswer
PROPERTIES
    ClosedPoolOnlyOnInterrupt
    ImplementsTickets
    EveryRequestEnds
