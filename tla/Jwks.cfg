SPECIFICATION FairSpec
CONSTANTS
    r1 = r1
    r2 = r2
    Refresher = Refresher
    Request <- MCRequest
    Kid <- MCOneKid
    Unusable <- MCNone
    MaxFailures = 2
    MaxVersion = 2
INVARIANTS
    TypeOK
    EtagNamesKeys
    BreakerBound
PROPERTIES
    EventuallyCurrent
    EveryLookupAnswered
