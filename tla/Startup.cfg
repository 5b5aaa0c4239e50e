SPECIFICATION BootFairSpec
CONSTANTS
    MaxPairs = 3
    MaxKills = 2
    MaxWait = 60
    MaxBackoff = 30
    MaxOutages = 2
CHECK_DEADLOCK FALSE
INVARIANTS
    BootTypeOK
    CertBelongsToKey
    KeyFileRestricted
    WaitIsBounded
PROPERTIES
    KeySurvivesRestarts
    EventuallyServes
