SPECIFICATION Spec
CONSTANTS
    MaxPairs = 2
    MaxKills = 1
CHECK_DEADLOCK FALSE
INVARIANT ServedCertVerifies
