SPECIFICATION Spec
CONSTANTS
    r1 = r1
    r2 = r2
    Refresher = Refresher
    Request <- MCRequest
    Kid <- MCOneKid
    Unusable <- MCNone
    MaxFailures = 1
    MaxVersion = 2
PROPERTY RefusedOnlyWhileCooling
