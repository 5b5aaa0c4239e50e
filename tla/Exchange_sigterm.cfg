SPECIFICATION Spec
CONSTANTS
    Request = {r1}
    Id = {j}
    Unsliceable = {}
    Rejections = {"UnknownKid"}
    Splunk = FALSE
    MaxRestarts = 0
CHECK_DEADLOCK FALSE
PROPERTY SigtermCheckpoints
