SPECIFICATION BootSpec
CONSTANTS
    MaxPairs = 1
    MaxKills = 0
    MaxWait = 60
    MaxBackoff = 30
    MaxOutages = 1
CHECK_DEADLOCK FALSE
PROPERTY GivesUpOnlyAfterMaxWait
