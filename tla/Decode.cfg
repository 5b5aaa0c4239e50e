SPECIFICATION MCSpec
CONSTANTS
    Byte <- MCByte
    MaxLength = 5
    Group <- MCGroup
    LengthOf <- MCLengthOf
    Absent = Absent
    Malformed = Malformed
    MaxRequested = 3
CHECK_DEADLOCK FALSE
INVARIANTS
    TypeOK
    AccumulatorFits
    DecodesAsPrescribed
    FilterKeepsOrder
