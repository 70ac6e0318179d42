SPECIFICATION Spec
CONSTANTS
    j1 = j1
    j2 = j2
    p1 = p1
    ve2 = ve2
    Joints = {j1, j2}
    Controllers = {p1, ve2}
    Claims <- MCClaims
    MaxMissing = 1
INVARIANTS
    NoFalseAlarm
    QuietStop
PROPERTIES
    ZerosOnlyOfBlind
    SilenceEndsTheLoop
CHECK_DEADLOCK FALSE
