SPECIFICATION Spec
CONSTANTS
    j1 = j1
    j2 = j2
    p1 = p1
    p2 = p2
    v2 = v2
    pve = pve
    Joints = {j1, j2}
    Controllers = {p1, p2, v2, pve}
    Claims <- MCClaims
    Positions = {0, 1}
    Speeds <- MCSpeeds
INVARIANTS
    TypeOK
    ExclusiveJoints
    NoPhantomSpeed
PROPERTY StillWhenNothingRuns
CHECK_DEADLOCK FALSE
