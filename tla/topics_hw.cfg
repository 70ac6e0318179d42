SPECIFICATION Spec
CONSTANTS
    j1 = j1
    j2 = j2
    j3 = j3
    j4 = j4
    pve1 = pve1
    v1 = v1
    v2 = v2
    an = an
    Unset = Unset
    Joints = {j1, j2}
    Controllers = {pve1, v2, an}
    Claims <- MCClaims
    Needs <- MCNeeds
    Configs <- MCConfigs
    MaxMissing = 1
    WarmFactor = 5
    Width = 4
INVARIANTS
    NoOutOfRange
    OwnTopicFeeds
    StartedAreHeard
    StaleOnlyWithoutFlags
PROPERTY SilenceEndsTheLoop
CHECK_DEADLOCK FALSE
