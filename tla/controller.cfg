SPECIFICATION Spec
CONSTANTS
    Topics = {}
    Positions = {0, 1, 2}
    Asked = {2}
    Accelerations = {0, 2}
    MaxSpeed = 1
    NaN = NaN
INVARIANTS
    JointTypeOK
    ThreadOnlyWhileRunning
    HaltedUnlessRunning
PROPERTIES
    CallsReturn
    CommandBounded
CHECK_DEADLOCK FALSE
