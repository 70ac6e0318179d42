SPECIFICATION FairSpec
INVARIANTS TypeOK StartedIsPastReset
PROPERTIES FaultIsReported CallsAnswered DestructionEnds
CHECK_DEADLOCK FALSE
