SPECIFICATION FairSpec
CONSTANTS
  Ctrl = {a, b, c}
  hw = hw
INVARIANTS TypeOK SuccessIsComplete NeverRefused
PROPERTIES KeptControllersRun ImplementsLoader OperationReturns
CHECK_DEADLOCK FALSE
