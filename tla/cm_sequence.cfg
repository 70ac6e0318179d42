SPECIFICATION Spec
CONSTANTS
  h1 = h1
  h2 = h2
  a = a
  b = b
  Hw = {h1, h2}
  Ctrl = {a, b}
  Names = {"A", "B"}
  Defs <- MCDefs3
  Clients = {c1}
  Main = main
  NoThread = NoThread
  Undefined = Undefined
  NoRequest = NoRequest
  MaxRequests = 3
  MaxEdits = 0
INVARIANTS Coherent OldConfigurationKept DriversAsAssumed HalfLoadedIsReported
PROPERTY ImplementsService
CHECK_DEADLOCK FALSE
