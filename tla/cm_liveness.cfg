SPECIFICATION FairSpec
CONSTANTS
  h1 = h1
  h2 = h2
  a = a
  b = b
  Hw = {h1, h2}
  Ctrl = {a, b}
  Names = {"A", "B"}
  Defs <- MCDefs
  Clients = {c1}
  Main = main
  NoThread = NoThread
  Undefined = Undefined
  NoRequest = NoRequest
  MaxRequests = 2
  MaxEdits = 0
PROPERTIES RequestAnswered InterruptEnds
CHECK_DEADLOCK FALSE
