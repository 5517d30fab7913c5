\* Every call returns with a single-threaded server (design.md 7): violated.
SPECIFICATION Spec
CONSTANTS
  MaxCalls = 3
  MaxAsks = 2
  StdinSize = 2
  StdoutSize = 1
  Duplex = FALSE
PROPERTY
  CallReturns
CHECK_DEADLOCK FALSE
