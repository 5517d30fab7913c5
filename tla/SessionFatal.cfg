\* A fatal error reaches the exit status (main.rs:222-225): violated.
SPECIFICATION Spec
CONSTANTS
  f = f
  g = g
  NoNode = NoNode
  NodeId <- MCNodeId
  Neighbours <- MCNeighbours
  Results <- MCOneResult
  MaxQuery = 1
  MaxInFlight = 2
  MaxHistory = 1
INVARIANT
  FatalIsReported
