\* The awaited answer is the current request's (app.rs:213-214): violated.
SPECIFICATION Spec
CONSTANTS
  f = f
  g = g
  NoNode = NoNode
  NodeId <- MCNodeId
  Neighbours <- MCNeighbours
  Results <- MCOneResult
  MaxQuery = 1
  MaxInFlight = 2
  MaxHistory = 1
INVARIANT
  CurrentAnswerAwaited
