\* The result list answers the query shown (app.rs:130-132): violated.
SPECIFICATION Spec
CONSTANTS
  f = f
  g = g
  NoNode = NoNode
  NodeId <- MCNodeId
  Neighbours <- MCNeighbours
  Results <- MCOneResult
  MaxQuery = 2
  MaxInFlight = 2
  MaxHistory = 1
INVARIANT
  ResultsMatchQuery
