\* Liveness under the fairness of the loop and the worker: one result list, a breadcrumb of one.
SPECIFICATION Spec
CONSTANTS
  f = f
  g = g
  NoNode = NoNode
  NodeId <- MCNodeId
  Neighbours <- MCNeighbours
  Results <- MCOneResult
  MaxQuery = 1
  MaxInFlight = 2
  MaxHistory = 1
PROPERTIES
  SpinnerEnds
  QuitEnds
