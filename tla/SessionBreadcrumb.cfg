\* The breadcrumb is the path taken (tui-design 5): violated.
SPECIFICATION Spec
CONSTANTS
  f = f
  g = g
  NoNode = NoNode
  NodeId <- MCNodeId
  Neighbours <- MCNeighbours
  Results <- MCResults
  MaxQuery = 1
  MaxInFlight = 2
  MaxHistory = 1
INVARIANT
  BreadcrumbIsPath
