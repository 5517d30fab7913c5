\* Two symbols, three result lists, one letter, two requests under way, a breadcrumb of two.
SPECIFICATION Spec
CONSTANTS
  f = f
  g = g
  NoNode = NoNode
  NodeId <- MCNodeId
  Neighbours <- MCNeighbours
  Results <- MCResults
  MaxQuery = 1
  MaxInFlight = 2
  MaxHistory = 2
INVARIANTS
  TypeOK
  SpinnerIsBacked
  PanesAreHonest
  EnterTakesHighlighted
  NoOrphanedEngine
