\* The mark of an unresolved symbol is only drawn on one (ui/graph.rs:11-12): violated.
SPECIFICATION Spec
CONSTANTS
  a = a
  b = b
  c = c
  d = d
  main = main
  lib = lib
  web = web
  NodeId <- MCNodeId
  Uri <- MCUri
  UriOf <- MCUriOf
  FileUri <- MCFileUri
  Answers <- MCAnswers
  NoEntry = NoEntry
  NoNode = NoNode
  MaxExpansions = 3
INVARIANT
  MarkMeansUnresolved
