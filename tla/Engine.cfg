\* Four symbols in three uris, up to three expansions.
SPECIFICATION Spec
CONSTANTS
  a = a
  b = b
  c = c
  d = d
  main = main
  lib = lib
  web = web
  NodeId <- MCNodeId
  Uri <- MCUri
  UriOf <- MCUriOf
  FileUri <- MCFileUri
  Answers <- MCAnswers
  NoEntry = NoEntry
  NoNode = NoNode
  MaxExpansions = 3
INVARIANTS
  TypeOK
  GraphClosed
  ExpandedIffRecorded
  BlankMeansUnresolved
PROPERTIES
  KnowledgeGrows
  ImplementsMemo
