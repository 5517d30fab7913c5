\* Three calls, two requests of the server, pipes of two and one messages.
SPECIFICATION Spec
CONSTANTS
  MaxCalls = 3
  MaxAsks = 2
  StdinSize = 2
  StdoutSize = 1
  Duplex = TRUE
INVARIANTS
  TypeOK
  AnswerIsOwn
  OnlyLivePending
  NoLostAnswer
  RepliesInOrder
PROPERTY
  CallReturns
CHECK_DEADLOCK FALSE
