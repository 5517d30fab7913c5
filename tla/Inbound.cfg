SPECIFICATION Spec
CONSTANTS
  MaxUsize = 40
  Width = 8
  MaxNesting = 3
  Streams <- MCStreams
  Answer <- AnswerOf
INVARIANTS TypeOK ChunksDoNotMatter ProperFramesArrive OnlyBrokenFramesStop ToldWhatIsListed FailedOrRead
CHECK_DEADLOCK FALSE
