\* Up to seven files, six disks, every servers.toml set-up; a cap of three, one candidate kept a file, timeouts of four and two ticks.
SPECIFICATION StartSpec
CONSTANTS
  MaxRepo = 7
  MaxSymbols = 2
  MaxFiles = 3
  PerFile = 1
  ReadyTimeout = 4
  RequestTimeout = 2
  MaxAttempts = 3
  RetryDelay = 1
  Pause = 1
  Disks <- MCDisks
  Setups <- MCSetups
  Skipped = {9}
  NoDir = "no directory"
  MaxLinks = 2
  MaxDepth = 7
INVARIANTS
  TypeOK
  ServerIsOwned
  KilledOnce
  SampleIsSpread
  EndsNearDeadline
  CheckedBeforeSpawn
  WalkIsExact
PROPERTY
  StartupEnds
