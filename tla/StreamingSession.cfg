CONSTANTS
  Catalog <- OneSquare
  Squares <- OneSquareAndOutside
  Seed <- MCSeed
  Startup <- MCStartup
  Nowhere = Nowhere
  NoRequest = NoRequest
  MaxGeneration = 5
  Inputs = {"camera", "squares", "all", "auto"}
  MayClose = TRUE

SPECIFICATION FairSpec

INVARIANTS
  RequestsAreLive
  StatusIsTruthful
  CancellationIsNoFailure

PROPERTIES
  PendingKeysSettle
  ShutdownCompletes
