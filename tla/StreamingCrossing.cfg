CONSTANTS
  Catalog <- MCCatalog
  Squares <- MCSquares
  Seed <- MCSeed
  Startup <- MCStartup
  Nowhere = Nowhere
  NoRequest = NoRequest
  MaxGeneration = 6
  Inputs = {"camera", "ring"}
  MayClose = FALSE

SPECIFICATION Spec

INVARIANTS
  SceneHasNoLeak
  TerrainIsFallback
  PrioritiesAreFresh

PROPERTY ImplementsPromise
