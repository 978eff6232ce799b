SPECIFICATION Spec
CONSTANTS
  Maps <- MCMaps
  Own <- MCOwn
  Packages <- MCPackages
  Uses <- MCUses
  Present <- MCPresent
  Bytes <- MCBytes
  None = None
  MaxUpdates = 2
  MaxBuilds = 3
  InputLimit = 2
  MaxReplacements = 1
INVARIANTS
  ManifestIsASnapshot
  WorldIsOfOneClient
  WorldFitsLimit
CHECK_DEADLOCK FALSE
