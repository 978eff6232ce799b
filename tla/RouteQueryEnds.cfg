CONSTANTS
  Jobs <- OneBackend
  CrashCodes <- MCCrashCodes
  None = None
  MaxJobs = 2
  MaxStopFailures = 1
  MaxReplaced = 0

SPECIFICATION FairSpec

PROPERTIES
  EveryQueryEnds
  GivenUpProcessEnds

CHECK_DEADLOCK FALSE
