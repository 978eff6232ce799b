CONSTANTS
  Jobs <- MCJobs
  CrashCodes <- MCCrashCodes
  None = None
  MaxJobs = 2
  MaxStopFailures = 1
  ReadsMayFail = TRUE

SPECIFICATION FairSpec

INVARIANTS
  StatusIsBacked

PROPERTIES
  KeepsJobPromise
  CancelEndsJob

CHECK_DEADLOCK FALSE
