CONSTANTS
  Jobs <- MCJobs
  CrashCodes <- MCCrashCodes
  None = None
  MaxJobs = 2
  MaxStopFailures = 2
  ReadsMayFail = TRUE

SPECIFICATION FairSpec

INVARIANTS
  MismatchIsReal

PROPERTIES
  ProgressIsMonotone
  KeepsJobPromise
  CancelEndsJob

CHECK_DEADLOCK FALSE
