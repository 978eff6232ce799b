CONSTANTS
  Jobs <- BothBackends
  CrashCodes <- MCCrashCodes
  None = None
  MaxJobs = 1
  MaxStopFailures = 1
  MaxReplaced = 1

SPECIFICATION Spec

INVARIANTS
  AnswersAgree
  CauseIsNamed
  NoStaleAnswer

CHECK_DEADLOCK FALSE
