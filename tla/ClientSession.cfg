SPECIFICATION FairSpec
CONSTANTS
  Instances = {me, other}
  Roots = {c1, c2}
  MaximumEntries = 2
  None = None
  Half = Half
  MaxStarts = 2
  MaxVanished = 1
  Me = me
  MaxSessions = 2
INVARIANTS
  HistoryIsWhole
  SwitchEndsNoJob
PROPERTIES
  SwitchOpensClient
CHECK_DEADLOCK FALSE
