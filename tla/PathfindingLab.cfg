CONSTANTS
  Files = {"blank", "map", "north", "south"}
  Blank = "blank"
  MapsAlone = {"map"}
  Spots = {"floor", "roof"}
  Searches = {"default", "wide"}
  Profiles = {"prepared"}
  Cases <- MCCases
  MaxRevision = 5
  None = None

SPECIFICATION FairSpec

INVARIANTS
  DataIsCurrent
  PointsFitData
  AnswerIsFresh

PROPERTY LoadsSettle
