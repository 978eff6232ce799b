CONSTANTS
  SceneSquares = {"a", "b", "c"}
  Visual <- MCVisual
  Neutral = "neutral"
  MaxUploads = 2
  MaxFaults = 1
  MaxUnits = 3
  None = None

SPECIFICATION LiveSpec

INVARIANTS
  DrawsSeeTheirOwn
  GpuHoldsResidents
