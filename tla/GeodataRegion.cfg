SPECIFICATION Spec
CONSTANTS
  Width = 4
  Height = 2
  ActorHeight = 48
  MinClimb = 2
  MaxClimb = 16
  BlocksX = 2
  BlocksY = 1
  BlockSide = 2
  MaxLayers = 2
  CellHeight = 1
  MaxCollisions = 1
  Grids <- MCGrids
  Elevations <- MCElevations
INVARIANTS
  StepsLeadBack
  FaithfulToField
  BothFormatsReadBack
  OnlyUnrepresentableIsRejected
