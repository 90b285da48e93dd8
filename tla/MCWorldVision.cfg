SPECIFICATION FairSpec
CONSTANTS
  Zones <- SmallZones
  World <- SmallWorld
  Walkable <- SmallWalkable
  Points <- SmallPoints
  SpawnOffset = 2
  Town = "Town"
  GridSize = 3
  GridX = 6
  GridY = 3
  VisibleRange = 1
  SectorSize = 2
  Players = {p1, p2}
  MaxMoves = 2
  Leavers = {p2}
  None = None
INVARIANTS
  ScreenMatchesVisible
  SightIsComplete
  PlayersStayInTheWorld
PROPERTIES
  ScreenSettles
CHECK_DEADLOCK FALSE
