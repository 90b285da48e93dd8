\* One session, which enters the game once.
SPECIFICATION FairSpec
CONSTANTS
  Sessions = {s1}
  Objects = {o1}
  Places <- MCPlaces
  Spawn <- MCSpawn
  Home <- MCHome
  SectorSize = 2
  None = None
PROPERTIES MovesAreShown LeaversDisappear
CHECK_DEADLOCK FALSE
