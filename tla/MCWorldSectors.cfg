\* One session, which may enter the game twice.
SPECIFICATION Spec
CONSTANTS
  Sessions = {s1}
  Objects = {o1, o2}
  Places <- MCPlaces
  Spawn <- MCSpawn
  Home <- MCHome
  SectorSize = 2
  None = None
SYMMETRY ObjectSymmetry
INVARIANTS WellPlaced PlayerIsOwned
PROPERTIES VanishesOnlyIfRemoved
CHECK_DEADLOCK FALSE
