------------------------------- MODULE WorldMap -------------------------------
(***************************************************************************)
(* The geometry of WorldManager (src/GameServer/World): world coordinates, *)
(* the grid laid over them, the zones, the sectors the grid is divided     *)
(* into, and what a player at a position can see of them.                  *)
(*                                                                         *)
(* Coordinates are whole numbers; the code's are floats.                   *)
(***************************************************************************)
EXTENDS Integers

CONSTANTS Zones,        \* MapData::zones: a set of [type, minX, minY, maxX, maxY]
          Town,         \* ZoneType::Town
          World,        \* [minX, minY, maxX, maxY] of the map
          GridSize,     \* the side of a cell
          GridX, GridY, \* the number of cells along each axis
          VisibleRange, \* playerVisibleRange, in cells
          SectorSize,   \* SECTOR_SIZE, in cells
          SpawnOffset,  \* MapData::spawnOffset
          Walkable      \* MapData::mapGrid: the cells a player may enter

ASSUME MapAssumption ==
  /\ {GridSize, VisibleRange, SectorSize, GridX, GridY} \subseteq Nat \ {0}
  /\ \A area \in Zones \cup {World} : {area.minX, area.minY, area.maxX, area.maxY} \subseteq Int
  /\ SpawnOffset \in Nat
  /\ Town \in {z.type : z \in Zones}
  /\ \A z, w \in Zones : z.type = w.type => z = w

Within(pos, area) == /\ area.minX <= pos.x /\ pos.x < area.maxX
                     /\ area.minY <= pos.y /\ pos.y < area.maxY

\* MapData.json: no cell on the edge of the grid can be entered, the zones
\* do not overlap, cover every cell that can, and lie within the grid, and
\* players are not spawned on the edge of a zone.
ASSUME ShippedMapAssumption ==
  /\ \A c \in Walkable : c.x \in 1 .. GridX - 2 /\ c.y \in 1 .. GridY - 2
  /\ \A c \in Walkable, dx, dy \in 0 .. GridSize - 1 : \E z \in Zones :
       Within([x |-> World.minX + GridSize * c.x + dx, y |-> World.minY + GridSize * c.y + dy], z)
  /\ \A z, w \in Zones : 
       z # w => \/ z.maxX <= w.minX \/ w.maxX <= z.minX
                \/ z.maxY <= w.minY \/ w.maxY <= z.minY
  /\ \A z \in Zones : /\ World.minX <= z.minX /\ z.maxX <= World.maxX
                      /\ World.minY <= z.minY /\ z.maxY <= World.maxY
  /\ World.maxX - World.minX <= GridSize * GridX /\ World.maxY - World.minY <= GridSize * GridY
  /\ SpawnOffset > 0

\* The cast of a float to int32, which drops the fraction.
Truncate(a, size) == IF a < 0 THEN -((-a) \div size) ELSE a \div size

MakeGridIndex(pos) == [x |-> Truncate(pos.x - World.minX, GridSize),
                       y |-> Truncate(pos.y - World.minY, GridSize)]

IsValidGridIndex(cell) == cell.x \in 0 .. GridX - 1 /\ cell.y \in 0 .. GridY - 1

\* The && of the code: no coordinate is below the one end and above the other.
IsValidWorldPosition(pos) ==
  ~ \/ World.minX > pos.x /\ World.maxX < pos.x
    \/ World.minY > pos.y /\ World.maxY < pos.y

\* Mutant: the cell is not looked up in the map.
CanGoOnGrid(pos) == IsValidGridIndex(MakeGridIndex(pos))

CanGo(pos) == LET cell == MakeGridIndex(pos) IN IsValidGridIndex(cell) /\ cell \in Walkable

\* The zone a position is in; Town is the default.
GetZoneByPosition(pos) ==
  IF \E z \in Zones : Within(pos, z) THEN (CHOOSE z \in Zones : Within(pos, z)).type ELSE Town

\* The positions it may return; the z and the yaw are left out.
GetRandomSpawnPosition ==
  UNION {[x : z.minX + SpawnOffset .. z.maxX - SpawnOffset,
          y : z.minY + SpawnOffset .. z.maxY - SpawnOffset] : z \in {w \in Zones : w.type = Town}}

\* Does what a player at pos sees overlap a zone?
IsInRange(pos, zone) ==
  LET range == VisibleRange * GridSize IN
  /\ pos.x - range < zone.maxX /\ pos.x + range > zone.minX
  /\ pos.y - range < zone.maxY /\ pos.y + range > zone.minY

\* Mutant: only the player's own zone is searched.
OwnZone(pos) == {GetZoneByPosition(pos)}

GetVisibleZones(pos) ==
  {GetZoneByPosition(pos)} \cup {z.type : z \in {w \in Zones : IsInRange(pos, w)}}

\* SectorId, from a cell.
SectorId(cell) == [x |-> cell.x \div SectorSize, y |-> cell.y \div SectorSize]

AtLeast(a, b) == IF a < b THEN b ELSE a
AtMost(a, b) == IF a > b THEN b ELSE a

\* Mutant: the sectors of the player's own cell only.
OwnSectorIds(cell) == {SectorId(cell)}

\* The sectors that hold the cells in sight of a cell.
GetVisibleSectorIds(cell) ==
  {[x |-> i, y |-> j] :
     i \in AtLeast(cell.x - VisibleRange, 0) \div SectorSize
             .. AtMost(cell.x + VisibleRange, GridX) \div SectorSize,
     j \in AtLeast(cell.y - VisibleRange, 0) \div SectorSize
             .. AtMost(cell.y + VisibleRange, GridY) \div SectorSize}

Gap(a, b) == IF a < b THEN b - a ELSE a - b

IsInGridRange(cell, target) ==
  Gap(cell.x, target.x) <= VisibleRange /\ Gap(cell.y, target.y) <= VisibleRange

\* The comment on playerVisibleRange: what a player sees is the square of
\* PLAYER_VISUAL_RANGE cells around it.  Its border is left out.
InSight(pos, other) ==
  /\ Gap(pos.x, other.x) < VisibleRange * GridSize
  /\ Gap(pos.y, other.y) < VisibleRange * GridSize
=============================================================================
