--------------------------- MODULE WorldVisionProofs ---------------------------
(***************************************************************************)
(* Proofs about WorldVision, for any players, positions, zones and sizes   *)
(* of cells, sectors and sight that have what ShippedMapAssumption says:   *)
(* the screens are what the server believes they are, nobody gets out of   *)
(* the zones, and the search by zones and sectors misses no one in sight.  *)
(***************************************************************************)
EXTENDS WorldVision, TLAPS

-----------------------------------------------------------------------------
(* The inductive invariant *)

\* While its session is open, a client shows beyond what is visible only those
\* that announced themselves and itself, and does not show only those who left.
ScreenInv ==
  \A p \in Players : ~ closed[p] =>
    /\ screen[p] \ visible[p] \subseteq announced[p] \cup {p}
    /\ \A q \in visible[p] \ screen[p] : closed[q]

\* Only players whose sessions were closed leave.
LeaveInv == \A p \in Players : leaving[p] # "no" => closed[p]

\* A player is at home until it enters; then it is in a zone, and its zone and
\* cell are those of its position.
PlaceInv ==
  \A p \in Players :
    IF entering[p] = "no"
    THEN position[p].cur = Home /\ p \notin updates
    ELSE /\ position[p].cur = Place(position[p].at)
         /\ \E z \in Zones : Within(position[p].at, z)

\* An open player that is not disturbed is listed where it is, unless its
\* change to another place waits for the frame thread.
ListedInv ==
  \A p \in Players : entering[p] # "no" /\ ~ closed[p] /\ p \notin disturbed =>
    IF p \in updates THEN position[p].prev # position[p].cur
    ELSE [who |-> p, in |-> SectorOf(position[p].cur)] \in listed

IInv == TypeOK /\ ScreenInv /\ LeaveInv /\ PlaceInv /\ ListedInv

-----------------------------------------------------------------------------
(* One axis of the grid *)

LEMMA DivIs ==
  ASSUME NEW a \in Nat, NEW g \in Nat \ {0}
  PROVE  /\ a \div g \in Nat
         /\ a % g \in 0 .. g - 1
         /\ a = g * (a \div g) + (a % g)
  BY SMT

LEMMA DivMonotone ==
  ASSUME NEW a \in Nat, NEW b \in Nat, NEW g \in Nat \ {0}, a <= b
  PROVE  a \div g <= b \div g
  BY SMT

LEMMA DivBelow ==
  ASSUME NEW a \in Nat, NEW m \in Int, NEW g \in Nat \ {0}, a < g * m
  PROVE  a \div g < m
  BY SMT

LEMMA DivShift ==
  ASSUME NEW a \in Nat, NEW b \in Nat, NEW v \in Nat, NEW g \in Nat \ {0}, b < a + v * g
  PROVE  b \div g <= a \div g + v
  BY SMT

\* Who is less than v cells away is at most v cells further.
LEMMA GapOfCells ==
  ASSUME NEW a \in Nat, NEW b \in Nat, NEW v \in Nat, NEW g \in Nat \ {0}, Gap(a, b) < v * g
  PROVE  Gap(a \div g, b \div g) <= v
<1>1. a \div g \in Nat /\ b \div g \in Nat /\ v * g \in Nat
  BY SMT
<1>2. b < a + v * g /\ a < b + v * g
  BY <1>1 DEF Gap
<1>3. b \div g <= a \div g + v /\ a \div g <= b \div g + v
  BY <1>2, DivShift
<1>. QED
  BY <1>1, <1>3 DEF Gap

\* The sectors from the one end of what is in sight to the other hold every
\* cell in sight.
LEMMA SectorInRange ==
  ASSUME NEW n \in Nat \ {0}, NEW c \in 0 .. n - 1, NEW d \in 0 .. n - 1,
         NEW v \in Nat, NEW s \in Nat \ {0}, Gap(c, d) <= v
  PROVE  d \div s \in AtLeast(c - v, 0) \div s .. AtMost(c + v, n) \div s
<1>1. /\ AtLeast(c - v, 0) \in Nat /\ AtLeast(c - v, 0) <= d
      /\ AtMost(c + v, n) \in Nat /\ d <= AtMost(c + v, n)
  BY DEF AtLeast, AtMost, Gap
<1>2. AtLeast(c - v, 0) \div s <= d \div s /\ d \div s <= AtMost(c + v, n) \div s
  BY <1>1, DivMonotone
<1>3. {AtLeast(c - v, 0) \div s, d \div s, AtMost(c + v, n) \div s} \subseteq Int
  BY <1>1, DivIs
<1>. QED
  BY <1>2, <1>3

-----------------------------------------------------------------------------
(* Cells and zones *)

LEMMA AreaType ==
  ASSUME NEW z \in Zones \cup {World}
  PROVE  z.minX \in Int /\ z.minY \in Int /\ z.maxX \in Int /\ z.maxY \in Int
  BY MapAssumption

LEMMA CellType ==
  ASSUME NEW pos \in Positions
  PROVE  MakeGridIndex(pos) \in [x : Int, y : Int]
<1>1. \A a \in Int : Truncate(a, GridSize) \in Int
  BY MapAssumption, SMT DEF Truncate
<1>. QED
  BY <1>1, AreaType DEF MakeGridIndex, Positions

LEMMA ZoneType ==
  ASSUME NEW pos
  PROVE  GetZoneByPosition(pos) \in {z.type : z \in Zones}
  BY MapAssumption DEF GetZoneByPosition

LEMMA PlaceType ==
  ASSUME NEW pos \in Positions
  PROVE  Place(pos) \in Places
  BY CellType, ZoneType DEF Place, Places

\* A position in a zone is in a cell of the grid.
LEMMA CellIs ==
  ASSUME NEW pos \in Positions, NEW z \in Zones, Within(pos, z)
  PROVE  /\ pos.x - World.minX \in Nat /\ pos.y - World.minY \in Nat
         /\ MakeGridIndex(pos).x = (pos.x - World.minX) \div GridSize
         /\ MakeGridIndex(pos).y = (pos.y - World.minY) \div GridSize
         /\ MakeGridIndex(pos).x \in 0 .. GridX - 1
         /\ MakeGridIndex(pos).y \in 0 .. GridY - 1
<1> DEFINE a == pos.x - World.minX
           b == pos.y - World.minY
<1>1. /\ pos.x \in Int /\ pos.y \in Int
      /\ World.minX \in Int /\ World.minY \in Int /\ World.maxX \in Int /\ World.maxY \in Int
      /\ z.minX \in Int /\ z.minY \in Int /\ z.maxX \in Int /\ z.maxY \in Int
  BY AreaType DEF Positions
<1>2. /\ World.minX <= z.minX /\ z.maxX <= World.maxX
      /\ World.minY <= z.minY /\ z.maxY <= World.maxY
      /\ World.maxX - World.minX <= GridSize * GridX /\ World.maxY - World.minY <= GridSize * GridY
  BY ShippedMapAssumption
<1>3. GridSize \in Nat \ {0} /\ GridX \in Nat \ {0} /\ GridY \in Nat \ {0}
  BY MapAssumption
<1>4. GridSize * GridX \in Nat /\ GridSize * GridY \in Nat
  BY <1>3, SMT
<1>5. a \in Nat /\ b \in Nat /\ a < GridSize * GridX /\ b < GridSize * GridY
  BY <1>1, <1>2, <1>4 DEF Within
<1>6. /\ MakeGridIndex(pos).x = a \div GridSize
      /\ MakeGridIndex(pos).y = b \div GridSize
  BY <1>5, <1>3 DEF MakeGridIndex, Truncate
<1>7. /\ a \div GridSize \in Nat /\ b \div GridSize \in Nat
      /\ a \div GridSize < GridX /\ b \div GridSize < GridY
  <2> HIDE DEF a, b
  <2>1. a \div GridSize \in Nat /\ b \div GridSize \in Nat
    BY <1>3, <1>5, DivIs
  <2>2. a \div GridSize < GridX
    BY <1>3, <1>5, DivBelow
  <2>3. b \div GridSize < GridY
    BY <1>3, <1>5, DivBelow
  <2>. QED
    BY <2>1, <2>2, <2>3
<1>. QED
  BY <1>3, <1>5, <1>6, <1>7

\* A position to which a client can go is in a zone, though a coordinate below
\* the world is cast to cell 0: that cell cannot be entered.
LEMMA CanGoIsWithin ==
  ASSUME NEW pos \in Positions, CanGo(pos)
  PROVE  \E z \in Zones : Within(pos, z)
<1> DEFINE a == pos.x - World.minX
           b == pos.y - World.minY
           cell == MakeGridIndex(pos)
<1>1. /\ GridSize \in Nat \ {0} /\ a \in Int /\ b \in Int
      /\ pos.x \in Int /\ pos.y \in Int /\ World.minX \in Int /\ World.minY \in Int
  BY MapAssumption, AreaType DEF Positions
<1>2. cell \in Walkable /\ cell.x >= 1 /\ cell.y >= 1
  BY ShippedMapAssumption, MapAssumption DEF CanGo
<1>3. \A i \in Int : Truncate(i, GridSize) >= 1 => i \in Nat /\ Truncate(i, GridSize) = i \div GridSize
  <2> SUFFICES ASSUME NEW i \in Int, Truncate(i, GridSize) >= 1
               PROVE  i >= 0
    BY DEF Truncate
  <2>1. SUFFICES ASSUME i < 0 PROVE FALSE
    OBVIOUS
  <2>2. -i \in Nat /\ Truncate(i, GridSize) = -((-i) \div GridSize)
    BY <2>1 DEF Truncate
  <2>3. (-i) \div GridSize \in Nat
    BY <1>1, <2>2, DivIs
  <2>. QED
    BY <2>2, <2>3
<1>4. cell.x = Truncate(a, GridSize) /\ cell.y = Truncate(b, GridSize)
  BY DEF MakeGridIndex
<1>5. a \in Nat /\ b \in Nat /\ cell.x = a \div GridSize /\ cell.y = b \div GridSize
  BY <1>1, <1>2, <1>3, <1>4
<1>6. /\ a % GridSize \in 0 .. GridSize - 1 /\ a = GridSize * cell.x + (a % GridSize)
      /\ b % GridSize \in 0 .. GridSize - 1 /\ b = GridSize * cell.y + (b % GridSize)
  BY <1>1, <1>5, DivIs
<1>7. /\ GridSize * cell.x \in Int /\ GridSize * cell.y \in Int
      /\ a % GridSize \in Int /\ b % GridSize \in Int
  <2> HIDE DEF a, b, cell
  <2>1. cell.x \in Nat /\ cell.y \in Nat
    BY <1>1, <1>5, DivIs
  <2>2. \A m \in Nat : GridSize * m \in Int
    BY <1>1, SMT
  <2>. QED
    BY <1>1, <1>6, <2>1, <2>2
<1>8. /\ pos.x = World.minX + GridSize * cell.x + (a % GridSize)
      /\ pos.y = World.minY + GridSize * cell.y + (b % GridSize)
  <2>1. pos.x = World.minX + a /\ pos.y = World.minY + b
    BY <1>1
  <2> HIDE DEF a, b, cell
  <2>. QED
    BY <1>1, <1>6, <1>7, <2>1
<1>9. PICK z \in Zones :
        Within([x |-> World.minX + GridSize * cell.x + (a % GridSize),
                y |-> World.minY + GridSize * cell.y + (b % GridSize)], z)
  BY <1>2, <1>6, ShippedMapAssumption
<1>. QED
  BY <1>8, <1>9 DEF Within

\* A spawn position is in the town.
LEMMA SpawnIsWithin ==
  ASSUME NEW pos \in GetRandomSpawnPosition
  PROVE  pos \in Positions /\ (\E z \in Zones : Within(pos, z)) /\ Place(pos) # Home
<1>1. PICK z \in Zones : pos \in [x : z.minX + SpawnOffset .. z.maxX - SpawnOffset,
                                  y : z.minY + SpawnOffset .. z.maxY - SpawnOffset]
  BY DEF GetRandomSpawnPosition
<1>2. /\ z.minX \in Int /\ z.minY \in Int /\ z.maxX \in Int /\ z.maxY \in Int
      /\ SpawnOffset \in Nat /\ SpawnOffset > 0
  BY AreaType, MapAssumption, ShippedMapAssumption
<1>3. pos \in Positions /\ Within(pos, z)
  BY <1>1, <1>2 DEF Positions, Within
<1>4. Place(pos) # Home
  BY PlayerAssumption DEF Place, Home
<1>. QED
  BY <1>3, <1>4

\* The search by zones and sectors around a position p finds a position q that
\* is in sight of it.
LEMMA InSightIsSearched ==
  ASSUME NEW p \in Positions, NEW q \in Positions, NEW y \in Zones, NEW z \in Zones,
         Within(p, y), Within(q, z), InSight(p, q)
  PROVE  /\ GetZoneByPosition(q) \in GetVisibleZones(p)
         /\ SectorId(MakeGridIndex(q)) \in GetVisibleSectorIds(MakeGridIndex(p))
         /\ IsInGridRange(MakeGridIndex(p), MakeGridIndex(q))
<1> DEFINE c == MakeGridIndex(p)
           d == MakeGridIndex(q)
           range == VisibleRange * GridSize
<1>1. /\ VisibleRange \in Nat /\ GridSize \in Nat \ {0} /\ SectorSize \in Nat \ {0}
      /\ GridX \in Nat \ {0} /\ GridY \in Nat \ {0}
  BY MapAssumption
<1>2. range \in Nat
  BY <1>1, SMT
<1>3. /\ p.x \in Int /\ p.y \in Int /\ q.x \in Int /\ q.y \in Int
      /\ World.minX \in Int /\ World.minY \in Int
  BY AreaType DEF Positions
<1>4. Gap(p.x, q.x) < range /\ Gap(p.y, q.y) < range
  BY DEF InSight
<1>5. GetZoneByPosition(q) \in GetVisibleZones(p)
  <2>1. PICK w \in Zones : Within(q, w) /\ GetZoneByPosition(q) = w.type
    BY DEF GetZoneByPosition
  <2>2. w.minX \in Int /\ w.minY \in Int /\ w.maxX \in Int /\ w.maxY \in Int
    BY AreaType
  <2>3. IsInRange(p, w)
    <3>1. /\ p.x - range < w.maxX /\ p.x + range > w.minX
          /\ p.y - range < w.maxY /\ p.y + range > w.minY
      <4> HIDE DEF range
      <4>. QED
        BY <1>2, <1>3, <1>4, <2>1, <2>2 DEF Within, Gap
    <3>. QED
      BY <3>1 DEF IsInRange
  <2>. QED
    BY <2>1, <2>3 DEF GetVisibleZones
<1>6. /\ c.x \in 0 .. GridX - 1 /\ c.y \in 0 .. GridY - 1
      /\ d.x \in 0 .. GridX - 1 /\ d.y \in 0 .. GridY - 1
  BY CellIs
<1>7. Gap(c.x, d.x) <= VisibleRange /\ Gap(c.y, d.y) <= VisibleRange
  <2>1. /\ p.x - World.minX \in Nat /\ q.x - World.minX \in Nat
        /\ p.y - World.minY \in Nat /\ q.y - World.minY \in Nat
        /\ c.x = (p.x - World.minX) \div GridSize /\ c.y = (p.y - World.minY) \div GridSize
        /\ d.x = (q.x - World.minX) \div GridSize /\ d.y = (q.y - World.minY) \div GridSize
    BY CellIs
  <2>2. /\ Gap(p.x - World.minX, q.x - World.minX) = Gap(p.x, q.x)
        /\ Gap(p.y - World.minY, q.y - World.minY) = Gap(p.y, q.y)
    BY <1>3 DEF Gap
  <2>. QED
    BY <1>1, <1>4, <2>1, <2>2, GapOfCells
<1>8. /\ d.x \div SectorSize \in AtLeast(c.x - VisibleRange, 0) \div SectorSize
                                   .. AtMost(c.x + VisibleRange, GridX) \div SectorSize
      /\ d.y \div SectorSize \in AtLeast(c.y - VisibleRange, 0) \div SectorSize
                                   .. AtMost(c.y + VisibleRange, GridY) \div SectorSize
  <2> HIDE DEF c, d
  <2>. QED
    BY <1>1, <1>6, <1>7, SectorInRange
<1>. QED
  BY <1>5, <1>7, <1>8 DEF SectorId, GetVisibleSectorIds, IsInGridRange

-----------------------------------------------------------------------------
(* The steps *)

\* A search finds players.
LEMMA SearchType ==
  \A pos : VisibleFrom(pos) \subseteq Players
  BY DEF VisibleFrom, GetVisibleObjectsInSector

LEMMA InitInv == Init => IInv
<1> SUFFICES ASSUME Init PROVE IInv
  OBVIOUS
<1>1. Home \in Places /\ [x |-> 0, y |-> 0] \in Positions
  BY MapAssumption DEF Home, Places, Positions
<1>2. Resting \in Frames /\ (Resting.at = "update" <=> Resting.who # None)
  BY DEF Resting, Frames
<1>3. TypeOK
  BY <1>1, <1>2, PlayerAssumption DEF Init, TypeOK
<1>. QED
  BY <1>3 DEF Init, IInv, ScreenInv, LeaveInv, PlaceInv, ListedInv

\* A step that leaves the screens alone, and reopens no session.
LEMMA ScreensKept ==
  ASSUME ScreenInv, UNCHANGED clientVars, \A p \in Players : closed[p] => closed'[p],
         visible \in [Players -> SUBSET Players]
  PROVE  ScreenInv'
  BY DEF ScreenInv, clientVars

\* A step that leaves the places alone, and reopens no session.
LEMMA PlacesKept ==
  ASSUME PlaceInv, ListedInv, UNCHANGED <<position, updates, listed>>,
         \A p \in Players : /\ closed[p] => closed'[p]
                            /\ entering'[p] = "no" <=> entering[p] = "no"
                            /\ p \in disturbed => p \in disturbed'
  PROVE  PlaceInv' /\ ListedInv'
  BY DEF PlaceInv, ListedInv

LEMMA SetWorldPositionIs ==
  ASSUME TypeOK, NEW p \in Players, NEW pos \in Positions, SetWorldPosition(p, pos)
  PROVE  /\ position' \in [Players -> [prev : Places, cur : Places, at : Positions]]
         /\ position'[p] = [prev |-> position[p].cur, cur |-> Place(pos), at |-> pos]
         /\ \A q \in Players \ {p} : position'[q] = position[q]
         /\ updates' \subseteq Players /\ disturbed' \subseteq Players
         /\ updates \subseteq updates' /\ updates' \subseteq updates \cup {p}
         /\ disturbed \subseteq disturbed'
         /\ p \in updates => p \in disturbed'
         /\ p \notin updates => (p \in updates' <=> position[p].cur # Place(pos))
<1>1. position[p].cur \in Places /\ Place(pos) \in Places
  BY PlaceType DEF TypeOK
<1>2. /\ position' \in [Players -> [prev : Places, cur : Places, at : Positions]]
      /\ position'[p] = [prev |-> position[p].cur, cur |-> Place(pos), at |-> pos]
      /\ \A q \in Players \ {p} : position'[q] = position[q]
  BY <1>1 DEF TypeOK, SetWorldPosition
<1>. QED
  BY <1>2 DEF TypeOK, SetWorldPosition

\* A move, or the first place: it is where it says, and either listed there
\* already or about to be.
LEMMA PlaceTaken ==
  ASSUME TypeOK, PlaceInv, ListedInv, NEW p \in Players, NEW pos \in Positions, SetWorldPosition(p, pos),
         \E z \in Zones : Within(pos, z),
         entering[p] = "no" => Place(pos) # Home,
         \A q \in Players : /\ closed[q] => closed'[q]
                            /\ q # p => entering'[q] = entering[q],
         entering'[p] # "no", listed' = listed
  PROVE  PlaceInv' /\ ListedInv'
<1>0. /\ position'[p] = [prev |-> position[p].cur, cur |-> Place(pos), at |-> pos]
      /\ \A q \in Players \ {p} : position'[q] = position[q]
      /\ updates \subseteq updates' /\ updates' \subseteq updates \cup {p}
      /\ disturbed \subseteq disturbed'
      /\ p \in updates => p \in disturbed'
      /\ p \notin updates => (p \in updates' <=> position[p].cur # Place(pos))
  BY SetWorldPositionIs
<1>1. PlaceInv'
  <2> SUFFICES ASSUME NEW q \in Players
               PROVE  IF entering'[q] = "no"
                      THEN position'[q].cur = Home /\ q \notin updates'
                      ELSE /\ position'[q].cur = Place(position'[q].at)
                           /\ \E z \in Zones : Within(position'[q].at, z)
    BY DEF PlaceInv, Place, Within, MakeGridIndex, GetZoneByPosition, Home
  <2>1. CASE q = p
    BY <1>0, <2>1
  <2>2. CASE q # p
    BY <1>0, <2>2 DEF PlaceInv
  <2>. QED
    BY <2>1, <2>2
<1>2. ASSUME NEW q \in Players, entering'[q] # "no", ~ closed'[q], q \notin disturbed'
      PROVE  IF q \in updates' THEN position'[q].prev # position'[q].cur
             ELSE [who |-> q, in |-> SectorOf(position'[q].cur)] \in listed'
  <2>1. ~ closed[q] /\ q \notin disturbed
    BY <1>0, <1>2
  <2>2. CASE q # p
    BY <1>2, <2>1, <2>2, <1>0 DEF ListedInv
  <2>3. CASE q = p
    <3>1. p \notin updates
      BY <1>0, <1>2, <2>3
    <3>2. CASE position[p].cur # Place(pos)
      BY <2>3, <3>1, <1>0, <3>2
    <3>3. CASE position[p].cur = Place(pos)
      <4>1. entering[p] # "no"
        BY <3>3 DEF PlaceInv
      <4>. QED
        BY <2>1, <2>3, <3>1, <3>3, <4>1, <1>0 DEF ListedInv
    <3>. QED
      BY <3>2, <3>3
  <2>. QED
    BY <2>2, <2>3
<1>3. ListedInv'
  BY <1>2 DEF ListedInv
<1>. QED
  BY <1>1, <1>3

LEMMA EnterPlaceStep ==
  ASSUME IInv, NEW p \in Players, EnterPlace(p)
  PROVE  IInv'
<1> USE DEF IInv
<1>1. PICK pos \in GetRandomSpawnPosition : SetWorldPosition(p, pos)
  BY DEF EnterPlace
<1>2. pos \in Positions /\ (\E z \in Zones : Within(pos, z)) /\ Place(pos) # Home
  BY SpawnIsWithin
<1>3. /\ entering' = [entering EXCEPT ![p] = "gather"]
      /\ UNCHANGED <<found, leaveVars, deletes, listed, frame, clientVars, moves>>
  BY DEF EnterPlace
<1>4. entering \in [Players -> {"no", "gather", "announce", "introduce", "done"}]
  BY DEF TypeOK
<1>5. PlaceInv' /\ ListedInv'
  BY <1>1, <1>2, <1>3, <1>4, PlaceTaken DEF leaveVars
<1>6. TypeOK'
  BY <1>1, <1>2, <1>3, <1>4, SetWorldPositionIs DEF TypeOK, leaveVars, clientVars
<1>. QED
  BY <1>3, <1>5, <1>6, ScreensKept DEF LeaveInv, leaveVars, TypeOK

LEMMA EnterGatherStep ==
  ASSUME IInv, NEW p \in Players, EnterGather(p)
  PROVE  IInv'
<1> USE DEF IInv
<1> USE DEF EnterGather, leaveVars, sectorVars
<1>1. TypeOK'
  BY SearchType DEF TypeOK, clientVars
<1>2. PlaceInv' /\ ListedInv'
  BY PlacesKept DEF TypeOK
<1>. QED
  BY <1>1, <1>2, ScreensKept DEF LeaveInv, TypeOK

LEMMA EnterAnnounceStep ==
  ASSUME IInv, NEW p \in Players, EnterAnnounce(p)
  PROVE  IInv'
<1> USE DEF IInv
<1> USE DEF EnterAnnounce, leaveVars, sectorVars
<1>1. TypeOK'
  BY DEF TypeOK, SendBroadcast, Shown
<1>2. PlaceInv' /\ ListedInv'
  BY PlacesKept DEF TypeOK
<1>3. ScreenInv'
  <2> SUFFICES ASSUME NEW q \in Players, ~ closed[q]
               PROVE  /\ screen'[q] \ visible[q] \subseteq announced'[q] \cup {q}
                      /\ \A r \in visible[q] \ screen'[q] : closed[r]
    BY DEF ScreenInv
  <2>1. screen'[q] = IF q \in found[p] THEN screen[q] \cup {p} ELSE screen[q]
    BY DEF SendBroadcast, Shown
  <2>2. announced'[q] = IF q \in found[p] \ {p} THEN announced[q] \cup {p} ELSE announced[q]
    OBVIOUS
  <2>. QED
    BY <2>1, <2>2 DEF ScreenInv
<1>. QED
  BY <1>1, <1>2, <1>3 DEF LeaveInv

LEMMA EnterIntroduceStep ==
  ASSUME IInv, NEW p \in Players, EnterIntroduce(p)
  PROVE  IInv'
<1> USE DEF IInv
<1> USE DEF EnterIntroduce, leaveVars, sectorVars
<1>1. TypeOK'
  BY DEF TypeOK, Shown
<1>2. PlaceInv' /\ ListedInv'
  BY PlacesKept DEF TypeOK
<1>3. ScreenInv'
  BY DEF ScreenInv, TypeOK, Shown
<1>. QED
  BY <1>1, <1>2, <1>3 DEF LeaveInv

LEMMA MoveStep ==
  ASSUME IInv, NEW p \in Players, NEW pos \in Points, Move(p, pos)
  PROVE  IInv'
<1> USE DEF IInv
<1>1. pos \in Positions /\ \E z \in Zones : Within(pos, z)
  BY PlayerAssumption, CanGoIsWithin DEF Move, Positions
<1>2. /\ entering[p] = "done" /\ ~ closed[p]
      /\ SetWorldPosition(p, pos) /\ moves' = moves + 1 /\ moves < MaxMoves
      /\ closed' = [closed EXCEPT ![p] = ~ IsValidWorldPosition(pos)]
      /\ UNCHANGED <<enterVars, leaving, near, deletes, listed, frame, clientVars>>
  BY DEF Move, MoveSimulate, IsValid
<1>3. closed' \in [Players -> BOOLEAN] /\ \A q \in Players : closed[q] => closed'[q]
  BY <1>2 DEF TypeOK, IsValidWorldPosition
<1>4. PlaceInv' /\ ListedInv'
  BY <1>1, <1>2, <1>3, PlaceTaken DEF enterVars
<1>5. moves' \in 0 .. MaxMoves
  BY <1>2, PlayerAssumption DEF TypeOK
<1>6. TypeOK'
  BY <1>1, <1>2, <1>3, <1>5, SetWorldPositionIs DEF TypeOK, enterVars, clientVars
<1>. QED
  BY <1>2, <1>3, <1>4, <1>6, ScreensKept DEF LeaveInv, TypeOK

LEMMA CloseStep ==
  ASSUME IInv, NEW p \in Players, Close(p)
  PROVE  IInv'
<1> USE DEF IInv
<1> USE DEF Close, enterVars, sectorVars
<1>1. TypeOK'
  BY DEF TypeOK, clientVars
<1>2. PlaceInv' /\ ListedInv'
  BY PlacesKept DEF TypeOK
<1>. QED
  BY <1>1, <1>2, ScreensKept DEF LeaveInv, TypeOK

LEMMA LeaveRequestStep ==
  ASSUME IInv, NEW p \in Players, LeaveRequest(p)
  PROVE  IInv'
<1> USE DEF IInv
<1> USE DEF LeaveRequest, enterVars
<1>1. TypeOK'
  BY DEF TypeOK, clientVars
<1>2. PlaceInv' /\ ListedInv'
  BY PlacesKept DEF TypeOK
<1>. QED
  BY <1>1, <1>2, ScreensKept DEF LeaveInv, TypeOK

LEMMA LeaveGatherStep ==
  ASSUME IInv, NEW p \in Players, LeaveGather(p)
  PROVE  IInv'
<1> USE DEF IInv
<1> USE DEF LeaveGather, enterVars, sectorVars
<1>1. TypeOK'
  BY SearchType DEF TypeOK, clientVars
<1>2. PlaceInv' /\ ListedInv'
  BY PlacesKept DEF TypeOK
<1>. QED
  BY <1>1, <1>2, ScreensKept DEF LeaveInv, TypeOK

LEMMA LeaveTellStep ==
  ASSUME IInv, NEW p \in Players, LeaveTell(p)
  PROVE  IInv'
<1> USE DEF IInv
<1> USE DEF LeaveTell, enterVars, sectorVars
<1>1. TypeOK'
  BY DEF TypeOK, Hidden
<1>2. PlaceInv' /\ ListedInv'
  BY PlacesKept DEF TypeOK
<1>3. closed[p]
  BY DEF LeaveInv
<1>4. ScreenInv'
  <2> SUFFICES ASSUME NEW q \in Players, ~ closed[q]
               PROVE  /\ screen'[q] \ visible[q] \subseteq announced[q] \cup {q}
                      /\ \A r \in visible[q] \ screen'[q] : closed[r]
    BY DEF ScreenInv
  <2>1. screen'[q] = screen[q] \/ screen'[q] = screen[q] \ {p}
    BY DEF Hidden
  <2>. QED
    BY <1>3, <2>1 DEF ScreenInv
<1>5. LeaveInv'
  BY <1>3 DEF LeaveInv, TypeOK
<1>. QED
  BY <1>1, <1>2, <1>4, <1>5

LEMMA FrameSectorsStep ==
  ASSUME IInv, FrameSectors
  PROVE  IInv'
<1> USE DEF IInv
<1> DEFINE moved == {p \in updates : position[p].prev # position[p].cur}
<1>1. /\ listed' = ((listed \ deletes)
                      \ {[who |-> p, in |-> SectorOf(position[p].prev)] : p \in moved})
                      \cup {[who |-> p, in |-> SectorOf(position[p].cur)] : p \in moved}
      /\ updates' = {} /\ deletes' = {}
      /\ frame' = [Resting EXCEPT !.todo = {p \in Players : ~ closed[p]}]
      /\ UNCHANGED <<enterVars, leaveVars, position, clientVars, moves, disturbed>>
  BY DEF FrameSectors
<1>2. \A l \in listed' : l.who \in Players /\ entering[l.who] # "no"
  BY <1>1 DEF TypeOK, PlaceInv
<1>3. TypeOK'
  BY <1>1, <1>2 DEF TypeOK, Frames, Resting, enterVars, leaveVars, clientVars
<1>4. PlaceInv'
  BY <1>1 DEF PlaceInv, enterVars
<1>5. ListedInv'
  <2> SUFFICES ASSUME NEW q \in Players, entering[q] # "no", ~ closed[q], q \notin disturbed
               PROVE  [who |-> q, in |-> SectorOf(position[q].cur)] \in listed'
    BY <1>1 DEF ListedInv, enterVars, leaveVars
  <2>1. CASE q \in updates
    BY <1>1, <2>1 DEF ListedInv
  <2>2. CASE q \notin updates
    <3>1. [who |-> q, in |-> SectorOf(position[q].cur)] \in listed \ deletes
      BY <2>2 DEF ListedInv, TypeOK
    <3>2. [who |-> q, in |-> SectorOf(position[q].cur)]
            \notin {[who |-> p, in |-> SectorOf(position[p].prev)] : p \in moved}
      BY <2>2
    <3>. QED
      BY <1>1, <3>1, <3>2
  <2>. QED
    BY <2>1, <2>2
<1>. QED
  BY <1>1, <1>3, <1>4, <1>5, ScreensKept DEF LeaveInv, leaveVars, TypeOK

LEMMA FrameGatherStep ==
  ASSUME IInv, NEW p \in Players, FrameGather(p)
  PROVE  IInv'
<1> USE DEF IInv
<1>1. UNCHANGED <<enterVars, leaveVars, position, sectorVars, clientVars, moves, disturbed>>
  BY DEF FrameGather
<1>2. frame' \in Frames /\ (frame'.at = "update" <=> frame'.who # None)
  <2>1. frame \in Frames /\ frame.at = "next" /\ frame.who = None
    BY DEF FrameGather, TypeOK, Frames
  <2>2. CASE IsValid(p)
    BY <2>1, <2>2, SearchType, PlayerAssumption DEF FrameGather, Frames
  <2>3. CASE ~ IsValid(p)
    BY <2>1, <2>3 DEF FrameGather, Frames
  <2>. QED
    BY <2>2, <2>3
<1>3. TypeOK'
  BY <1>1, <1>2 DEF TypeOK, enterVars, leaveVars, sectorVars, clientVars
<1>4. PlaceInv' /\ ListedInv'
  BY <1>1, PlacesKept DEF enterVars, leaveVars, sectorVars
<1>. QED
  BY <1>1, <1>3, <1>4, ScreensKept DEF LeaveInv, leaveVars, TypeOK

LEMMA UpdateVisionStep ==
  ASSUME IInv, UpdateVision
  PROVE  IInv'
<1> USE DEF IInv
<1> DEFINE p == frame.who
           now == frame.seen \ {p}
<1>1. UNCHANGED <<enterVars, leaveVars, position, sectorVars, moves, disturbed>>
  BY DEF UpdateVision
<1>2. p \in Players /\ now \subseteq Players /\ p \notin now
  BY DEF UpdateVision, TypeOK, Frames
<1>3. frame' \in Frames /\ (frame'.at = "update" <=> frame'.who # None)
  BY DEF UpdateVision, TypeOK, Frames
<1>4. \/ UNCHANGED clientVars
      \/ SetVision(p, now)
  BY DEF UpdateVision
<1>5. PlaceInv' /\ ListedInv'
  BY <1>1, PlacesKept DEF enterVars, leaveVars, sectorVars
<1>6. CASE UNCHANGED clientVars
  <2>1. TypeOK'
    BY <1>1, <1>3, <1>6 DEF TypeOK, enterVars, leaveVars, sectorVars, clientVars
  <2>. QED
    BY <1>1, <1>5, <1>6, <2>1, ScreensKept DEF LeaveInv, leaveVars, TypeOK
<1>7. CASE SetVision(p, now)
  <2> HIDE DEF p, now
  <2>1. /\ visible \in [Players -> SUBSET Players] /\ screen \in [Players -> SUBSET Players]
        /\ announced \in [Players -> SUBSET Players]
    BY DEF TypeOK
  <2>2. Told(p, now) = IF closed[p] THEN screen[p]
                       ELSE (screen[p] \cup (now \ visible[p])) \ (visible[p] \ now)
    BY DEF Told, Spawned, Despawned
  <2>3. /\ visible' = [visible EXCEPT ![p] = now]
        /\ screen' = [screen EXCEPT ![p] = Told(p, now)]
        /\ announced' = [announced EXCEPT ![p] = announced[p] \ now]
    BY <1>7 DEF SetVision
  <2>4. TypeOK'
    BY <1>1, <1>2, <1>3, <2>1, <2>2, <2>3
       DEF TypeOK, enterVars, leaveVars, sectorVars
  <2>5. ScreenInv'
    <3> SUFFICES ASSUME NEW q \in Players, ~ closed[q]
                 PROVE  /\ screen'[q] \ visible'[q] \subseteq announced'[q] \cup {q}
                        /\ \A r \in visible'[q] \ screen'[q] : closed[r]
      BY <1>1 DEF ScreenInv, leaveVars
    <3>1. /\ screen[q] \ visible[q] \subseteq announced[q] \cup {q}
          /\ \A r \in visible[q] \ screen[q] : closed[r]
      BY DEF ScreenInv
    <3>2. CASE q # p
      BY <2>1, <2>3, <3>1, <3>2
    <3>3. CASE q = p
      <4>1. /\ screen'[q] = (screen[q] \cup (now \ visible[q])) \ (visible[q] \ now)
            /\ visible'[q] = now
            /\ announced'[q] = announced[q] \ now
        BY <1>2, <2>1, <2>2, <2>3, <3>3
      <4>. QED
        BY <3>1, <4>1
    <3>. QED
      BY <3>2, <3>3
  <2>. QED
    BY <1>1, <1>5, <2>4, <2>5 DEF LeaveInv, leaveVars
<1>. QED
  BY <1>4, <1>6, <1>7

LEMMA NextInv == IInv /\ [Next]_vars => IInv'
<1> SUFFICES ASSUME IInv, [Next]_vars PROVE IInv'
  OBVIOUS
<1>1. ASSUME NEW p \in Players,
             EnterPlace(p) \/ Handler(p) \/ Close(p) \/ Leaver(p) \/ \E pos \in Points : Move(p, pos)
      PROVE  IInv'
  BY <1>1, EnterPlaceStep, EnterGatherStep, EnterAnnounceStep, EnterIntroduceStep, CloseStep,
     LeaveRequestStep, LeaveGatherStep, LeaveTellStep, MoveStep DEF Handler, Leaver
<1>2. CASE Frame
  BY <1>2, FrameSectorsStep, FrameGatherStep, UpdateVisionStep DEF Frame
<1>3. CASE UNCHANGED vars
  <2>1. TypeOK'
    BY <1>3 DEF IInv, TypeOK, vars, enterVars, leaveVars, sectorVars, clientVars
  <2>2. PlaceInv' /\ ListedInv'
    BY <1>3, PlacesKept DEF IInv, vars, enterVars, leaveVars, sectorVars
  <2>3. ScreenInv' /\ LeaveInv'
    BY <1>3 DEF IInv, ScreenInv, LeaveInv, vars, leaveVars, clientVars
  <2>. QED
    BY <2>1, <2>2, <2>3 DEF IInv
<1>. QED
  BY <1>1, <1>2, <1>3 DEF Next

-----------------------------------------------------------------------------
(* The theorems *)

LEMMA Invariant == Spec => []IInv
  BY InitInv, NextInv, PTL DEF Spec

\* A client shows the players the server believes it shows, but for those who
\* announced themselves and those who left, although EnterGame, LeaveGame and
\* UpdateVision send it packets without a common lock.
THEOREM Screens == Spec => []ScreenMatchesVisible
<1>1. IInv => ScreenMatchesVisible
  BY DEF IInv, ScreenInv, ScreenMatchesVisible
<1>. QED
  BY <1>1, Invariant, PTL

\* No player gets out of the zones, although neither IsValidWorldPosition nor
\* the cast to a cell refuses a position outside of the world.
THEOREM InTheWorld == Spec => []PlayersStayInTheWorld
<1>1. IInv => PlayersStayInTheWorld
  BY DEF IInv, PlaceInv, PlayersStayInTheWorld
<1>. QED
  BY <1>1, Invariant, PTL

\* GetVisibleObjectsInSectors finds every settled player in sight, whatever
\* borders of cells, sectors and zones lie between.
THEOREM Sight == Spec => []SightIsComplete
<1>1. IInv => SightIsComplete
  <2> SUFFICES ASSUME IInv, NEW p \in Players, NEW q \in Players, Settled(p), Settled(q), IsValid(q),
                      InSight(position[p].at, position[q].at)
               PROVE  /\ q \in VisibleFrom(position[p].at)
                      /\ position[p].cur.zone = position[q].cur.zone =>
                           /\ q \in Audience(p)
                           /\ \A msgType \in {"All", "General", "Local"} : q \in Hearers(p, msgType)
    BY DEF SightIsComplete
  <2> DEFINE here == position[p].at
             there == position[q].at
  <2>1. here \in Positions /\ there \in Positions
    BY DEF IInv, TypeOK
  <2>2. /\ position[q].cur = Place(there) /\ \E z \in Zones : Within(there, z)
        /\ position[p].cur = Place(here) /\ \E z \in Zones : Within(here, z)
    BY DEF IInv, PlaceInv, Settled
  <2>3. [who |-> q, in |-> SectorOf(position[q].cur)] \in listed
    BY DEF IInv, ListedInv, Settled, IsValid
  <2>4. /\ GetZoneByPosition(there) \in GetVisibleZones(here)
        /\ SectorId(MakeGridIndex(there)) \in GetVisibleSectorIds(MakeGridIndex(here))
        /\ IsInGridRange(MakeGridIndex(here), MakeGridIndex(there))
    BY <2>1, <2>2, InSightIsSearched
  <2>5. /\ position[q].cur.zone = GetZoneByPosition(there)
        /\ position[q].cur.cell = MakeGridIndex(there)
    BY <2>2 DEF Place
  <2>6. q \in GetVisibleObjectsInSector(position[q].cur.zone, here)
    <3>1. SectorOf(position[q].cur)
            \in {[zone |-> position[q].cur.zone, id |-> i] : i \in GetVisibleSectorIds(MakeGridIndex(here))}
      BY <2>4, <2>5 DEF SectorOf
    <3>2. \E l \in listed : l.who = q /\ l.in = SectorOf(position[q].cur)
      BY <2>3
    <3>. QED
      BY <2>4, <2>5, <3>1, <3>2 DEF GetVisibleObjectsInSector
  <2>7. q \in VisibleFrom(here)
    BY <2>4, <2>5, <2>6 DEF VisibleFrom
  <2>8. ASSUME position[p].cur.zone = position[q].cur.zone
        PROVE  q \in Audience(p) /\ q \in ZoneAudience(p)
    <3>1. q \in Audience(p)
      BY <2>6, <2>8 DEF Audience
    <3>2. \E l \in listed : l.who = q /\ l.in.zone = position[q].cur.zone
      BY <2>3 DEF SectorOf
    <3>. QED
      BY <2>8, <3>1, <3>2 DEF ZoneAudience, GetVisibleObjectsInZone
  <2>. QED
    BY <2>7, <2>8 DEF Hearers
<1>. QED
  BY <1>1, Invariant, PTL
=============================================================================
