------------------------------ MODULE WorldVision ------------------------------
(***************************************************************************)
(* What each player sees of the others, and what its client is told        *)
(* (Player, WorldManager and GameServer in src/GameServer).                *)
(*                                                                         *)
(* Three kinds of threads send a client the spawns and despawns of other   *)
(* players: the I/O workers on which the others enter the game (EnterGame) *)
(* and leave it (LeaveGame), and the frame thread, which compares what the *)
(* player sees now with what it saw in the last frame (UpdateVision).      *)
(* Nobody holds a lock from the moment a list of players is gathered to    *)
(* the moment the packets have been sent.                                  *)
(*                                                                         *)
(* A player is identified with its session, which enters once.  How the    *)
(* frame thread changes sectors step by step, and what becomes of packets  *)
(* handled after a close, is in WorldSectors: here DeleteObjSector and     *)
(* UpdateSector are one step, and so is a move.  One gathering of the      *)
(* players in sight is one step, over all zones.                           *)
(***************************************************************************)
EXTENDS WorldMap

CONSTANTS Players,
          Points,   \* the positions a client may claim
          Leavers,  \* bound: the players whose sessions may be closed
          MaxMoves, \* bound: the moves of all clients together
          None      \* nobody

ASSUME PlayerAssumption == 
  /\ None \notin Players /\ Leavers \subseteq Players /\ MaxMoves \in Nat
  /\ Points \subseteq [x : Int, y : Int]
  /\ \A pos \in GetRandomSpawnPosition :
       GetZoneByPosition(pos) = Town /\ MakeGridIndex(pos) # [x |-> 0, y |-> 0]

VARIABLES entering,  \* player -> how far EnterGame has come; "done": _isEntered
          found,     \* player -> EnterGame: objs
          closed,    \* player -> _isClosed of its session
          leaving,   \* player -> how far OnDisconnected has come
          near,      \* player -> LeaveGame: objs
          position,  \* player -> [prev, cur, at]
          updates,   \* _sectorUpdateSet
          deletes,   \* _forceDeleteObjs
          listed,    \* the sectors: a set of [who, in]
          frame,     \* the frame thread: [at, todo, who, seen]
          visible,   \* player -> _visibleObjects
          screen,    \* player -> the players its client shows
          moves,     \* bound
          announced, \* history: player -> those who told it of their entering
                     \* and were not in its sight at a frame since
          disturbed  \* history: the players who moved or left while an
                     \* earlier change of sector waited (see WorldSectors)

enterVars == <<entering, found>>
leaveVars == <<closed, leaving, near>>
sectorVars == <<updates, deletes, listed>>
clientVars == <<visible, screen, announced>>
vars == <<enterVars, leaveVars, position, sectorVars, frame, clientVars, moves, disturbed>>

Place(pos) == [zone |-> GetZoneByPosition(pos), cell |-> MakeGridIndex(pos)]
SectorOf(place) == [zone |-> place.zone, id |-> SectorId(place.cell)]

\* Where the constructor of GameObject puts it.
Home == [zone |-> Town, cell |-> [x |-> 0, y |-> 0]]

Resting == [at |-> "next", todo |-> {}, who |-> None, seen |-> {}]

Init == /\ entering = [p \in Players |-> "no"]
        /\ found = [p \in Players |-> {}]
        /\ closed = [p \in Players |-> FALSE]
        /\ leaving = [p \in Players |-> "no"]
        /\ near = [p \in Players |-> {}]
        /\ position = [p \in Players |-> [prev |-> Home, cur |-> Home,
                                          at |-> [x |-> 0, y |-> 0]]]
        /\ updates = {} /\ deletes = {} /\ listed = {}
        /\ frame = Resting
        /\ visible = [p \in Players |-> {}]
        /\ screen = [p \in Players |-> {}]
        /\ moves = 0
        /\ announced = [p \in Players |-> {}]
        /\ disturbed = {}

-----------------------------------------------------------------------------
(* Who is where *)

\* Player::IsValid.  OnDisconnected detaches the session after it was closed.
IsValid(p) == entering[p] # "no" /\ ~ closed[p]

\* GetVisibleObjectsInSector: the valid players listed in the sectors around a
\* position, of one zone, and within sight by the cell they are in now.
GetVisibleObjectsInSector(zone, pos) ==
  LET cell == MakeGridIndex(pos)
      sectors == {[zone |-> zone, id |-> i] : i \in GetVisibleSectorIds(cell)}
  IN {q \in Players : /\ \E l \in listed : l.who = q /\ l.in \in sectors
                      /\ IsInGridRange(cell, position[q].cur.cell)
                      /\ IsValid(q)}

\* GetVisibleObjectsInSectors
VisibleFrom(pos) == UNION {GetVisibleObjectsInSector(z, pos) : z \in GetVisibleZones(pos)}

\* SendBroadcastToVisiblePlayers: who is told of a move of p.
Audience(p) == GetVisibleObjectsInSector(position[p].cur.zone, position[p].at)

GetVisibleObjectsInZone(zone) ==
  {q \in Players : IsValid(q) /\ \E l \in listed : l.who = q /\ l.in.zone = zone}

\* SendBroadcastToZonePlayers
ZoneAudience(p) == GetVisibleObjectsInZone(position[p].cur.zone)

\* ChatMessage: who is told what p says.
Hearers(p, msgType) == CASE msgType \in {"All", "General"} -> Audience(p)
                         [] msgType = "Local"             -> ZoneAudience(p)
                         [] msgType = "System"            -> {}

\* SetWorldPosition with the request for a change of sector it makes, and
\* whether an earlier one still waits.
SetWorldPosition(p, pos) ==
  /\ position' = [position EXCEPT ![p] = [prev |-> @.cur, cur |-> Place(pos), at |-> pos]]
  /\ updates' = IF position[p].cur # Place(pos) THEN updates \cup {p} ELSE updates
  /\ disturbed' = IF p \in updates THEN disturbed \cup {p} ELSE disturbed

\* SendUnicast of a spawn or a despawn: nothing is sent to a closed session.
Shown(q, who) == IF closed[q] THEN screen[q] ELSE screen[q] \cup who
Hidden(q, who) == IF closed[q] THEN screen[q] ELSE screen[q] \ who

\* SendBroadcast of the spawn of p.
SendBroadcast(objects, p) ==
  screen' = [q \in Players |-> IF q \in objects THEN Shown(q, {p}) ELSE screen[q]]

-----------------------------------------------------------------------------
(* Handle_CS_PLAYER_ENTER_GAME *)

\* SendEnterGamePkt: the spawn position, which is a new place (_spawnOffset
\* keeps it away from the corner of the zone), the packet and the second
\* request for a change of sector.
EnterPlace(p) ==
  /\ entering[p] = "no" /\ ~ closed[p]
  /\ \E pos \in GetRandomSpawnPosition : SetWorldPosition(p, pos)
  /\ entering' = [entering EXCEPT ![p] = "gather"]
  /\ UNCHANGED <<found, leaveVars, deletes, listed, frame, clientVars, moves>>

EnterGather(p) ==
  /\ entering[p] = "gather"
  /\ found' = [found EXCEPT ![p] = VisibleFrom(position[p].at)]
  /\ entering' = [entering EXCEPT ![p] = "announce"]
  /\ UNCHANGED <<leaveVars, position, sectorVars, frame, clientVars, moves, disturbed>>

\* p is announced to all that were found, itself too if the frame thread has
\* been there already.
EnterAnnounce(p) ==
  /\ entering[p] = "announce"
  /\ SendBroadcast(found[p], p)
  /\ announced' = [q \in Players |-> IF q \in found[p] \ {p} THEN announced[q] \cup {p}
                                                          ELSE announced[q]]
  /\ entering' = [entering EXCEPT ![p] = "introduce"]
  /\ UNCHANGED <<found, leaveVars, position, sectorVars, frame, visible, moves, disturbed>>

\* The others are spawned on the newcomer's client.
EnterIntroduce(p) ==
  /\ entering[p] = "introduce"
  /\ visible' = [visible EXCEPT ![p] = @ \cup (found[p] \ {p})]
  /\ screen' = [screen EXCEPT ![p] = Shown(p, found[p] \ {p})]
  /\ entering' = [entering EXCEPT ![p] = "done"]
  /\ found' = [found EXCEPT ![p] = {}]
  /\ UNCHANGED <<leaveVars, position, sectorVars, frame, announced, moves, disturbed>>

-----------------------------------------------------------------------------
(* Handle_CS_PLAYER_MOVE *)

\* A distance within what the speed allows; a move that is too far changes
\* nothing, as one that is refused by Move.
MoveSimulate(p, pos) == SetWorldPosition(p, pos) /\ moves' = moves + 1

\* A position outside the world would close the session, and the handler
\* would go on.
Move(p, pos) ==
  /\ entering[p] = "done" /\ IsValid(p)
  /\ moves < MaxMoves
  /\ CanGo(pos)
  /\ MoveSimulate(p, pos)
  /\ closed' = [closed EXCEPT ![p] = ~ IsValidWorldPosition(pos)]
  /\ UNCHANGED <<enterVars, leaving, near, deletes, listed, frame, clientVars>>

-----------------------------------------------------------------------------
(* Close, OnDisconnected and LeaveGame *)

Close(p) ==
  /\ ~ closed[p] /\ p \in Leavers
  /\ closed' = [closed EXCEPT ![p] = TRUE]
  /\ UNCHANGED <<enterVars, leaving, near, position, sectorVars, frame, clientVars, moves,
                 disturbed>>

\* The place is copied, the player detached, and the removal asked for.
LeaveRequest(p) ==
  /\ closed[p] /\ leaving[p] = "no" /\ entering[p] # "no"
  /\ deletes' = deletes \cup {[who |-> p, in |-> SectorOf(position[p].cur)]}
  /\ leaving' = [leaving EXCEPT ![p] = "gather"]
  /\ disturbed' = IF p \in updates THEN disturbed \cup {p} ELSE disturbed
  /\ UNCHANGED <<enterVars, closed, near, position, updates, listed, frame, clientVars, moves>>

LeaveGather(p) ==
  /\ leaving[p] = "gather"
  /\ near' = [near EXCEPT ![p] = VisibleFrom(position[p].at)]
  /\ leaving' = [leaving EXCEPT ![p] = "tell"]
  /\ UNCHANGED <<enterVars, closed, position, sectorVars, frame, clientVars, moves, disturbed>>

\* The others are told, those that are still there.
LeaveTell(p) ==
  /\ leaving[p] = "tell"
  /\ screen' = [q \in Players |-> IF q \in near[p] THEN Hidden(q, {p}) ELSE screen[q]]
  /\ leaving' = [leaving EXCEPT ![p] = "done"]
  /\ near' = [near EXCEPT ![p] = {}]
  /\ UNCHANGED <<enterVars, closed, position, sectorVars, frame, visible, announced, moves,
                 disturbed>>

-----------------------------------------------------------------------------
(* SectorUpdateWorkerThread *)

\* DeleteObjSector, UpdateSector and ClearAllEmptySector; then the sessions
\* whose players are to be updated are copied.
FrameSectors ==
  LET moved == {p \in updates : position[p].prev # position[p].cur}
  IN /\ frame = Resting
     /\ listed' = ((listed \ deletes)
                     \ {[who |-> p, in |-> SectorOf(position[p].prev)] : p \in moved})
                     \cup {[who |-> p, in |-> SectorOf(position[p].cur)] : p \in moved}
     /\ updates' = {} /\ deletes' = {}
     /\ frame' = [Resting EXCEPT !.todo = {p \in Players : ~ closed[p]}]
     /\ UNCHANGED <<enterVars, leaveVars, position, clientVars, moves, disturbed>>

\* UpdatePlayerVisible: the players that a valid player can see now.
FrameGather(p) ==
  /\ frame.at = "next" /\ p \in frame.todo
  /\ frame' = IF IsValid(p)
              THEN [at |-> "update", todo |-> frame.todo \ {p}, who |-> p,
                    seen |-> VisibleFrom(position[p].at)]
              ELSE [frame EXCEPT !.todo = @ \ {p}]
  /\ UNCHANGED <<enterVars, leaveVars, position, sectorVars, clientVars, moves, disturbed>>

\* SendSpawnPacket and SendDespawnPacket
Spawned(p, now) == now \ visible[p]
Despawned(p, now) == visible[p] \ now

\* What the client of p shows after them.
Told(p, now) == IF closed[p] THEN screen[p]
                ELSE (screen[p] \cup Spawned(p, now)) \ Despawned(p, now)

\* Mutant: the players seen before are not forgotten.
AddToVision(p, now) ==
  /\ screen' = [screen EXCEPT ![p] = Told(p, now)]
  /\ visible' = [visible EXCEPT ![p] = @ \cup now]
  /\ announced' = [announced EXCEPT ![p] = @ \ now]

\* The packets and the new _visibleObjects.
SetVision(p, now) ==
  /\ screen' = [screen EXCEPT ![p] = Told(p, now)]
  /\ visible' = [visible EXCEPT ![p] = now]
  /\ announced' = [announced EXCEPT ![p] = @ \ now]

\* Player::UpdateVision, which waits for the end of EnterGame.
UpdateVision ==
  /\ frame.at = "update"
  /\ IF entering[frame.who] = "done" THEN SetVision(frame.who, frame.seen \ {frame.who})
                                     ELSE UNCHANGED clientVars
  /\ frame' = [frame EXCEPT !.at = "next", !.who = None, !.seen = {}]
  /\ UNCHANGED <<enterVars, leaveVars, position, sectorVars, moves, disturbed>>

-----------------------------------------------------------------------------

Handler(p) == EnterGather(p) \/ EnterAnnounce(p) \/ EnterIntroduce(p)
Leaver(p) == LeaveRequest(p) \/ LeaveGather(p) \/ LeaveTell(p)
Frame == \/ FrameSectors \/ UpdateVision
         \/ \E p \in Players : FrameGather(p)

Next == \/ \E p \in Players : \/ EnterPlace(p) \/ Handler(p) \/ Close(p) \/ Leaver(p)
                              \/ \E pos \in Points : Move(p, pos)
        \/ Frame

Spec == Init /\ [][Next]_vars

\* Every thread is scheduled.  No client has to enter, to move or to leave.
FairSpec == /\ Spec
            /\ \A p \in Players : WF_vars(Handler(p)) /\ WF_vars(Leaver(p))
            /\ WF_vars(Frame)

-----------------------------------------------------------------------------
(* Properties *)

Positions == [x : Int, y : Int]
Places == [zone : {z.type : z \in Zones}, cell : [x : Int, y : Int]]
Frames == [at : {"next", "update"}, todo : SUBSET Players, who : Players \cup {None},
           seen : SUBSET Players]

\* Every variable has its type.
TypeOK ==
  /\ entering \in [Players -> {"no", "gather", "announce", "introduce", "done"}]
  /\ found \in [Players -> SUBSET Players]
  /\ closed \in [Players -> BOOLEAN]
  /\ leaving \in [Players -> {"no", "gather", "tell", "done"}]
  /\ near \in [Players -> SUBSET Players]
  /\ position \in [Players -> [prev : Places, cur : Places, at : Positions]]
  /\ updates \subseteq Players
  /\ \A d \in deletes : d.who \in Players /\ closed[d.who]
  /\ \A l \in listed : l.who \in Players /\ entering[l.who] # "no"
  /\ frame \in Frames /\ (frame.at = "update" <=> frame.who # None)
  /\ visible \in [Players -> SUBSET Players] /\ \A p \in Players : p \notin visible[p]
  /\ screen \in [Players -> SUBSET Players]
  /\ announced \in [Players -> SUBSET Players] /\ \A p \in Players : p \notin announced[p]
  /\ moves \in 0 .. MaxMoves
  /\ disturbed \subseteq Players

\* The position of p is settled: its sector has been brought up to date.
Settled(p) == entering[p] # "no" /\ p \notin updates \cup disturbed

\* A client shows the players the server believes it shows, whatever the three
\* kinds of senders do at the same time.  It shows more only because EnterGame
\* tells the neighbours of a newcomer without entering it in their
\* _visibleObjects, and itself because the newcomer may be among those told;
\* it shows less only when LeaveGame was faster than the frame thread.
ScreenMatchesVisible ==
  /\ TypeOK
  /\ \A p \in Players : entering[p] = "done" /\ ~ closed[p] =>
    /\ screen[p] \ visible[p] \subseteq announced[p] \cup {p}
    /\ \A q \in visible[p] \ screen[p] : closed[q]

\* The search by zones and sectors finds every settled player within sight of a
\* position, also across the borders of cells, sectors and zones.  Whoever is
\* in the same zone is told of moves and of what is said, but by the system.
SightIsComplete ==
  \A p, q \in Players :
    Settled(p) /\ Settled(q) /\ IsValid(q) /\ InSight(position[p].at, position[q].at) =>
      /\ q \in VisibleFrom(position[p].at)
      /\ position[p].cur.zone = position[q].cur.zone => 
           /\ q \in Audience(p)
           /\ \A msgType \in {"All", "General", "Local"} : q \in Hearers(p, msgType)

\* No player gets out of the zones, though IsValidWorldPosition accepts every
\* position and the cast to a cell takes positions below the world for cell 0.
PlayersStayInTheWorld ==
  \A p \in Players : entering[p] # "no" => \E z \in Zones : Within(position[p].at, z)

\* Once everybody stands still, a client shows the players within sight and
\* nobody who is out of it, but for a newcomer that told it of its entering.
ScreenSettles ==
  \A p, q \in Players :
    <>[](entering[p] = "done" /\ ~ closed[p] /\ p # q /\ {p, q} \cap disturbed = {} =>
           /\ IsValid(q) /\ InSight(position[p].at, position[q].at) => q \in screen[p]
           /\ q \in screen[p] \ announced[p]
                => IsValid(q) /\ IsInGridRange(position[p].cur.cell, position[q].cur.cell))

=============================================================================
