---------------------------- MODULE WorldSectors ----------------------------
(***************************************************************************)
(* Where the server believes its players are: the sectors of WorldManager, *)
(* the position of each GameObject, and the two queues through which they  *)
(* follow each other (src/GameServer).                                     *)
(*                                                                         *)
(* A session's packets are handled one after another by the I/O worker     *)
(* that holds its receive completion (Session::OnRecvCompleted).  Entering *)
(* the game and moving change the object's position at once and only ask   *)
(* for the change of sector.  OnDisconnected may run at the same time, on  *)
(* another thread, and asks for the removal.  The frame thread serves both *)
(* queues every 50 ms, the removals first.                                 *)
(*                                                                         *)
(* A place is a zone with a grid cell.  The grid is drawn as a line.  A    *)
(* cell may straddle two zones.  The sectors are the shared_ptr owners of  *)
(* the players; a session has a raw pointer to its player.                 *)
(***************************************************************************)
EXTENDS Integers, Sequences, FiniteSets

CONSTANTS Sessions,
          Objects,    \* the players that may be made
          Places,     \* the places a player can be in: [zone, cell] records
          Spawn,      \* the places GetRandomSpawnPosition may return
          Home,       \* the place a GameObject is constructed with
          SectorSize, \* SECTOR_SIZE
          None        \* nullptr

ASSUME PlaceAssumption == 
  /\ \A p \in Places \cup {Home} : p.cell \in Nat
  /\ Spawn \subseteq Places
  /\ Home \notin Places
ASSUME SizeAssumption == SectorSize \in Nat \ {0}
ASSUME NoneAssumption == None \notin Sessions \cup Objects

\* FindSector and SectorId: the sector a place belongs to.
SectorOf(p) == <<p.zone, p.cell \div SectorSize>>
Sectors == {SectorOf(p) : p \in Places \cup {Home}}

VARIABLES closed,     \* session -> _isClosed
          player,     \* session -> _playerClass
          reader,     \* session -> the thread in OnRecvCompleted: [at, obj]
          leaver,     \* session -> the thread in OnDisconnected: [at, obj, place]
          maker,      \* object -> the session it was made for, or None
          linked,     \* object -> _isValid, and _session is set
          position,   \* object -> [prev, cur]
          updates,    \* _sectorUpdateSet
          deletes,    \* _forceDeleteObjs
          sectors,    \* sector -> the objects listed in it
          tick,       \* where the frame thread is
          tickDeletes,\* DeleteObjSector: what is left of _deleteObjs
          batch,      \* UpdateSector: gameObjects
          unfiltered, \* UpdateSector: what the filter has not seen yet
          toApply,    \* UpdateSector: what is left of updateObjs
          moving,     \* UpdateSector: the object between its two sectors
          crashed,    \* has a thread used a null or dangling pointer?
          gone,       \* history: the objects whose removal was carried out
          disturbed   \* history: see Disturb

sessionVars == <<closed, player, reader, leaver>>
objectVars == <<maker, linked, position>>
requestVars == <<updates, deletes>>
tickVars == <<sectors, tick, tickDeletes, batch, unfiltered, toApply, moving, gone>>
vars == <<sessionVars, objectVars, requestVars, tickVars, crashed, disturbed>>

Idle == [at |-> "idle", obj |-> None]
Away == [at |-> "no", obj |-> None, place |-> Home]
Still == [obj |-> None, to |-> Home]

Init == /\ closed = [s \in Sessions |-> FALSE]
        /\ player = [s \in Sessions |-> None]
        /\ reader = [s \in Sessions |-> Idle]
        /\ leaver = [s \in Sessions |-> Away]
        /\ maker = [o \in Objects |-> None]
        /\ linked = [o \in Objects |-> FALSE]
        /\ position = [o \in Objects |-> [prev |-> Home, cur |-> Home]]
        /\ updates = {} /\ deletes = <<>>
        /\ sectors = [k \in Sectors |-> {}]
        /\ tick = "sleep" /\ tickDeletes = <<>>
        /\ batch = {} /\ unfiltered = {} /\ toApply = {} /\ moving = Still
        /\ crashed = FALSE /\ gone = {} /\ disturbed = {}

-----------------------------------------------------------------------------

Listed(o) == {k \in Sectors : o \in sectors[k]}

\* The queues and lists in which a change of sector of o still waits to be read.
Waiting(o) == o \in updates \cup unfiltered \cup toApply

\* Is a thread in the middle of the handler of a packet of object o?
Handling(o) == \E s \in Sessions : reader[s].obj = o

Leaving(o) == \E s \in Sessions : leaver[s].obj = o

\* Someone holds a GameObjectRef of o: a sector, a queue, the frame thread, or
\* the handler of ENTER_GAME.  The references other threads take for the
\* moment of a broadcast are left out.
Held(o) == \/ Listed(o) # {}
           \/ o \in updates \cup batch
           \/ \E s \in Sessions : /\ reader[s].obj = o
                                  /\ reader[s].at \in {"place", "request", "welcome"}

\* The order of events the design expects is: an object's change of place is
\* asked for and served before the next one, or its departure, begins, and a
\* session has one player.  An object is disturbed when
\*   - it changes place or leaves while an earlier change waits to be served,
\*   - it leaves while a packet of it is handled, or changes place after that,
\*   - its session replaces it by a second player, or made it too late for
\*     OnDisconnected to see it.
Disturb(S) == disturbed' = disturbed \cup S

-----------------------------------------------------------------------------
(* OnRecvCompleted: one receive may carry several packets *)

RecvBegin(s) ==
  /\ reader[s].at = "idle" /\ ~ closed[s]
  /\ reader' = [reader EXCEPT ![s] = [at |-> "packets", obj |-> None]]
  /\ UNCHANGED <<closed, player, leaver, objectVars, requestVars, tickVars,
                 crashed, disturbed>>

RecvEnd(s) ==
  /\ reader[s].at = "packets"
  /\ reader' = [reader EXCEPT ![s] = Idle]
  /\ UNCHANGED <<closed, player, leaver, objectVars, requestVars, tickVars,
                 crashed, disturbed>>

Goto(s, at, o) == reader' = [reader EXCEPT ![s] = [at |-> at, obj |-> o]]

\* Handle_CS_PLAYER_ENTER_GAME: the player is made and SetPlayer is called.  A
\* player the session had before is abandoned.
EnterGame(s, o) ==
  /\ reader[s].at = "packets"
  /\ maker[o] = None
  /\ maker' = [maker EXCEPT ![o] = s]
  /\ linked' = [linked EXCEPT ![o] = TRUE]
  /\ player' = [player EXCEPT ![s] = o]
  /\ Disturb(IF leaver[s].at = "no" THEN {player[s]} \ {None} ELSE {o, player[s]} \ {None})
  /\ Goto(s, "place", o)
  /\ UNCHANGED <<closed, leaver, position, requestVars, tickVars, crashed>>

\* Mutant: the previous place is not recorded.
SetOnlyCurrent(o, p) ==
  position' = [position EXCEPT ![o] = [prev |-> @.prev, cur |-> p]]

\* SetWorldPosition, under the object's lock, and whether it asks for a change
\* of sector.
SetWorldPosition(o, p) ==
  position' = [position EXCEPT ![o] = [prev |-> @.cur, cur |-> p]]

\* Mutant: only the cells are compared.
CellChanged(o, p) == position[o].cur.cell # p.cell

NeedSectorUpdate(o, p) == position[o].cur # p

\* RequestSectorUpdate
Request(o) == updates' = updates \cup {o}

\* SendEnterGamePkt, first the position ...
EnterPlace(s) ==
  /\ reader[s].at = "place"
  /\ \E p \in Spawn : SetWorldPosition(reader[s].obj, p)
  /\ Goto(s, "request", reader[s].obj)
  /\ UNCHANGED <<closed, player, leaver, maker, linked, requestVars, tickVars,
                 crashed, disturbed>>

EnterRequest(s) ==
  /\ reader[s].at = "request"
  /\ Request(reader[s].obj)
  /\ Goto(s, "welcome", reader[s].obj)
  /\ UNCHANGED <<closed, player, leaver, objectVars, deletes, tickVars, crashed, disturbed>>

\* ... then the packet, through _session, and a second request.  The handler
\* lets go of its PlayerRef when EnterGame returns.
EnterWelcome(s) ==
  /\ reader[s].at = "welcome"
  /\ IF linked[reader[s].obj]
     THEN /\ Request(reader[s].obj)
          /\ Goto(s, "packets", None)
          /\ UNCHANGED crashed
     ELSE crashed' = TRUE /\ UNCHANGED <<updates, reader>>
  /\ UNCHANGED <<closed, player, leaver, objectVars, deletes, tickVars, disturbed>>

\* Handle_CS_PLAYER_MOVE, past its test of the player.
Move(s) ==
  /\ reader[s].at = "packets"
  /\ player[s] # None
  /\ \/ /\ Held(player[s]) /\ linked[player[s]] /\ ~ closed[s]
        /\ Goto(s, "move", player[s])
        /\ UNCHANGED crashed
     \/ ~ Held(player[s]) /\ crashed' = TRUE /\ UNCHANGED reader
  /\ UNCHANGED <<closed, player, leaver, objectVars, requestVars, tickVars, disturbed>>

\* Move and MoveSimulate refuse the move: the place cannot be walked on or is
\* too far.
MoveRefused(s) ==
  /\ reader[s].at = "move"
  /\ Goto(s, "packets", None)
  /\ UNCHANGED <<closed, player, leaver, objectVars, requestVars, tickVars,
                 crashed, disturbed>>

\* MoveSimulate uses _session and then sets the position.
MoveTo(s, p) ==
  LET o == reader[s].obj IN
  /\ reader[s].at = "move"
  /\ IF linked[o] /\ Held(o)
     THEN /\ SetWorldPosition(o, p)
          /\ IF NeedSectorUpdate(o, p) THEN Goto(s, "ask", o) ELSE Goto(s, "packets", None)
          /\ Disturb({q \in {o} : Waiting(q) \/ Leaving(q)})
          /\ UNCHANGED crashed
     ELSE crashed' = TRUE /\ UNCHANGED <<reader, position, disturbed>>
  /\ UNCHANGED <<closed, player, leaver, maker, linked, requestVars, tickVars>>

\* shared_from_this throws when the player is not owned any more.
MoveRequest(s) ==
  /\ reader[s].at = "ask"
  /\ IF Held(reader[s].obj)
     THEN /\ Request(reader[s].obj)
          /\ Goto(s, "packets", None)
          /\ UNCHANGED crashed
     ELSE crashed' = TRUE /\ UNCHANGED <<updates, reader>>
  /\ UNCHANGED <<closed, player, leaver, objectVars, deletes, tickVars, disturbed>>

-----------------------------------------------------------------------------
(* Close, and OnDisconnected within it *)

Close(s) ==
  /\ ~ closed[s]
  /\ closed' = [closed EXCEPT ![s] = TRUE]
  /\ UNCHANGED <<player, reader, leaver, objectVars, requestVars, tickVars, crashed, disturbed>>

\* Mutant: the previous place is copied.
LeaveCopyPrevious(s) ==
  LET o == player[s] IN
  /\ closed[s] /\ leaver[s].at = "no"
  /\ leaver' = [leaver EXCEPT ![s] =
                  IF o = None THEN [at |-> "done", obj |-> None, place |-> Home]
                              ELSE [at |-> "copied", obj |-> o, place |-> position[o].prev]]
  /\ Disturb({q \in {o} \ {None} : Waiting(q) \/ Handling(q)})
  /\ UNCHANGED <<closed, player, reader, objectVars, requestVars, tickVars, crashed>>

\* The player's place is copied, if the session has a player.
LeaveCopy(s) ==
  LET o == player[s] IN
  /\ closed[s] /\ leaver[s].at = "no"
  /\ leaver' = [leaver EXCEPT ![s] =
                  IF o = None THEN [at |-> "done", obj |-> None, place |-> Home]
                              ELSE [at |-> "copied", obj |-> o, place |-> position[o].cur]]
  /\ Disturb({q \in {o} \ {None} : Waiting(q) \/ Handling(q)})
  /\ UNCHANGED <<closed, player, reader, objectVars, requestVars, tickVars, crashed>>

\* Player::DetachSession
LeaveDetachSession(s) ==
  /\ leaver[s].at = "copied"
  /\ linked' = [linked EXCEPT ![leaver[s].obj] = FALSE]
  /\ leaver' = [leaver EXCEPT ![s].at = "unlinked"]
  /\ UNCHANGED <<closed, player, reader, maker, position, requestVars, tickVars,
                 crashed, disturbed>>

\* Mutant: the session keeps its pointer.
KeepPlayer(s) ==
  /\ leaver[s].at = "unlinked"
  /\ leaver' = [leaver EXCEPT ![s].at = "detached"]
  /\ UNCHANGED <<closed, player, reader, objectVars, requestVars, tickVars, crashed, disturbed>>

\* Session::DetachPlayer
LeaveDetachPlayer(s) ==
  /\ leaver[s].at = "unlinked"
  /\ player' = [player EXCEPT ![s] = None]
  /\ leaver' = [leaver EXCEPT ![s].at = "detached"]
  /\ UNCHANGED <<closed, reader, objectVars, requestVars, tickVars, crashed, disturbed>>

\* LeaveGame: RequestSectorDelete
LeaveRequest(s) ==
  /\ leaver[s].at = "detached"
  /\ deletes' = Append(deletes, [obj |-> leaver[s].obj, place |-> leaver[s].place])
  /\ leaver' = [leaver EXCEPT ![s].at = "done"]
  /\ UNCHANGED <<closed, player, reader, objectVars, updates, tickVars, crashed, disturbed>>

-----------------------------------------------------------------------------
(* SectorUpdateWorkerThread, one frame after another *)

\* DeleteObjSector takes the removals asked for so far ...
TickDelete ==
  /\ tick = "sleep"
  /\ tickDeletes' = deletes /\ deletes' = <<>>
  /\ tick' = "delete"
  /\ UNCHANGED <<sessionVars, objectVars, updates, sectors, batch, unfiltered,
                 toApply, moving, gone, crashed, disturbed>>

\* RemoveObjectToSector, under the sector's lock.
Unlist(o, p) == sectors' = [sectors EXCEPT ![SectorOf(p)] = @ \ {o}]

\* Mutant: the sector is overwritten.
ListAlone(o, p) == sectors' = [sectors EXCEPT ![SectorOf(p)] = {o}]

\* AddObjectToSector, under the sector's lock.
List(o, p) == sectors' = [sectors EXCEPT ![SectorOf(p)] = @ \cup {o}]

\* ... and carries them out, one by one.
TickDeleteOne ==
  /\ tick = "delete" /\ tickDeletes # <<>>
  /\ LET d == Head(tickDeletes) IN /\ Unlist(d.obj, d.place)
                                   /\ gone' = gone \cup {d.obj}
  /\ tickDeletes' = Tail(tickDeletes)
  /\ UNCHANGED <<sessionVars, objectVars, requestVars, tick, batch, unfiltered,
                 toApply, moving, crashed, disturbed>>

\* UpdateSector takes the objects that asked for a change of sector.
TickGather ==
  /\ tick = "delete" /\ tickDeletes = <<>>
  /\ batch' = updates /\ unfiltered' = updates /\ updates' = {}
  /\ tick' = "filter"
  /\ UNCHANGED <<sessionVars, objectVars, deletes, sectors, tickDeletes, toApply,
                 moving, gone, crashed, disturbed>>

\* The filter: an object that has not changed place since its last move is
\* left out.
TickFilter(o) ==
  /\ tick = "filter" /\ o \in unfiltered
  /\ unfiltered' = unfiltered \ {o}
  /\ toApply' = IF position[o].prev = position[o].cur THEN toApply ELSE toApply \cup {o}
  /\ UNCHANGED <<sessionVars, objectVars, requestVars, sectors, tick, tickDeletes,
                 batch, moving, gone, crashed, disturbed>>

\* The place is read once more; the object leaves the sector it was in before.
TickLift(o) ==
  /\ tick = "filter" /\ unfiltered = {} /\ o \in toApply /\ moving = Still
  /\ toApply' = toApply \ {o}
  /\ moving' = [obj |-> o, to |-> position[o].cur]
  /\ Unlist(o, position[o].prev)
  /\ UNCHANGED <<sessionVars, objectVars, requestVars, tick, tickDeletes, batch,
                 unfiltered, gone, crashed, disturbed>>

\* The object joins the sector it is in now.
TickDrop ==
  /\ tick = "filter" /\ moving # Still
  /\ List(moving.obj, moving.to)
  /\ moving' = Still
  /\ UNCHANGED <<sessionVars, objectVars, requestVars, tick, tickDeletes, batch,
                 unfiltered, toApply, gone, crashed, disturbed>>

\* UpdateSector returns and lets go of its references.
TickEnd ==
  /\ tick = "filter" /\ unfiltered = {} /\ toApply = {} /\ moving = Still
  /\ batch' = {}
  /\ tick' = "sleep"
  /\ UNCHANGED <<sessionVars, objectVars, requestVars, sectors, tickDeletes,
                 unfiltered, toApply, moving, gone, crashed, disturbed>>

-----------------------------------------------------------------------------

Reader(s) == /\ ~ crashed
             /\ \/ RecvEnd(s) \/ EnterPlace(s) \/ EnterRequest(s) \/ EnterWelcome(s)
                \/ Move(s) \/ MoveRefused(s) \/ MoveRequest(s)
                \/ \E o \in Objects : EnterGame(s, o)
                \/ \E p \in Places : MoveTo(s, p)

Leaver(s) == /\ ~ crashed
             /\ \/ LeaveCopy(s) \/ LeaveDetachSession(s)
                \/ LeaveDetachPlayer(s) \/ LeaveRequest(s)

Frame == /\ ~ crashed
         /\ \/ TickDelete \/ TickDeleteOne \/ TickGather \/ TickDrop \/ TickEnd
            \/ \E o \in Objects : TickFilter(o) \/ TickLift(o)

Next == \/ \E s \in Sessions : \/ ~ crashed /\ (RecvBegin(s) \/ Close(s))
                               \/ Reader(s) \/ Leaver(s)
        \/ Frame

Spec == Init /\ [][Next]_vars

\* Every thread is scheduled: handlers and OnDisconnected run to their end, the
\* frame thread goes on.  No client is obliged to send a packet or to leave.
Fairness == /\ \A s \in Sessions : WF_vars(Reader(s)) /\ WF_vars(Leaver(s))
            /\ WF_vars(Frame)

FairSpec == Spec /\ Fairness

-----------------------------------------------------------------------------
(* Properties *)

\* Every variable has its type; the frame thread has an object between two
\* sectors only while it applies a batch of which it still holds a reference.
TypeOK ==
  /\ closed \in [Sessions -> BOOLEAN]
  /\ player \in [Sessions -> Objects \cup {None}]
  /\ reader \in [Sessions -> [at : {"idle", "packets", "place", "request", "welcome",
                                    "move", "ask"},
                              obj : Objects \cup {None}]]
  /\ leaver \in [Sessions -> [at : {"no", "copied", "unlinked", "detached", "done"},
                              obj : Objects \cup {None}, place : Places \cup {Home}]]
  /\ maker \in [Objects -> Sessions \cup {None}]
  /\ linked \in [Objects -> BOOLEAN]
  /\ position \in [Objects -> [prev : Places \cup {Home}, cur : Places \cup {Home}]]
  /\ updates \subseteq Objects
  /\ deletes \in Seq([obj : Objects, place : Places \cup {Home}])
  /\ sectors \in [Sectors -> SUBSET Objects]
  /\ tick \in {"sleep", "delete", "filter"}
  /\ tickDeletes \in Seq([obj : Objects, place : Places \cup {Home}])
  /\ batch \subseteq Objects /\ unfiltered \subseteq batch /\ toApply \subseteq batch
  /\ moving \in [obj : Objects \cup {None}, to : Places \cup {Home}]
  /\ moving # Still => moving.obj \in batch
  /\ crashed \in BOOLEAN
  /\ gone \subseteq Objects
  /\ disturbed \subseteq Objects

DeleteAsked(o) == 
  \/ \E s \in Sessions : leaver[s].obj = o /\ leaver[s].at # "done"
  \/ \E i \in DOMAIN deletes : deletes[i].obj = o
  \/ \E i \in DOMAIN tickDeletes : tickDeletes[i].obj = o

\* Nothing about o is on its way to the sectors.
Settled(o) == /\ ~ Waiting(o) /\ moving.obj # o /\ ~ Handling(o) /\ ~ DeleteAsked(o)

\* An object is listed in exactly one sector, the one of its current place, and
\* in none when it has left the game, as soon as nothing about it is on its way;
\* provided that no event of it came before the frame thread had digested the
\* one before (see "disturbed").
WellPlaced ==
  /\ TypeOK
  /\ \A o \in Objects :
       maker[o] # None /\ o \notin disturbed /\ Settled(o)
         => Listed(o) = IF o \in gone THEN {} ELSE {SectorOf(position[o].cur)}

\* The raw pointer a session has to its player points to a living object, in
\* every intermediate step of a change of sector: Session::_playerClass owns
\* nothing and relies on the sectors and the queues to own the player.  The
\* same proviso as for WellPlaced.
PlayerIsOwned ==
  \A s \in Sessions :
    player[s] # None /\ player[s] \notin disturbed => Held(player[s])

\* An object disappears from all sectors in two cases only: its removal was
\* asked for, or the frame thread has it in its hands and lists it again next.
VanishesOnlyIfRemoved ==
  [][\A o \in Objects :
       Listed(o) # {} /\ Listed(o)' = {} => o \in gone' \/ moving'.obj = o]_vars

\* Whoever stays in one sector long enough is listed there.
MovesAreShown ==
  \A o \in Objects : \A k \in Sectors :
    (maker[o] # None /\ position[o].cur # Home /\ SectorOf(position[o].cur) = k)
      ~> (\/ o \in sectors[k] \/ SectorOf(position[o].cur) # k
          \/ o \in disturbed \cup gone \/ crashed)

\* The player of a closed session leaves the world.
LeaversDisappear ==
  \A s \in Sessions : \A o \in Objects :
    (closed[s] /\ player[s] = o)
      ~> (\/ Listed(o) = {} /\ ~ Waiting(o)
          \/ o \in disturbed \/ crashed)

=============================================================================
