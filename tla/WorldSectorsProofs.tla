--------------------------- MODULE WorldSectorsProofs ---------------------------
(***************************************************************************)
(* Proofs about WorldSectors, for any sessions, players, places and size   *)
(* of sectors: an object is listed where it is, and a session's raw        *)
(* pointer to its player is good, unless an event came before the frame    *)
(* thread had digested the one before.                                     *)
(***************************************************************************)
EXTENDS WorldSectors, SequenceTheorems, TLAPS

-----------------------------------------------------------------------------
(* The inductive invariant *)

\* The thread in the handler of a packet of the session that o was made for is
\* at one of these steps, and the packet is one of o.
HandledAt(o, labels) ==
  /\ maker[o] # None
  /\ reader[maker[o]].obj = o /\ reader[maker[o]].at \in labels

\* A change of place of o is recorded and has still to be asked for or served.
Pending(o) == Waiting(o) \/ HandledAt(o, {"request", "ask"})

Removals == {deletes[i] : i \in DOMAIN deletes} \cup {tickDeletes[i] : i \in DOMAIN tickDeletes}

\* An object has to do with the session it was made for only.
MakerInv ==
  \A s \in Sessions :
    /\ player[s] # None => maker[player[s]] = s
    /\ reader[s].obj # None => maker[reader[s].obj] = s
    /\ leaver[s].obj # None => maker[leaver[s].obj] = s
    /\ reader[s].obj = None <=> reader[s].at \in {"idle", "packets"}
    /\ leaver[s].at = "no" => leaver[s].obj = None
    /\ leaver[s].at \in {"copied", "unlinked", "detached"} => leaver[s].obj # None
    /\ leaver[s].at # "no" => closed[s]

\* Between two frames the frame thread holds nothing.
FrameInv ==
  /\ tick = "sleep" => tickDeletes = <<>>
  /\ tick # "filter" => batch = {} /\ moving = Still
  /\ tick = "filter" => tickDeletes = <<>>
  /\ moving # Still => unfiltered = {}

\* An object that has not been made is nowhere.
UnmadeInv ==
  \A o \in Objects :
    maker[o] = None =>
      /\ position[o] = [prev |-> Home, cur |-> Home]
      /\ o \notin updates \cup batch \cup gone /\ moving.obj # o
      /\ Listed(o) = {}
      /\ \A d \in Removals : d.obj # o

\* The life of an object that is not disturbed: its session has it until
\* OnDisconnected takes it away, which begins only when nothing about it waits,
\* and its removal is asked for with the place where it stays.
LifeInv(o) ==
  LET leaving == leaver[maker[o]] IN
  /\ leaving.at = "no" => player[maker[o]] = o
  /\ leaving.at \in {"copied", "unlinked"} => player[maker[o]] = o
  /\ leaving.at \in {"detached", "done"} => player[maker[o]] # o
  /\ leaving.at # "no" =>
       /\ leaving.obj = o /\ leaving.place = position[o].cur
       /\ reader[maker[o]].obj # o /\ ~ Waiting(o)
  /\ o \in gone => leaving.at = "done"
  /\ \A d \in Removals : d.obj = o => leaving.at = "done" /\ d.place = position[o].cur

\* Its place: it has none until it has been put somewhere, ...
BeforePlace(o) ==
  /\ position[o] = [prev |-> Home, cur |-> Home]
  /\ ~ Waiting(o) /\ moving.obj # o /\ Listed(o) = {}

\* ... then it is listed in the sector of its place; or, as long as a change of
\* place is on its way, of its previous one, of none if it comes from none; or
\* the frame thread has it and will list it in the one or the other.
AfterPlace(o) ==
  LET here == SectorOf(position[o].cur)
      before == SectorOf(position[o].prev)
  IN
  /\ position[o].cur \in Places
  /\ HandledAt(o, {"ask"}) => position[o].prev \in Places
  /\ o \in gone => Listed(o) = {} /\ moving.obj # o
  /\ o \notin gone /\ moving.obj # o =>
       \/ Listed(o) = {here}
       \/ Pending(o) /\ Listed(o) = {before}
       \/ Pending(o) /\ position[o].prev = Home /\ Listed(o) = {}
  /\ moving.obj = o =>
       /\ Listed(o) \subseteq {SectorOf(moving.to)}
       /\ \/ moving.to = position[o].cur
          \/ moving.to = position[o].prev /\ Pending(o)

PlaceInv(o) == IF HandledAt(o, {"place"}) THEN BeforePlace(o) ELSE AfterPlace(o)

ObjectInv ==
  \A o \in Objects : maker[o] # None /\ o \notin disturbed => LifeInv(o) /\ PlaceInv(o)

IInv == TypeOK /\ MakerInv /\ FrameInv /\ UnmadeInv /\ ObjectInv

-----------------------------------------------------------------------------
(* Types, and who has to do with whom *)

LEMMA LeaverAt ==
  ASSUME NEW at \in {"no", "copied", "unlinked", "detached", "done"}, NEW S, NEW O, NEW P,
         NEW f \in [S -> [at : {"no", "copied", "unlinked", "detached", "done"},
                          obj : O, place : P]],
         NEW s \in S
  PROVE  [f EXCEPT ![s].at = at]
           \in [S -> [at : {"no", "copied", "unlinked", "detached", "done"}, obj : O, place : P]]
  OBVIOUS

LEMMA AddToSet ==
  ASSUME NEW S, NEW T, NEW f \in [S -> SUBSET T], NEW k, NEW x \in T
  PROVE  [f EXCEPT ![k] = @ \cup {x}] \in [S -> SUBSET T]
  OBVIOUS

LEMMA TypeStep == TypeOK /\ MakerInv /\ FrameInv /\ [Next]_vars => TypeOK'
<1> SUFFICES ASSUME TypeOK, MakerInv, FrameInv, [Next]_vars PROVE TypeOK'
  OBVIOUS
<1> USE NoneAssumption DEF TypeOK, MakerInv
<1>1. ASSUME NEW s \in Sessions, RecvBegin(s) PROVE TypeOK'
  BY <1>1
  DEF RecvBegin, objectVars, requestVars, tickVars, sessionVars
<1>2. ASSUME NEW s \in Sessions, Close(s) PROVE TypeOK'
  BY <1>2
  DEF Close, objectVars, requestVars, tickVars, sessionVars
<1>3. ASSUME NEW s \in Sessions, RecvEnd(s) PROVE TypeOK'
  BY <1>3
  DEF RecvEnd, objectVars, requestVars, tickVars, sessionVars, Goto, Idle
<1>4. ASSUME NEW s \in Sessions, EnterPlace(s) PROVE TypeOK'
  <2>1. reader[s].obj \in Objects
    BY <1>4 DEF EnterPlace
  <2>2. position' \in [Objects -> [prev : Places \cup {Home}, cur : Places \cup {Home}]]
    BY <1>4, <2>1, PlaceAssumption DEF EnterPlace, SetWorldPosition
  <2>. QED
    BY <1>4, <2>1, <2>2 DEF EnterPlace, Goto, objectVars, requestVars, tickVars
<1>5. ASSUME NEW s \in Sessions, EnterRequest(s) PROVE TypeOK'
  <2>1. reader[s].obj \in Objects
    BY <1>5 DEF EnterRequest
  <2>. QED
    BY <1>5, <2>1 DEF EnterRequest, Goto, Request, objectVars, tickVars
<1>6. ASSUME NEW s \in Sessions, EnterWelcome(s) PROVE TypeOK'
  <2>1. reader[s].obj \in Objects
    BY <1>6 DEF EnterWelcome
  <2>2. CASE UNCHANGED <<updates, reader>>
    BY <1>6, <2>2 DEF EnterWelcome, objectVars, tickVars
  <2>3. CASE Request(reader[s].obj) /\ Goto(s, "packets", None) /\ UNCHANGED crashed
    BY <1>6, <2>1, <2>3 DEF EnterWelcome, Goto, Request, objectVars, tickVars
  <2>. QED
    BY <1>6, <2>2, <2>3 DEF EnterWelcome
<1>7. ASSUME NEW s \in Sessions, Move(s) PROVE TypeOK'
  <2>1. player[s] \in Objects
    BY <1>7 DEF Move
  <2>2. CASE UNCHANGED reader
    BY <1>7, <2>2 DEF Move, objectVars, requestVars, tickVars
  <2>3. CASE Goto(s, "move", player[s]) /\ UNCHANGED crashed
    BY <1>7, <2>1, <2>3 DEF Move, Goto, objectVars, requestVars, tickVars
  <2>. QED
    BY <1>7, <2>2, <2>3 DEF Move
<1>8. ASSUME NEW s \in Sessions, MoveRefused(s) PROVE TypeOK'
  BY <1>8
  DEF MoveRefused, objectVars, requestVars, tickVars, sessionVars, Goto
<1>9. ASSUME NEW s \in Sessions, MoveRequest(s) PROVE TypeOK'
  <2>1. reader[s].obj \in Objects
    BY <1>9 DEF MoveRequest
  <2>2. CASE UNCHANGED <<updates, reader>>
    BY <1>9, <2>2 DEF MoveRequest, objectVars, tickVars
  <2>3. CASE Request(reader[s].obj) /\ Goto(s, "packets", None) /\ UNCHANGED crashed
    BY <1>9, <2>1, <2>3 DEF MoveRequest, Goto, Request, objectVars, tickVars
  <2>. QED
    BY <1>9, <2>2, <2>3 DEF MoveRequest
<1>10. ASSUME NEW s \in Sessions, NEW o \in Objects, EnterGame(s, o) PROVE TypeOK'
  BY <1>10
  DEF EnterGame, objectVars, requestVars, tickVars, sessionVars, Goto, Disturb
<1>11. ASSUME NEW s \in Sessions, NEW p \in Places, MoveTo(s, p) PROVE TypeOK'
  <2>1. reader[s].obj \in Objects
    BY <1>11 DEF MoveTo
  <2>2. position' \in [Objects -> [prev : Places \cup {Home}, cur : Places \cup {Home}]]
    BY <1>11, <2>1 DEF MoveTo, SetWorldPosition
  <2>3. disturbed' \subseteq Objects
    BY <1>11, <2>1 DEF MoveTo, Disturb
  <2>4. CASE UNCHANGED reader
    BY <1>11, <2>2, <2>3, <2>4 DEF MoveTo, requestVars, tickVars
  <2>5. CASE Goto(s, "ask", reader[s].obj) /\ UNCHANGED crashed
    <3>1. reader' \in [Sessions -> [at : {"ask"}, obj : Objects]]
                        \cup [Sessions -> [at : {"idle", "packets", "place", "request",
                                                "welcome", "move", "ask"},
                                         obj : Objects \cup {None}]]
      BY <2>1, <2>5 DEF Goto
    <3>. QED
      BY <1>11, <2>2, <2>3, <2>5, <3>1 DEF MoveTo, requestVars, tickVars
  <2>6. CASE Goto(s, "packets", None) /\ UNCHANGED crashed
    BY <1>11, <2>2, <2>3, <2>6 DEF MoveTo, Goto, requestVars, tickVars
  <2>. QED
    BY <1>11, <2>4, <2>5, <2>6 DEF MoveTo
<1>12. ASSUME NEW s \in Sessions, LeaveCopy(s) PROVE TypeOK'
  BY <1>12
  DEF LeaveCopy, objectVars, requestVars, tickVars, sessionVars, Disturb
<1>13. ASSUME NEW s \in Sessions, LeaveDetachSession(s) PROVE TypeOK'
  <2>1. leaver[s].obj \in Objects
    BY <1>13 DEF LeaveDetachSession
  <2>2. linked' \in [Objects -> BOOLEAN]
    BY <1>13, <2>1 DEF LeaveDetachSession
  <2>3. leaver' \in [Sessions -> [at : {"no", "copied", "unlinked", "detached", "done"},
                                 obj : Objects \cup {None}, place : Places \cup {Home}]]
    BY <1>13, LeaverAt DEF LeaveDetachSession
  <2>. QED
    BY <1>13, <2>2, <2>3 DEF LeaveDetachSession, requestVars, tickVars
<1>14. ASSUME NEW s \in Sessions, LeaveDetachPlayer(s) PROVE TypeOK'
  <2>1. player' \in [Sessions -> Objects \cup {None}]
    BY <1>14 DEF LeaveDetachPlayer
  <2>2. leaver' \in [Sessions -> [at : {"no", "copied", "unlinked", "detached", "done"},
                                 obj : Objects \cup {None}, place : Places \cup {Home}]]
    BY <1>14, LeaverAt DEF LeaveDetachPlayer
  <2>. QED
    BY <1>14, <2>1, <2>2 DEF LeaveDetachPlayer, objectVars, requestVars, tickVars
<1>15. ASSUME NEW s \in Sessions, LeaveRequest(s) PROVE TypeOK'
  <2>1. [obj |-> leaver[s].obj, place |-> leaver[s].place]
          \in [obj : Objects, place : Places \cup {Home}]
    BY <1>15 DEF LeaveRequest
  <2>2. deletes' \in Seq([obj : Objects, place : Places \cup {Home}])
    BY <1>15, <2>1 DEF LeaveRequest
  <2>3. leaver' \in [Sessions -> [at : {"no", "copied", "unlinked", "detached", "done"},
                                 obj : Objects \cup {None}, place : Places \cup {Home}]]
    BY <1>15, LeaverAt DEF LeaveRequest
  <2>. QED
    BY <1>15, <2>2, <2>3 DEF LeaveRequest, objectVars, tickVars
<1>16. ASSUME TickDelete PROVE TypeOK'
  BY <1>16
  DEF TickDelete, objectVars, requestVars, tickVars, sessionVars
<1>17. ASSUME TickDeleteOne PROVE TypeOK'
  <2>1. tickDeletes \in Seq([obj : Objects, place : Places \cup {Home}]) /\ tickDeletes # <<>>
    BY <1>17 DEF TickDeleteOne
  <2>2. /\ Head(tickDeletes) \in [obj : Objects, place : Places \cup {Home}]
        /\ Tail(tickDeletes) \in Seq([obj : Objects, place : Places \cup {Home}])
    BY <2>1, HeadTailProperties
  <2>3. sectors' \in [Sectors -> SUBSET Objects] /\ gone' \subseteq Objects
    BY <1>17, <2>2 DEF TickDeleteOne, Unlist
  <2>. QED
    BY <1>17, <2>2, <2>3 DEF TickDeleteOne, sessionVars, objectVars, requestVars
<1>18. ASSUME TickGather PROVE TypeOK'
  BY <1>18
  DEF FrameInv, Still, TickGather, objectVars, requestVars, tickVars, sessionVars
<1>19. ASSUME TickDrop PROVE TypeOK'
  <2>1. moving # Still /\ moving.obj \in Objects \cup {None}
    BY <1>19 DEF TickDrop
  <2>2. moving.obj \in Objects
    BY <2>1
  <2>3. sectors' \in [Sectors -> SUBSET Objects]
    BY <1>19, <2>2, AddToSet DEF TickDrop, List
  <2>4. moving' \in [obj : Objects \cup {None}, to : Places \cup {Home}]
    BY <1>19 DEF TickDrop, Still
  <2>. QED
    BY <1>19, <2>3, <2>4 DEF TickDrop, sessionVars, objectVars, requestVars
<1>20. ASSUME TickEnd PROVE TypeOK'
  BY <1>20
  DEF TickEnd, objectVars, requestVars, tickVars, sessionVars
<1>21. ASSUME NEW o \in Objects, TickFilter(o) PROVE TypeOK'
  BY <1>21
  DEF TickFilter, objectVars, requestVars, tickVars, sessionVars
<1>22. ASSUME NEW o \in Objects, TickLift(o) PROVE TypeOK'
  BY <1>22
  DEF TickLift, objectVars, requestVars, tickVars, sessionVars, Unlist, Still
<1>23. CASE UNCHANGED vars
  BY <1>23 DEF vars, sessionVars, objectVars, requestVars, tickVars, Waiting
<1>. QED
  BY <1>1, <1>2, <1>3, <1>4, <1>5, <1>6, <1>7, <1>8, <1>9, <1>10, <1>11, <1>12, <1>13,
     <1>14, <1>15, <1>16, <1>17, <1>18, <1>19, <1>20, <1>21, <1>22, <1>23 DEF Next, Reader, Leaver, Frame

\* The frame thread changes nothing that belongs to sessions and objects.
LEMMA FrameKeeps == Frame => UNCHANGED <<sessionVars, objectVars>>
  BY DEF Frame, TickDelete, TickDeleteOne, TickGather, TickDrop, TickEnd, TickFilter, TickLift

LEMMA MakerStep == TypeOK /\ MakerInv /\ [Next]_vars => MakerInv'
<1> SUFFICES ASSUME TypeOK, MakerInv, [Next]_vars PROVE MakerInv'
  OBVIOUS
<1> USE NoneAssumption DEF TypeOK, MakerInv
<1>1. ASSUME NEW s \in Sessions, RecvBegin(s) PROVE MakerInv'
  BY <1>1 DEF RecvBegin, objectVars, requestVars
<1>2. ASSUME NEW s \in Sessions, Close(s) PROVE MakerInv'
  BY <1>2 DEF Close, objectVars, requestVars
<1>3. ASSUME NEW s \in Sessions, RecvEnd(s) PROVE MakerInv'
  BY <1>3 DEF RecvEnd, objectVars, requestVars, Goto, Idle
<1>4. ASSUME NEW s \in Sessions, EnterPlace(s) PROVE MakerInv'
  BY <1>4 DEF EnterPlace, objectVars, requestVars, Goto
<1>5. ASSUME NEW s \in Sessions, EnterRequest(s) PROVE MakerInv'
  BY <1>5 DEF EnterRequest, objectVars, requestVars, Goto
<1>6. ASSUME NEW s \in Sessions, EnterWelcome(s) PROVE MakerInv'
  <2>1. UNCHANGED <<player, maker, leaver, closed>>
    BY <1>6 DEF EnterWelcome, objectVars
  <2>2. CASE UNCHANGED reader
    BY <2>1, <2>2
  <2>3. CASE Goto(s, "packets", None)
    BY <1>6, <2>1, <2>3 DEF EnterWelcome, Goto
  <2>. QED
    BY <1>6, <2>2, <2>3 DEF EnterWelcome
<1>7. ASSUME NEW s \in Sessions, Move(s) PROVE MakerInv'
  <2>1. UNCHANGED <<player, maker, leaver, closed>>
    BY <1>7 DEF Move, objectVars
  <2>2. CASE UNCHANGED reader
    BY <2>1, <2>2
  <2>3. CASE Goto(s, "move", player[s])
    BY <1>7, <2>1, <2>3 DEF Move, Goto
  <2>. QED
    BY <1>7, <2>2, <2>3 DEF Move
<1>8. ASSUME NEW s \in Sessions, MoveRefused(s) PROVE MakerInv'
  BY <1>8 DEF MoveRefused, objectVars, requestVars, Goto
<1>9. ASSUME NEW s \in Sessions, MoveRequest(s) PROVE MakerInv'
  BY <1>9 DEF MoveRequest, objectVars, requestVars, Goto
<1>10. ASSUME NEW s \in Sessions, NEW o \in Objects, EnterGame(s, o) PROVE MakerInv'
  BY <1>10 DEF EnterGame, objectVars, requestVars, Goto
<1>11. ASSUME NEW s \in Sessions, NEW p \in Places, MoveTo(s, p) PROVE MakerInv'
  <2>1. UNCHANGED <<player, maker, leaver, closed>>
    BY <1>11 DEF MoveTo
  <2>2. CASE UNCHANGED reader
    BY <2>1, <2>2
  <2>3. CASE Goto(s, "ask", reader[s].obj)
    BY <1>11, <2>1, <2>3 DEF MoveTo, Goto
  <2>4. CASE Goto(s, "packets", None)
    BY <1>11, <2>1, <2>4 DEF MoveTo, Goto
  <2>. QED
    BY <1>11, <2>2, <2>3, <2>4 DEF MoveTo
<1>12. ASSUME NEW s \in Sessions, LeaveCopy(s) PROVE MakerInv'
  BY <1>12 DEF LeaveCopy, objectVars, requestVars
<1>13. ASSUME NEW s \in Sessions, LeaveDetachSession(s) PROVE MakerInv'
  BY <1>13 DEF LeaveDetachSession, objectVars, requestVars
<1>14. ASSUME NEW s \in Sessions, LeaveDetachPlayer(s) PROVE MakerInv'
  BY <1>14 DEF LeaveDetachPlayer, objectVars, requestVars
<1>15. ASSUME NEW s \in Sessions, LeaveRequest(s) PROVE MakerInv'
  BY <1>15 DEF LeaveRequest, objectVars, requestVars
<1>16. CASE Frame
  BY <1>16, FrameKeeps DEF sessionVars, objectVars
<1>17. CASE UNCHANGED vars
  BY <1>17 DEF vars, sessionVars, objectVars
<1>. QED
  BY <1>1, <1>2, <1>3, <1>4, <1>5, <1>6, <1>7, <1>8, <1>9, <1>10, <1>11, <1>12, <1>13, <1>14, <1>15, <1>16, <1>17 DEF Next, Reader, Leaver

LEMMA FrameStep == TypeOK /\ FrameInv /\ [Next]_vars => FrameInv'
<1> SUFFICES ASSUME TypeOK, FrameInv, [Next]_vars PROVE FrameInv'
  OBVIOUS
<1>1. CASE UNCHANGED tickVars
  BY <1>1 DEF tickVars, FrameInv
<1>2. CASE Frame
  BY <1>2 DEF Frame, TickDelete, TickDeleteOne, TickGather, TickDrop, TickEnd, TickFilter,
              TickLift, FrameInv, Still, TypeOK
<1>3. CASE Next /\ ~ Frame
  BY <1>1, <1>3 DEF Next, Reader, Leaver, RecvBegin, Close, RecvEnd, EnterPlace, EnterRequest,
     EnterWelcome, Move, MoveRefused, MoveRequest, EnterGame, MoveTo, LeaveCopy,
     LeaveDetachSession, LeaveDetachPlayer, LeaveRequest
<1>. QED
  BY <1>1, <1>2, <1>3 DEF vars

-----------------------------------------------------------------------------
(* What the steps do to the removals asked for and to the lists *)

LEMMA AppendRange ==
  ASSUME NEW S, NEW q \in Seq(S), NEW d \in S
  PROVE  {Append(q, d)[i] : i \in DOMAIN Append(q, d)} = {q[i] : i \in DOMAIN q} \cup {d}
<1>1. DOMAIN Append(q, d) = 1 .. Len(q) + 1 /\ DOMAIN q = 1 .. Len(q) /\ Len(q) \in Nat
  OBVIOUS
<1>2. \A i \in 1 .. Len(q) : Append(q, d)[i] = q[i]
  OBVIOUS
<1>3. Append(q, d)[Len(q) + 1] = d
  OBVIOUS
<1>4. 1 .. Len(q) + 1 = (1 .. Len(q)) \cup {Len(q) + 1}
  BY <1>1
<1>. QED
  BY <1>1, <1>2, <1>3, <1>4

LEMMA TailRange ==
  ASSUME NEW S, NEW q \in Seq(S), q # <<>>
  PROVE  /\ Head(q) \in {q[i] : i \in DOMAIN q}
         /\ {Tail(q)[i] : i \in DOMAIN Tail(q)} \subseteq {q[i] : i \in DOMAIN q}
<1>1. Len(q) \in Nat /\ Len(q) # 0 /\ DOMAIN q = 1 .. Len(q) /\ Head(q) = q[1]
  OBVIOUS
<1>2. DOMAIN Tail(q) = 1 .. Len(q) - 1 /\ \A i \in 1 .. Len(q) - 1 : Tail(q)[i] = q[i + 1]
  BY <1>1
<1>3. \A i \in 1 .. Len(q) - 1 : i + 1 \in 1 .. Len(q)
  BY <1>1
<1>. QED
  BY <1>1, <1>2, <1>3

Removal == [obj : Objects, place : Places \cup {Home}]

LEMMA RemovalAsked ==
  ASSUME TypeOK, MakerInv, NEW s \in Sessions, LeaveRequest(s)
  PROVE  Removals' = Removals \cup {[obj |-> leaver[s].obj, place |-> leaver[s].place]}
<1> DEFINE d == [obj |-> leaver[s].obj, place |-> leaver[s].place]
<1>1. leaver[s].obj \in Objects /\ leaver[s].place \in Places \cup {Home}
  BY DEF TypeOK, MakerInv, LeaveRequest
<1>2. d \in Removal
  BY <1>1 DEF Removal
<1>3. deletes \in Seq(Removal) /\ deletes' = Append(deletes, d) /\ tickDeletes' = tickDeletes
  BY DEF TypeOK, Removal, LeaveRequest, tickVars
<1>. HIDE DEF d
<1>4. {deletes'[i] : i \in DOMAIN deletes'} = {deletes[i] : i \in DOMAIN deletes} \cup {d}
  BY <1>2, <1>3, AppendRange
<1>. QED
  BY <1>3, <1>4 DEF Removals, d

LEMMA RemovalsTaken == FrameInv /\ TickDelete => Removals' = Removals
  BY DEF FrameInv, TickDelete, Removals

LEMMA RemovalDone ==
  ASSUME TypeOK, TickDeleteOne
  PROVE  /\ Head(tickDeletes) \in Removals
         /\ Head(tickDeletes).obj \in Objects /\ Head(tickDeletes).place \in Places \cup {Home}
         /\ Removals' \subseteq Removals
<1>1. tickDeletes \in Seq(Removal) /\ tickDeletes # <<>>
  BY DEF TypeOK, Removal, TickDeleteOne
<1>2. tickDeletes' = Tail(tickDeletes) /\ deletes' = deletes
  BY DEF TickDeleteOne, requestVars
<1>3. Head(tickDeletes) \in Removal
  BY <1>1, HeadTailProperties
<1>. QED
  BY <1>1, <1>2, <1>3, TailRange DEF Removals, Removal

LEMMA ListedIs ==
  ASSUME TypeOK, NEW x \in Objects, NEW p \in Places \cup {Home}, NEW o \in Objects
  PROVE  /\ Unlist(x, p) => Listed(o)' = IF o = x THEN Listed(o) \ {SectorOf(p)} ELSE Listed(o)
         /\ List(x, p) => Listed(o)' = IF o = x THEN Listed(o) \cup {SectorOf(p)} ELSE Listed(o)
<1>1. SectorOf(p) \in Sectors
  BY DEF Sectors
<1>2. sectors \in [Sectors -> SUBSET Objects]
  BY DEF TypeOK
<1>3. Unlist(x, p) => Listed(o)' = IF o = x THEN Listed(o) \ {SectorOf(p)} ELSE Listed(o)
  BY <1>1, <1>2 DEF Unlist, Listed
<1>4. List(x, p) => Listed(o)' = IF o = x THEN Listed(o) \cup {SectorOf(p)} ELSE Listed(o)
  BY <1>1, <1>2 DEF List, Listed
<1>. QED
  BY <1>3, <1>4

SessionStep(s) == (~ crashed /\ (RecvBegin(s) \/ Close(s))) \/ Reader(s) \/ Leaver(s)

\* No thread but the frame thread changes the lists and what this one holds, and
\* only LeaveRequest asks for a removal.
LEMMA SessionKeeps ==
  ASSUME NEW s \in Sessions, SessionStep(s)
  PROVE  UNCHANGED tickVars /\ (UNCHANGED deletes \/ LeaveRequest(s))
<1>1. ASSUME Reader(s) PROVE UNCHANGED tickVars /\ UNCHANGED deletes
  BY <1>1 DEF Reader, RecvEnd, EnterPlace, EnterRequest, EnterWelcome, Move, MoveRefused,
     MoveRequest, EnterGame, MoveTo, requestVars
<1>2. ASSUME LeaveCopy(s) \/ LeaveDetachSession(s) \/ LeaveDetachPlayer(s)
      PROVE  UNCHANGED tickVars /\ UNCHANGED deletes
  BY <1>2 DEF LeaveCopy, LeaveDetachSession, LeaveDetachPlayer, requestVars
<1>3. ASSUME RecvBegin(s) \/ Close(s) PROVE UNCHANGED tickVars /\ UNCHANGED deletes
  BY <1>3 DEF RecvBegin, Close, requestVars
<1>4. ASSUME LeaveRequest(s) PROVE UNCHANGED tickVars
  BY <1>4 DEF LeaveRequest
<1>. QED
  BY <1>1, <1>2, <1>3, <1>4 DEF SessionStep, Leaver

\* A handler changes the place of its object and asks for this object only.
LEMMA SessionTouches ==
  ASSUME TypeOK, MakerInv, NEW s \in Sessions, SessionStep(s),
         NEW q \in Objects, q # reader[s].obj
  PROVE  position'[q] = position[q] /\ (q \in updates' <=> q \in updates)
<1> USE DEF TypeOK, MakerInv
<1>1. ASSUME EnterPlace(s) PROVE position'[q] = position[q] /\ UNCHANGED updates
  BY <1>1 DEF EnterPlace, SetWorldPosition, requestVars
<1>2. ASSUME NEW p \in Places, MoveTo(s, p) PROVE position'[q] = position[q] /\ UNCHANGED updates
  BY <1>2 DEF MoveTo, SetWorldPosition, requestVars
<1>3. ASSUME EnterRequest(s) \/ EnterWelcome(s) \/ MoveRequest(s)
      PROVE  UNCHANGED position /\ (q \in updates' <=> q \in updates)
  BY <1>3 DEF EnterRequest, EnterWelcome, MoveRequest, Request, objectVars
<1>4. ASSUME NEW o \in Objects, EnterGame(s, o) PROVE UNCHANGED position /\ UNCHANGED updates
  BY <1>4 DEF EnterGame, requestVars
<1>5. ASSUME \/ RecvEnd(s) \/ Move(s) \/ MoveRefused(s)
             \/ RecvBegin(s) \/ Close(s) \/ Leaver(s)
      PROVE  UNCHANGED position /\ UNCHANGED updates
  BY <1>5 DEF RecvEnd, Move, MoveRefused, RecvBegin, Close, Leaver, LeaveCopy,
     LeaveDetachSession, LeaveDetachPlayer, LeaveRequest, objectVars, requestVars
<1>. QED
  BY <1>1, <1>2, <1>3, <1>4, <1>5 DEF Reader, SessionStep

\* An object is made once, and for good.
LEMMA MakerKept ==
  ASSUME TypeOK, Next, NEW q \in Objects
  PROVE  \/ maker'[q] = maker[q]
         \/ maker[q] = None /\ \E s \in Sessions : EnterGame(s, q)
<1>1. CASE Frame
  BY <1>1, FrameKeeps DEF objectVars
<1>2. ASSUME NEW s \in Sessions, NEW o \in Objects, EnterGame(s, o)
      PROVE  maker[o] = None /\ (q # o => maker'[q] = maker[q])
  BY <1>2 DEF EnterGame, TypeOK
<1>3. ASSUME NEW s \in Sessions, Reader(s), ~ \E o \in Objects : EnterGame(s, o)
      PROVE  UNCHANGED maker
  BY <1>3 DEF Reader, RecvEnd, EnterPlace, EnterRequest, EnterWelcome, Move, MoveRefused,
     MoveRequest, MoveTo, objectVars
<1>4. ASSUME NEW s \in Sessions, RecvBegin(s) \/ Close(s) \/ Leaver(s) PROVE UNCHANGED maker
  BY <1>4 DEF RecvBegin, Close, Leaver, LeaveCopy, LeaveDetachSession, LeaveDetachPlayer,
     LeaveRequest, objectVars
<1>5. ASSUME NEW s \in Sessions, Reader(s), NEW o \in Objects, EnterGame(s, o)
      PROVE  \/ maker'[q] = maker[q]
             \/ maker[q] = None /\ EnterGame(s, q)
  BY <1>2, <1>5
<1>. QED
  BY <1>1, <1>3, <1>4, <1>5 DEF Next

LEMMA UnmadeStep == TypeOK /\ MakerInv /\ FrameInv /\ UnmadeInv /\ [Next]_vars => UnmadeInv'
<1> SUFFICES ASSUME TypeOK, MakerInv, FrameInv, UnmadeInv, [Next]_vars,
                    NEW o \in Objects, maker'[o] = None
             PROVE  /\ position'[o] = [prev |-> Home, cur |-> Home]
                    /\ o \notin updates' \cup batch' \cup gone' /\ moving'.obj # o
                    /\ Listed(o)' = {}
                    /\ \A d \in Removals' : d.obj # o
  BY DEF UnmadeInv
<1>1. CASE UNCHANGED vars
  BY <1>1 DEF vars, objectVars, requestVars, tickVars, UnmadeInv, Listed, Removals
<1>2. ASSUME Next
      PROVE  /\ position[o] = [prev |-> Home, cur |-> Home]
             /\ o \notin updates \cup batch \cup gone /\ moving.obj # o
             /\ Listed(o) = {}
             /\ \A d \in Removals : d.obj # o
             /\ \A s \in Sessions : reader[s].obj # o /\ leaver[s].obj # o
  <2>1. maker[o] = None
    <3>1. ASSUME NEW s \in Sessions, EnterGame(s, o) PROVE FALSE
      BY <3>1, NoneAssumption DEF EnterGame, TypeOK
    <3>. QED
      BY <1>2, <3>1, MakerKept
  <2>. QED
    BY <2>1, NoneAssumption DEF UnmadeInv, MakerInv
<1>3. ASSUME NEW s \in Sessions, SessionStep(s)
      PROVE  /\ position'[o] = [prev |-> Home, cur |-> Home]
             /\ o \notin updates' \cup batch' \cup gone' /\ moving'.obj # o
             /\ Listed(o)' = {}
             /\ \A d \in Removals' : d.obj # o
  <2>0. Next
    BY <1>3 DEF Next, SessionStep
  <2>1. UNCHANGED <<batch, gone, moving, sectors, tickDeletes>>
    BY <1>3, SessionKeeps DEF tickVars
  <2>2. Listed(o)' = Listed(o)
    BY <2>1 DEF Listed
  <2>3. position'[o] = position[o] /\ (o \in updates' <=> o \in updates)
    BY <1>2, <1>3, <2>0, SessionTouches
  <2>4. \A d \in Removals' : d.obj # o
    <3>1. CASE UNCHANGED deletes
      BY <1>2, <2>0, <2>1, <3>1 DEF Removals
    <3>2. CASE LeaveRequest(s)
      BY <1>2, <2>0, <3>2, RemovalAsked
    <3>. QED
      BY <1>3, <3>1, <3>2, SessionKeeps
  <2>. QED
    BY <1>2, <2>0, <2>1, <2>2, <2>3, <2>4
<1>4. ASSUME Frame
      PROVE  /\ position'[o] = [prev |-> Home, cur |-> Home]
             /\ o \notin updates' \cup batch' \cup gone' /\ moving'.obj # o
             /\ Listed(o)' = {}
             /\ \A d \in Removals' : d.obj # o
  <2>0. Next
    BY <1>4 DEF Next
  <2>1. position'[o] = position[o]
    BY <1>4, FrameKeeps DEF objectVars
  <2>2. /\ updates' \subseteq updates /\ batch' \subseteq updates \cup batch
        /\ moving' \in {moving, Still} \/ moving'.obj \in batch
    BY <1>4 DEF Frame, TickDelete, TickDeleteOne, TickGather, TickDrop, TickEnd, TickFilter,
       TickLift, TypeOK, requestVars
  <2>3. Still.obj # o
    BY NoneAssumption DEF Still
  <2>4. CASE TickDeleteOne
    <3>1. Head(tickDeletes).obj # o /\ Removals' \subseteq Removals
      BY <1>2, <2>0, <2>4, RemovalDone
    <3>2. Listed(o)' = Listed(o)
      BY <2>4, <3>1, RemovalDone, ListedIs DEF TickDeleteOne
    <3>3. gone' = gone \cup {Head(tickDeletes).obj}
      BY <2>4 DEF TickDeleteOne
    <3>. QED
      BY <1>2, <2>0, <2>1, <2>2, <2>3, <3>1, <3>2, <3>3
  <2>5. ASSUME ~ TickDeleteOne PROVE gone' = gone /\ Removals' = Removals
    BY <1>4, <2>5, RemovalsTaken DEF Frame, TickGather, TickDrop, TickEnd, TickFilter,
       TickLift, TickDelete, Removals, requestVars
  <2>6. CASE ~ TickDeleteOne
    <3>1. ASSUME NEW q \in Objects, TickLift(q) PROVE Listed(o)' = {}
      <4>1. q # o /\ position[q].prev \in Places \cup {Home}
        BY <1>2, <2>0, <3>1 DEF TickLift, TypeOK
      <4>. QED
        BY <1>2, <2>0, <3>1, <4>1, ListedIs DEF TickLift
    <3>2. ASSUME TickDrop PROVE Listed(o)' = {}
      <4>1. moving.obj \in Objects /\ moving.to \in Places \cup {Home}
        BY <3>2, NoneAssumption DEF TickDrop, TypeOK
      <4>. QED
        BY <1>2, <2>0, <3>2, <4>1, ListedIs DEF TickDrop
    <3>3. ASSUME UNCHANGED sectors PROVE Listed(o)' = {}
      BY <1>2, <2>0, <3>3 DEF Listed
    <3>4. Listed(o)' = {}
      BY <1>4, <2>6, <3>1, <3>2, <3>3 DEF Frame, TickDelete, TickGather, TickEnd, TickFilter
    <3>. QED
      BY <1>2, <2>0, <2>1, <2>2, <2>3, <2>5, <2>6, <3>4
  <2>. QED
    BY <2>4, <2>6
<1>. QED
  BY <1>1, <1>3, <1>4 DEF Next, SessionStep

-----------------------------------------------------------------------------
(* The life of an object *)

LEMMA DisturbedGrows == Next => disturbed \subseteq disturbed'
<1>1. Frame => UNCHANGED disturbed
  BY DEF Frame, TickDelete, TickDeleteOne, TickGather, TickDrop, TickEnd, TickFilter, TickLift
<1>2. ASSUME NEW s \in Sessions, SessionStep(s) PROVE disturbed \subseteq disturbed'
  BY <1>2 DEF SessionStep, RecvBegin, Close, Reader, Leaver, RecvEnd, EnterPlace, EnterRequest,
     EnterWelcome, Move, MoveRefused, MoveRequest, EnterGame, MoveTo, LeaveCopy,
     LeaveDetachSession, LeaveDetachPlayer, LeaveRequest, Disturb
<1>. QED
  BY <1>1, <1>2 DEF Next, SessionStep

\* A session's threads change nothing of another session.
LEMMA SessionsApart ==
  ASSUME TypeOK, NEW s \in Sessions, SessionStep(s), NEW t \in Sessions, t # s
  PROVE  /\ leaver'[t] = leaver[t] /\ player'[t] = player[t]
         /\ reader'[t] = reader[t] /\ closed'[t] = closed[t]
<1> USE DEF TypeOK
<1>1. ASSUME RecvBegin(s) \/ Close(s) \/ RecvEnd(s) \/ EnterPlace(s) \/ EnterRequest(s)
             \/ EnterWelcome(s) \/ Move(s) \/ MoveRefused(s) \/ MoveRequest(s)
      PROVE  /\ UNCHANGED <<leaver, player>>
             /\ reader'[t] = reader[t] /\ closed'[t] = closed[t]
  BY <1>1 DEF RecvBegin, Close, RecvEnd, EnterPlace, EnterRequest, EnterWelcome, Move,
     MoveRefused, MoveRequest, Goto
<1>2. ASSUME NEW p \in Places, MoveTo(s, p)
      PROVE  UNCHANGED <<leaver, player, closed>> /\ reader'[t] = reader[t]
  BY <1>2 DEF MoveTo, Goto
<1>3. ASSUME NEW o \in Objects, EnterGame(s, o)
      PROVE  UNCHANGED <<leaver, closed>> /\ reader'[t] = reader[t] /\ player'[t] = player[t]
  BY <1>3 DEF EnterGame, Goto
<1>4. ASSUME Leaver(s)
      PROVE  UNCHANGED <<reader, closed>> /\ leaver'[t] = leaver[t] /\ player'[t] = player[t]
  BY <1>4 DEF Leaver, LeaveCopy, LeaveDetachSession, LeaveDetachPlayer, LeaveRequest
<1>. QED
  BY <1>1, <1>2, <1>3, <1>4 DEF SessionStep, Reader

\* What is true of an object made before the step.
LEMMA MadeBefore ==
  ASSUME IInv, Next, NEW o \in Objects, o \notin disturbed', maker[o] # None
  PROVE  /\ maker[o] \in Sessions /\ maker'[o] = maker[o]
         /\ LifeInv(o) /\ PlaceInv(o)
         /\ \A s \in Sessions \ {maker[o]} :
              player[s] # o /\ reader[s].obj # o /\ leaver[s].obj # o
<1>1. maker[o] \in Sessions /\ maker'[o] = maker[o]
  BY MakerKept DEF IInv, TypeOK
<1>2. LifeInv(o) /\ PlaceInv(o)
  BY DisturbedGrows DEF IInv, ObjectInv
<1>. QED
  BY <1>1, <1>2, NoneAssumption DEF IInv, MakerInv

LEMMA LifeOther ==
  ASSUME IInv, Next, NEW o \in Objects, o \notin disturbed', maker[o] # None,
         NEW s \in Sessions, SessionStep(s), s # maker[o]
  PROVE  LifeInv(o)'
<1> DEFINE m == maker[o]
<1>1. /\ m \in Sessions /\ maker'[o] = m /\ LifeInv(o)
      /\ reader[s].obj # o /\ leaver[s].obj # o
  BY MadeBefore
<1>2. leaver'[m] = leaver[m] /\ player'[m] = player[m] /\ reader'[m] = reader[m]
  BY <1>1, SessionsApart DEF IInv
<1>3. position'[o] = position[o] /\ (o \in updates' <=> o \in updates)
  BY <1>1, SessionTouches DEF IInv
<1>4. UNCHANGED <<unfiltered, toApply, gone, tickDeletes>>
  BY SessionKeeps DEF tickVars
<1>5. \A d \in Removals' : d.obj = o => d \in Removals
  <2>1. CASE UNCHANGED deletes
    BY <1>4, <2>1 DEF Removals
  <2>2. CASE LeaveRequest(s)
    BY <1>1, <2>2, RemovalAsked DEF IInv
  <2>. QED
    BY <2>1, <2>2, SessionKeeps
<1>. QED
  BY <1>1, <1>2, <1>3, <1>4, <1>5 DEF LifeInv, Waiting

LEMMA LifeFrame ==
  ASSUME IInv, Next, NEW o \in Objects, o \notin disturbed', maker[o] # None, Frame
  PROVE  LifeInv(o)'
<1>1. maker[o] \in Sessions /\ LifeInv(o)
  BY MadeBefore
<1>2. UNCHANGED <<closed, player, reader, leaver, maker, position>>
  BY FrameKeeps DEF sessionVars, objectVars
<1>3. Waiting(o)' => Waiting(o)
  BY DEF Frame, TickDelete, TickDeleteOne, TickGather, TickDrop, TickEnd, TickFilter,
     TickLift, Waiting, requestVars
<1>4. CASE TickDeleteOne
  <2>1. Head(tickDeletes) \in Removals /\ Removals' \subseteq Removals
    BY <1>4, RemovalDone DEF IInv
  <2>2. gone' = gone \cup {Head(tickDeletes).obj}
    BY <1>4 DEF TickDeleteOne
  <2>. QED
    BY <1>1, <1>2, <1>3, <2>1, <2>2 DEF LifeInv
<1>5. CASE ~ TickDeleteOne
  <2>1. gone' = gone /\ Removals' = Removals
    BY <1>5, RemovalsTaken DEF Frame, TickGather, TickDrop, TickEnd, TickFilter, TickLift,
       TickDelete, Removals, requestVars, IInv
  <2>. QED
    BY <1>1, <1>2, <1>3, <2>1 DEF LifeInv
<1>. QED
  BY <1>4, <1>5

\* The handlers of its session.
LEMMA LifeReader ==
  ASSUME IInv, Next, NEW o \in Objects, o \notin disturbed', maker[o] # None,
         NEW s \in Sessions, SessionStep(s), s = maker[o], ~ Leaver(s)
  PROVE  LifeInv(o)'
<1>1. maker'[o] = s /\ LifeInv(o)
  BY MadeBefore
<1>2. UNCHANGED <<unfiltered, toApply, gone, tickDeletes>>
  BY SessionKeeps DEF tickVars
<1>3. Removals' = Removals
  <2>1. ~ LeaveRequest(s)
    BY DEF SessionStep, Reader, Leaver
  <2>. QED
    BY <1>2, <2>1, SessionKeeps DEF Removals
<1>4. leaver' = leaver
  BY DEF SessionStep, Reader, RecvBegin, Close, RecvEnd, EnterPlace, EnterRequest,
     EnterWelcome, Move, MoveRefused, MoveRequest, EnterGame, MoveTo
<1>5. leaver[s].at # "no" =>
         position'[o] = position[o] /\ (o \in updates' <=> o \in updates)
  BY <1>1, SessionTouches DEF LifeInv, IInv
<1>6. CASE \E q \in Objects : EnterGame(s, q)
  <2>1. PICK q \in Objects : EnterGame(s, q)
    BY <1>6
  <2>2. q # o /\ player'[s] = q /\ reader'[s].obj = q /\ player[s] # o
    BY <2>1, NoneAssumption DEF EnterGame, Goto, IInv, TypeOK, Disturb
  <2>. QED
    BY <1>1, <1>2, <1>3, <1>4, <1>5, <2>2 DEF LifeInv, Waiting, IInv, TypeOK
<1>7. CASE ~ \E q \in Objects : EnterGame(s, q)
  <2>1. player' = player
    BY <1>7 DEF SessionStep, Reader, RecvBegin, Close, RecvEnd, EnterPlace, EnterRequest,
       EnterWelcome, Move, MoveRefused, MoveRequest, MoveTo
  <2>2. leaver[s].at # "no" => reader'[s].obj # o
    <3>1. ASSUME leaver[s].at # "no" PROVE closed[s] /\ reader[s].obj # o
      BY <1>1, <3>1 DEF LifeInv, IInv, MakerInv
    <3>2. ASSUME closed[s], reader[s].obj # o PROVE reader'[s].obj # o
      <4>1. reader'[s].obj \in {reader[s].obj, None}
        <5>1. CASE RecvBegin(s) \/ Close(s) \/ RecvEnd(s)
          BY <3>2, <5>1 DEF RecvBegin, Close, RecvEnd, Idle, IInv, TypeOK
        <5>2. CASE EnterPlace(s) \/ EnterRequest(s) \/ MoveRefused(s)
          BY <5>2 DEF EnterPlace, EnterRequest, MoveRefused, Goto, IInv, TypeOK
        <5>3. CASE EnterWelcome(s)
          BY <5>3 DEF EnterWelcome, Goto, IInv, TypeOK
        <5>4. CASE MoveRequest(s)
          BY <5>4 DEF MoveRequest, Goto, IInv, TypeOK
        <5>5. CASE Move(s)
          BY <3>2, <5>5 DEF Move, IInv, TypeOK
        <5>6. ASSUME NEW p \in Places, MoveTo(s, p) PROVE reader'[s].obj \in {reader[s].obj, None}
          BY <5>6 DEF MoveTo, Goto, IInv, TypeOK
        <5>. QED
          BY <1>7, <5>1, <5>2, <5>3, <5>4, <5>5, <5>6 DEF SessionStep, Reader
      <4>. QED
        BY <3>2, <4>1, NoneAssumption
    <3>. QED
      BY <3>1, <3>2
  <2>. QED
    BY <1>1, <1>2, <1>3, <1>4, <1>5, <2>1, <2>2 DEF LifeInv, Waiting
<1>. QED
  BY <1>6, <1>7

\* OnDisconnected of its session.
LEMMA LifeLeaver ==
  ASSUME IInv, Next, NEW o \in Objects, o \notin disturbed', maker[o] # None,
         NEW s \in Sessions, Leaver(s), s = maker[o]
  PROVE  LifeInv(o)'
<1>1. maker'[o] = s /\ LifeInv(o)
  BY MadeBefore
<1>2. SessionStep(s)
  BY DEF SessionStep
<1>3. UNCHANGED <<unfiltered, toApply, gone, tickDeletes>>
  BY <1>2, SessionKeeps DEF tickVars
<1>4. UNCHANGED <<position, updates, reader>>
  BY DEF Leaver, LeaveCopy, LeaveDetachSession, LeaveDetachPlayer, LeaveRequest, objectVars,
     requestVars
<1>5. CASE LeaveCopy(s)
  <2>1. leaver[s].at = "no" /\ player[s] = o /\ o # None
    BY <1>1, <1>5, NoneAssumption DEF LeaveCopy, LifeInv
  <2>2. ~ Waiting(o) /\ reader[s].obj # o
    BY <1>5, <2>1 DEF LeaveCopy, Disturb, Handling
  <2>3. leaver'[s] = [at |-> "copied", obj |-> o, place |-> position[o].cur]
    BY <1>5, <2>1 DEF LeaveCopy, IInv, TypeOK
  <2>4. Removals' = Removals /\ player' = player
    BY <1>3, <1>5 DEF LeaveCopy, Removals, requestVars
  <2>. QED
    BY <1>1, <1>3, <1>4, <2>1, <2>2, <2>3, <2>4 DEF LifeInv, Waiting
<1>6. CASE LeaveDetachSession(s) \/ LeaveDetachPlayer(s)
  <2>1. Removals' = Removals
    BY <1>3, <1>6 DEF LeaveDetachSession, LeaveDetachPlayer, Removals, requestVars
  <2>2. \/ /\ leaver[s].at = "copied" /\ leaver'[s] = [leaver[s] EXCEPT !.at = "unlinked"]
           /\ player' = player
        \/ /\ leaver[s].at = "unlinked" /\ leaver'[s] = [leaver[s] EXCEPT !.at = "detached"]
           /\ player'[s] = None
    BY <1>6 DEF LeaveDetachSession, LeaveDetachPlayer, IInv, TypeOK
  <2>3. leaver[s] \in [at : {"copied", "unlinked"}, obj : Objects \cup {None},
                       place : Places \cup {Home}]
    BY <2>2 DEF IInv, TypeOK
  <2>. QED
    BY <1>1, <1>3, <1>4, <2>1, <2>2, <2>3, NoneAssumption DEF LifeInv, Waiting
<1>7. CASE LeaveRequest(s)
  <2>1. Removals' = Removals \cup {[obj |-> leaver[s].obj, place |-> leaver[s].place]}
    BY <1>7, RemovalAsked DEF IInv
  <2>2. /\ leaver[s].at = "detached" /\ leaver'[s] = [leaver[s] EXCEPT !.at = "done"]
        /\ player' = player
    BY <1>7 DEF LeaveRequest, IInv, TypeOK
  <2>3. leaver[s] \in [at : {"detached"}, obj : Objects \cup {None},
                       place : Places \cup {Home}]
    BY <2>2 DEF IInv, TypeOK
  <2>. QED
    BY <1>1, <1>3, <1>4, <2>1, <2>2, <2>3 DEF LifeInv, Waiting
<1>. QED
  BY <1>5, <1>6, <1>7 DEF Leaver

LEMMA LifeNew ==
  ASSUME IInv, NEW o \in Objects, o \notin disturbed', maker[o] = None,
         NEW s \in Sessions, EnterGame(s, o)
  PROVE  LifeInv(o)'
<1>1. /\ maker'[o] = s /\ player'[s] = o /\ leaver' = leaver /\ leaver[s].at = "no"
  BY NoneAssumption DEF EnterGame, Disturb, IInv, TypeOK
<1>2. o \notin gone /\ \A d \in Removals : d.obj # o
  BY DEF IInv, UnmadeInv
<1>3. gone' = gone /\ Removals' = Removals
  BY DEF EnterGame, tickVars, requestVars, Removals
<1>. QED
  BY <1>1, <1>2, <1>3 DEF LifeInv

LEMMA LifeStep ==
  ASSUME IInv, Next, NEW o \in Objects, maker'[o] # None, o \notin disturbed'
  PROVE  LifeInv(o)'
<1>1. CASE maker[o] # None
  <2>1. CASE Frame
    BY <1>1, <2>1, LifeFrame
  <2>2. ASSUME NEW s \in Sessions, SessionStep(s) PROVE LifeInv(o)'
    BY <1>1, <2>2, LifeOther, LifeReader, LifeLeaver
  <2>. QED
    BY <2>1, <2>2 DEF Next, SessionStep
<1>2. CASE maker[o] = None
  BY <1>2, MakerKept, LifeNew DEF IInv
<1>. QED
  BY <1>1, <1>2

-----------------------------------------------------------------------------
(* The place of an object *)

\* An object nothing happens to, other than that its handler goes from one step
\* to another at which its place is neither set nor asked for.
LEMMA PlaceKept ==
  ASSUME NEW o \in Objects, maker[o] # None, maker'[o] = maker[o], PlaceInv(o),
         HandledAt(o, {"place"})' <=> HandledAt(o, {"place"}),
         HandledAt(o, {"request", "ask"})' <=> HandledAt(o, {"request", "ask"}),
         HandledAt(o, {"ask"})' <=> HandledAt(o, {"ask"}),
         position'[o] = position[o],
         Waiting(o)' <=> Waiting(o),
         moving' = moving, Listed(o)' = Listed(o), gone' = gone
  PROVE  PlaceInv(o)'
  BY DEF PlaceInv, BeforePlace, AfterPlace, Pending, SectorOf

LEMMA PlaceOther ==
  ASSUME IInv, Next, NEW o \in Objects, o \notin disturbed', maker[o] # None,
         NEW s \in Sessions, SessionStep(s), 
         s # maker[o] \/ (reader[s].obj # o /\ reader'[s].obj # o)
  PROVE  PlaceInv(o)'
<1>1. /\ maker[o] \in Sessions /\ maker'[o] = maker[o] /\ PlaceInv(o) /\ reader[s].obj # o
  BY MadeBefore
<1>2. \/ reader'[maker[o]] = reader[maker[o]]
      \/ reader[maker[o]].obj # o /\ reader'[maker[o]].obj # o
  BY <1>1, SessionsApart DEF IInv
<1>3. position'[o] = position[o] /\ (o \in updates' <=> o \in updates)
  BY <1>1, SessionTouches DEF IInv
<1>4. UNCHANGED <<unfiltered, toApply, gone, moving, sectors>>
  BY SessionKeeps DEF tickVars
<1>5. Listed(o)' = Listed(o) /\ (Waiting(o)' <=> Waiting(o))
  BY <1>3, <1>4 DEF Listed, Waiting
<1>6. /\ HandledAt(o, {"place"})' <=> HandledAt(o, {"place"})
      /\ HandledAt(o, {"request", "ask"})' <=> HandledAt(o, {"request", "ask"})
      /\ HandledAt(o, {"ask"})' <=> HandledAt(o, {"ask"})
  BY <1>1, <1>2 DEF HandledAt
<1>. QED
  BY <1>1, <1>3, <1>4, <1>5, <1>6, PlaceKept

LEMMA PlaceLeaver ==
  ASSUME IInv, Next, NEW o \in Objects, o \notin disturbed', maker[o] # None,
         NEW s \in Sessions, Leaver(s)
  PROVE  PlaceInv(o)'
<1>1. maker'[o] = maker[o] /\ PlaceInv(o)
  BY MadeBefore
<1>2. UNCHANGED <<position, updates, reader, unfiltered, toApply, gone, moving, sectors>>
  BY DEF Leaver, LeaveCopy, LeaveDetachSession, LeaveDetachPlayer, LeaveRequest, objectVars,
     requestVars, tickVars
<1>. QED
  BY <1>1, <1>2, PlaceKept DEF HandledAt, Listed, Waiting

LEMMA PlaceNew ==
  ASSUME IInv, NEW o \in Objects, maker[o] = None,
         NEW s \in Sessions, EnterGame(s, o)
  PROVE  PlaceInv(o)'
<1>1. HandledAt(o, {"place"})'
  BY NoneAssumption DEF EnterGame, Goto, HandledAt, IInv, TypeOK
<1>2. UNCHANGED <<position, updates, unfiltered, toApply, moving, sectors>>
  BY DEF EnterGame, requestVars, tickVars
<1>3. BeforePlace(o)
  BY DEF IInv, UnmadeInv, TypeOK, BeforePlace, Waiting
<1>4. BeforePlace(o)'
  BY <1>2, <1>3 DEF BeforePlace, Listed, Waiting
<1>. QED
  BY <1>1, <1>4 DEF PlaceInv

\* What is known when a handler of o is at work: o is made and has not left.
LEMMA Handled ==
  ASSUME IInv, Next, NEW o \in Objects, o \notin disturbed',
         NEW s \in Sessions, SessionStep(s), reader[s].obj = o
  PROVE  /\ maker[o] = s /\ maker'[o] = s /\ s # None
         /\ PlaceInv(o) /\ o \notin gone /\ leaver[s].at = "no"
         /\ UNCHANGED <<unfiltered, toApply, gone, moving, sectors>>
         /\ Listed(o)' = Listed(o)
<1>1. maker[o] = s /\ s # None
  BY NoneAssumption DEF IInv, MakerInv
<1>2. /\ maker'[o] = s /\ PlaceInv(o) /\ LifeInv(o)
  BY <1>1, MadeBefore
<1>3. leaver[s].at = "no" /\ o \notin gone
  BY <1>1, <1>2 DEF LifeInv
<1>4. UNCHANGED <<unfiltered, toApply, gone, moving, sectors>>
  BY SessionKeeps DEF tickVars
<1>. QED
  BY <1>1, <1>2, <1>3, <1>4 DEF Listed

LEMMA PlaceReader ==
  ASSUME IInv, Next, NEW o \in Objects, o \notin disturbed',
         NEW s \in Sessions, SessionStep(s), ~ Leaver(s), reader[s].obj = o
  PROVE  PlaceInv(o)'
<1>1. /\ maker[o] = s /\ maker'[o] = s /\ s # None
      /\ PlaceInv(o) /\ o \notin gone /\ leaver[s].at = "no"
      /\ UNCHANGED <<unfiltered, toApply, gone, moving, sectors>>
      /\ Listed(o)' = Listed(o)
  BY Handled
<1>2. reader[s].at \notin {"idle", "packets"}
  BY NoneAssumption DEF IInv, MakerInv
<1>3. CASE Close(s)
  BY <1>1, <1>3, PlaceKept DEF Close, HandledAt, Waiting, objectVars, requestVars
<1>4. CASE EnterPlace(s)
  <2>1. BeforePlace(o)
    BY <1>1, <1>4 DEF EnterPlace, PlaceInv, HandledAt
  <2>2. /\ reader'[s] = [at |-> "request", obj |-> o]
        /\ \E p \in Places : position'[o] = [prev |-> Home, cur |-> p]
    BY <1>4, <2>1, PlaceAssumption DEF EnterPlace, SetWorldPosition, BeforePlace, Goto,
       IInv, TypeOK
  <2>. QED
    BY <1>1, <2>1, <2>2 DEF PlaceInv, HandledAt, AfterPlace, BeforePlace, Pending
<1>5. CASE EnterRequest(s)
  <2>1. AfterPlace(o)
    BY <1>1, <1>5 DEF EnterRequest, PlaceInv, HandledAt
  <2>2. /\ reader'[s] = [at |-> "welcome", obj |-> o]
        /\ position'[o] = position[o] /\ Waiting(o)'
    BY <1>1, <1>5 DEF EnterRequest, Request, Goto, Waiting, objectVars, IInv, TypeOK
  <2>. QED
    BY <1>1, <2>1, <2>2 DEF PlaceInv, HandledAt, AfterPlace, Pending, SectorOf
<1>6. CASE EnterWelcome(s)
  <2>1. AfterPlace(o)
    BY <1>1, <1>6 DEF EnterWelcome, PlaceInv, HandledAt
  <2>2. position'[o] = position[o]
    BY <1>6 DEF EnterWelcome, objectVars
  <2>3. CASE Request(o) /\ Goto(s, "packets", None)
    <3>1. reader'[s] = [at |-> "packets", obj |-> None] /\ Waiting(o)'
      BY <2>3 DEF Request, Goto, Waiting, IInv, TypeOK
    <3>. QED
      BY <1>1, <2>1, <2>2, <3>1, NoneAssumption
      DEF PlaceInv, HandledAt, AfterPlace, Pending, SectorOf
  <2>4. CASE UNCHANGED <<updates, reader>>
    BY <1>1, <2>2, <2>4, PlaceKept DEF HandledAt, Waiting
  <2>. QED
    BY <1>1, <1>6, <2>3, <2>4 DEF EnterWelcome
<1>7. CASE MoveRefused(s)
  <2>1. reader'[s] = [at |-> "packets", obj |-> None] /\ reader[s].at = "move"
    BY <1>7 DEF MoveRefused, Goto, IInv, TypeOK
  <2>2. UNCHANGED <<position, updates>>
    BY <1>7 DEF MoveRefused, objectVars, requestVars
  <2>. QED
    BY <1>1, <2>1, <2>2, NoneAssumption, PlaceKept DEF HandledAt, Waiting
<1>8. CASE MoveRequest(s)
  <2>1. AfterPlace(o)
    BY <1>1, <1>8 DEF MoveRequest, PlaceInv, HandledAt
  <2>2. position'[o] = position[o]
    BY <1>8 DEF MoveRequest, objectVars
  <2>3. CASE Request(o) /\ Goto(s, "packets", None)
    <3>1. reader'[s] = [at |-> "packets", obj |-> None] /\ Waiting(o)'
      BY <2>3 DEF Request, Goto, Waiting, IInv, TypeOK
    <3>. QED
      BY <1>1, <2>1, <2>2, <3>1, NoneAssumption
      DEF PlaceInv, HandledAt, AfterPlace, Pending, SectorOf
  <2>4. CASE UNCHANGED <<updates, reader>>
    BY <1>1, <2>2, <2>4, PlaceKept DEF HandledAt, Waiting
  <2>. QED
    BY <1>1, <1>8, <2>3, <2>4 DEF MoveRequest
<1>9. ASSUME NEW p \in Places, MoveTo(s, p) PROVE PlaceInv(o)'
  <2>1. AfterPlace(o) /\ ~ HandledAt(o, {"request", "ask"})
    BY <1>1, <1>9 DEF MoveTo, PlaceInv, HandledAt
  <2>2. UNCHANGED updates
    BY <1>9 DEF MoveTo, requestVars
  <2>3. CASE UNCHANGED <<reader, position>>
    BY <1>1, <2>2, <2>3, PlaceKept DEF HandledAt, Waiting
  <2>4. ASSUME SetWorldPosition(o, p), Disturb({q \in {o} : Waiting(q) \/ Leaving(q)}),
               IF NeedSectorUpdate(o, p) THEN Goto(s, "ask", o) ELSE Goto(s, "packets", None)
        PROVE  PlaceInv(o)'
    <3>1. ~ Waiting(o) /\ ~ Waiting(o)'
      BY <1>1, <2>2, <2>4 DEF Disturb, Waiting
    <3>2. position'[o] = [prev |-> position[o].cur, cur |-> p] /\ position[o].cur \in Places
      BY <2>1, <2>4 DEF SetWorldPosition, AfterPlace, IInv, TypeOK
    <3>3. /\ moving.obj # o => Listed(o) = {SectorOf(position[o].cur)}
          /\ moving.obj = o => /\ Listed(o) \subseteq {SectorOf(moving.to)}
                               /\ moving.to = position[o].cur
      BY <1>1, <2>1, <3>1 DEF AfterPlace, Pending
    <3>4. CASE p # position[o].cur
      <4>1. reader'[s] = [at |-> "ask", obj |-> o]
        BY <2>4, <3>4 DEF NeedSectorUpdate, Goto, IInv, TypeOK
      <4>. QED
        BY <1>1, <3>2, <3>3, <4>1 DEF PlaceInv, HandledAt, AfterPlace, Pending, SectorOf
    <3>5. CASE p = position[o].cur
      <4>1. reader'[s] = [at |-> "packets", obj |-> None]
        BY <2>4, <3>5 DEF NeedSectorUpdate, Goto, IInv, TypeOK
      <4>. QED
        BY <1>1, <3>2, <3>3, <3>5, <4>1, NoneAssumption
        DEF PlaceInv, HandledAt, AfterPlace, Pending, SectorOf
    <3>. QED
      BY <3>4, <3>5
  <2>. QED
    BY <1>9, <2>3, <2>4 DEF MoveTo
<1>. QED
  BY <1>2, <1>3, <1>4, <1>5, <1>6, <1>7, <1>8, <1>9
  DEF SessionStep, Reader, RecvBegin, RecvEnd, Move, EnterGame

LEMMA PlaceFrame ==
  ASSUME IInv, Next, NEW o \in Objects, o \notin disturbed', maker[o] # None, Frame
  PROVE  PlaceInv(o)'
<1>1. /\ maker[o] \in Sessions /\ maker'[o] = maker[o] /\ LifeInv(o) /\ PlaceInv(o)
  BY MadeBefore
<1>2. UNCHANGED <<reader, maker, position>>
  BY FrameKeeps DEF sessionVars, objectVars
<1>3. /\ HandledAt(o, {"place"})' <=> HandledAt(o, {"place"})
      /\ HandledAt(o, {"request", "ask"})' <=> HandledAt(o, {"request", "ask"})
      /\ HandledAt(o, {"ask"})' <=> HandledAt(o, {"ask"})
  BY <1>2 DEF HandledAt
<1>4. o \in gone => ~ Waiting(o) /\ ~ HandledAt(o, {"place"})
  BY <1>1 DEF LifeInv, HandledAt
<1>5. Still.obj # o
  BY NoneAssumption DEF Still
<1>6. position[o].prev \in Places \cup {Home} /\ position[o].cur \in Places \cup {Home}
  BY DEF IInv, TypeOK
<1>7. CASE TickDelete \/ TickGather \/ TickEnd
  <2>1. UNCHANGED <<sectors, moving, gone>>
    BY <1>7 DEF TickDelete, TickGather, TickEnd
  <2>2. Waiting(o)' <=> Waiting(o)
    BY <1>7 DEF TickDelete, TickGather, TickEnd, Waiting, IInv, TypeOK, FrameInv, requestVars
  <2>. QED
    BY <1>1, <1>2, <1>3, <2>1, <2>2, PlaceKept DEF Listed
<1>8. CASE TickDeleteOne
  <2>1. /\ Head(tickDeletes) \in Removals /\ Head(tickDeletes).obj \in Objects
        /\ Head(tickDeletes).place \in Places \cup {Home}
    BY <1>8, RemovalDone DEF IInv
  <2>2. Listed(o)' = IF Head(tickDeletes).obj = o
                       THEN Listed(o) \ {SectorOf(Head(tickDeletes).place)} ELSE Listed(o)
    BY <1>8, <2>1, ListedIs DEF TickDeleteOne, IInv
  <2>3. gone' = gone \cup {Head(tickDeletes).obj}
    BY <1>8 DEF TickDeleteOne
  <2>4. moving' = moving /\ moving = Still /\ (Waiting(o)' <=> Waiting(o))
    BY <1>8 DEF TickDeleteOne, IInv, FrameInv, Waiting, requestVars
  <2>5. CASE Head(tickDeletes).obj # o
    <3>1. Listed(o)' = Listed(o) /\ (o \in gone' <=> o \in gone)
      BY <2>2, <2>3, <2>5
    <3>. QED
      BY <1>1, <1>2, <1>3, <2>4, <3>1
      DEF PlaceInv, BeforePlace, AfterPlace, Pending, SectorOf
  <2>6. CASE Head(tickDeletes).obj = o
    <3>1. /\ leaver[maker[o]].at = "done" /\ reader[maker[o]].obj # o /\ ~ Waiting(o)
          /\ Head(tickDeletes).place = position[o].cur
      BY <1>1, <2>1, <2>6 DEF LifeInv
    <3>2. AfterPlace(o) /\ ~ Pending(o)
      BY <1>1, <3>1 DEF PlaceInv, HandledAt, Pending
    <3>3. Listed(o)' = {}
      BY <1>5, <2>2, <2>4, <2>6, <3>1, <3>2 DEF AfterPlace
    <3>. QED
      BY <1>1, <1>2, <1>3, <1>5, <2>3, <2>4, <2>6, <3>1, <3>2, <3>3
      DEF PlaceInv, AfterPlace, HandledAt, SectorOf
  <2>. QED
    BY <2>5, <2>6
<1>9. ASSUME NEW q \in Objects, TickFilter(q) PROVE PlaceInv(o)'
  <2>1. UNCHANGED <<sectors, moving, gone>> /\ moving = Still
    BY <1>9 DEF TickFilter, IInv, FrameInv
  <2>2. Listed(o)' = Listed(o)
    BY <2>1 DEF Listed
  <2>3. CASE Waiting(o)' <=> Waiting(o)
    BY <1>1, <1>2, <1>3, <2>1, <2>2, <2>3, PlaceKept
  <2>4. CASE ~ (Waiting(o)' <=> Waiting(o))
    <3>1. Waiting(o) /\ position[o].prev = position[o].cur
      BY <1>9, <2>4 DEF TickFilter, Waiting, requestVars
    <3>2. AfterPlace(o) /\ ~ HandledAt(o, {"place"})
      BY <1>1, <3>1 DEF PlaceInv, BeforePlace
    <3>3. o \notin gone => Listed(o) = {SectorOf(position[o].cur)}
      BY <1>5, <2>1, <3>1, <3>2, PlaceAssumption DEF AfterPlace
    <3>. QED
      BY <1>1, <1>2, <1>3, <1>5, <2>1, <2>2, <3>2, <3>3 DEF PlaceInv, AfterPlace, SectorOf
  <2>. QED
    BY <2>3, <2>4
<1>10. ASSUME NEW q \in Objects, TickLift(q) PROVE PlaceInv(o)'
  <2>1. /\ UNCHANGED <<gone, updates, unfiltered>> /\ moving = Still
        /\ toApply' = toApply \ {q} /\ q \in toApply
        /\ moving' = [obj |-> q, to |-> position[q].cur]
    BY <1>10 DEF TickLift, requestVars
  <2>2. position[q].prev \in Places \cup {Home}
    BY DEF IInv, TypeOK
  <2>3. Listed(o)' = IF q = o THEN Listed(o) \ {SectorOf(position[q].prev)} ELSE Listed(o)
    BY <1>10, <2>2, ListedIs DEF TickLift, IInv
  <2>4. CASE q # o
    <3>1. Waiting(o)' <=> Waiting(o)
      BY <2>1, <2>4 DEF Waiting
    <3>. QED
      BY <1>1, <1>2, <1>3, <1>5, <2>1, <2>3, <2>4, <3>1
      DEF PlaceInv, BeforePlace, AfterPlace, Pending, SectorOf
  <2>5. CASE q = o
    <3>1. Waiting(o) /\ o \notin gone
      BY <1>4, <2>1, <2>5 DEF Waiting
    <3>2. AfterPlace(o) /\ ~ HandledAt(o, {"place"})
      BY <1>1, <3>1 DEF PlaceInv, BeforePlace
    <3>3. Listed(o)' \subseteq {SectorOf(position[o].cur)}
      BY <1>5, <2>1, <2>3, <2>5, <3>1, <3>2 DEF AfterPlace
    <3>. QED
      BY <1>1, <1>2, <1>3, <2>1, <2>5, <3>1, <3>2, <3>3 DEF PlaceInv, AfterPlace, SectorOf
  <2>. QED
    BY <2>4, <2>5
<1>11. CASE TickDrop
  <2>1. /\ UNCHANGED <<gone, updates, unfiltered, toApply>> /\ moving' = Still /\ moving # Still
    BY <1>11 DEF TickDrop, requestVars
  <2>2. moving.obj \in Objects /\ moving.to \in Places \cup {Home}
    BY <2>1, NoneAssumption DEF IInv, TypeOK
  <2>3. Listed(o)' = IF o = moving.obj THEN Listed(o) \cup {SectorOf(moving.to)} ELSE Listed(o)
    BY <1>11, <2>2, ListedIs DEF TickDrop, IInv
  <2>4. Waiting(o)' <=> Waiting(o)
    BY <2>1 DEF Waiting
  <2>5. CASE moving.obj # o
    BY <1>1, <1>2, <1>3, <1>5, <2>1, <2>3, <2>4, <2>5
    DEF PlaceInv, BeforePlace, AfterPlace, Pending, SectorOf
  <2>6. CASE moving.obj = o
    <3>1. AfterPlace(o) /\ ~ HandledAt(o, {"place"}) /\ o \notin gone
      BY <1>1, <2>6 DEF PlaceInv, BeforePlace, AfterPlace
    <3>2. Listed(o)' = {SectorOf(moving.to)}
      BY <2>3, <2>6, <3>1 DEF AfterPlace
    <3>. QED
      BY <1>1, <1>2, <1>3, <1>5, <2>1, <2>4, <2>6, <3>1, <3>2
      DEF PlaceInv, AfterPlace, Pending, SectorOf
  <2>. QED
    BY <2>5, <2>6
<1>. QED
  BY <1>7, <1>8, <1>9, <1>10, <1>11 DEF Frame

LEMMA PlaceStep ==
  ASSUME IInv, Next, NEW o \in Objects, maker'[o] # None, o \notin disturbed'
  PROVE  PlaceInv(o)'
<1>1. CASE maker[o] = None
  BY <1>1, MakerKept, PlaceNew DEF IInv
<1>2. CASE maker[o] # None /\ Frame
  BY <1>2, PlaceFrame
<1>3. ASSUME maker[o] # None, NEW s \in Sessions, SessionStep(s) PROVE PlaceInv(o)'
  <2>1. CASE Leaver(s)
    BY <1>3, <2>1, PlaceLeaver
  <2>2. CASE ~ Leaver(s) /\ reader[s].obj = o
    BY <1>3, <2>2, PlaceReader
  <2>3. CASE ~ Leaver(s) /\ reader[s].obj # o /\ (s # maker[o] \/ reader'[s].obj # o)
    BY <1>3, <2>3, PlaceOther
  <2>4. CASE ~ Leaver(s) /\ reader[s].obj # o /\ s = maker[o] /\ reader'[s].obj = o
    \* Only Move gives a handler an object that has been made.
    <3>1. Move(s)
      <4>1. ASSUME NEW q \in Objects, EnterGame(s, q) PROVE FALSE
        BY <1>3, <2>4, <4>1, NoneAssumption DEF EnterGame, Goto, IInv, TypeOK
      <4>2. ASSUME NEW p \in Places, MoveTo(s, p) PROVE FALSE
        BY <2>4, <4>2, NoneAssumption DEF MoveTo, Goto, IInv, TypeOK
      <4>3. CASE RecvBegin(s) \/ Close(s) \/ RecvEnd(s) \/ MoveRefused(s)
        BY <2>4, <4>3, NoneAssumption DEF RecvBegin, Close, RecvEnd, MoveRefused, Idle, Goto,
           IInv, TypeOK
      <4>4. CASE EnterPlace(s) \/ EnterRequest(s)
        BY <2>4, <4>4 DEF EnterPlace, EnterRequest, Goto, IInv, TypeOK
      <4>5. CASE EnterWelcome(s) \/ MoveRequest(s)
        BY <2>4, <4>5, NoneAssumption DEF EnterWelcome, MoveRequest, Goto, IInv, TypeOK
      <4>. QED
        BY <1>3, <2>4, <4>1, <4>2, <4>3, <4>4, <4>5 DEF SessionStep, Reader
    <3>2. /\ reader'[s].at \in {"move", "packets"} /\ reader[s].at = "packets"
          /\ UNCHANGED <<position, updates, unfiltered, toApply, moving, sectors, gone>>
      BY <3>1 DEF Move, Goto, objectVars, requestVars, tickVars, IInv, TypeOK
    <3>3. maker'[o] = s /\ PlaceInv(o)
      BY <1>3, <2>4, MadeBefore
    <3>. QED
      BY <1>3, <2>4, <3>2, <3>3, PlaceKept DEF HandledAt, Listed, Waiting
  <2>. QED
    BY <1>3, <2>1, <2>2, <2>3, <2>4
<1>. QED
  BY <1>1, <1>2, <1>3 DEF Next, SessionStep

-----------------------------------------------------------------------------
(* The invariant, and what follows *)

LEMMA InitInv == Init => IInv
<1> SUFFICES ASSUME Init PROVE IInv
  OBVIOUS
<1>1. TypeOK
  <2>1. /\ reader \in [Sessions -> [at : {"idle"}, obj : {None}]]
        /\ leaver \in [Sessions -> [at : {"no"}, obj : {None}, place : {Home}]]
        /\ position \in [Objects -> [prev : {Home}, cur : {Home}]]
        /\ moving \in [obj : {None}, to : {Home}] /\ moving = Still
    BY DEF Init, Idle, Away, Still
  <2>2. /\ deletes \in Seq([obj : Objects, place : Places \cup {Home}])
        /\ tickDeletes \in Seq([obj : Objects, place : Places \cup {Home}])
    BY DEF Init
  <2>. QED
    BY <2>1, <2>2 DEF Init, TypeOK
<1>2. MakerInv
  BY DEF Init, MakerInv, Idle, Away
<1>3. FrameInv
  BY DEF Init, FrameInv
<1>4. UnmadeInv
  BY NoneAssumption DEF Init, UnmadeInv, Still, Listed, Removals
<1>5. ObjectInv
  BY DEF Init, ObjectInv
<1>. QED
  BY <1>1, <1>2, <1>3, <1>4, <1>5 DEF IInv

LEMMA NextInv == IInv /\ [Next]_vars => IInv'
<1> SUFFICES ASSUME IInv, [Next]_vars PROVE IInv'
  OBVIOUS
<1>1. TypeOK' /\ MakerInv' /\ FrameInv' /\ UnmadeInv'
  BY TypeStep, MakerStep, FrameStep, UnmadeStep DEF IInv
<1>2. ObjectInv'
  <2>1. CASE Next
    BY <2>1, LifeStep, PlaceStep DEF ObjectInv
  <2>2. CASE UNCHANGED vars
    BY <2>2 DEF vars, sessionVars, objectVars, requestVars, tickVars, IInv, ObjectInv, LifeInv,
       PlaceInv, BeforePlace, AfterPlace, Pending, HandledAt, Waiting, Listed, Removals, SectorOf
  <2>. QED
    BY <2>1, <2>2
<1>. QED
  BY <1>1, <1>2 DEF IInv

\* A player is listed in exactly one sector, that of its place, and in none once
\* it has left, as soon as nothing about it is on its way.
THEOREM Placed == Spec => []WellPlaced
<1>1. IInv => WellPlaced
  <2> SUFFICES ASSUME IInv, NEW o \in Objects, maker[o] # None, o \notin disturbed, Settled(o)
               PROVE  Listed(o) = IF o \in gone THEN {} ELSE {SectorOf(position[o].cur)}
    BY DEF WellPlaced, IInv
  <2>1. PlaceInv(o) /\ maker[o] \in Sessions
    BY DEF IInv, ObjectInv, TypeOK
  <2>2. ~ Waiting(o) /\ moving.obj # o /\ reader[maker[o]].obj # o
    BY <2>1 DEF Settled, Handling
  <2>. QED
    BY <2>1, <2>2 DEF PlaceInv, HandledAt, AfterPlace, Pending
<1>. QED
  BY <1>1, InitInv, NextInv, PTL DEF Spec

\* The raw pointer a session has to its player points to one that somebody owns,
\* between any two steps of the frame thread.
THEOREM Owned == Spec => []PlayerIsOwned
<1>1. IInv => PlayerIsOwned
  <2> SUFFICES ASSUME IInv, NEW s \in Sessions, player[s] # None, player[s] \notin disturbed
               PROVE  Held(player[s])
    BY DEF PlayerIsOwned
  <2> DEFINE o == player[s]
  <2>1. o \in Objects /\ maker[o] = s /\ s # None
    BY NoneAssumption DEF IInv, TypeOK, MakerInv
  <2>2. LifeInv(o) /\ PlaceInv(o)
    BY <2>1 DEF IInv, ObjectInv
  <2>3. o \notin gone
    BY <2>1, <2>2 DEF LifeInv
  <2>4. CASE Waiting(o)
    BY <2>4 DEF Waiting, Held, IInv, TypeOK
  <2>5. CASE moving.obj = o
    BY <2>1, <2>5, NoneAssumption DEF Held, IInv, TypeOK, Still
  <2>6. CASE HandledAt(o, {"place", "request", "welcome"})
    BY <2>1, <2>6 DEF HandledAt, Held
  <2>7. CASE ~ Waiting(o) /\ moving.obj # o /\ ~ HandledAt(o, {"place", "request", "welcome"})
    <3>1. Listed(o) # {}
      BY <2>2, <2>3, <2>7, PlaceAssumption DEF PlaceInv, AfterPlace, Pending, HandledAt
    <3>. QED
      BY <3>1 DEF Held
  <2>. QED
    BY <2>4, <2>5, <2>6, <2>7
<1>. QED
  BY <1>1, InitInv, NextInv, PTL DEF Spec

\* An object vanishes from all sectors only if its removal was asked for, or if
\* the frame thread has it in its hands.
THEOREM Vanishing == Spec => VanishesOnlyIfRemoved
<1>1. ASSUME IInv, [Next]_vars
      PROVE  [\A o \in Objects :
                Listed(o) # {} /\ Listed(o)' = {} => o \in gone' \/ moving'.obj = o]_vars
  <2> SUFFICES ASSUME Next, NEW o \in Objects, Listed(o) # {}, Listed(o)' = {}
               PROVE  o \in gone' \/ moving'.obj = o
    BY <1>1
  <2>1. ASSUME NEW s \in Sessions, SessionStep(s) PROVE FALSE
    BY <2>1, SessionKeeps DEF tickVars, Listed
  <2>2. CASE Frame
    <3>1. CASE UNCHANGED sectors
      BY <3>1 DEF Listed
    <3>2. CASE TickDeleteOne
      BY <1>1, <3>2, RemovalDone, ListedIs DEF TickDeleteOne, IInv
    <3>3. ASSUME NEW q \in Objects, TickLift(q) PROVE moving'.obj = o
      <4>1. position[q].prev \in Places \cup {Home}
        BY <1>1 DEF IInv, TypeOK
      <4>. QED
        BY <1>1, <3>3, <4>1, ListedIs DEF TickLift, IInv
    <3>4. CASE TickDrop
      <4>1. moving.obj \in Objects /\ moving.to \in Places \cup {Home}
        BY <1>1, <3>4, NoneAssumption DEF TickDrop, IInv, TypeOK
      <4>. QED
        BY <1>1, <3>4, <4>1, ListedIs DEF TickDrop, IInv
    <3>. QED
      BY <2>2, <3>1, <3>2, <3>3, <3>4 DEF Frame, TickDelete, TickGather, TickEnd, TickFilter
  <2>. QED
    BY <2>1, <2>2 DEF Next, SessionStep
<1>. QED
  BY <1>1, InitInv, NextInv, PTL DEF Spec, VanishesOnlyIfRemoved
=============================================================================
