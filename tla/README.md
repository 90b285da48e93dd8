# TLA+ models of the Swarm server

This directory models the server of this repository in TLA+: modules that TLC
checks on small instances, and proofs that TLAPS checks for every instance. The
reference is the code under `src/`. `PROJECT.json` maps each definition to the
lines it stands for, lists the runs, the mutants that show each property can
fail, the hazards found while reading, and the theorems.

## 1. The system

The server is a Windows IOCP game server. `ServerCore` has the network, the job
queue, locks, memory and logs; `GameServer` has players, zones and the map;
`DummyClient` is a load generator on the same core.

| Component | State | Operations | Talks to |
|---|---|---|---|
| `JobPriorityQueue`, `Job` | a priority queue, a lock and a running flag per group; a global order counter | `DoAsync`, `DoAsyncAfter`, `MakeGroupThread`, `WorkerThread`, `Shutdown` | every component submits jobs; `ThreadManager` makes the workers |
| `JobGroupManager` | group names and numbers | registration at start-up | `JobPriorityQueue` |
| `Session` (send) | `_sendDeque`, `_sendContext`, `_sending`, `_isClosed`, `_socket` | `Send`, `ProcessSend`, `OnSendCompleted`, `Close`, `CloseResource` | kernel, `IocpCore`, `GameServer::OnDisconnected` |
| `Session` (receive) | receive buffer, times, RTT window, ping and pong counts | `Init`, `ProcessRecv`, `OnRecvCompleted` | packet handlers |
| `IocpCore` | completion port, listen socket, ten outstanding accepts | `IOWorkerThread`, the accept loop, `StartHeartbeatTask`, `Shutdown` | `Session`, `SessionManager`, job queue |
| `SessionManager` | registry of sessions | `Add`, `Find`, `GetActiveSessions`, `Heartbeat` | `Session` |
| `WorldManager`, `Sector` | objects per sector, `_sectorUpdateSet`, `_forceDeleteObjs` | requests, and one frame every 50 ms: removals, updates, vision | `GameObject`, `Player`, `SessionManager` |
| `GameObject`, `Player` | position with the one before, `_session`, `_visibleObjects` | `EnterGame`, `Move`, `UpdateVision`, `DetachSession` | `WorldManager`, `Session` |
| `GameServer`, packet handlers | handler tables | connect, disconnect, receive, heartbeat | all of the above |
| `MemoryManager`, `MemoryPool` | free lists and counters per block size | `Allocate`, `Release` | every allocation |
| `DeadlockDetector`, `LockGuard` | graph of locks, per-thread stack (debug builds) | request, acquired, release | every lock |
| `PacketHandler`, `RecvBuffer` | table of handlers; a buffer with a read and a write position | `SendPacket`, `OnRecvCompleted`, `Compact` | `Session`, the handlers |
| `LogManager` | line buffer, file | `PushLog`, flush, `Shutdown` | job group System |
| `ThreadManager`, `CoreService` | threads | launch, join; start and stop of all singletons | all |
| Map, zone and stat loaders | constant data | read at start-up | |

What is hard in it: callbacks run on whichever I/O worker gets a completion, so
sending, receiving, closing and the frame thread interleave on one session and
its player; several flags are atomic and read outside the lock they belong to;
positions change at once and sectors follow a frame later; a session has a raw
pointer to a player that only the sectors own; a send may complete short;
shutdown races everything. `PROJECT.json` lists each of these hazards at its line.

What makes each component correct, in short:

* job queue: no job lost, run twice or early, order per producer, every job runs, workers stop;
* sending: one WSASend at a time, bytes in order and once, nothing stranded, one disconnect;
* sectors: a player is listed where it is and nowhere else, not at all once it left, and is owned while pointed to;
* sessions: each closed session is forgotten once and no completion outlives it; a client that answers each ping once and in time is not dropped for its answers;
* memory: each block has one owner, counters agree with the lists;
* receiving: packets are handled whole, once and in order, however TCP cuts the stream; the buffer always has room;
* sight: a client shows the players in sight, whatever the order of entering, leaving and frames;
* locks: a cycle of acquisitions is reported, an acyclic order is not;
* shutdown: threads end but for those whose loops have no end, every log line handled before the file is closed is in it.

## 2. What is modelled

| Module | Models | Composes with |
|---|---|---|
| `JobPriorityQueue` | jobs, groups and their workers | implements `SerialExecutor` |
| `SessionSend` | sending and closing a session | |
| `SessionRegistry` | accepts, the registry, the heartbeat, who owns a session | |
| `ReceiveStream` | packets on a stream of bytes, the receive buffer | implements `PacketStream` |
| `WorldSectors` | places, sectors, the frame thread step by step | |
| `WorldVision` | who sees whom, what clients are told | extends `WorldMap` |
| `WorldMap` | coordinates, grid, zones, sectors, the range of sight | |
| `MemoryPools` | allocation | |
| `DeadlockDetector` | guards, the lock graph and its cycle check | |
| `LockSearch` | the search for a cycle as written | extends `DeadlockDetector`, compared with its `CycleCheck` |
| `LogManager` | lines, flushes, the file | |
| `ServerStop` | `CoreService::Stop` and what it stops | extends `LogManager` |

### `JobPriorityQueue` and `SerialExecutor`

`JobPriorityQueue` has one step per clock reading, atomic access and locked
section. Constructing a job is two steps (`StampTime`, `StampOrder`), pushing it
a third (`Push`). A worker's loop is `WorkerLoop` (the while condition),
`WorkerLocked` (the locked section, with `Pop`), `WorkerCheck` (the flag is read
again), `WorkerFinish` (`Execute` returned) and `WorkerWake` (the sleep ended).
While a worker executes, it may itself submit jobs. `MakeGroupThread`,
`BeginShutdown` and `ShutdownGroup` are the life of the threads; jobs may be
pushed before the thread of their group is made. `finished` and `dropped` are
history. The queue is a set, its top the least job by `Before`.

`SerialExecutor` is the promise of a group: jobs are submitted in any order,
started one at a time, never before they are due, never before an earlier one of
the same producer that is due no later, and only while the group is open. The
refinement maps a popped job that was not started, or was dropped, to a pending one.

### `SessionSend`

One session, its senders and the I/O workers. `pc` says where a thread is:
`push`, `pop`, `clear`, `post`, `store` in `Send` and `ProcessSend`; `take`,
`requeue` in `OnSendCompleted`; `close` to `discard` in `Close`. `flight` is what
the kernel has; `CompletionArrives`, `CompletionFails` and `CompletionSwallowed`
are the branches of `IOWorkerThread`. The kernel may complete a send short; `cut`
says that it did, and `wire`, what was transmitted, is kept up to that point.
`wire`, `accepted`, `resent`, `swallowed` and `disconnects` are history. The bytes
of a buffer are counted and not represented.

### `SessionRegistry`

From `AcceptEx` to the destructor. `stage[s]` is where the accept of session `s`
is: `made` (between `RequestAccept` and the return of `AcceptEx`), `outstanding`,
`taken` (`OnAcceptCompleted`), `starting` (`Init` posted the first receive),
`sleeping` (registered; the thread waits before it asks for the next accept),
`failed` (the thread goes to `ReRequestAccept`), or one of the ends. `asker`
says which session the thread that makes another one serves, as its local
references keep that one alive. `closer[s]` is the thread inside `Close`,
`recv[s]` the cycle of receives, and `beat` with its sets the heartbeat: copy and
sort, close and erase, ping and count. Only one heartbeat runs at a time, since
each schedules the next when it ends. `late` is `IsTimeout`; time is not counted.
`missing` is the difference of the unsigned ping and pong counters, the only way
they are used. A client may answer a ping, let it go unanswered, or send a pong
nobody asked for, which the handler counts like any other; `owed` is history, the
pings sent less the pongs handled, and `MaxSurplus` bounds how far below zero a
client brings it. `Held` lists the owners of a `SessionRef`; a thread that uses a
session nobody holds sets `crashed` and the server stops. Socket handles, the RTT
average and `Connect` are left out; `OnConnected` only logs.

### `MemoryPools`

`BlocksOf` is the cutting of the chunk in `PushChunk`; a block is named by its
address. `Allocate` and `Release` decide by the size; `Pop` has four steps (look
at the list, two counters, take), `Push` three. The header of a block is written
once, that of other memory is what the pointer's record says. `missed` counts
the pops that found the list emptied by another thread after counting. Pointers
are released once, as objects are; contents are left out.

### `WorldSectors`

The places of players, the two request queues and the frame thread. `reader[s]`
is the I/O worker inside `OnRecvCompleted`, which may handle several packets of
one receive; `leaver[s]` is the thread inside `OnDisconnected`, which may be
another one. A place is a zone with a cell of the grid, drawn as a line;
`SectorOf` is `FindSector` with `SectorId`. `Home`, the place of a new object,
is outside of the map: cell (0, 0) is not in the town. `TickDelete` to `TickEnd`
are the frame, one step per locked section. A dangling or null pointer used by a
handler sets `crashed`, and the server stops there; that such a use has no effect
is covered by `MoveRefused` and by the steps not taken. `ClearAllEmptySector`
changes nothing here, as empty sectors are not represented. Who sees whom is in `WorldVision`.

The code works as its authors expect when an object's change of place has been
served before the next one, or its departure, begins. `disturbed` is the set of
objects for which that was not so (see `Disturb`); section 6 says what becomes of
these, the runs show what holds of the others. This is a condition on the order
of events, not a restriction of the model: disturbing events are taken like all
others.

### `WorldMap` and `WorldVision`

`WorldMap` is the arithmetic of `WorldManager`: `MakeGridIndex` with the cast to
`int32` that drops the fraction toward zero, `GetZoneByPosition`,
`GetVisibleZones`, `SectorId`, `GetVisibleSectorIds`, `IsInGridRange`, `CanGo`,
the area `GetRandomSpawnPosition` draws from. The map itself is constants;
`ShippedMapAssumption` is what the repository's `MapData.json` has and the code
relies on without a test: what can be entered is off the edge of the grid, the
zones cover it without overlapping and lie within the grid, and players are
spawned away from a zone's edge.

`WorldVision` has the three kinds of threads that tell a client of others. Entering
is four steps (`EnterPlace`, `EnterGather`, `EnterAnnounce`, `EnterIntroduce`),
leaving three (`LeaveRequest`, `LeaveGather`, `LeaveTell`), and a frame is
`FrameSectors` and then, for each player, `FrameGather` (the search) and
`UpdateVision` (the packets and the new `_visibleObjects`): a list of players is
out of date between the step that gathers it and the one that uses it.
`visible[p]` is what the server believes, `screen[p]` what the client shows.
`announced` is history: `EnterGame` tells the neighbours of a newcomer without
entering it in their `_visibleObjects`. Sectors change in one step here; their
steps are those of `WorldSectors`, and `disturbed` means the same.

### `ReceiveStream` and `PacketStream`

A byte is represented by its place in the stream, so that a byte that is moved
wrongly in the buffer, handled twice or left out is seen. `Arrive` is the kernel
completing the receive with any number of bytes that have been sent;
`MoveWritePos`, `HandlePacket` (one turn of the loop), `BadHeader`, `RecvNothing`
and `LoopEnd` are `OnRecvCompleted`, `ProcessRecv` and `RecvRefused` the next
receive. `SendPacket` is the sender's check of the size; `SendBroken` a sender
that is not this program. Where no header begins `HeaderSizes` is every value,
so that a wrong position shows. `PacketStream` is the promise: packets are
handled whole, once, in order, up to the first that is broken.

### `DeadlockDetector`

A guard is three steps: the request (`Enter`), the check under the detector's
mutex (`InsertThenCheck`, only for a lock inside another), and the acquisition
(`Acquire`), in which a thread may wait for ever. `nested` is history: which lock was
asked for inside which.

`CycleCheck` is stated by what the search finds out, whether the graph leads from the
lock back to it: `Reaches`, by the sets that are closed under the edges, a form one can
prove about. `LockSearch` has the depth-first search as written. Its assumption, which
TLC evaluates in the run, says that on every graph of the instance's locks the search
and `CycleCheck` agree, and `Reaches` with the transitive closure of the community
modules.

### `LogManager` and `ServerStop`

`log` is the buffer with the file. The System worker is inside `ProcessThread`
between `ProcessBegin` and `ProcessEnd`; `Shutdown` runs on the stopping thread
without a lock, and two threads inside at once set `raced`. `ServerStop` goes
through `CoreService::Stop` in its order: wake the I/O workers, close the port,
give `IocpCore` back, close the log, stop the groups, destroy the sessions, join
the threads. A worker with a completion is `busy`; that of an accept takes it on to
`RequestAccept` (`retry`) and `ProcessAccept` (`accept`), and back to its loop only
when the next accept is pending, which needs the sockets `CloseIocp` shuts down.
`Blank` stands for the empty strings `Init` puts in the buffer, which are written to
the file as nothing. What a worker reads from memory that was given back is any value
(`ReadRunning`), and `misled` notes that it mattered.

## 3. The runs

| Run | Instance | Properties | States, time |
|---|---|---|---|
| `job_queue` | 2 groups, 1 further producer, delays 0 and 1, clock to 1, 3 jobs | `TypeOK`, `JobsAccountedFor`, `LostOnlyAtShutdown`, `ProducerFifo`, `ImplementsExecutor`, `EveryJobRuns`, `WorkersStop` | |
| `session_send` | 2 senders, 2 workers, 2 packets, batches of 2 | `SingleOutstanding`, `NoPacketLost`, `DisconnectedOnce`, `EveryPacketGoesOut`, `CloseCompletes` | 414 000, 85 s |
| `session_stream` | the same with 3 packets (symmetric threads) | **violated**: `StreamInOrder` | |
| `session_registry` | 2 sessions, 1 accept at a time, 2 pings, one client that may send a pong too many, counters modulo 4 | `TypeOK`, `AcceptsAreKept`, `OpenIsRegistered`, `JudgedByAnswers`, `ClosedIsForgotten`, `GhostsAreSwept` | 757 000, 190 s |
| `session_lifetime` | the same without fairness | **violated**: `ReceiveHasOwner` | |
| `receive_stream` | header 2, packets up to 4, buffer 7, 10 bytes in all | `TypeOK`, `RoomForPacket`, `ClosedWithReason`, `DeliversInOrder`, `EveryPacketHandled` | 51 000, 10 s |
| `world_sectors` | 1 session, 2 players, 3 places in 2 sectors and 2 zones (symmetric players) | `WellPlaced`, `PlayerIsOwned`, `VanishesOnlyIfRemoved` | |
| `world_liveness` | 1 session, 1 player, fairness | `MovesAreShown`, `LeaversDisappear` | |
| `world_vision` | 2 players, 2 moves, a strip of six cells, two zones | `ScreenMatchesVisible`, `SightIsComplete`, `PlayersStayInTheWorld`, `ScreenSettles` | 648 000, 75 s |
| `memory_pools` | 2 threads, 3 pointers, blocks of 2 sizes (2 and 1 of them), counters modulo 4 (symmetric) | `OnePlace`, `RoomEnough`, `CountersAgree` | |
| `deadlock_detector` | 3 threads, 3 locks, three guards deep (symmetric) | `NoSilentDeadlock`, `CrashOnlyForCycle` | 2 127 000, 37 s |
| `server_stop` | server and client, 2 I/O workers, 2 signals, 4 lines, flush at 2 | `LogIsKept`, `WorkersLeave`, `StopHeldByFramesOnly` | 569 000, 185 s |

Type invariants are conjuncts of `NoPacketLost`, `WellPlaced`, `OnePlace` and
`ScreenMatchesVisible` where they are no property of their own.

Bounds. Three jobs are enough for a producer to submit two to one group while
another's comes between, in two groups, with equal and with different due times;
the clock, `MaxTime`, lets each become due before or after the other. Two
packets let one be pushed before or after the other's batch is taken; the third
packet of the violation run makes a batch of two with one behind it. Two workers
let a completion be handled while another thread is between `WSASend` and the
store. Two sessions with one accept at a time make the thread that serves the
first one ask for the second, which is where accepts could get lost; counters
modulo 4 wrap when a pong overtakes the count of its ping, and when the one client
that may do so sends a pong too many; that the other may not saves a quarter of the
states, and either may be the first to be accepted.

In the stream a header of two bytes can itself be cut, packets have one of three
sizes, and a buffer of seven, less than two packets, makes data end at the last byte,
be moved onto itself, and be left behind the bytes already read when a packet still
fits (the code's sizes are 4, 2048 and 8196); ten bytes pass the end of the buffer.
The proofs hold for every size.

Two players on one session are the one that was replaced and the one that
replaced it; players of different sessions meet only in the sets and lists of
the frame thread, which treats each on its own. The places are two cells of one
sector, one of which lies also in the next zone. In the strip of `WorldVision`
the zones meet inside the third cell, where a sector begins; all players enter
at the one position of the town and may move over the border within sight, out
of sight, and to a position below the world. Two moves let a player go and come
back, or both players meet. A third player would add nobody to a list that is
not added for the second already.

Three blocks and three pointers let two threads see the same last block, and the
heap serve the one that loses. Three locks and three threads make the shortest
circle that no two of them form alone; depth two is what a circle needs of each
thread, and at depth three a thread asks for a lock with two in hand, of which the
detector looks at the inner one. Four lines with flushes at two leave lines waiting
when the file is closed, before it and after it; two workers and two signals are one for each
worker, as in the code, and a worker may also be out of the queue and miss its own.

`MCSessionSend`, `MCSessionRegistry`, `MCWorldSectors`, `MCWorldVision` and
`MCMemoryPools` give values to the constants that are functions, records or sets of them; `MCDeadlockDetector` a
symmetry. The other modules need none.

Deadlock is checked by TLC for the memory pools. For the job queue and for `Stop`
`WorkersStop`, `WorkersLeave` and `StopHeldByFramesOnly` take its place: a queue whose
clock and jobs are used up may stop, and so may a session that has sent
everything, a stream that has ended, players who stand still, and a server that
crashed. Threads that wait for each other are what `DeadlockDetector` is about.

Fairness. Every thread is scheduled again and again, callbacks return, the
kernel completes what it accepted and the clock goes on: each step of a thread
that is under way is weakly fair, and the heartbeat and the frame, which
reschedule themselves, are due again and again. Nobody is obliged to send,
submit, move, close or shut down.

### What the violation runs show

* `session_stream` (`Session.cpp:451`). `ProcessSend` stores the buffers of a
  `WSASend` after the call. If the completion is handled first, it finds no
  buffers; the late store leaves the old ones behind, and the next completion
  counts its bytes against them. A packet can be transmitted twice.
* `session_lifetime` (`SessionManager.cpp:122`). The heartbeat closes a session
  and forgets it; with that the session is destroyed, while the receive that the
  close cancelled is still to be reported with a pointer to it.

## 4. The proofs

`JobPriorityQueueProofs` proves, from the assumptions on the constants named in
`JobPriorityQueue` and for any groups, threads, delays and bounds, that every
behaviour of `Spec` satisfies `TypeOK` (`TypeCorrect`), `JobsAccountedFor`
(`AccountedFor`), `LostOnlyAtShutdown` (`LossBounded`) and `ProducerFifo`
(`Fifo`), and that the queue implements `SerialExecutor` (`Implementation`).

None of these is inductive. The invariant `IInv` adds to `TypeOK`: `PlaceInv` (a
job in a queue or a worker's hands belongs to that group, a numbered draft to
its producer), `UniqueInv` (a number below the counter names one job in one
place), `CompleteInv` (every number taken is somewhere), `WorkerInv` (a job
held is due; a worker drops for a stopped group only, and at most one job),
`NewestInv` (what a producer is constructing is newer than all it pushed) and
`FifoInv` (the job popped or executed is not overtaken). The order of a
producer's jobs needs `NewestInv`: it is what makes the queue's top, chosen among
the jobs pushed, also the first among all those the producer will push. Each
part has a lemma per kind of step; `JobFacts` and `StepCases` reduce the actions
to six kinds of change of the places of jobs. `Implementation` uses `IInv` to show
that each step is a step of the executor or leaves its variables alone.

`SessionRegistryProofs` proves for any sessions, any number of accepts, any number
of pongs that clients send unasked, and any modulus of the counters above this and
`PingPongDiff` together (the code's counters have 64 bits): `TypeOK` (`TypeCorrect`),
`AcceptsAreKept` (`Accepts`), `OpenIsRegistered` (`Registered`) and
`JudgedByAnswers` (`Judged`). Its `IInv` adds `BeatInv` (what the
heartbeat is about to forget is closed or will be, and its sets are empty
outside of their phases), without which a session might be erased open, and
`CountInv` (the counters' difference is the number of pongs owed, but for the ping
sent and not counted yet, and wraps when this is negative). The heartbeat compares
only when all pings are counted; `Judgement` says what it learns then: a client is
found silent if it owes `PingPongDiff` pongs, or if it has sent more pongs than it
got pings. `AcceptsAreKept` is inductive by itself; its
steps are facts on cardinalities of a set that gains and loses one session.

`ReceiveStreamProofs` proves for every size of header, packet and buffer with
header <= packet <= buffer, and any number of bytes: `TypeOK` (`TypeCorrect`), that
is, neither assertion of `BaseBuffer` fails, and `RoomForPacket` (`Room`), that is, no
connection is closed for want of room and no receive of length zero is posted,
which would be taken for the end of the connection. The invariant `RoomInv` says
what `LoopEnd` leaves for `ProcessRecv`: a free byte, and a read position with room
for a packet behind it. `IncompleteIsShort` (what is left is less than a packet)
and `CompactMakesRoom` are why; the second `Compact` of `ProcessRecv` is never
needed.

It also proves that the receiving half implements `PacketStream` (`Implementation`)
and `ClosedWithReason` (`Reasons`). Their invariant `IInv` adds `SentInv` (packets
follow each other in the stream; only the last may be of a wrong size),
`BufferInv` (the bytes between the two positions of the buffer, what the receive
has just brought included, are the stretch of the stream that begins with the next
packet to be handled) and `ReasonInv` (a receive is posted only when the next
packet is not there as a whole). `NextIsThere` draws the conclusion: once a header is
there it is that of the next packet, so the loop handles this one or closes the
session. `PutInv` and `ReceiverStep` have the steps of the sender and the receiver.

`SessionSendProofs` proves for any threads, packets and batches that at most one
`WSASend` of an open session is outstanding or about to be issued
(`OneSend`, of `SingleOutstanding`), and that `OnDisconnected` is called once, before the
socket is closed (`Once`, of `DisconnectedOnce`). `RightInv` says who has the right to
send, one thread or the kernel with one `WSASend`, and that `_sending` is set as long
as anybody has it; `CloseInv` says that only one thread is in `Close` behind the
exchange of `_isClosed`, and how far it has come. Only who has the right clears
`_sending` or hands the right on, to the kernel in `PostAccepted` and back in
`CompletionArrives`; what `_sendContext` holds does not matter to it.

The same module proves `NoPacketLost` (`NothingLost`), type correctness included. As
long as nothing has gone wrong (`Going`), the packets pushed are those transmitted, then
the new ones of the batch in hand, then the new ones of the deque (`StreamInv`): a
batch is in hand from `ProcessPop` to its completion, of one thread or of the kernel by
`RightInv`. Whatever a completion finds in `_sendContext` was handed to a `WSASend` that
is through by then, so it marks as complete, and puts back, nothing but what has gone
out, and that counts no more. `PushInv` (no packet is pushed twice) keeps the packets in
hand apart from those in the deque. `Only`, the selection of the packets that are not
complete, is a recursive function; `OnlyAppend` to `OnlyTwice` say what it selects, by
the least counterexample (`LeastSequence`), and `RestPush` to `RestSent` how each move
of a packet keeps the three parts together.

`WorldSectorsProofs` proves for any sessions, players, places and size of sectors
`WellPlaced` (`Placed`), `PlayerIsOwned` (`Owned`) and `VanishesOnlyIfRemoved`
(`Vanishing`). The invariant follows one player that no event disturbed through its
life: its session has it until `OnDisconnected` takes it away (`LifeInv`); before
its first frame it is listed nowhere, and from then on in exactly one sector, that
of its place or, while a change waits, of the place before, or it is in the frame
thread's hands between the two (`PlaceInv`). The session's raw pointer is good
because one of these always owns the player. `MakerInv` keeps players to the session
they were made for, and `FrameInv` says that the frame thread holds nothing between
two frames.

`WorldVisionProofs` proves for any players, positions, zones and sizes of cells,
sectors and sight, with the two assumptions on the map, `ScreenMatchesVisible`
(`Screens`), `PlayersStayInTheWorld` (`InTheWorld`) and `SightIsComplete` (`Sight`).
`ScreenInv` is kept by each of the three kinds of senders alone, which is why they
need no common lock. `PlaceInv` says that a player is in a zone, and `CanGoIsWithin`
why: a coordinate below the world is cast to cell 0, and what can be entered is off
the edge. `ListedInv` says that an undisturbed player is listed where it is or waits
for the frame with another place than before. What is left for `Sight` is geometry:
`GapOfCells` (less than `v` cells apart means at most `v` cells further),
`SectorInRange` (the sectors between the two ends of the sight hold every cell in
it, clamped or not) and `InSightIsSearched`.

`MemoryPoolsProofs` proves for any sizes, ratios, chunk, threads, pointers and width
of the counters `OnePlace` (`InOnePlace`), `RoomEnough` (`Room`) and `CountersAgree`
(`Counted`). How the chunk is cut is a recursive function of the sizes; `Recursion`
and `Least` give induction by the least counterexample, and with them the lemmas
`InItsPart`, `PartsApart`, `SameSizeApart` and `BlocksApart` say that no two blocks
overlap and none leaves the chunk. The invariant says that a block is on the stack
of its size once, behind one pointer or with one thread (`StackInv`, `PlaceInv`), that
a pointer's block is of the class of the bytes asked for (`PointerInv`, `ClassInv`),
and what the counters are, modulo their width (`CountInv`); each step moves one
thread or one pointer from one of the counted sets to another (`Changes`).

`ServerCoreProofs` proves `LogIsKept` (`Log`) for any number of lines and any size of
the buffer. The invariant says that `Stop` closes the file once (`StopInv`), that the
line being written comes after all that are kept (`OrderInv`), and that while the file
is closed only lines from after the stop are handled or wait (`KeptInv`), so that
`FlushBuffer`, which clears the buffer also when nothing is written, drops no other.
`ProcessedIs` sums up what `ProcessThread` does with a new day and a late flush.

The same module proves about the locks, for any threads, locks and depth, finite or not,
`NoSilentDeadlock` (`NoDeadlock`) and `CrashOnlyForCycle` (`NoFalseAlarm`). The detector
draws only the edge from the innermost lock a thread has, and `LockOrderInv` is why that
is enough: along the stack, which is the thread's guards (`StackInv`), the graph leads
from every lock it has to every later one, and to the one it waits for. `CircleInv` says
that the process stops with the first circle: a circle that comes with an edge leads
through the end of that edge (`CircleIsThroughEdge`), and that is where the search
begins. So if `t` waits for `u`, the graph leads from the mutex of the first to that of the
second (`WaitIsOrdered`), and a circle of threads would be one of locks. An alarm is not
false because every edge was asked for (`NestedInv`), also by a thread that was on its way
to the check when `Shutdown` switched the detector off.

The assumptions of these proofs are the named ones of the modules and nothing else;
TLC evaluates them in every run.

Only model-checked: all liveness properties (TLAPS proves nothing about fairness
or `ENABLED`: `EveryJobRuns`, `WorkersStop`, `EveryPacketGoesOut`, `CloseCompletes`,
`ClosedIsForgotten`, `GhostsAreSwept`, `EveryPacketHandled`, `MovesAreShown`,
`LeaversDisappear`, `ScreenSettles`, `WorkersLeave`, `StopHeldByFramesOnly`), and that
the search of `LockSearch` computes `CycleCheck`: it is recursion over data, and a module
with a `RECURSIVE` operator is beyond the prover. The modules with proofs use folds,
recursive functions and no `RECURSIVE`.

## 5. Not modelled

* `JobGroupManager`, the loaders of map, zones and stats: filled once at start-up
  and constant afterwards; they are constants of the models.
* `ObjectPool`, `STLAllocator`, `Utils`, `SocketUtil`, `CrashDump`, console output and
  the text of logs and chat: no state of their own.
* `DummyClient`: the environment of the models. The client's `Connect` path of
  `IocpCore` is left out with it; a failed connect completion leaks its context there.
* The average of the round trip times, the position predicted in a move packet and
  the correction of the frame time: arithmetic on floats and clocks on which no
  decision depends.
* Data races on maps and shared pointers are recorded as hazards where their outcome
  is not a step of a model.

## 6. Where the code departs from what one would expect

Found while modelling; the models do what the code does, and the properties are
stated with these exceptions.

* A short `WSASend` (`Session.cpp:202` and `:229`) gives back at most one buffer; those
  behind it are lost (`cut`).
* A player that enters and then moves within its cell before the next frame has
  equal last cells, is left out by the filter (`WorldManager.cpp:446`) and never
  listed; its last reference goes with the frame. A frame removes first and
  updates afterwards (`WorldManager.cpp:48`): a player that left with an update
  waiting is listed again for ever (`disturbed`).
* Memory above the largest block is passed to `VirtualFree` by the address of its
  data (`MemoryManger.cpp:71`), which the call refuses.
* `IsValidWorldPosition` joins its tests with `&&` and rejects nothing; the map's
  blocked border is what keeps players in (`PlayersStayInTheWorld`), also those whose
  coordinates below the world are cast to cell 0.
* Moves and local chat reach only the mover's own zone, though sight crosses zones.
* A newcomer can be told of itself; its neighbours are told of it but do not note
  it, so that one who leaves again before the next frame stays on their screens
  until seen and lost again (`announced`). The despawn of `LeaveGame` and the spawn of
  a frame may come in either order; the next frame puts it right (`ScreenSettles`).
* `Timer::IsNewDay` (`Timer.cpp:81`) sets the day it compares with, so that the log
  is practically never rolled, though `LogManager.cpp:53` says it is. The flush
  interval is looked at only when another line comes.
* The pong handler (`SystemPacketHandler.cpp:12`) counts every pong. One that nobody
  asked for takes the unsigned difference at `SessionManager.cpp:133` below zero, where
  it wraps, and the next heartbeat closes a client that owes nothing; the comment at
  line 132 says that clients are closed which did not answer (`JudgedByAnswers`).
* A worker that has served an accept asks for the next one before it returns to its
  loop. Once `Stop` has closed the sockets, `RequestAccept` and `ReRequestAccept`
  (`IocpCore.cpp:298-335`) call each other every half second without looking at
  `_running`, and deeper in the stack each time; such a worker never leaves
  (`AsksForEver` in `WorkersLeave`).
* `IocpCore` is given back (`CoreService.cpp:49`) and the sessions are destroyed while
  workers use them (`misled`). A frame thread never ends, so that `Stop` of a server
  never returns; `main` calls `JoinAll` only.
* The handler of a packet is called even if its payload could not be parsed, and the
  table has one entry less than ids.
* The printed path of a lock cycle contains dead ends of the search; edges of the
  lock graph are never removed, while lock addresses are reused.
