-------------------------- MODULE SessionRegistry --------------------------
(***************************************************************************)
(* The life of a session between the threads that may end it: the accept   *)
(* loop of IocpCore that makes sessions, the SessionManager that owns them *)
(* while they are connected, the I/O workers that use them through the raw *)
(* pointer in a completion, and the heartbeat that pings them and forgets  *)
(* the closed ones (src/ServerCore/Network).                               *)
(*                                                                         *)
(* A session is owned by the references to it (Held) and is destroyed with *)
(* the last one.  The kernel's part is what it may report of a receive and *)
(* of an accept.  A thread that uses a destroyed session crashes the       *)
(* server, which then stops.                                               *)
(***************************************************************************)
EXTENDS Integers, FiniteSets

CONSTANTS Sessions,     \* the sessions that may be made
          AcceptNum,    \* ACCEPT_NUM
          PingPongDiff, \* PING_PONG_DIFF
          MaxSurplus,   \* bound: session -> pongs its client sends unasked
          CountMod,     \* _pingCount and _pongCount count modulo this
          None          \* nullptr

ASSUME NumberAssumption == /\ AcceptNum \in Nat \ {0}
                           /\ PingPongDiff \in Nat \ {0}
                           /\ CountMod \in Nat /\ PingPongDiff + 1 < CountMod
ASSUME SessionAssumption == IsFiniteSet(Sessions) /\ None \notin Sessions
\* The counters do not wrap so far that too many pongs look like answers.
ASSUME SurplusAssumption == /\ MaxSurplus \in [Sessions -> Nat]
                            /\ \A s \in Sessions : PingPongDiff + MaxSurplus[s] < CountMod

VARIABLES toAsk,      \* what is left of the loop of Start
          stage,      \* session -> where its accept is
          asker,      \* session -> the session that the thread asking for it serves
          closed,     \* session -> _isClosed
          closer,     \* session -> who closes it, and how far
          recv,       \* session -> its receive and the worker handling it
          late,       \* session -> TIMEOUT_SECONDS since _lastSendTime?
          missing,    \* session -> _pingCount - _pongCount
          registry,   \* _sessions of SessionManager
          beat,       \* where the heartbeat is
          copied,     \* Heartbeat: sessions
          unsorted,   \* Heartbeat: what is left of the first loop
          expired,    \* Heartbeat: what is left of timeoutSessions to close
          forgotten,  \* Heartbeat: timeoutSessions
          live,       \* Heartbeat: what is left of liveSessions
          pinging,    \* Heartbeat: the session whose ping is to be counted
          crashed,    \* has a thread used a destroyed session?
          owed        \* history: session -> pings sent less pongs handled

acceptVars == <<toAsk, stage, asker>>
closeVars == <<closed, closer>>
beatVars == <<beat, copied, unsorted, expired, forgotten, live, pinging>>
vars == <<acceptVars, closeVars, recv, late, missing, registry, beatVars,
          crashed, owed>>

Stages == {"unmade", "made", "outstanding", "taken", "starting", "sleeping",
           "failed", "lost", "dropped", "done"}
Nobody == [by |-> "nobody", at |-> "open"]

\* The difference of the two counters is unsigned: it wraps in both directions.
Up(n) == IF n = CountMod - 1 THEN 0 ELSE n + 1
Down(n) == IF n = 0 THEN CountMod - 1 ELSE n - 1

Init == /\ toAsk = AcceptNum
        /\ stage = [s \in Sessions |-> "unmade"]
        /\ asker = [s \in Sessions |-> None]
        /\ closed = [s \in Sessions |-> FALSE]
        /\ closer = [s \in Sessions |-> Nobody]
        /\ recv = [s \in Sessions |-> "none"]
        /\ late = [s \in Sessions |-> FALSE]
        /\ missing = [s \in Sessions |-> 0]
        /\ registry = {}
        /\ beat = "idle" /\ copied = {} /\ unsorted = {} /\ expired = {}
        /\ forgotten = {} /\ live = {} /\ pinging = None
        /\ crashed = FALSE
        /\ owed = [s \in Sessions |-> 0]

\* Someone holds a SessionRef of s: its AcceptContext or the local variables of
\* the threads in RequestAccept and OnAcceptCompleted, the registry, the
\* heartbeat, a packet handler, or Close.
Held(s) == \/ stage[s] \in {"made", "outstanding", "taken", "starting", "sleeping", "lost"}
           \/ \E t \in Sessions : stage[t] \in {"made", "failed"} /\ asker[t] = s
           \/ s \in registry \cup copied
           \/ recv[s] = "packet"
           \/ closer[s].at = "held"

-----------------------------------------------------------------------------
(* The accept loop *)

\* RequestAccept, up to AcceptEx, by the main thread or by a worker that has
\* served or failed another accept and slept.
RequestAccept(t) ==
  /\ stage[t] = "unmade"
  /\ \/ /\ toAsk > 0
        /\ toAsk' = toAsk - 1
        /\ stage' = [stage EXCEPT ![t] = "made"]
        /\ UNCHANGED asker
     \/ \E s \in Sessions :
          /\ stage[s] = "sleeping"
          /\ stage' = [stage EXCEPT ![t] = "made", ![s] = "done"]
          /\ asker' = [asker EXCEPT ![t] = s]
          /\ UNCHANGED toAsk
     \/ \E s \in Sessions :
          /\ stage[s] = "failed"
          /\ stage' = [stage EXCEPT ![t] = "made", ![s] = "dropped"]
          /\ asker' = [asker EXCEPT ![t] = asker[s]]
          /\ UNCHANGED toAsk
  /\ UNCHANGED <<closeVars, recv, late, missing, registry, beatVars, crashed, owed>>

\* The thread goes to ReRequestAccept without a session that works.
AcceptFails(s) == stage' = [stage EXCEPT ![s] = "failed"]

\* ProcessAccept: AcceptEx is pending, or fails at once.
ProcessAccept(s) ==
  /\ stage[s] = "made"
  /\ stage' = [stage EXCEPT ![s] = "outstanding"] \/ AcceptFails(s)
  /\ UNCHANGED <<toAsk, asker, closeVars, recv, late, missing, registry, beatVars,
                 crashed, owed>>

\* IOWorkerThread takes the completion of the accept ...
AcceptArrives(s) ==
  /\ stage[s] = "outstanding"
  /\ stage' = [stage EXCEPT ![s] = "taken"]
  /\ UNCHANGED <<toAsk, asker, closeVars, recv, late, missing, registry, beatVars,
                 crashed, owed>>

\* ... unless it has failed: the worker ignores it, and with it the context.
AcceptLost(s) ==
  /\ stage[s] = "outstanding"
  /\ stage' = [stage EXCEPT ![s] = "lost"]
  /\ UNCHANGED <<toAsk, asker, closeVars, recv, late, missing, registry, beatVars,
                 crashed, owed>>

\* Mutant: OnAcceptCompleted returns without asking again.
RefuseAndReturn(s) ==
  /\ stage[s] = "taken"
  /\ stage' = [stage EXCEPT ![s] = "dropped"]
  /\ UNCHANGED <<toAsk, asker, closeVars, recv, late, missing, registry, beatVars,
                 crashed, owed>>

\* OnAcceptCompleted fails: the socket's options cannot be set, or Init does not
\* learn the client's address; in this case AcceptEx is tried once more on the
\* socket that was just closed, and fails.
AcceptRefused(s) ==
  /\ stage[s] = "taken"
  /\ AcceptFails(s)
  /\ UNCHANGED <<toAsk, asker, closeVars, recv, late, missing, registry, beatVars,
                 crashed, owed>>

\* Init starts the first receive.
AcceptStart(s) ==
  /\ stage[s] = "taken"
  /\ stage' = [stage EXCEPT ![s] = "starting"]
  /\ \E r \in {"posted", "refused"} : recv' = [recv EXCEPT ![s] = r]
  /\ UNCHANGED <<toAsk, asker, closeVars, late, missing, registry, beatVars, crashed,
                 owed>>

\* Init and OnConnected have returned: Add, and the thread sleeps.
Add(s) ==
  /\ stage[s] = "starting"
  /\ recv[s] # "refused"
  /\ closer[s].by = "accept" => closer[s].at = "done"
  /\ registry' = registry \cup {s}
  /\ stage' = [stage EXCEPT ![s] = "sleeping"]
  /\ UNCHANGED <<toAsk, asker, closeVars, recv, late, missing, beatVars, crashed, owed>>

-----------------------------------------------------------------------------
(* Close *)

\* _isClosed is exchanged; whoever comes later returns.
CloseBegin(s, by) ==
  /\ closed' = [closed EXCEPT ![s] = TRUE]
  /\ closer' = IF closed[s] THEN closer ELSE [closer EXCEPT ![s] = [by |-> by, at |-> "begun"]]

\* A reference to the session itself is taken before OnDisconnected.
CloseLock(s) ==
  /\ closer[s].at = "begun"
  /\ IF Held(s) THEN closer' = [closer EXCEPT ![s].at = "held"] /\ UNCHANGED crashed
                ELSE crashed' = TRUE /\ UNCHANGED closer
  /\ UNCHANGED <<acceptVars, closed, recv, late, missing, registry, beatVars, owed>>

\* CloseResource: closing the socket cancels the receive.
CloseResource(s) ==
  /\ closer[s].at = "held"
  /\ closer' = [closer EXCEPT ![s].at = "done"]
  /\ recv' = [recv EXCEPT ![s] = IF @ = "posted" THEN "cancelled" ELSE @]
  /\ UNCHANGED <<acceptVars, closed, late, missing, registry, beatVars, crashed, owed>>

\* Init's receive was refused: the accepting thread closes the session.
StartRefused(s) ==
  /\ recv[s] = "refused"
  /\ recv' = [recv EXCEPT ![s] = "none"]
  /\ CloseBegin(s, "accept")
  /\ UNCHANGED <<acceptVars, late, missing, registry, beatVars, crashed, owed>>

-----------------------------------------------------------------------------
(* IOWorkerThread, with the raw pointer of a completion *)

\* The worker's step on the session; it crashes if the session is destroyed.
Using(s, step) == \/ Held(s) /\ step /\ UNCHANGED crashed
                  \/ ~ Held(s) /\ crashed' = TRUE /\ UNCHANGED <<recv, closeVars>>

Recv(s, to) == recv' = [recv EXCEPT ![s] = to] /\ UNCHANGED closeVars

otherVars == <<acceptVars, late, registry, beatVars>>

\* OnRecvCompleted hands a packet to its handler, which holds a SessionRef.
RecvArrives(s) ==
  /\ recv[s] = "posted"
  /\ Using(s, Recv(s, "packet"))
  /\ UNCHANGED <<otherVars, missing, owed>>

\* Handle_CS_SYSTEM_PONG: IncreasePongCount, for a pong that was asked for or not.
HandlePong(s) ==
  /\ recv[s] = "packet"
  /\ owed[s] > - MaxSurplus[s]
  /\ missing' = [missing EXCEPT ![s] = Down(@)]
  /\ owed' = [owed EXCEPT ![s] = @ - 1]
  /\ UNCHANGED <<otherVars, closeVars, recv, crashed>>

\* The handlers have returned.
RecvHandled(s) ==
  /\ recv[s] = "packet"
  /\ recv' = [recv EXCEPT ![s] = "handled"]
  /\ UNCHANGED <<otherVars, closeVars, missing, crashed, owed>>

\* ProcessRecv: the next receive.  WSARecv may be refused, and is when the
\* socket was closed.
ProcessRecv(s) ==
  /\ recv[s] = "handled"
  /\ Using(s, \/ closer[s].at # "done" /\ Recv(s, "posted")
              \/ Recv(s, "closing"))
  /\ UNCHANGED <<otherVars, missing, owed>>

\* The client has gone: no bytes, or an error that is expected.
RecvEnds(s) ==
  /\ recv[s] \in {"posted", "cancelled"}
  /\ Using(s, Recv(s, "closing"))
  /\ UNCHANGED <<otherVars, missing, owed>>

\* Other errors are logged; nobody asks for the next receive.
RecvIgnored(s) ==
  /\ recv[s] \in {"posted", "cancelled"}
  /\ recv' = [recv EXCEPT ![s] = "none"]
  /\ UNCHANGED <<otherVars, closeVars, missing, crashed, owed>>

RecvClose(s) ==
  /\ recv[s] = "closing"
  /\ Using(s, recv' = [recv EXCEPT ![s] = "none"] /\ CloseBegin(s, "worker"))
  /\ UNCHANGED <<otherVars, missing, owed>>

-----------------------------------------------------------------------------
(* Sends, as far as the time of the last one matters *)

\* TIMEOUT_SECONDS go by without a send completing ...
SendsStop(s) ==
  /\ stage[s] \in {"sleeping", "done"} /\ ~ late[s]
  /\ late' = [late EXCEPT ![s] = TRUE]
  /\ UNCHANGED <<acceptVars, closeVars, recv, missing, registry, beatVars, crashed, owed>>

\* ... and one completes: OnSendCompleted sets _lastSendTime.
OnSendCompleted(s) ==
  /\ late[s] /\ closer[s].at # "done"
  /\ late' = [late EXCEPT ![s] = FALSE]
  /\ UNCHANGED <<acceptVars, closeVars, recv, missing, registry, beatVars, crashed, owed>>

-----------------------------------------------------------------------------
(* Heartbeat, one after another *)

idleVars == <<acceptVars, late, crashed>>

\* The registry is copied under its lock.
BeatCopy ==
  /\ beat = "idle"
  /\ copied' = registry /\ unsorted' = registry
  /\ beat' = "sort"
  /\ UNCHANGED <<idleVars, closeVars, recv, missing, registry, expired, forgotten, live, pinging, owed>>

\* Mutant: the sessions closed elsewhere are not looked for.
OnlyTimeout(s) == late[s]

Expired(s) == closed[s] \/ late[s]

\* IsClosed and IsTimeout sort the sessions.
BeatSort(s) ==
  /\ beat = "sort" /\ s \in unsorted
  /\ unsorted' = unsorted \ {s}
  /\ IF Expired(s)
     THEN expired' = expired \cup {s} /\ forgotten' = forgotten \cup {s} /\ UNCHANGED live
     ELSE live' = live \cup {s} /\ UNCHANGED <<expired, forgotten>>
  /\ UNCHANGED <<idleVars, closeVars, recv, missing, registry, beat, copied, pinging, owed>>

\* The heartbeat goes on when the Close it called has returned.
BeatReady == /\ pinging = None
             /\ \A s \in Sessions : closer[s].by = "beat" => closer[s].at = "done"

\* Mutant: a session is closed only if it is still late.
CloseIfStillLate(s) ==
  /\ beat = "sort" /\ unsorted = {} /\ BeatReady /\ s \in expired
  /\ expired' = expired \ {s}
  /\ IF late[s] THEN CloseBegin(s, "beat") ELSE UNCHANGED closeVars
  /\ UNCHANGED <<idleVars, recv, missing, registry, beat, copied, unsorted, forgotten,
                 live, pinging, owed>>

\* An expired session is closed.
BeatClose(s) ==
  /\ beat = "sort" /\ unsorted = {} /\ BeatReady /\ s \in expired
  /\ expired' = expired \ {s}
  /\ CloseBegin(s, "beat")
  /\ UNCHANGED <<idleVars, recv, missing, registry, beat, copied, unsorted, forgotten,
                 live, pinging, owed>>

\* All expired sessions leave the registry.
BeatErase ==
  /\ beat = "sort" /\ unsorted = {} /\ expired = {} /\ BeatReady
  /\ registry' = registry \ forgotten
  /\ beat' = "ping"
  /\ UNCHANGED <<idleVars, closeVars, recv, missing, copied, unsorted, expired, forgotten,
                 live, pinging, owed>>

\* Mutant: one ping less.
MissesAlmost(s) == missing[s] >= PingPongDiff - 1

\* GetPingCount() - GetPongCount() >= PING_PONG_DIFF
MissesPongs(s) == missing[s] >= PingPongDiff

\* Mutant: the silence is only logged.
BeatSilentLogged(s) ==
  /\ beat = "ping" /\ BeatReady /\ s \in live /\ MissesPongs(s)
  /\ live' = live \ {s}
  /\ UNCHANGED <<idleVars, closeVars, recv, missing, registry, beat, copied, unsorted, expired,
                 forgotten, pinging, owed>>

\* A session that does not answer is closed.
BeatSilent(s) ==
  /\ beat = "ping" /\ BeatReady /\ s \in live /\ MissesPongs(s)
  /\ live' = live \ {s}
  /\ CloseBegin(s, "beat")
  /\ UNCHANGED <<idleVars, recv, missing, registry, beat, copied, unsorted, expired, forgotten,
                 pinging, owed>>

\* OnHeartbeat: the ping is sent to the others ...
BeatPing(s) ==
  /\ beat = "ping" /\ BeatReady /\ s \in live /\ ~ MissesPongs(s)
  /\ live' = live \ {s}
  /\ pinging' = s
  /\ owed' = [owed EXCEPT ![s] = @ + 1]
  /\ UNCHANGED <<idleVars, closeVars, recv, missing, registry, beat, copied, unsorted,
                 expired, forgotten>>

\* ... and IncreasePingCount.
BeatCount ==
  /\ pinging # None
  /\ missing' = [missing EXCEPT ![pinging] = Up(@)]
  /\ pinging' = None
  /\ UNCHANGED <<idleVars, closeVars, recv, registry, beat, copied, unsorted, expired,
                 forgotten, live, owed>>

\* Mutant: the references are let go of before the last session was looked at.
BeatEndEarly ==
  /\ beat = "ping" /\ BeatReady
  /\ copied' = {} /\ forgotten' = {}
  /\ beat' = "idle"
  /\ UNCHANGED <<idleVars, closeVars, recv, missing, registry, unsorted, expired, live,
                 pinging, owed>>

\* Heartbeat returns and lets go of its references.
BeatEnd ==
  /\ beat = "ping" /\ live = {} /\ BeatReady
  /\ copied' = {} /\ forgotten' = {}
  /\ beat' = "idle"
  /\ UNCHANGED <<idleVars, closeVars, recv, missing, registry, unsorted, expired, live,
                 pinging, owed>>

-----------------------------------------------------------------------------

Acceptor(s) == /\ ~ crashed
               /\ \/ RequestAccept(s) \/ ProcessAccept(s) \/ AcceptRefused(s)
                  \/ AcceptStart(s) \/ StartRefused(s) \/ Add(s)

\* A worker that has something to do for s in hand.
Worker(s) == /\ ~ crashed
             /\ \/ RecvHandled(s) \/ ProcessRecv(s) \/ RecvClose(s)

Closer(s) == ~ crashed /\ (CloseLock(s) \/ CloseResource(s))

Beat == /\ ~ crashed
        /\ \/ BeatCopy \/ BeatErase \/ BeatCount \/ BeatEnd
           \/ \E s \in Sessions : BeatSort(s) \/ BeatClose(s) \/ BeatSilent(s) \/ BeatPing(s)

\* The kernel and the client.
Environment(s) == /\ ~ crashed
                  /\ \/ AcceptArrives(s) \/ AcceptLost(s) \/ RecvArrives(s) \/ HandlePong(s)
                     \/ RecvEnds(s) \/ RecvIgnored(s) \/ SendsStop(s) \/ OnSendCompleted(s)

Next == \/ \E s \in Sessions : Acceptor(s) \/ Worker(s) \/ Closer(s) \/ Environment(s)
        \/ Beat

Spec == Init /\ [][Next]_vars

\* Threads that have something to do are scheduled and the heartbeat is due
\* again and again.  No client is obliged to connect, to answer or to leave.
Fairness == /\ \A s \in Sessions : /\ WF_vars(Acceptor(s))
                                   /\ WF_vars(Worker(s))
                                   /\ WF_vars(Closer(s))
            /\ WF_vars(Beat)

FairSpec == Spec /\ Fairness

-----------------------------------------------------------------------------
(* Properties *)

\* Every variable has its type; only a session that was accepted is registered,
\* received from or closed.
TypeOK ==
  /\ toAsk \in 0 .. AcceptNum
  /\ stage \in [Sessions -> Stages]
  /\ asker \in [Sessions -> Sessions \cup {None}]
  /\ closed \in [Sessions -> BOOLEAN]
  /\ closer \in [Sessions -> [by : {"nobody", "accept", "worker", "beat"},
                              at : {"open", "begun", "held", "done"}]]
  /\ recv \in [Sessions -> {"none", "refused", "posted", "packet", "handled", "closing",
                            "cancelled"}]
  /\ late \in [Sessions -> BOOLEAN]
  /\ missing \in [Sessions -> 0 .. CountMod - 1]
  /\ registry \subseteq Sessions
  /\ beat \in {"idle", "sort", "ping"}
  /\ copied \subseteq Sessions /\ unsorted \subseteq copied
  /\ expired \subseteq forgotten /\ forgotten \subseteq copied /\ live \subseteq copied
  /\ pinging \in copied \cup {None}
  /\ crashed \in BOOLEAN
  /\ owed \in [Sessions -> Int]
  /\ \A s \in Sessions : owed[s] \in - MaxSurplus[s] .. PingPongDiff
  /\ \A s \in Sessions : (s \in registry \/ closed[s] \/ recv[s] # "none")
                           => stage[s] \in {"starting", "sleeping", "done"}

\* The accepts that Start asks for are all there: each is about to be asked for,
\* outstanding, or in the hands of a thread that will ask for the next one,
\* whatever step of accepting, re-requesting or initialising fails; only an
\* accept whose completion reports an error is gone for good.
AcceptsAreKept ==
  toAsk + Cardinality({s \in Sessions : stage[s] \notin {"unmade", "dropped", "done"}})
    = AcceptNum

\* The registry has every client that is connected: a session that was accepted
\* and is open is in the registry as soon as its accept has been served.  It
\* stays open only while somebody can ping it and find out that it is dead.
OpenIsRegistered ==
  \A s \in Sessions :
    stage[s] \in {"sleeping", "done"} /\ ~ closed[s] => s \in registry

\* The answers a session is judged by, whatever the order in which pings are
\* sent, pings counted and pongs handled: it is pinged again only if its client
\* owes fewer pongs than PING_PONG_DIFF and has sent none too many, and closed
\* for its answers only otherwise.  One pong too many is as bad as PING_PONG_DIFF
\* too few: the unsigned difference wraps.
JudgedByAnswers ==
  [][\A s \in Sessions :
       beat = "ping" =>
         /\ closer[s].by # "beat" /\ closer'[s].by = "beat"
              => owed[s] \notin 0 .. PingPongDiff - 1
         /\ pinging # s /\ pinging' = s => owed[s] \in 0 .. PingPongDiff - 1]_vars

\* A session that was closed, by whomever, leaves the registry.
ClosedIsForgotten ==
  \A s \in Sessions : (closed[s] /\ s \in registry) ~> (s \notin registry \/ crashed)

\* Ghosts are swept: a session that stays registered for ever is one whose
\* client answers again and again, and only what it was asked.
GhostsAreSwept ==
  \A s \in Sessions :
    <>[](s \in registry /\ ~ crashed) => []<>(owed[s] \in 0 .. PingPongDiff - 1)

\* SessionManager.h:7, "manages the life cycle of sessions": a session lives as
\* long as the kernel has its receive, whose completion carries a raw pointer to
\* the session and whose OVERLAPPED and buffer are members of it.
ReceiveHasOwner ==
  \A s \in Sessions : recv[s] \in {"posted", "cancelled"} => Held(s)
=============================================================================
