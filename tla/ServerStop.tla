------------------------------ MODULE ServerStop ------------------------------
(***************************************************************************)
(* CoreService::Stop with what it stops (src/ServerCore): the I/O workers  *)
(* of IocpCore, the worker of the System group, the log, and JoinAll of    *)
(* ThreadManager, which waits for the threads in the order in which they   *)
(* were launched.                                                          *)
(*                                                                         *)
(* The other groups' workers are like that of System.  What the workers do *)
(* with a completion is in SessionSend and SessionRegistry, what becomes   *)
(* of queued jobs in JobPriorityQueue.  main.cpp calls JoinAll only; Stop  *)
(* is what it has commented out.                                           *)
(***************************************************************************)
EXTENDS LogManager

CONSTANTS Workers, \* the threads of StartWorkerThreads
          Signals  \* MAX_WORKER_THREAD_NUM

ASSUME StopAssumption == Signals \in Nat

VARIABLES service,  \* ServiceType: only the server has a frame thread
          _running, \* IocpCore::_running
          freed,    \* ObjectPool<IocpCore>::Release was called
          port,     \* [open, signals]: _iocpHandle and the exit signals posted to it
          worker,   \* where an I/O worker is
          system,   \* the System worker is in its loop
          groupRunning, \* _groupRunning[System]
          beat,     \* the next StartHeartbeatTask is in the queue
          stop,     \* where Stop is
          joined,   \* which threads JoinAll has waited for
          misled    \* history: memory was used after it was freed, and held something else

iocpVars == <<_running, freed, port, worker>>
vars == <<logVars, service, iocpVars, system, groupRunning, beat, stop, joined, misled>>

Init == /\ LogInit
        /\ service \in {"Server", "Client"}
        /\ _running = TRUE /\ freed = FALSE
        /\ port = [open |-> TRUE, signals |-> 0]
        /\ worker = [w \in Workers |-> "loop"]
        /\ system = "loop" /\ groupRunning = TRUE
        /\ beat = (service = "Server")
        /\ stop = "no" /\ joined = {}
        /\ misled = FALSE

\* Memory is used; if it was given back, that may go wrong.
Use(given) == misled' \in IF given THEN {misled, TRUE} ELSE {misled}

\* What a read of _running yields: anything once its memory was given back.
ReadRunning(value) == /\ value = _running \/ freed
                      /\ misled' = (misled \/ value # _running)

-----------------------------------------------------------------------------
(* IocpCore::IOWorkerThread *)

WorkerTo(w, from, to) == worker[w] = from /\ worker' = [worker EXCEPT ![w] = to]

\* A line is pushed, and nothing else of the log changes.
AndLog == PushLine /\ UNCHANGED <<log, handled, writing, closing, raced, closedAt>>

\* while (_running)
WorkerLoop(w) ==
  /\ \E value \in BOOLEAN : /\ ReadRunning(value)
                            /\ WorkerTo(w, "loop", IF value THEN "wait" ELSE "left")
  /\ UNCHANGED <<logVars, service, _running, freed, port, system, groupRunning, beat, stop, joined>>

\* GetQueuedCompletionStatus returns an exit signal.
WorkerSignal(w) ==
  /\ port.open /\ port.signals > 0
  /\ WorkerTo(w, "wait", "left")
  /\ port' = [port EXCEPT !.signals = @ - 1]
  /\ AndLog
  /\ UNCHANGED <<service, _running, freed, system, groupRunning, beat, stop, joined, misled>>

\* The port is closed, while the worker waits or before: an error, which is logged.
WorkerError(w) ==
  /\ ~port.open
  /\ WorkerTo(w, "wait", "loop")
  /\ AndLog
  /\ UNCHANGED <<service, _running, freed, port, system, groupRunning, beat, stop, joined, misled>>

\* It returns the completion of an accept, a connect, a receive or a send.
WorkerCompletion(w) ==
  /\ port.open
  /\ WorkerTo(w, "wait", "busy")
  /\ UNCHANGED <<logVars, service, _running, freed, port, system, groupRunning, beat, stop, joined, misled>>

\* The handlers of a send, a receive and a connect use IocpCore or a session.
WorkerHandled(w) ==
  /\ WorkerTo(w, "busy", "loop")
  /\ Use(freed)
  /\ UNCHANGED <<logVars, service, _running, freed, port, system, groupRunning, beat, stop, joined>>

\* OnAcceptCompleted does not return before the next accept is pending: it goes
\* to ReRequestAccept, which sleeps, or at once to ProcessAccept if Init failed.
OnAcceptCompleted(w) ==
  /\ service = "Server"
  /\ \E next \in {"retry", "accept"} : WorkerTo(w, "busy", next)
  /\ Use(freed)
  /\ UNCHANGED <<logVars, service, _running, freed, port, system, groupRunning, beat, stop, joined>>

\* RequestAccept makes a socket.  If this fails, and after WSACleanup it always
\* does, it is called again; _running is not looked at.
RequestAccept(w) ==
  /\ \/ port.open /\ WorkerTo(w, "retry", "accept") /\ UNCHANGED logVars
     \/ WorkerTo(w, "retry", "retry") /\ AndLog
  /\ UNCHANGED <<service, _running, freed, port, system, groupRunning, beat, stop, joined, misled>>

\* ProcessAccept: AcceptEx is pending, or fails, as it does when the listening
\* socket is closed.
ProcessAccept(w) ==
  /\ \/ port.open /\ WorkerTo(w, "accept", "loop") /\ UNCHANGED logVars
     \/ WorkerTo(w, "accept", "retry") /\ AndLog
  /\ Use(freed)
  /\ UNCHANGED <<service, _running, freed, port, system, groupRunning, beat, stop, joined>>

IOWorkerThread(w) == \/ WorkerLoop(w) \/ WorkerSignal(w) \/ WorkerError(w)
                     \/ WorkerCompletion(w) \/ WorkerHandled(w)
                     \/ OnAcceptCompleted(w) \/ RequestAccept(w) \/ ProcessAccept(w)

-----------------------------------------------------------------------------
(* The worker of the System group *)

\* A line of the log.
SystemLine ==
  /\ system = "loop"
  /\ (groupRunning /\ ProcessBegin) \/ ProcessEnd
  /\ UNCHANGED <<service, iocpVars, system, groupRunning, beat, stop, joined, misled>>

\* StartHeartbeatTask, every HEART_BEAT_INTERVAL as long as _running is set.
StartHeartbeatTask ==
  /\ system = "loop" /\ groupRunning /\ ~writing
  /\ beat
  /\ \E value \in BOOLEAN : ReadRunning(value) /\ beat' = value
  /\ UNCHANGED <<logVars, service, iocpVars, system, groupRunning, stop, joined>>

SystemLeave ==
  /\ system = "loop" /\ ~groupRunning /\ ~writing
  /\ system' = "left"
  /\ UNCHANGED <<logVars, service, iocpVars, groupRunning, beat, stop, joined, misled>>

SystemWorker == SystemLine \/ StartHeartbeatTask \/ SystemLeave

-----------------------------------------------------------------------------
(* CoreService::Stop *)

StopTo(from, to) == stop = from /\ stop' = to

\* IocpCore::Shutdown
StopBegin ==
  /\ StopTo("no", "wake")
  /\ UNCHANGED <<logVars, service, iocpVars, system, groupRunning, beat, joined, misled>>

\* Mutant: the flag is only looked at.
TestRunning == _running /\ UNCHANGED _running

\* _running.exchange(false)
ExchangeRunning == _running /\ _running' = FALSE

WakeUpIOWorkerThreads ==
  /\ StopTo("wake", "close")
  /\ ExchangeRunning
  /\ port' = [port EXCEPT !.signals = Signals]
  /\ AndLog
  /\ UNCHANGED <<service, freed, worker, system, groupRunning, beat, joined, misled>>

\* The listening socket and the port are closed; what waits in it is gone.
CloseIocp ==
  /\ StopTo("close", "release")
  /\ port' = [open |-> FALSE, signals |-> 0]
  /\ UNCHANGED <<logVars, service, _running, freed, worker, system, groupRunning, beat, joined, misled>>

\* ObjectPool<IocpCore>::Release
ReleaseIocp ==
  /\ StopTo("release", "log")
  /\ freed' = TRUE
  /\ UNCHANGED <<logVars, service, _running, port, worker, system, groupRunning, beat, joined, misled>>

\* LogMgr.Shutdown
StopLog ==
  \/ StopTo("log", "logClose") /\ ShutdownBegin
     /\ UNCHANGED <<service, iocpVars, system, groupRunning, beat, joined, misled>>
  \/ StopTo("logClose", "jobs") /\ ShutdownEnd
     /\ UNCHANGED <<service, iocpVars, system, groupRunning, beat, joined, misled>>

\* Mutant: the groups are left running.
GroupsGoOn == UNCHANGED groupRunning

\* JobQ.Shutdown
JobQShutdown == groupRunning' = FALSE

StopJobs ==
  /\ StopTo("jobs", "sessions")
  /\ JobQShutdown
  /\ UNCHANGED <<logVars, service, iocpVars, system, beat, joined, misled>>

\* SessionMgr.Shutdown: the sessions are destroyed, also those in use.
StopSessions ==
  /\ StopTo("sessions", "join")
  /\ Use(\E w \in Workers : worker[w] = "busy")
  /\ UNCHANGED <<logVars, service, iocpVars, system, groupRunning, beat, joined>>

\* _threads, in the order in which JoinAll goes through them: those of the
\* groups, that of WorldManager, those of IocpCore.
Launched == {"System"} \cup (IF service = "Server" THEN {"Frame"} ELSE {}) \cup Workers

Before(t) == IF t = "System" THEN {}
             ELSE IF t = "Frame" THEN {"System"}
             ELSE Launched \cap {"System", "Frame"}

\* The loop of a frame thread has no end.
Ended(t) == \/ t = "System" /\ system = "left"
            \/ t \in Workers /\ worker[t] = "left"

\* ThreadMgr.Shutdown.  The I/O workers are joined in any order.
Join(t) ==
  /\ stop = "join"
  /\ t \in Launched \ joined /\ Before(t) \subseteq joined
  /\ Ended(t)
  /\ joined' = joined \cup {t}
  /\ UNCHANGED <<logVars, service, iocpVars, system, groupRunning, beat, stop, misled>>

StopEnd ==
  /\ joined = Launched
  /\ StopTo("join", "done")
  /\ UNCHANGED <<logVars, service, iocpVars, system, groupRunning, beat, joined, misled>>

StopSteps == \/ WakeUpIOWorkerThreads \/ CloseIocp \/ ReleaseIocp \/ StopLog \/ StopJobs
             \/ StopSessions \/ StopEnd \/ \E t \in Launched : Join(t)

-----------------------------------------------------------------------------

\* Any thread may log a line.
AnyLog == PushLog /\ UNCHANGED <<service, iocpVars, system, groupRunning, beat, stop, joined, misled>>

Next == \/ \E w \in Workers : IOWorkerThread(w)
        \/ SystemWorker
        \/ StopBegin \/ StopSteps
        \/ AnyLog

Spec == Init /\ [][Next]_vars

\* Every thread is scheduled.
FairSpec == /\ Spec
            /\ \A w \in Workers : WF_vars(IOWorkerThread(w))
            /\ WF_vars(SystemWorker) /\ WF_vars(StopSteps)

-----------------------------------------------------------------------------
(* Properties *)

\* Every I/O worker leaves its loop once the server stops: it takes one of the
\* signals, or finds the port closed, or reads the flag, whichever handler it is
\* in.  The exceptions are those the code has: a worker that is to ask for the
\* next accept when the sockets are shut down asks for ever; and IocpCore is
\* given back before the workers have left, so that the memory may hold
\* something else when they look at it.
AsksForEver(w) == worker[w] = "retry" /\ ~port.open

WorkersLeave ==
  \A w \in Workers : stop # "no" ~> (worker[w] = "left" \/ AsksForEver(w) \/ misled)

\* Nothing holds Stop up but what has no end: the server's waits for the frame
\* thread, for ever; the client's, which has none, returns.
StopHeldByFramesOnly ==
  stop # "no" ~> \/ misled
                 \/ service = "Client" /\ stop = "done"
                 \/ service = "Server" /\ stop = "join" /\ joined = {"System"}
=============================================================================
