-------------------------- MODULE JobPriorityQueue --------------------------
(***************************************************************************)
(* The job system of ServerCore: Job, JobPriorityQueue and the shutdown of *)
(* its worker threads (src/ServerCore/Job).                                *)
(*                                                                         *)
(* Any thread may submit a job to any group.  Constructing the Job reads   *)
(* the clock (the due time) and then takes an order number, and only after *)
(* that is the Job pushed: three separate steps, between which other       *)
(* producers may run.  Each group has one worker thread, which pops the    *)
(* most urgent due job under the group's lock and executes it after        *)
(* releasing the lock.  Executing a job may submit further jobs.           *)
(*                                                                         *)
(* A job is known by its order number.  What its callback does beyond      *)
(* submitting jobs is left out.                                            *)
(***************************************************************************)
EXTENDS Integers, FiniteSets

CONSTANTS Groups,   \* the registered job groups
          Threads,  \* the threads that submit jobs and are not group workers
          Delays,   \* the delays, in ticks, jobs are submitted with
          MaxTime,  \* bound: the clock stops here
          MaxJobs,  \* bound: at most so many jobs are constructed
          NoJob     \* nullptr

\* The workers submit jobs too, from the callbacks they execute.
Actors == Threads \cup Groups

Job == [by : Actors, group : Groups, due : Nat, order : Nat]

\* The order number of a Job whose constructor has not taken one yet.
Unstamped == -1
Draft == [by : Actors, group : Groups, due : Nat, order : Nat \cup {Unstamped}]

ASSUME DelayAssumption == Delays \subseteq Nat
ASSUME BoundAssumption == MaxTime \in Nat /\ MaxJobs \in Nat
ASSUME ActorAssumption == Threads \cap Groups = {}
ASSUME NoJobAssumption == NoJob \notin Draft

VARIABLES now,       \* std::chrono::steady_clock
          nextOrder, \* the counter of Job::GetNextOrderNum
          draft,     \* actor -> the job it is constructing, or NoJob
          queue,     \* group -> _groupJobs[group].jobQueue
          running,   \* group -> _groupRunning[group]: "absent", "on" or "off"
          stopping,  \* has JobPriorityQueue::Shutdown been called?
          pc,        \* group -> where its worker thread is
          held,      \* group -> the worker's local variable job
          finished,  \* history: the jobs executed
          dropped    \* history: the jobs popped and never executed

vars == <<now, nextOrder, draft, queue, running, stopping, pc, held, finished,
          dropped>>
producerVars == <<now, nextOrder, draft>>
workerVars == <<pc, held, finished, dropped>>

Init == /\ now = 0
        /\ nextOrder = 0
        /\ draft = [a \in Actors |-> NoJob]
        /\ queue = [g \in Groups |-> {}]
        /\ running = [g \in Groups |-> "absent"]
        /\ stopping = FALSE
        /\ pc = [g \in Groups |-> "none"]
        /\ held = [g \in Groups |-> NoJob]
        /\ finished = {}
        /\ dropped = {}

-----------------------------------------------------------------------------
(* The clock *)

Tick == /\ now < MaxTime
        /\ now' = now + 1
        /\ UNCHANGED <<nextOrder, draft, queue, running, stopping, workerVars>>

-----------------------------------------------------------------------------
(* Producers: DoAsync (delay 0) and DoAsyncAfter *)

\* Bound: the jobs constructed so far, with those that have no number yet.
Budget == nextOrder
            + Cardinality({a \in Actors : /\ draft[a] # NoJob
                                          /\ draft[a].order = Unstamped})

\* A worker submits jobs only from within the callback it executes.
CanSubmit(a) == draft[a] = NoJob /\ (a \in Groups => pc[a] = "executing")

\* Job::Job, first: _executeTime is NOW, or NOW + delayMs.
StampTime(a, g, delay) ==
  /\ CanSubmit(a)
  /\ Budget < MaxJobs
  /\ now + delay <= MaxTime
  /\ draft' = [draft EXCEPT ![a] = [by |-> a, group |-> g, due |-> now + delay,
                                    order |-> Unstamped]]
  /\ UNCHANGED <<now, nextOrder, queue, running, stopping, workerVars>>

\* Job::Job, then: _orderNum is fetched from the atomic counter.
StampOrder(a) ==
  /\ draft[a] # NoJob
  /\ draft[a].order = Unstamped
  /\ draft' = [draft EXCEPT ![a] = [@ EXCEPT !.order = nextOrder]]
  /\ nextOrder' = nextOrder + 1
  /\ UNCHANGED <<now, queue, running, stopping, workerVars>>

\* Push, under the group's lock.  The group's queue exists from its first use:
\* a job may be pushed before the group's thread is made.
Push(a) ==
  /\ draft[a] # NoJob
  /\ draft[a].order # Unstamped
  /\ queue' = [queue EXCEPT ![draft[a].group] = @ \cup {draft[a]}]
  /\ draft' = [draft EXCEPT ![a] = NoJob]
  /\ UNCHANGED <<now, nextOrder, running, stopping, workerVars>>

-----------------------------------------------------------------------------
(* The life of the worker threads *)

\* MakeGroupThread, which crashes for a group that already has a thread: the
\* server calls it once for each group it registers, before Shutdown.
MakeGroupThread(g) ==
  /\ ~ stopping
  /\ running[g] = "absent"
  /\ running' = [running EXCEPT ![g] = "on"]
  /\ pc' = [pc EXCEPT ![g] = "loop"]
  /\ UNCHANGED <<producerVars, queue, stopping, held, finished, dropped>>

\* CoreService::Stop calls Shutdown.
BeginShutdown ==
  /\ ~ stopping
  /\ stopping' = TRUE
  /\ UNCHANGED <<producerVars, queue, running, workerVars>>

\* One turn of the loop in Shutdown; the map's order is unspecified.
ShutdownGroup(g) ==
  /\ stopping
  /\ running[g] = "on"
  /\ running' = [running EXCEPT ![g] = "off"]
  /\ UNCHANGED <<producerVars, queue, stopping, workerVars>>

-----------------------------------------------------------------------------
(* WorkerThread *)

\* Mutant: JobComparator without the creation order.
BeforeByTime(a, b) == a.due < b.due

\* JobComparator, as an order: the earlier due time first, then the one
\* constructed first.
Before(a, b) == a.due < b.due \/ (a.due = b.due /\ a.order < b.order)

\* priority_queue::top
IsTop(job, g) == job \in queue[g] /\ \A k \in queue[g] : ~ Before(k, job)

IsExecute(job) == now >= job.due

\* while (_groupRunning[groupId].load())
WorkerLoop(g) ==
  /\ pc[g] = "loop"
  /\ pc' = [pc EXCEPT ![g] = IF running[g] = "on" THEN "locked" ELSE "exited"]
  /\ UNCHANGED <<producerVars, queue, running, stopping, held, finished, dropped>>

\* Mutant: Pop forgets groupQueue.pop().
PeekJob(g) ==
  \E job \in queue[g] :
    /\ IsTop(job, g) /\ IsExecute(job)
    /\ held' = [held EXCEPT ![g] = job]
    /\ UNCHANGED queue

\* Mutant: Pop hands out the top job whether it is due or not.
PopAnyJob(g) ==
  \E job \in queue[g] :
    /\ IsTop(job, g)
    /\ held' = [held EXCEPT ![g] = job]
    /\ queue' = [queue EXCEPT ![g] = @ \ {job}]

\* Pop, when the top job is due.
PopJob(g) ==
  \E job \in queue[g] :
    /\ IsTop(job, g) /\ IsExecute(job)
    /\ held' = [held EXCEPT ![g] = job]
    /\ queue' = [queue EXCEPT ![g] = @ \ {job}]

\* Pop, when it returns nullptr: nothing queued, or the top is not due.
PopNothing(g) ==
  /\ \A job \in queue[g] : IsTop(job, g) => ~ IsExecute(job)
  /\ UNCHANGED <<held, queue>>

\* Mutant: the worker leaves when there is nothing to do.
LockedSectionOrLeave(g) ==
  /\ pc[g] = "locked"
  /\ \/ /\ running[g] # "on" \/ queue[g] = {}
        /\ pc' = [pc EXCEPT ![g] = "exited"]
        /\ UNCHANGED <<held, queue>>
     \/ /\ running[g] = "on" /\ queue[g] # {}
        /\ pc' = [pc EXCEPT ![g] = "check"]
        /\ PopJob(g) \/ PopNothing(g)
  /\ UNCHANGED <<producerVars, running, stopping, finished, dropped>>

\* Mutant: the worker waits for a job before it looks at the flag.
LockedSectionWaits(g) ==
  /\ pc[g] = "locked"
  /\ queue[g] # {}
  /\ \/ /\ running[g] # "on"
        /\ pc' = [pc EXCEPT ![g] = "exited"]
        /\ UNCHANGED <<held, queue>>
     \/ /\ running[g] = "on"
        /\ pc' = [pc EXCEPT ![g] = "check"]
        /\ PopJob(g) \/ PopNothing(g)
  /\ UNCHANGED <<producerVars, running, stopping, finished, dropped>>

\* The section under the group's lock: break if the group was stopped, else Pop.
WorkerLocked(g) ==
  /\ pc[g] = "locked"
  /\ \/ /\ running[g] # "on"
        /\ pc' = [pc EXCEPT ![g] = "exited"]
        /\ UNCHANGED <<held, queue>>
     \/ /\ running[g] = "on"
        /\ pc' = [pc EXCEPT ![g] = "check"]
        /\ PopJob(g) \/ PopNothing(g)
  /\ UNCHANGED <<producerVars, running, stopping, finished, dropped>>

\* Mutant: the worker tests again, strictly, whether the job is due.
CheckStrictlyDue(g) ==
  /\ pc[g] = "check"
  /\ pc' = [pc EXCEPT ![g] =
              IF held[g] # NoJob /\ running[g] = "on" /\ held[g].due < now
              THEN "executing" ELSE "sleeping"]
  /\ UNCHANGED <<producerVars, queue, running, stopping, held, finished, dropped>>

\* if (hasJob && _groupRunning[groupId].load()): Execute begins, or the worker
\* sleeps 10 ms.
WorkerCheck(g) ==
  /\ pc[g] = "check"
  /\ pc' = [pc EXCEPT ![g] = IF held[g] # NoJob /\ running[g] = "on"
                              THEN "executing" ELSE "sleeping"]
  /\ UNCHANGED <<producerVars, queue, running, stopping, held, finished, dropped>>

\* Execute returns; the JobRef goes out of scope.
WorkerFinish(g) ==
  /\ pc[g] = "executing"
  /\ draft[g] = NoJob
  /\ finished' = finished \cup {held[g]}
  /\ held' = [held EXCEPT ![g] = NoJob]
  /\ pc' = [pc EXCEPT ![g] = "loop"]
  /\ UNCHANGED <<producerVars, queue, running, stopping, dropped>>

\* Mutant: the JobRef outlives the turn of the loop it was popped in.
WakeWithJob(g) ==
  /\ pc[g] = "sleeping"
  /\ pc' = [pc EXCEPT ![g] = "loop"]
  /\ UNCHANGED <<producerVars, queue, running, stopping, held, finished, dropped>>

\* The sleep ends; a job popped and not executed goes out of scope here.
WorkerWake(g) ==
  /\ pc[g] = "sleeping"
  /\ pc' = [pc EXCEPT ![g] = "loop"]
  /\ dropped' = dropped \cup ({held[g]} \ {NoJob})
  /\ held' = [held EXCEPT ![g] = NoJob]
  /\ UNCHANGED <<producerVars, queue, running, stopping, finished>>

-----------------------------------------------------------------------------

Worker(g) == \/ WorkerLoop(g) \/ WorkerLocked(g) \/ WorkerCheck(g)
             \/ WorkerFinish(g) \/ WorkerWake(g)

Construct(a) == StampOrder(a) \/ Push(a)

Next == \/ Tick
        \/ \E a \in Actors :
             \/ \E g \in Groups, delay \in Delays : StampTime(a, g, delay)
             \/ Construct(a)
        \/ BeginShutdown
        \/ \E g \in Groups : MakeGroupThread(g) \/ ShutdownGroup(g) \/ Worker(g)

Spec == Init /\ [][Next]_vars

\* Threads are scheduled and callbacks return; nobody is obliged to submit a
\* job or to shut the server down.
Fairness == /\ WF_vars(Tick)
            /\ \A a \in Actors : WF_vars(Construct(a))
            /\ \A g \in Groups : /\ WF_vars(MakeGroupThread(g))
                                 /\ WF_vars(ShutdownGroup(g))
                                 /\ WF_vars(Worker(g))

FairSpec == Spec /\ Fairness

-----------------------------------------------------------------------------
(* Properties *)

Drafted == {draft[a] : a \in Actors} \ {NoJob}
Queued == UNION {queue[g] : g \in Groups}
Held == {held[g] : g \in Groups} \ {NoJob}

\* Every variable has its type; a worker holds a job only between the pop and
\* the end of that turn of its loop (the scope of job in WorkerThread), it
\* executes only a job it holds, and it has a flag once it is made.
TypeOK ==
  /\ now \in Nat
  /\ nextOrder \in Nat
  /\ draft \in [Actors -> Draft \cup {NoJob}]
  /\ queue \in [Groups -> SUBSET Job]
  /\ running \in [Groups -> {"absent", "on", "off"}]
  /\ stopping \in BOOLEAN
  /\ pc \in [Groups -> {"none", "loop", "locked", "check", "executing",
                        "sleeping", "exited"}]
  /\ held \in [Groups -> Job \cup {NoJob}]
  /\ finished \subseteq Job
  /\ dropped \subseteq Job
  /\ \A g \in Groups : 
       /\ held[g] # NoJob => pc[g] \in {"check", "executing", "sleeping"}
       /\ pc[g] = "executing" => held[g] # NoJob
       /\ pc[g] = "none" <=> running[g] = "absent"

\* No job is executed twice and none vanishes: every order number taken names
\* exactly one job, and that job is in exactly one place (being pushed, in the
\* queue, in a worker's hands, executed, or dropped at shutdown).
JobsAccountedFor ==
  /\ \A n \in 0 .. nextOrder - 1 :
       \E j \in Drafted \cup Queued \cup Held \cup finished \cup dropped : j.order = n
  /\ \A j, k \in Drafted \cup Queued \cup Held \cup finished \cup dropped :
       j.order = k.order /\ j.order # Unstamped => j = k
  /\ Drafted \cap (Queued \cup Held \cup finished \cup dropped) = {}
  /\ Queued \cap (Held \cup finished \cup dropped) = {}
  /\ Held \cap (finished \cup dropped) = {}
  /\ finished \cap dropped = {}

\* A popped job is lost only because its group was stopped between the pop and
\* the test before Execute (JobPriorityQueue.cpp:111-119), and each group loses
\* at most one job that way.
LostOnlyAtShutdown ==
  /\ \A j \in dropped : running[j.group] = "off"
  /\ \A j, k \in dropped : j.group = k.group => j = k

\* The jobs one producer submits to one group run in the order in which it
\* submitted them, unless the earlier one was due later: once the later job
\* is started, the earlier one has returned.
ProducerFifo ==
  \A j, k \in Drafted \cup Queued \cup Held \cup finished \cup dropped :
    /\ j.by = k.by /\ j.group = k.group
    /\ j.order # Unstamped /\ j.order < k.order /\ j.due <= k.due
    /\ k \in finished \/ (pc[k.group] = "executing" /\ held[k.group] = k)
    => j \in finished

\* The promise of a job group (SerialExecutor).  A job that was popped and is
\* not yet started still counts as pending, and so does one that was dropped.
pendingBar == [g \in Groups |-> 
                 queue[g]
                   \cup (IF pc[g] = "executing" THEN {} ELSE {held[g]} \ {NoJob})
                   \cup {j \in dropped : j.group = g}]
currentBar == [g \in Groups |-> IF pc[g] = "executing" THEN held[g] ELSE NoJob]
openBar == [g \in Groups |-> running[g] = "on"]

Executor == INSTANCE SerialExecutor WITH 
              pending <- pendingBar, current <- currentBar, open <- openBar

\* Every behaviour of the queue is one of the abstract executor.
ImplementsExecutor == Executor!Spec

\* While the server is up, a job that was pushed is executed at last, whatever
\* its delay and whatever else is pushed before it.
EveryJobRuns ==
  \A n \in 0 .. MaxJobs - 1 :
    (\E j \in Queued : j.order = n)
      ~> (stopping \/ \E j \in finished : j.order = n)

\* After Shutdown every worker thread leaves its loop, so that the join in
\* ThreadManager::JoinAll returns for it.
WorkersStop == stopping ~> \A g \in Groups : pc[g] \in {"none", "exited"}
=============================================================================
