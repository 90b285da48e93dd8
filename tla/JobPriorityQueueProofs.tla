----------------------- MODULE JobPriorityQueueProofs -----------------------
(***************************************************************************)
(* Proofs about JobPriorityQueue, for any groups, threads, delays and      *)
(* bounds.                                                                 *)
(***************************************************************************)
EXTENDS JobPriorityQueue, TLAPS

-----------------------------------------------------------------------------
(* Type correctness *)

\* The initial state is well typed.
LEMMA TypeInit == Init => TypeOK
<1> SUFFICES ASSUME Init PROVE TypeOK
  OBVIOUS
<1> USE DEF Init
<1>1. now \in Nat /\ nextOrder \in Nat /\ stopping \in BOOLEAN
  OBVIOUS
<1>2. /\ draft \in [Actors -> Draft \cup {NoJob}]
      /\ held \in [Groups -> Job \cup {NoJob}]
      /\ queue \in [Groups -> SUBSET Job]
  OBVIOUS
<1>3. /\ running \in [Groups -> {"absent", "on", "off"}]
      /\ pc \in [Groups -> {"none", "loop", "locked", "check", "executing",
                            "sleeping", "exited"}]
  OBVIOUS
<1>4. finished \subseteq Job /\ dropped \subseteq Job
  OBVIOUS
<1>5. \A g \in Groups : held[g] = NoJob /\ pc[g] = "none"
  OBVIOUS
<1>. QED
  BY <1>1, <1>2, <1>3, <1>4, <1>5 DEF TypeOK

\* A stamped draft is a Job, and the null reference is none.
LEMMA JobFacts == /\ NoJob \notin Job
                  /\ \A d \in Draft : d.order # Unstamped => d \in Job
                  /\ \A j \in Job : j \in Draft /\ j.order # Unstamped
                  /\ \A j \in Draft : j.group \in Groups /\ j.by \in Actors
  BY NoJobAssumption DEF Job, Draft, Unstamped

\* A job's order and due time are numbers, also before it is stamped.
LEMMA JobNumbers == \A j \in Draft : j.order \in Int /\ j.due \in Nat
  BY DEF Draft, Unstamped

\* Each step of the queue keeps TypeOK.
LEMMA TypeStep == TypeOK /\ [Next]_vars => TypeOK'
<1> SUFFICES ASSUME TypeOK, [Next]_vars PROVE TypeOK'
  OBVIOUS
<1> USE NoJobAssumption, JobFacts DEF TypeOK, producerVars, workerVars
<1>1. CASE Tick
  BY <1>1 DEF Tick
<1>2. ASSUME NEW a \in Actors, NEW g \in Groups, NEW delay \in Delays, 
             StampTime(a, g, delay)
      PROVE  TypeOK'
  <2>. DEFINE d == [by |-> a, group |-> g, due |-> now + delay, order |-> Unstamped]
  <2>1. d \in Draft
    BY DelayAssumption DEF Draft
  <2>. QED
    BY <1>2, <2>1 DEF StampTime
<1>3. ASSUME NEW a \in Actors, StampOrder(a) PROVE TypeOK'
  <2>1. [draft[a] EXCEPT !.order = nextOrder] \in Draft
    BY <1>3 DEF StampOrder, Draft
  <2>. QED
    BY <1>3, <2>1 DEF StampOrder
<1>4. ASSUME NEW a \in Actors, Push(a) PROVE TypeOK'
  <2>1. draft[a] \in Job /\ draft[a].group \in Groups
    BY <1>4 DEF Push
  <2>. QED
    BY <1>4, <2>1 DEF Push
<1>5. CASE BeginShutdown
  BY <1>5 DEF BeginShutdown
<1>6. ASSUME NEW g \in Groups, MakeGroupThread(g) PROVE TypeOK'
  BY <1>6 DEF MakeGroupThread
<1>7. ASSUME NEW g \in Groups, ShutdownGroup(g) PROVE TypeOK'
  BY <1>7 DEF ShutdownGroup
<1>8. ASSUME NEW g \in Groups, WorkerLoop(g) PROVE TypeOK'
  BY <1>8 DEF WorkerLoop
<1>9. ASSUME NEW g \in Groups, WorkerLocked(g) PROVE TypeOK'
  BY <1>9 DEF WorkerLocked, PopJob, PopNothing
<1>10. ASSUME NEW g \in Groups, WorkerCheck(g) PROVE TypeOK'
  BY <1>10 DEF WorkerCheck
<1>11. ASSUME NEW g \in Groups, WorkerFinish(g) PROVE TypeOK'
  BY <1>11 DEF WorkerFinish
<1>12. ASSUME NEW g \in Groups, WorkerWake(g) PROVE TypeOK'
  BY <1>12 DEF WorkerWake
<1>13. CASE UNCHANGED vars
  BY <1>13 DEF vars
<1>. QED
  BY <1>1, <1>2, <1>3, <1>4, <1>5, <1>6, <1>7, <1>8, <1>9, <1>10, <1>11, <1>12,
     <1>13 DEF Next, Worker, Construct

\* Type correctness of the job queue, for any number of groups and threads.
THEOREM TypeCorrect == Spec => []TypeOK
<1>. QED
  BY TypeInit, TypeStep, PTL DEF Spec

-----------------------------------------------------------------------------
(* The inductive invariant *)

\* draft[a] is a job with a number, on its way to Push.
Stamped(a) == draft[a] # NoJob /\ draft[a].order # Unstamped

Settled == finished \cup dropped

\* Every job stands where it belongs and has a number below the counter.
PlaceInv ==
  /\ \A a \in Actors : /\ draft[a] # NoJob => draft[a].by = a
                       /\ Stamped(a) => draft[a].order < nextOrder
  /\ \A g \in Groups : \A j \in queue[g] : j.group = g /\ j.order < nextOrder
  /\ \A g \in Groups : 
       held[g] # NoJob => held[g].group = g /\ held[g].order < nextOrder
  /\ \A j \in Settled : j.order < nextOrder

\* A job that is about to be pushed shares its number with no other job.
DraftsUnique ==
  /\ \A a, b \in Actors :
       Stamped(a) /\ Stamped(b) /\ draft[a].order = draft[b].order => a = b
  /\ \A a \in Actors, g \in Groups : \A j \in queue[g] :
       Stamped(a) => draft[a].order # j.order
  /\ \A a \in Actors, g \in Groups :
       Stamped(a) /\ held[g] # NoJob => draft[a].order # held[g].order
  /\ \A a \in Actors : \A j \in Settled : Stamped(a) => draft[a].order # j.order

\* Nor does a job in a queue.
QueuesUnique ==
  /\ \A g, h \in Groups : \A j \in queue[g], k \in queue[h] :
       j.order = k.order => j = k
  /\ \A g, h \in Groups : \A j \in queue[g] :
       held[h] # NoJob => held[h].order # j.order
  /\ \A g \in Groups : \A j \in queue[g], k \in Settled : j.order # k.order

\* Nor does a job a worker holds, or one that is finished or dropped.
RestUnique ==
  /\ \A g, h \in Groups :
       /\ held[g] # NoJob /\ held[h] # NoJob
       /\ held[g].order = held[h].order
       => g = h
  /\ \A g \in Groups : \A j \in Settled :
       held[g] # NoJob => held[g].order # j.order
  /\ \A j, k \in Settled : j.order = k.order => j = k
  /\ finished \cap dropped = {}

\* No two places hold jobs with the same number.
UniqueInv == DraftsUnique /\ QueuesUnique /\ RestUnique

\* The job with number n is somewhere.
Kept(n) ==
  \/ \E a \in Actors : Stamped(a) /\ draft[a].order = n
  \/ \E g \in Groups : \E j \in queue[g] : j.order = n
  \/ \E g \in Groups : held[g] # NoJob /\ held[g].order = n
  \/ \E j \in Settled : j.order = n

CompleteInv == \A n \in 0 .. nextOrder - 1 : Kept(n)

\* A worker holds a job only when it is due, and drops it only on its way out.
WorkerInv ==
  /\ \A g \in Groups : held[g] # NoJob => held[g].due <= now
  /\ \A g \in Groups :
       pc[g] = "sleeping" /\ held[g] # NoJob => running[g] = "off"
  /\ \A j \in dropped : /\ running[j.group] = "off"
                        /\ pc[j.group] \in {"loop", "exited"}
  /\ \A j, k \in dropped : j.group = k.group => j = k

\* The job an actor is about to push is the newest of its jobs.
NewestInv ==
  \A a \in Actors : Stamped(a) =>
    /\ \A g \in Groups : \A j \in queue[g] : j.by = a => j.order < draft[a].order
    /\ \A g \in Groups :
         held[g] # NoJob /\ held[g].by = a => held[g].order < draft[a].order
    /\ \A j \in Settled : j.by = a => j.order < draft[a].order

\* j should have run when k is taken from the queue.
Ahead(j, k) ==
  j.by = k.by /\ j.group = k.group /\ j.order < k.order /\ j.due <= k.due

\* k was taken from the queue, and not dropped.
Taken(k) == k \in finished \/ \E g \in Groups : held[g] # NoJob /\ held[g] = k

\* Nothing that should run before k is still to be run.
Clear(k) ==
  /\ \A a \in Actors : Stamped(a) => ~ Ahead(draft[a], k)
  /\ \A g \in Groups : \A j \in queue[g] : ~ Ahead(j, k)
  /\ \A g \in Groups : held[g] # NoJob => ~ Ahead(held[g], k)
  /\ \A j \in dropped : ~ Ahead(j, k)

FifoInv == \A k \in Job : Taken(k) => Clear(k)

IInv == TypeOK /\ PlaceInv /\ UniqueInv /\ CompleteInv /\ WorkerInv /\ NewestInv
          /\ FifoInv

-----------------------------------------------------------------------------
(* The steps, by what they do to the jobs *)

JobsUnchanged == UNCHANGED <<nextOrder, draft, queue, held, finished, dropped>>

\* StampTime: a draft without a number appears.
Drafts(a) ==
  /\ draft[a] = NoJob
  /\ draft'[a].order = Unstamped /\ draft'[a].by = a /\ draft'[a] # NoJob
  /\ \A b \in Actors \ {a} : draft'[b] = draft[b]
  /\ UNCHANGED <<nextOrder, queue, held, finished, dropped>>

\* StampOrder: a draft gets the next number.
Numbers(a) ==
  /\ draft[a] # NoJob /\ draft[a].order = Unstamped
  /\ draft'[a] # NoJob
  /\ draft'[a].by = draft[a].by
  /\ draft'[a].order = nextOrder
  /\ \A b \in Actors \ {a} : draft'[b] = draft[b]
  /\ nextOrder' = nextOrder + 1
  /\ UNCHANGED <<queue, held, finished, dropped>>

\* Push: a draft moves to its group's queue.
Pushes(a) ==
  /\ Stamped(a)
  /\ draft[a] \in Job /\ draft[a].group \in Groups
  /\ draft'[a] = NoJob
  /\ \A b \in Actors \ {a} : draft'[b] = draft[b]
  /\ queue'[draft[a].group] = queue[draft[a].group] \cup {draft[a]}
  /\ \A g \in Groups \ {draft[a].group} : queue'[g] = queue[g]
  /\ UNCHANGED <<nextOrder, held, finished, dropped>>

\* The locked section: the top of a queue moves to its worker.
Takes(g, job) ==
  /\ IsTop(job, g)
  /\ held[g] = NoJob /\ pc[g] = "locked" /\ running[g] = "on"
  /\ held'[g] = job
  /\ \A h \in Groups \ {g} : held'[h] = held[h] /\ queue'[h] = queue[h]
  /\ queue'[g] = queue[g] \ {job}
  /\ UNCHANGED <<nextOrder, draft, finished, dropped>>

\* A held job is executed to its end, or dropped.
Settles(g) ==
  /\ held[g] # NoJob
  /\ held'[g] = NoJob
  /\ \A h \in Groups \ {g} : held'[h] = held[h]
  /\ \/ finished' = finished \cup {held[g]} /\ UNCHANGED dropped
     \/ dropped' = dropped \cup {held[g]} /\ UNCHANGED finished
  /\ UNCHANGED <<nextOrder, draft, queue>>

JobStep == \/ JobsUnchanged
           \/ \E a \in Actors : Drafts(a) \/ Numbers(a) \/ Pushes(a)
           \/ \E g \in Groups : (\E job \in Job : Takes(g, job)) \/ Settles(g)

\* Every step changes the places of jobs in one of the six ways of JobStep.
LEMMA StepCases == TypeOK /\ [Next]_vars => JobStep
<1> SUFFICES ASSUME TypeOK, [Next]_vars PROVE JobStep
  OBVIOUS
<1> USE NoJobAssumption, JobFacts DEF TypeOK, producerVars, workerVars
<1>1. CASE \/ Tick \/ BeginShutdown \/ UNCHANGED vars
           \/ \E g \in Groups : \/ MakeGroupThread(g) \/ ShutdownGroup(g)
                                \/ WorkerLoop(g) \/ WorkerCheck(g)
  BY <1>1 DEF Tick, BeginShutdown, vars, MakeGroupThread, ShutdownGroup,
              WorkerLoop, WorkerCheck, JobStep, JobsUnchanged
<1>2. ASSUME NEW a \in Actors, NEW g \in Groups, NEW delay \in Delays, 
             StampTime(a, g, delay)
      PROVE  Drafts(a)
  <2>. DEFINE d == [by |-> a, group |-> g, due |-> now + delay, order |-> Unstamped]
  <2>1. d \in Draft /\ d.order = Unstamped /\ d.by = a
    BY DelayAssumption DEF Draft
  <2>. QED
    BY <1>2, <2>1 DEF StampTime, CanSubmit, Drafts
<1>3. ASSUME NEW a \in Actors, StampOrder(a) PROVE Numbers(a)
  <2>. DEFINE d == [draft[a] EXCEPT !.order = nextOrder]
  <2>1. d \in Draft /\ d.order = nextOrder /\ d.by = draft[a].by
    BY <1>3 DEF StampOrder, Draft
  <2>. QED
    BY <1>3, <2>1 DEF StampOrder, Numbers
<1>4. ASSUME NEW a \in Actors, Push(a) PROVE Pushes(a)
  BY <1>4 DEF Push, Pushes, Stamped
<1>5. ASSUME NEW g \in Groups, WorkerLocked(g) 
      PROVE  JobsUnchanged \/ \E job \in Job : Takes(g, job)
  <2>1. ASSUME NEW job \in queue[g], IsTop(job, g), 
               held' = [held EXCEPT ![g] = job],
               queue' = [queue EXCEPT ![g] = @ \ {job}],
               running[g] = "on"
        PROVE  job \in Job /\ Takes(g, job)
    BY <1>5, <2>1 DEF WorkerLocked, Takes
  <2>. QED
    BY <1>5, <2>1 DEF WorkerLocked, PopJob, PopNothing, JobsUnchanged
<1>6. ASSUME NEW g \in Groups, WorkerFinish(g) PROVE Settles(g)
  BY <1>6 DEF WorkerFinish, Settles
<1>7. ASSUME NEW g \in Groups, WorkerWake(g) PROVE JobsUnchanged \/ Settles(g)
  BY <1>7 DEF WorkerWake, Settles, JobsUnchanged
<1>. QED
  BY <1>1, <1>2, <1>3, <1>4, <1>5, <1>6, <1>7 DEF Next, Worker, Construct, JobStep

-----------------------------------------------------------------------------
(* The invariant is inductive *)

\* Jobs stay where they belong.
LEMMA PlaceStep ==
  TypeOK /\ PlaceInv /\ JobStep => PlaceInv'
<1> SUFFICES ASSUME TypeOK, PlaceInv, JobStep PROVE PlaceInv'
  OBVIOUS
<1> USE NoJobAssumption, JobFacts, JobNumbers
    DEF TypeOK, PlaceInv, Stamped, Settled
<1>1. CASE JobsUnchanged
  BY <1>1 DEF JobsUnchanged
<1>2. ASSUME NEW a \in Actors, Drafts(a) PROVE PlaceInv'
  BY <1>2 DEF Drafts
<1>3. ASSUME NEW a \in Actors, Numbers(a) PROVE PlaceInv'
  BY <1>3 DEF Numbers
<1>4. ASSUME NEW a \in Actors, Pushes(a) PROVE PlaceInv'
  BY <1>4 DEF Pushes
<1>5. ASSUME NEW g \in Groups, NEW job \in Job, Takes(g, job) PROVE PlaceInv'
  BY <1>5 DEF Takes, IsTop
<1>6. ASSUME NEW g \in Groups, Settles(g) PROVE PlaceInv'
  BY <1>6 DEF Settles
<1>. QED
  BY <1>1, <1>2, <1>3, <1>4, <1>5, <1>6 DEF JobStep

\* No step gives a number to a second job or puts a job in a second place.
LEMMA UniqueStep ==
  TypeOK /\ PlaceInv /\ UniqueInv /\ JobStep => UniqueInv'
<1> SUFFICES ASSUME TypeOK, PlaceInv, UniqueInv, JobStep PROVE UniqueInv'
  OBVIOUS
<1> USE NoJobAssumption, JobFacts DEF TypeOK, PlaceInv, UniqueInv, Stamped, Settled
<1>1. CASE JobsUnchanged
  BY <1>1 DEF JobsUnchanged, DraftsUnique, QueuesUnique, RestUnique
<1>2. ASSUME NEW a \in Actors, Drafts(a) PROVE UniqueInv'
  BY <1>2 DEF Drafts, DraftsUnique, QueuesUnique, RestUnique
<1>3. ASSUME NEW a \in Actors, Numbers(a) PROVE UniqueInv'
  BY <1>3 DEF Numbers, DraftsUnique, QueuesUnique, RestUnique
<1>4. ASSUME NEW a \in Actors, Pushes(a) PROVE UniqueInv'
  <2>1. DraftsUnique'
    BY <1>4, SMTT(30) DEF Pushes, DraftsUnique, QueuesUnique, RestUnique
  <2>2. QueuesUnique'
    BY <1>4, SMTT(30) DEF Pushes, DraftsUnique, QueuesUnique, RestUnique
  <2>3. RestUnique'
    BY <1>4, SMTT(30) DEF Pushes, DraftsUnique, QueuesUnique, RestUnique
  <2>. QED
    BY <2>1, <2>2, <2>3
<1>5. ASSUME NEW g \in Groups, NEW job \in Job, Takes(g, job) PROVE UniqueInv'
  <2>1. DraftsUnique'
    BY <1>5, SMTT(30) DEF Takes, IsTop, DraftsUnique, QueuesUnique, RestUnique
  <2>2. QueuesUnique'
    BY <1>5, SMTT(30) DEF Takes, IsTop, DraftsUnique, QueuesUnique, RestUnique
  <2>3. RestUnique'
    BY <1>5, SMTT(30) DEF Takes, IsTop, DraftsUnique, QueuesUnique, RestUnique
  <2>. QED
    BY <2>1, <2>2, <2>3
<1>6. ASSUME NEW g \in Groups, Settles(g) PROVE UniqueInv'
  <2>1. DraftsUnique'
    BY <1>6, SMTT(30) DEF Settles, DraftsUnique, QueuesUnique, RestUnique
  <2>2. QueuesUnique'
    BY <1>6, SMTT(30) DEF Settles, DraftsUnique, QueuesUnique, RestUnique
  <2>3. RestUnique'
    BY <1>6, SMTT(30) DEF Settles, DraftsUnique, QueuesUnique, RestUnique
  <2>. QED
    BY <2>1, <2>2, <2>3
<1>. QED
  BY <1>1, <1>2, <1>3, <1>4, <1>5, <1>6 DEF JobStep

\* A producer takes its numbers in increasing order.
LEMMA NewestStep ==
  TypeOK /\ PlaceInv /\ NewestInv /\ JobStep => NewestInv'
<1> SUFFICES ASSUME TypeOK, PlaceInv, NewestInv, JobStep PROVE NewestInv'
  OBVIOUS
<1> USE NoJobAssumption, JobFacts DEF TypeOK, PlaceInv, NewestInv, Stamped, Settled
<1>1. CASE JobsUnchanged
  BY <1>1 DEF JobsUnchanged
<1>2. ASSUME NEW a \in Actors, Drafts(a) PROVE NewestInv'
  BY <1>2 DEF Drafts
<1>3. ASSUME NEW a \in Actors, Numbers(a) PROVE NewestInv'
  BY <1>3 DEF Numbers
<1>4. ASSUME NEW a \in Actors, Pushes(a) PROVE NewestInv'
  BY <1>4 DEF Pushes
<1>5. ASSUME NEW g \in Groups, NEW job \in Job, Takes(g, job) PROVE NewestInv'
  BY <1>5 DEF Takes, IsTop
<1>6. ASSUME NEW g \in Groups, Settles(g) PROVE NewestInv'
  BY <1>6 DEF Settles
<1>. QED
  BY <1>1, <1>2, <1>3, <1>4, <1>5, <1>6 DEF JobStep

\* The job of every number taken is kept somewhere.
LEMMA CompleteStep ==
  TypeOK /\ PlaceInv /\ CompleteInv /\ JobStep => CompleteInv'
<1> SUFFICES ASSUME TypeOK, PlaceInv, CompleteInv, JobStep,
                    NEW n \in 0 .. nextOrder' - 1
             PROVE  Kept(n)'
  BY DEF CompleteInv
<1> USE NoJobAssumption, JobFacts
    DEF TypeOK, PlaceInv, CompleteInv, Kept, Stamped, Settled
<1>1. CASE JobsUnchanged
  BY <1>1 DEF JobsUnchanged
<1>2. ASSUME NEW a \in Actors, Drafts(a) PROVE Kept(n)'
  BY <1>2 DEF Drafts
<1>3. ASSUME NEW a \in Actors, Numbers(a) PROVE Kept(n)'
  <2>1. CASE n = nextOrder
    BY <1>3, <2>1 DEF Numbers, Unstamped
  <2>2. CASE n \in 0 .. nextOrder - 1
    BY <1>3, <2>2 DEF Numbers
  <2>. QED
    BY <1>3, <2>1, <2>2 DEF Numbers
<1>4. ASSUME NEW a \in Actors, Pushes(a) PROVE Kept(n)'
  BY <1>4 DEF Pushes
<1>5. ASSUME NEW g \in Groups, NEW job \in Job, Takes(g, job) PROVE Kept(n)'
  BY <1>5 DEF Takes
<1>6. ASSUME NEW g \in Groups, Settles(g) PROVE Kept(n)'
  BY <1>6 DEF Settles
<1>. QED
  BY <1>1, <1>2, <1>3, <1>4, <1>5, <1>6 DEF JobStep

\* A popped job is due, and only a worker that was stopped drops it.
LEMMA WorkerStep == TypeOK /\ PlaceInv /\ WorkerInv /\ [Next]_vars => WorkerInv'
<1> SUFFICES ASSUME TypeOK, PlaceInv, WorkerInv, [Next]_vars PROVE WorkerInv'
  OBVIOUS
<1> USE NoJobAssumption, JobFacts, JobNumbers
    DEF TypeOK, PlaceInv, WorkerInv, producerVars, workerVars
<1>1. CASE \/ Tick \/ BeginShutdown \/ UNCHANGED vars
           \/ \E a \in Actors : \/ Construct(a)
                                \/ \E g \in Groups, d \in Delays : StampTime(a, g, d)
  BY <1>1 DEF Tick, BeginShutdown, vars, Construct, StampTime, StampOrder, Push
<1>2. ASSUME NEW g \in Groups, MakeGroupThread(g) \/ ShutdownGroup(g) PROVE WorkerInv'
  BY <1>2 DEF MakeGroupThread, ShutdownGroup
<1>3. ASSUME NEW g \in Groups, WorkerLoop(g) PROVE WorkerInv'
  BY <1>3 DEF WorkerLoop
<1>4. ASSUME NEW g \in Groups, WorkerLocked(g) PROVE WorkerInv'
  BY <1>4 DEF WorkerLocked, PopJob, PopNothing, IsTop, IsExecute
<1>5. ASSUME NEW g \in Groups, WorkerCheck(g) PROVE WorkerInv'
  BY <1>5 DEF WorkerCheck
<1>6. ASSUME NEW g \in Groups, WorkerFinish(g) PROVE WorkerInv'
  BY <1>6 DEF WorkerFinish
<1>7. ASSUME NEW g \in Groups, WorkerWake(g) PROVE WorkerInv'
  BY <1>7 DEF WorkerWake
<1>. QED
  BY <1>1, <1>2, <1>3, <1>4, <1>5, <1>6, <1>7 DEF Next, Worker

\* Taking the top of the queue leaves nothing behind that should go first.
LEMMA FifoStep == IInv /\ JobStep => FifoInv'
<1> SUFFICES ASSUME IInv, JobStep, NEW k \in Job, Taken(k)' PROVE Clear(k)'
  BY DEF FifoInv
<1> USE NoJobAssumption, JobFacts, JobNumbers
    DEF IInv, TypeOK, PlaceInv, Stamped, Settled, Taken, Clear, Ahead
<1>1. CASE JobsUnchanged
  BY <1>1 DEF JobsUnchanged, FifoInv
<1>2. ASSUME NEW a \in Actors, Drafts(a) PROVE Clear(k)'
  BY <1>2 DEF Drafts, FifoInv
<1>3. ASSUME NEW a \in Actors, Numbers(a) PROVE Clear(k)'
  <2>1. Taken(k) /\ k.order < nextOrder
    BY <1>3 DEF Numbers
  <2>. QED
    BY <1>3, <2>1 DEF Numbers, FifoInv
<1>4. ASSUME NEW a \in Actors, Pushes(a) PROVE Clear(k)'
  <2>1. Taken(k)
    BY <1>4 DEF Pushes
  <2>. QED
    BY <1>4, <2>1 DEF Pushes, FifoInv
<1>5. ASSUME NEW g \in Groups, NEW job \in Job, Takes(g, job) PROVE Clear(k)'
  <2>1. CASE k = job
    <3>1. \A a \in Actors : Stamped(a)' => ~ Ahead(draft'[a], k)
      BY <1>5, <2>1 DEF Takes, IsTop, NewestInv
    <3>2. \A h \in Groups : \A j \in queue'[h] : ~ Ahead(j, k)
      BY <1>5, <2>1 DEF Takes, IsTop, Before
    <3>3. \A h \in Groups : held'[h] # NoJob => ~ Ahead(held'[h], k)
      BY <1>5, <2>1 DEF Takes, IsTop
    <3>4. \A j \in dropped' : ~ Ahead(j, k)
      BY <1>5, <2>1 DEF Takes, IsTop, WorkerInv
    <3>. QED
      BY <3>1, <3>2, <3>3, <3>4
  <2>2. CASE k # job
    <3>1. Taken(k)
      BY <1>5, <2>2 DEF Takes
    <3>2. ~ Ahead(job, k)
      BY <1>5, <3>1 DEF Takes, IsTop, FifoInv
    <3>. QED
      BY <1>5, <3>1, <3>2 DEF Takes, FifoInv
  <2>. QED
    BY <2>1, <2>2
<1>6. ASSUME NEW g \in Groups, Settles(g) PROVE Clear(k)'
  <2>1. CASE Taken(k)
    BY <1>6, <2>1 DEF Settles, FifoInv
  <2>2. CASE ~ Taken(k)
    BY <1>6, <2>2 DEF Settles
  <2>. QED
    BY <2>1, <2>2
<1>. QED
  BY <1>1, <1>2, <1>3, <1>4, <1>5, <1>6 DEF JobStep

\* The strengthened invariant holds initially ...
LEMMA InitInv == Init => IInv
<1> SUFFICES ASSUME Init PROVE IInv
  OBVIOUS
<1>1. TypeOK
  BY TypeInit
<1>2. PlaceInv /\ UniqueInv /\ WorkerInv /\ NewestInv
  BY DEF Init, PlaceInv, UniqueInv, DraftsUnique, QueuesUnique, RestUnique, WorkerInv, NewestInv, Stamped, Settled
<1>3. CompleteInv
  BY DEF Init, CompleteInv
<1>4. FifoInv
  BY DEF Init, FifoInv, Taken
<1>. QED
  BY <1>1, <1>2, <1>3, <1>4 DEF IInv

\* ... and every step keeps it.
LEMMA StepInv == IInv /\ [Next]_vars => IInv'
  BY TypeStep, StepCases, PlaceStep, UniqueStep, CompleteStep, WorkerStep, NewestStep,
     FifoStep DEF IInv

\* The strengthened invariant holds always: DoAsync, WorkerThread and Shutdown
\* keep each of its parts. The results below follow from it.
THEOREM Invariant == Spec => []IInv
  BY InitInv, StepInv, PTL DEF Spec

-----------------------------------------------------------------------------
(* What follows from it *)

\* Every job constructed is in exactly one place, for ever: none is executed
\* twice and none is lost between Push and Execute.
THEOREM AccountedFor == Spec => []JobsAccountedFor
<1>1. IInv => JobsAccountedFor
  <2> SUFFICES ASSUME IInv PROVE JobsAccountedFor
    OBVIOUS
  <2> USE NoJobAssumption, JobFacts, JobNumbers
      DEF IInv, TypeOK, PlaceInv, UniqueInv, DraftsUnique, QueuesUnique, RestUnique, Stamped, Settled, Drafted, Queued, Held
  <2>1. ASSUME NEW n \in 0 .. nextOrder - 1
        PROVE  \E j \in Drafted \cup Queued \cup Held \cup finished \cup dropped : 
                 j.order = n
    <3>1. Kept(n)
      BY DEF CompleteInv
    <3>. QED
      BY <3>1 DEF Kept
  <2>2. ASSUME NEW j \in Drafted \cup Queued \cup Held \cup finished \cup dropped,
               NEW k \in Drafted \cup Queued \cup Held \cup finished \cup dropped,
               j.order = k.order, j.order # Unstamped
        PROVE  j = k
    <3>1. CASE j \in Drafted
      BY <2>2, <3>1
    <3>2. CASE j \in Queued
      BY <2>2, <3>2
    <3>3. CASE j \in Held
      BY <2>2, <3>3
    <3>4. CASE j \in Settled
      BY <2>2, <3>4
    <3>. QED
      BY <3>1, <3>2, <3>3, <3>4
  <2>3. Drafted \cap (Queued \cup Held \cup finished \cup dropped) = {}
    OBVIOUS
  <2>4. Queued \cap (Held \cup finished \cup dropped) = {}
    OBVIOUS
  <2>5. Held \cap (finished \cup dropped) = {} /\ finished \cap dropped = {}
    OBVIOUS
  <2>. QED
    BY <2>1, <2>2, <2>3, <2>4, <2>5 DEF JobsAccountedFor
<1>. QED
  BY Invariant, <1>1, PTL

\* Only Shutdown makes a group lose a job it has popped, and only one.
THEOREM LossBounded == Spec => []LostOnlyAtShutdown
<1>1. IInv => LostOnlyAtShutdown
  BY DEF IInv, WorkerInv, LostOnlyAtShutdown
<1>. QED
  BY Invariant, <1>1, PTL

\* A producer's jobs in one group run in the order it submitted them.
THEOREM Fifo == Spec => []ProducerFifo
<1>1. IInv => ProducerFifo
  <2> SUFFICES ASSUME IInv,
        NEW j \in Drafted \cup Queued \cup Held \cup finished \cup dropped,
        NEW k \in Drafted \cup Queued \cup Held \cup finished \cup dropped,
        j.by = k.by, j.group = k.group, j.order # Unstamped,
        j.order < k.order, j.due <= k.due,
        k \in finished \/ (pc[k.group] = "executing" /\ held[k.group] = k)
      PROVE j \in finished
    BY DEF ProducerFifo
  <2>1. k \in Draft /\ k \in Job
    BY JobFacts DEF IInv, TypeOK, Drafted, Queued, Held
  <2>2. Taken(k)
    BY <2>1, JobFacts DEF Taken
  <2>3. Clear(k) /\ Ahead(j, k)
    BY <2>1, <2>2 DEF IInv, FifoInv, Ahead
  <2>. QED
    BY <2>3 DEF Clear, Drafted, Queued, Held, Stamped
<1>. QED
  BY Invariant, <1>1, PTL

-----------------------------------------------------------------------------
(* The queue implements the abstract executor *)

\* The pending jobs of the executor, one by one.
LEMMA PendingMembers ==
  /\ pendingBar = [g \in Groups |-> pendingBar[g]]
  /\ \A g \in Groups : \A j \in pendingBar[g] :
       \/ j \in queue[g]
       \/ j = held[g] /\ j # NoJob /\ pc[g] # "executing"
       \/ j \in dropped /\ j.group = g
  BY DEF pendingBar

\* The start of a job that was popped is a start the executor allows.
LEMMA StartStep ==
  ASSUME IInv, NEW g \in Groups, WorkerCheck(g), pc'[g] = "executing"
  PROVE  Executor!Start(g)
<1> USE NoJobAssumption, JobFacts DEF IInv, TypeOK, producerVars
<1> DEFINE job == held[g]
<1>1. /\ pc[g] = "check" /\ job # NoJob /\ job \in Job /\ running[g] = "on"
      /\ pc' = [pc EXCEPT ![g] = "executing"]
      /\ UNCHANGED <<now, queue, running, held, finished, dropped>>
  BY DEF WorkerCheck
<1>2. openBar[g] /\ currentBar[g] = NoJob /\ job \in pendingBar[g]
  BY <1>1 DEF openBar, currentBar, pendingBar
<1>3. job.due <= now
  BY <1>1 DEF WorkerInv
<1>4. \A k \in pendingBar[g] : ~ Executor!MustPrecede(k, job)
  <2> SUFFICES ASSUME NEW k \in pendingBar[g], Executor!MustPrecede(k, job)
               PROVE  FALSE
    OBVIOUS
  <2>1. Taken(job) /\ Clear(job)
    BY <1>1 DEF Taken, FifoInv
  <2>2. job.group = g
    BY <1>1 DEF PlaceInv
  <2>3. CASE k \in queue[g]
    BY <2>1, <2>2, <2>3 DEF Clear, Ahead, Executor!MustPrecede, PlaceInv
  <2>4. CASE k = job
    BY <1>1, <2>4, JobNumbers DEF Executor!MustPrecede
  <2>5. CASE k \in dropped /\ k.group = g
    BY <2>1, <2>2, <2>5 DEF Clear, Ahead, Executor!MustPrecede
  <2>. QED
    BY <2>3, <2>4, <2>5 DEF pendingBar
<1>5. pendingBar' = [pendingBar EXCEPT ![g] = @ \ {job}]
  <2>1. job \notin queue[g] /\ job \notin dropped
    BY <1>1 DEF UniqueInv, DraftsUnique, QueuesUnique, RestUnique, Settled
  <2>2. ASSUME NEW h \in Groups
        PROVE  pendingBar'[h] = IF h = g THEN pendingBar[h] \ {job} ELSE pendingBar[h]
    BY <1>1, <2>1 DEF pendingBar
  <2>3. pendingBar = [h \in Groups |-> pendingBar[h]] 
        /\ pendingBar' = [h \in Groups |-> pendingBar'[h]]
    BY DEF pendingBar
  <2>. QED
    BY <2>2, <2>3
<1>6. currentBar' = [currentBar EXCEPT ![g] = job]
  BY <1>1 DEF currentBar
<1>7. UNCHANGED <<now, finished, openBar>>
  BY <1>1 DEF openBar
<1>. QED
  BY <1>2, <1>3, <1>4, <1>5, <1>6, <1>7 DEF Executor!Start

\* Pushing a job submits it.
LEMMA SubmitStep ==
  ASSUME IInv, NEW a \in Actors, Push(a)
  PROVE  Executor!Submit(draft[a].group)
<1> USE NoJobAssumption, JobFacts DEF IInv, TypeOK, producerVars, workerVars
<1> DEFINE job == draft[a]
           g == job.group
<1>1. job \in Job /\ g \in Groups /\ Stamped(a) /\ job.by = a
  BY DEF Push, Stamped, PlaceInv
<1>2. pendingBar' = [pendingBar EXCEPT ![g] = @ \cup {job}]
  <2>1. /\ queue' = [queue EXCEPT ![g] = @ \cup {job}] 
        /\ UNCHANGED <<held, pc, dropped>>
    BY DEF Push
  <2>2. ASSUME NEW h \in Groups
        PROVE  pendingBar'[h] = IF h = g THEN pendingBar[h] \cup {job} ELSE pendingBar[h]
    BY <1>1, <2>1 DEF pendingBar
  <2>3. pendingBar = [h \in Groups |-> pendingBar[h]] 
        /\ pendingBar' = [h \in Groups |-> pendingBar'[h]]
    BY DEF pendingBar
  <2>. QED
    BY <1>1, <2>2, <2>3
<1>3. job \in pendingBar'[g]
  <2>1. pendingBar'[g] = pendingBar[g] \cup {job}
    BY <1>1, <1>2 DEF pendingBar
  <2>. QED
    BY <2>1
<1>4. ASSUME NEW k \in Executor!Submitted \ {NoJob}, k.by = job.by
      PROVE  k.order < job.order
  <2>1. CASE k \in finished
    BY <1>1, <1>4, <2>1 DEF NewestInv, Settled
  <2>2. ASSUME NEW h \in Groups, k \in pendingBar[h] PROVE k.order < job.order
    <3>1. k \in queue[h] \/ k = held[h] \/ k \in dropped
      BY <2>2, PendingMembers
    <3>. QED
      BY <1>1, <1>4, <3>1 DEF NewestInv, Settled
  <2>3. ASSUME NEW h \in Groups, k = currentBar[h] PROVE k.order < job.order
    <3>1. k = held[h]
      BY <1>4, <2>3 DEF currentBar
    <3>. QED
      BY <1>1, <1>4, <3>1 DEF NewestInv
  <2>. QED
    BY <1>4, <2>1, <2>2, <2>3 DEF Executor!Submitted
<1>5. job \in Executor!Job
  BY <1>1 DEF Job, Executor!Job
<1>6. UNCHANGED <<now, currentBar, finished, openBar>>
  BY DEF Push, currentBar, openBar
<1>. QED
  BY <1>2, <1>3, <1>4, <1>5, <1>6 DEF Executor!Submit

\* Every step of the queue is a step of the executor, or none.
LEMMA ExecutorStep == IInv /\ [Next]_vars => [Executor!Next]_(Executor!vars)
<1> SUFFICES ASSUME IInv, [Next]_vars PROVE [Executor!Next]_(Executor!vars)
  OBVIOUS
<1> USE NoJobAssumption, JobFacts DEF IInv, TypeOK, producerVars, workerVars
<1> DEFINE Stutter == UNCHANGED <<now, pendingBar, currentBar, finished, openBar>>
<1>1. CASE Tick
  BY <1>1 DEF Tick, Executor!Next, Executor!Advance, pendingBar, currentBar, openBar
<1>2. CASE \/ BeginShutdown \/ UNCHANGED vars
           \/ \E a \in Actors : \/ StampOrder(a)
                                \/ \E g \in Groups, d \in Delays : StampTime(a, g, d)
  <2>1. UNCHANGED <<now, queue, held, pc, running, finished, dropped>>
    BY <1>2 DEF BeginShutdown, vars, StampTime, StampOrder
  <2>2. Stutter
    BY <2>1 DEF pendingBar, currentBar, openBar
  <2>. QED
    BY <2>2 DEF Executor!vars
<1>3. ASSUME NEW a \in Actors, Push(a) PROVE Executor!Next
  BY <1>3, SubmitStep DEF Executor!Next, Push
<1>4. ASSUME NEW g \in Groups, MakeGroupThread(g) PROVE Executor!Next
  <2>1. openBar' = [openBar EXCEPT ![g] = ~ @]
    BY <1>4 DEF MakeGroupThread, openBar
  <2>2. UNCHANGED <<now, pendingBar, currentBar, finished>>
    BY <1>4 DEF MakeGroupThread, pendingBar, currentBar
  <2>. QED
    BY <2>1, <2>2 DEF Executor!Next, Executor!SetOpen
<1>5. ASSUME NEW g \in Groups, ShutdownGroup(g) PROVE Executor!Next
  <2>1. openBar' = [openBar EXCEPT ![g] = ~ @]
    BY <1>5 DEF ShutdownGroup, openBar
  <2>2. UNCHANGED <<now, pendingBar, currentBar, finished>>
    BY <1>5 DEF ShutdownGroup, pendingBar, currentBar
  <2>. QED
    BY <2>1, <2>2 DEF Executor!Next, Executor!SetOpen
<1>6. ASSUME NEW g \in Groups, WorkerLoop(g) \/ WorkerLocked(g) \/ WorkerWake(g)
      PROVE  Stutter
  <2>1. UNCHANGED <<now, finished, running>>
    BY <1>6 DEF WorkerLoop, WorkerLocked, WorkerWake
  <2>2. currentBar' = currentBar
    BY <1>6 DEF WorkerLoop, WorkerLocked, PopJob, PopNothing, WorkerWake, currentBar
  <2>3. pendingBar' = pendingBar
    BY <1>6 DEF WorkerLoop, WorkerLocked, PopJob, PopNothing, WorkerWake, IsTop,
                pendingBar, PlaceInv
  <2>. QED
    BY <2>1, <2>2, <2>3 DEF openBar
<1>7. ASSUME NEW g \in Groups, WorkerCheck(g) PROVE Executor!Next \/ Stutter
  <2>1. CASE pc'[g] = "executing"
    BY <1>7, <2>1, StartStep DEF Executor!Next
  <2>2. CASE pc'[g] # "executing"
    <3>1. UNCHANGED <<now, queue, running, held, finished, dropped>>
      BY <1>7 DEF WorkerCheck
    <3>2. pc[g] = "check" /\ pc' = [pc EXCEPT ![g] = "sleeping"]
      BY <1>7, <2>2 DEF WorkerCheck
    <3>. QED
      BY <3>1, <3>2 DEF pendingBar, currentBar, openBar
  <2>. QED
    BY <2>1, <2>2
<1>8. ASSUME NEW g \in Groups, WorkerFinish(g) PROVE Executor!Next
  <2>1. currentBar[g] = held[g] /\ held[g] # NoJob
    BY <1>8 DEF WorkerFinish, currentBar
  <2>2. currentBar' = [currentBar EXCEPT ![g] = NoJob]
    BY <1>8 DEF WorkerFinish, currentBar
  <2>3. finished' = finished \cup {currentBar[g]}
    BY <1>8, <2>1 DEF WorkerFinish
  <2>4. UNCHANGED <<now, pendingBar, openBar>>
    BY <1>8 DEF WorkerFinish, pendingBar, openBar
  <2>. QED
    BY <2>1, <2>2, <2>3, <2>4 DEF Executor!Next, Executor!Finish
<1>. QED
  BY <1>1, <1>2, <1>3, <1>4, <1>5, <1>6, <1>7, <1>8
     DEF Next, Worker, Construct, Executor!vars

\* The queue keeps the promise of a job group, for any groups and producers.
THEOREM Implementation == Spec => ImplementsExecutor
<1>1. Init => Executor!Init
  <2> SUFFICES ASSUME Init PROVE Executor!Init
    OBVIOUS
  <2>1. pendingBar = [g \in Groups |-> {}]
    BY DEF Init, pendingBar
  <2>2. currentBar = [g \in Groups |-> NoJob]
    BY DEF Init, currentBar
  <2>3. openBar = [g \in Groups |-> FALSE]
    BY DEF Init, openBar
  <2>. QED
    BY <2>1, <2>2, <2>3 DEF Init, Executor!Init
<1>. QED
  BY <1>1, ExecutorStep, Invariant, PTL DEF Spec, ImplementsExecutor, Executor!Spec
=============================================================================
