\* Every interleaving of a producer thread and two group workers, and what the
\* scheduling of the workers guarantees.
SPECIFICATION FairSpec
CONSTANTS
  Groups = {System, Social}
  Threads = {t1}
  Delays = {0, 1}
  MaxTime = 1
  MaxJobs = 3
  NoJob = NoJob
INVARIANTS TypeOK JobsAccountedFor LostOnlyAtShutdown ProducerFifo
PROPERTIES ImplementsExecutor EveryJobRuns WorkersStop
\* After Shutdown, with every worker gone, the system stops.
CHECK_DEADLOCK FALSE
