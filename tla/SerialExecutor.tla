--------------------------- MODULE SerialExecutor ---------------------------
(***************************************************************************)
(* What a job group of the server promises to the code that submits jobs   *)
(* to it (README.md, "Job Group": one thread per group, so that the jobs   *)
(* of a group need no lock among themselves):                              *)
(*                                                                         *)
(*   - a group runs one job at a time, each job at most once;              *)
(*   - a job never starts before the time it was scheduled for;            *)
(*   - a job never overtakes an earlier job of the same producer that was  *)
(*     due no later;                                                       *)
(*   - nothing starts in a group that is not open.                         *)
(*                                                                         *)
(* JobPriorityQueue.tla implements it.                                     *)
(***************************************************************************)
EXTENDS Integers

CONSTANTS Groups,   \* the job groups
          Actors,   \* whoever submits jobs
          NoJob     \* "no job"

VARIABLES now,      \* the clock
          pending,  \* group -> the jobs submitted and not started
          current,  \* group -> the job that runs, or NoJob
          finished, \* the jobs that have run
          open      \* group -> does it start jobs?

vars == <<now, pending, current, finished, open>>

Job == [by : Actors, group : Groups, due : Nat, order : Nat]

Submitted == (UNION {pending[g] : g \in Groups})
               \cup {current[g] : g \in Groups} \cup finished

Init == /\ now = 0
        /\ pending = [g \in Groups |-> {}]
        /\ current = [g \in Groups |-> NoJob]
        /\ finished = {}
        /\ open = [g \in Groups |-> FALSE]

\* One job is added to the pending jobs of its group.  A producer's jobs are
\* numbered in the order in which it submits them.
Submit(g) ==
  /\ \E job \in pending'[g] :
       /\ job \in Job
       /\ job.group = g
       /\ \A k \in Submitted \ {NoJob} : k.by = job.by => k.order < job.order
       /\ pending' = [pending EXCEPT ![g] = @ \cup {job}]
  /\ UNCHANGED <<now, current, finished, open>>

\* job would be overtaken by a start of other.
MustPrecede(job, other) ==
  job.by = other.by /\ job.order < other.order /\ job.due <= other.due

Start(g) ==
  /\ open[g]
  /\ current[g] = NoJob
  /\ \E job \in pending[g] :
       /\ job.due <= now
       /\ \A k \in pending[g] : ~ MustPrecede(k, job)
       /\ pending' = [pending EXCEPT ![g] = @ \ {job}]
       /\ current' = [current EXCEPT ![g] = job]
  /\ UNCHANGED <<now, finished, open>>

Finish(g) ==
  /\ current[g] # NoJob
  /\ finished' = finished \cup {current[g]}
  /\ current' = [current EXCEPT ![g] = NoJob]
  /\ UNCHANGED <<now, pending, open>>

\* A group is opened or closed, whatever it is doing.
SetOpen(g) ==
  /\ open' = [open EXCEPT ![g] = ~ @]
  /\ UNCHANGED <<now, pending, current, finished>>

Advance == /\ now' \in Nat
           /\ now' > now
           /\ UNCHANGED <<pending, current, finished, open>>

Next == \/ \E g \in Groups : Submit(g) \/ Start(g) \/ Finish(g) \/ SetOpen(g)
        \/ Advance

Spec == Init /\ [][Next]_vars
=============================================================================
