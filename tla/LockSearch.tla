------------------------------ MODULE LockSearch ------------------------------
(***************************************************************************)
(* The depth first search of DeadlockDetector::CycleCheck, compared with   *)
(* the operator CycleCheck of DeadlockDetector and with the transitive     *)
(* closure, for every graph of the locks of the instance.                  *)
(***************************************************************************)
EXTENDS DeadlockDetector, Relation

\* Depth first from l; found: the lock `current' was met.  The set stands for
\* the vector of visited locks, whose order matters to the message only.
RECURSIVE Search(_, _, _, _)
Search(graph, current, l, visited) ==
  IF l \in visited THEN [found |-> FALSE, visited |-> visited]
  ELSE FoldSet(LAMBDA next, r :
                 IF r.found THEN r
                 ELSE IF next = current THEN [r EXCEPT !.found = TRUE]
                 ELSE Search(graph, current, next, r.visited),
               [found |-> FALSE, visited |-> visited \cup {l}],
               {next \in Locks : <<l, next>> \in graph})

\* The search finds a lock on its way if and only if the lock is on a circle.
ASSUME SearchAssumption ==
  \A graph \in SUBSET (Locks \X Locks) :
    LET after == TransitiveClosure([e \in Locks \X Locks |-> e \in graph], Locks)
    IN \A l \in Locks : /\ Search(graph, l, l, {}).found = CycleCheck(graph, l)
                        /\ \A m \in Locks : Reaches(graph, Locks, l, m) = after[l, m]
=============================================================================
