--------------------------- MODULE DeadlockDetector ---------------------------
(***************************************************************************)
(* Lock, LockGuard and DeadlockDetector (src/ServerCore/Thread) in a debug *)
(* build: every guard tells the detector which lock it is about to take,   *)
(* the detector keeps the order in which locks were taken inside others,   *)
(* and stops the process when the order has a cycle.                       *)
(*                                                                         *)
(* Guards live in C++ scopes, so a thread gives its locks back in the      *)
(* reverse order; which locks it takes is left open.  A lock is its        *)
(* address.                                                                *)
(***************************************************************************)
EXTENDS Naturals, Sequences, SequencesExt

CONSTANTS Threads,
          Locks,
          MaxDepth, \* bound: the guards a thread has at a time
          None

ASSUME LockAssumption == MaxDepth \in Nat /\ None \notin Threads \cup Locks

VARIABLES IsCheck,
          _lockGraph, \* the pairs <<a, b>> with b in _lockGraph[a]
          LHoldLock,  \* the stack of each thread, its top last
          guards,     \* the locks of the guards a thread has, in order
          owner,      \* which thread has the mutex
          pc,         \* where a thread is
          lock,       \* the lock it asks for
          crashed,    \* CrashDeadLock was called
          nested      \* history: the pairs <<a, b>> such that b was asked for inside a

lockVars == <<IsCheck, _lockGraph, LHoldLock, guards, owner, pc, lock, crashed, nested>>

\* After DeadlockDetector::Init.
LockInit == /\ IsCheck = TRUE
            /\ _lockGraph = {}
            /\ LHoldLock = [t \in Threads |-> <<>>]
            /\ guards = [t \in Threads |-> <<>>]
            /\ owner = [l \in Locks |-> None]
            /\ pc = [t \in Threads |-> "run"]
            /\ lock = [t \in Threads |-> None]
            /\ crashed = FALSE
            /\ nested = {}

Goto(t, from, to) == /\ ~crashed /\ pc[t] = from
                     /\ pc' = [pc EXCEPT ![t] = to]

-----------------------------------------------------------------------------
(* The search for a cycle *)

\* b comes after a in the graph, over one edge or several: it is in every set
\* that has the successors of a and, with a node, its successors.
Reaches(graph, nodes, a, b) ==
  \A seen \in SUBSET nodes :
    (\A e \in graph : e[1] \in seen \cup {a} => e[2] \in seen) => b \in seen

\* The depth first search for a way from the lock back to it; LockSearch has
\* the search, and compares what it finds with this.
CycleCheck(graph, current) == Reaches(graph, Locks, current, current)

-----------------------------------------------------------------------------
(* LockGuard::LockGuard *)

\* A thread enters a scope with a guard for l.  LockRequest: only a lock that
\* is taken inside another is checked.
Enter(t, l) ==
  /\ Goto(t, "run", IF IsCheck /\ LHoldLock[t] # <<>> THEN "check" ELSE "block")
  /\ Len(guards[t]) < MaxDepth
  /\ lock' = [lock EXCEPT ![t] = l]
  /\ nested' = nested \cup {<<h, l>> : h \in Range(guards[t])}
  /\ UNCHANGED <<IsCheck, _lockGraph, LHoldLock, guards, owner, crashed>>

\* Mutant: the search comes before the insertion.
CheckThenInsert(t) ==
  /\ Goto(t, "check", "block")
  /\ crashed' = CycleCheck(_lockGraph, lock[t])
  /\ _lockGraph' = _lockGraph \cup {<<Last(LHoldLock[t]), lock[t]>>}
  /\ UNCHANGED <<IsCheck, LHoldLock, guards, owner, lock, nested>>

\* The section of LockRequest under the detector's own mutex.
InsertThenCheck(t) ==
  /\ Goto(t, "check", "block")
  /\ _lockGraph' = _lockGraph \cup {<<Last(LHoldLock[t]), lock[t]>>}
  /\ crashed' = CycleCheck(_lockGraph', lock[t])
  /\ UNCHANGED <<IsCheck, LHoldLock, guards, owner, lock, nested>>

\* LockAcquired.  The stack is the thread's own.
Pushed(t) == IF IsCheck THEN [LHoldLock EXCEPT ![t] = Append(@, lock[t])] ELSE LHoldLock

\* ScopedLock and LockAcquired; a thread that has the mutex waits for itself.
Acquire(t) ==
  /\ Goto(t, "block", "run")
  /\ owner[lock[t]] = None
  /\ owner' = [owner EXCEPT ![lock[t]] = t]
  /\ guards' = [guards EXCEPT ![t] = Append(@, lock[t])]
  /\ LHoldLock' = Pushed(t)
  /\ lock' = [lock EXCEPT ![t] = None]
  /\ UNCHANGED <<IsCheck, _lockGraph, crashed, nested>>

-----------------------------------------------------------------------------
(* LockGuard::~LockGuard *)

\* Mutant: nothing is taken off the stack.
KeptOnStack(t) == LHoldLock

\* LockRelease: whatever is on top of the stack is taken off.
Popped(t) == IF IsCheck /\ LHoldLock[t] # <<>> THEN [LHoldLock EXCEPT ![t] = Front(@)]
                                               ELSE LHoldLock

\* ScopedUnlock and LockRelease.
Release(t) ==
  /\ Goto(t, "run", "run")
  /\ guards[t] # <<>>
  /\ owner' = [owner EXCEPT ![Last(guards[t])] = None]
  /\ guards' = [guards EXCEPT ![t] = Front(@)]
  /\ LHoldLock' = Popped(t)
  /\ UNCHANGED <<IsCheck, _lockGraph, lock, crashed, nested>>

-----------------------------------------------------------------------------

\* DeadlockDetector::Shutdown
Shutdown ==
  /\ ~crashed /\ IsCheck
  /\ IsCheck' = FALSE
  /\ UNCHANGED <<_lockGraph, LHoldLock, guards, owner, pc, lock, crashed, nested>>

LockNext == \/ \E t \in Threads :
                 \/ \E l \in Locks : Enter(t, l)
                 \/ InsertThenCheck(t) \/ Acquire(t) \/ Release(t)
            \/ Shutdown

LockSpec == LockInit /\ [][LockNext]_lockVars

-----------------------------------------------------------------------------
(* Properties *)

\* The pairs <<t, u>> such that t waits for a mutex that u has.
WaitsFor == {w \in Threads \X Threads : pc[w[1]] = "block" /\ owner[lock[w[1]]] = w[2]}

\* No deadlock goes unnoticed: while the detector is switched on, threads never
\* wait for each other in a circle, because the last of them was stopped before
\* it began to wait.  The detector records only the innermost lock a thread has
\* and only its own thread's stack; that this is enough is the point.
NoSilentDeadlock ==
  IsCheck /\ ~crashed => \A t \in Threads : ~Reaches(WaitsFor, Threads, t, t)

\* No false alarm: the process is stopped only when locks were really asked for
\* in a circle, each inside the one before.
CrashOnlyForCycle == crashed => \E l \in Locks : Reaches(nested, Locks, l, l)
=============================================================================
