----------------------- MODULE SessionRegistryProofs -----------------------
(***************************************************************************)
(* Proofs about SessionRegistry, for any finite set of sessions, number of *)
(* accepts and bound on missing pongs, and for clients that also send      *)
(* pongs nobody asked for.                                                 *)
(***************************************************************************)
EXTENDS SessionRegistry, FiniteSetTheorems, TLAPS

-----------------------------------------------------------------------------
(* The inductive invariant *)

Served == {"starting", "sleeping", "done"}

\* What the heartbeat has in its hands in each phase.  It forgets only sessions
\* that are closed, once it has closed them.
BeatInv ==
  /\ \A s \in copied : stage[s] \in Served
  /\ \A s \in forgotten : closed[s] \/ s \in expired
  /\ beat = "idle" => copied = {}
  /\ beat # "sort" => unsorted = {} /\ expired = {}
  /\ beat # "ping" => pinging = None

\* An unsigned difference that is negative, once wrapped.
Residue(n) == IF n < 0 THEN n + CountMod ELSE n

\* The difference of the counters is the number of pongs owed, but for a ping
\* sent and not counted yet; it wraps when more pongs than pings were counted.
CountInv ==
  \A s \in Sessions :
    missing[s] = Residue(IF pinging = s THEN owed[s] - 1 ELSE owed[s])

IInv == TypeOK /\ BeatInv /\ CountInv /\ OpenIsRegistered /\ AcceptsAreKept

\* The sessions whose accept somebody will ask for again.
Busy == {s \in Sessions : stage[s] \notin {"unmade", "dropped", "done"}}

-----------------------------------------------------------------------------

\* The initial state satisfies the invariant.
LEMMA InitInv == Init => IInv
<1> SUFFICES ASSUME Init PROVE IInv
  OBVIOUS
<1> USE NumberAssumption, SessionAssumption, SurplusAssumption DEF Init
<1>1. TypeOK
  <2>1. /\ toAsk \in 0 .. AcceptNum /\ pinging \in copied \cup {None}
        /\ missing \in [Sessions -> 0 .. CountMod - 1]
        /\ owed \in [Sessions -> Int]
        /\ \A s \in Sessions : owed[s] \in - MaxSurplus[s] .. PingPongDiff
    OBVIOUS
  <2>2. /\ closed \in [Sessions -> BOOLEAN] /\ late \in [Sessions -> BOOLEAN]
        /\ \A s \in Sessions : ~ closed[s] /\ recv[s] = "none" /\ s \notin registry
    OBVIOUS
  <2>3. closer \in [Sessions -> [by : {"nobody", "accept", "worker", "beat"},
                                at : {"open", "begun", "held", "done"}]]
    BY DEF Nobody
  <2>4. /\ stage \in [Sessions -> Stages] 
        /\ asker \in [Sessions -> Sessions \cup {None}]
        /\ recv \in [Sessions -> {"none", "refused", "posted", "packet", "handled",
                                  "closing", "cancelled"}]
    BY DEF Stages
  <2>. QED
    BY <2>1, <2>2, <2>3, <2>4 DEF TypeOK
<1>2. BeatInv /\ CountInv /\ OpenIsRegistered
  BY DEF BeatInv, CountInv, Residue, OpenIsRegistered
<1>3. AcceptsAreKept
  <2>1. Busy = {}
    BY DEF Busy
  <2>. QED
    BY <2>1, FS_EmptySet DEF AcceptsAreKept, Busy
<1>. QED
  BY <1>1, <1>2, <1>3 DEF IInv

\* A step of Next is one of its actions.
LEMMA StepCases ==
  ASSUME Next
  PROVE  \/ \E s \in Sessions :
              \/ RequestAccept(s) \/ ProcessAccept(s) \/ AcceptRefused(s) \/ AcceptStart(s)
              \/ StartRefused(s) \/ Add(s) \/ RecvHandled(s) \/ ProcessRecv(s) \/ RecvClose(s)
              \/ CloseLock(s) \/ CloseResource(s) \/ AcceptArrives(s) \/ AcceptLost(s)
              \/ RecvArrives(s) \/ HandlePong(s) \/ RecvEnds(s) \/ RecvIgnored(s)
              \/ SendsStop(s) \/ OnSendCompleted(s) \/ BeatSort(s) \/ BeatClose(s)
              \/ BeatSilent(s) \/ BeatPing(s)
         \/ BeatCopy \/ BeatErase \/ BeatCount \/ BeatEnd
  BY DEF Next, Acceptor, Worker, Closer, Environment, Beat

Closers == [by : {"nobody", "accept", "worker", "beat"}, at : {"open", "begun", "held", "done"}]

\* Close marks its session and no other.
LEMMA CloseFacts ==
  ASSUME TypeOK, NEW s \in Sessions, NEW by \in {"accept", "worker", "beat"}, CloseBegin(s, by)
  PROVE  /\ closed' \in [Sessions -> BOOLEAN]
         /\ closer' \in [Sessions -> Closers]
         /\ closed'[s]
         /\ \A t \in Sessions : t # s => closed'[t] = closed[t] /\ closer'[t] = closer[t]
<1>1. closed \in [Sessions -> BOOLEAN] /\ closer \in [Sessions -> Closers]
  BY DEF TypeOK, Closers
<1>2. closed' = [closed EXCEPT ![s] = TRUE]
  BY DEF CloseBegin
<1>3. closed' \in [Sessions -> BOOLEAN] /\ closed'[s]
  BY <1>1, <1>2
<1>4. \A t \in Sessions : t # s => closed'[t] = closed[t]
  BY <1>1, <1>2
<1>5. /\ closer' \in [Sessions -> Closers]
      /\ \A t \in Sessions : t # s => closer'[t] = closer[t]
  BY <1>1 DEF CloseBegin, Closers
<1>. QED
  BY <1>3, <1>4, <1>5

RecvStates == {"none", "refused", "posted", "packet", "handled", "closing", "cancelled"}

\* The steps of the receiving side change nothing but the state of the receive.
LEMMA RecvFacts ==
  ASSUME TypeOK, NEW s \in Sessions,
         \/ RecvHandled(s) \/ ProcessRecv(s) \/ RecvArrives(s) \/ RecvEnds(s) \/ RecvIgnored(s)
  PROVE  /\ recv' \in [Sessions -> RecvStates]
         /\ \A t \in Sessions : recv'[t] # "none" => recv[t] # "none"
         /\ crashed' \in BOOLEAN
         /\ UNCHANGED <<acceptVars, closeVars, late, registry, beatVars, missing, owed>>
<1>1. recv \in [Sessions -> RecvStates] /\ crashed \in BOOLEAN
  BY DEF TypeOK, RecvStates
<1>2. UNCHANGED recv \/ \E to \in RecvStates : recv' = [recv EXCEPT ![s] = to]
  BY DEF RecvHandled, ProcessRecv, RecvArrives, RecvEnds, RecvIgnored, Using, Recv, RecvStates
<1>3. recv' \in [Sessions -> RecvStates]
  BY <1>1, <1>2
<1>4. crashed' \in BOOLEAN
  BY <1>1 DEF RecvHandled, ProcessRecv, RecvArrives, RecvEnds, RecvIgnored, Using
<1>5. UNCHANGED <<acceptVars, late, registry, beatVars, missing, owed>>
  BY DEF RecvHandled, ProcessRecv, RecvArrives, RecvEnds, RecvIgnored, otherVars
<1>6. UNCHANGED closeVars
  BY DEF RecvHandled, ProcessRecv, RecvArrives, RecvEnds, RecvIgnored, Using, Recv
<1>7. recv[s] # "none"
  BY DEF RecvHandled, ProcessRecv, RecvArrives, RecvEnds, RecvIgnored
<1>8. \A t \in Sessions : recv'[t] # "none" => recv[t] # "none"
  BY <1>1, <1>2, <1>7
<1>. QED
  BY <1>3, <1>4, <1>5, <1>6, <1>8

\* What MissesPongs tells of a session whose pings are all counted.
LEMMA Judgement ==
  ASSUME TypeOK, CountInv, NEW s \in Sessions, pinging # s
  PROVE  MissesPongs(s) <=> owed[s] \notin 0 .. PingPongDiff - 1
<1>1. /\ missing[s] = Residue(owed[s])
      /\ owed[s] \in - MaxSurplus[s] .. PingPongDiff
  BY DEF CountInv, TypeOK
<1>2. MaxSurplus[s] \in Nat /\ PingPongDiff + MaxSurplus[s] < CountMod
  BY SurplusAssumption
<1>. QED
  BY <1>1, <1>2, NumberAssumption DEF MissesPongs, Residue

\* Each step keeps the types.
LEMMA TypeStep == TypeOK /\ BeatInv /\ CountInv /\ [Next]_vars => TypeOK'
<1> SUFFICES ASSUME TypeOK, BeatInv, CountInv, [Next]_vars PROVE TypeOK'
  OBVIOUS
<1> USE NumberAssumption, SessionAssumption
    DEF TypeOK, Stages, RecvStates, acceptVars, closeVars, beatVars, otherVars, idleVars
<1>1. CASE UNCHANGED vars
  BY <1>1 DEF vars
<1>2. ASSUME NEW s \in Sessions, RequestAccept(s) PROVE TypeOK'
  <2>1. /\ toAsk' \in 0 .. AcceptNum
        /\ stage' \in [Sessions -> Stages]
        /\ asker' \in [Sessions -> Sessions \cup {None}]
    <3>1. toAsk' \in 0 .. AcceptNum
      BY <1>2 DEF RequestAccept
    <3>2. stage' \in [Sessions -> Stages]
      <4>1. \/ stage' = [stage EXCEPT ![s] = "made"]
            \/ \E t \in Sessions, next \in {"done", "dropped"} :
                 stage' = [stage EXCEPT ![s] = "made", ![t] = next]
        BY <1>2 DEF RequestAccept
      <4>2. stage \in [Sessions -> Stages]
        OBVIOUS
      <4>. HIDE DEF TypeOK
      <4>. QED
        BY <4>1, <4>2
    <3>3. asker' \in [Sessions -> Sessions \cup {None}]
      BY <1>2 DEF RequestAccept
    <3>. QED
      BY <3>1, <3>2, <3>3
  <2>2. \A t \in Sessions : stage[t] \in Served => stage'[t] \in Served
    BY <1>2 DEF RequestAccept, Served
  <2>. QED
    BY <1>2, <2>1, <2>2 DEF RequestAccept, Served
<1>3. ASSUME NEW s \in Sessions, \/ ProcessAccept(s) \/ AcceptRefused(s) \/ AcceptArrives(s)
                                 \/ AcceptLost(s)
      PROVE  TypeOK'
  <2>1. /\ stage' \in [Sessions -> Stages]
        /\ \A t \in Sessions : stage[t] \in Served => stage'[t] \in Served
    <3>1. /\ stage[s] \in {"made", "taken", "outstanding"}
          /\ \E next \in {"outstanding", "failed", "taken", "lost"} :
               stage' = [stage EXCEPT ![s] = next]
      BY <1>3 DEF ProcessAccept, AcceptFails, AcceptRefused, AcceptArrives, AcceptLost
    <3>2. stage \in [Sessions -> Stages]
      OBVIOUS
    <3>. HIDE DEF TypeOK
    <3>. QED
      BY <3>1, <3>2 DEF Served
  <2>2. UNCHANGED <<toAsk, asker, closeVars, recv, late, missing, registry, beatVars, crashed,
                    owed>>
    BY <1>3 DEF ProcessAccept, AcceptRefused, AcceptArrives, AcceptLost
  <2>. QED
    BY <2>1, <2>2 DEF Served
<1>4. ASSUME NEW s \in Sessions, AcceptStart(s) PROVE TypeOK'
  BY <1>4 DEF AcceptStart
<1>5. ASSUME NEW s \in Sessions, Add(s) PROVE TypeOK'
  BY <1>5 DEF Add
<1>6. ASSUME NEW s \in Sessions, StartRefused(s) \/ RecvClose(s) PROVE TypeOK'
  <2>1. CASE \E by \in {"accept", "worker"} : CloseBegin(s, by)
    <3>1. PICK by \in {"accept", "worker"} : CloseBegin(s, by)
      BY <2>1
    <3>2. /\ closed' \in [Sessions -> BOOLEAN]
          /\ closer' \in [Sessions -> Closers]
          /\ \A t \in Sessions : t # s => closed'[t] = closed[t]
      BY <3>1, CloseFacts
    <3>3. recv' = [recv EXCEPT ![s] = "none"] \/ UNCHANGED recv
      BY <1>6 DEF StartRefused, RecvClose, Using
    <3>4. stage[s] \in Served
      BY <1>6 DEF StartRefused, RecvClose, Served
    <3>5. crashed' \in BOOLEAN /\ UNCHANGED <<acceptVars, late, missing, registry, beatVars, owed>>
      BY <1>6 DEF StartRefused, RecvClose, Using
    <3>. QED
      BY <3>2, <3>3, <3>4, <3>5 DEF Closers, Served
  <2>2. CASE UNCHANGED closeVars
    <3>1. recv' = [recv EXCEPT ![s] = "none"] \/ UNCHANGED recv
      BY <1>6, <2>2 DEF StartRefused, RecvClose, Using
    <3>2. crashed' \in BOOLEAN /\ UNCHANGED <<acceptVars, late, missing, registry, beatVars, owed>>
      BY <1>6, <2>2 DEF StartRefused, RecvClose, Using
    <3>. QED
      BY <2>2, <3>1, <3>2, SMTT(30)
  <2>. QED
    BY <1>6, <2>1, <2>2 DEF StartRefused, RecvClose, Using
<1>7. ASSUME NEW s \in Sessions, \/ RecvHandled(s) \/ ProcessRecv(s) \/ RecvArrives(s)
                                 \/ RecvEnds(s) \/ RecvIgnored(s)
      PROVE  TypeOK'
  <2>1. /\ recv' \in [Sessions -> RecvStates]
        /\ \A t \in Sessions : recv'[t] # "none" => recv[t] # "none"
        /\ crashed' \in BOOLEAN
        /\ UNCHANGED <<acceptVars, closeVars, late, registry, beatVars, missing, owed>>
    BY <1>7, RecvFacts
  <2>. QED
    BY <2>1, SMTT(30)
<1>8. ASSUME NEW s \in Sessions, CloseLock(s) \/ CloseResource(s) PROVE TypeOK'
  <2>1. closer' \in [Sessions -> Closers]
    BY <1>8 DEF CloseLock, CloseResource, Closers
  <2>2. CASE CloseLock(s)
    BY <2>1, <2>2 DEF CloseLock, Closers
  <2>3. CASE CloseResource(s)
    BY <2>1, <2>3 DEF CloseResource, Closers
  <2>. QED
    BY <1>8, <2>2, <2>3
<1>9. ASSUME NEW s \in Sessions, SendsStop(s) \/ OnSendCompleted(s) PROVE TypeOK'
  <2>1. late' \in [Sessions -> BOOLEAN]
    BY <1>9 DEF SendsStop, OnSendCompleted
  <2>. QED
    BY <1>9, <2>1 DEF SendsStop, OnSendCompleted
<1>10. ASSUME NEW s \in Sessions, HandlePong(s) PROVE TypeOK'
  <2>1. /\ missing' \in [Sessions -> 0 .. CountMod - 1]
        /\ owed' \in [Sessions -> Int]
        /\ \A t \in Sessions : owed'[t] \in - MaxSurplus[t] .. PingPongDiff
    <3>1. /\ missing[s] \in 0 .. CountMod - 1 /\ MaxSurplus[s] \in Nat
          /\ owed[s] \in Int /\ owed[s] \in - MaxSurplus[s] .. PingPongDiff
      BY SurplusAssumption
    <3>2. /\ Down(missing[s]) \in 0 .. CountMod - 1
          /\ owed[s] - 1 \in Int /\ owed[s] - 1 \in - MaxSurplus[s] .. PingPongDiff
      BY <1>10, <3>1 DEF Down, HandlePong
    <3>3. /\ missing' = [missing EXCEPT ![s] = Down(missing[s])]
          /\ owed' = [owed EXCEPT ![s] = owed[s] - 1]
      BY <1>10 DEF HandlePong
    <3>. QED
      BY <3>2, <3>3
  <2>. QED
    BY <1>10, <2>1 DEF HandlePong
<1>11. ASSUME NEW s \in Sessions, BeatSort(s) PROVE TypeOK'
  BY <1>11 DEF BeatSort
<1>12. ASSUME NEW s \in Sessions, BeatClose(s) \/ BeatSilent(s) PROVE TypeOK'
  <2>1. stage[s] \in Served
    BY <1>12 DEF BeatClose, BeatSilent, BeatInv
  <2>. QED
    BY <1>12, <2>1, CloseFacts DEF BeatClose, BeatSilent, Closers, Served
<1>13. ASSUME NEW s \in Sessions, BeatPing(s) PROVE TypeOK'
  <2>1. /\ owed' \in [Sessions -> Int]
        /\ \A t \in Sessions : owed'[t] \in - MaxSurplus[t] .. PingPongDiff
    <3>1. owed[s] \in 0 .. PingPongDiff - 1 /\ MaxSurplus[s] \in Nat
      BY <1>13, Judgement, SurplusAssumption DEF BeatPing, BeatReady
    <3>2. /\ owed[s] + 1 \in Int
          /\ owed[s] + 1 \in - MaxSurplus[s] .. PingPongDiff
      BY <3>1
    <3>3. owed' = [owed EXCEPT ![s] = owed[s] + 1]
      BY <1>13 DEF BeatPing
    <3>. QED
      BY <3>2, <3>3
  <2>. QED
    BY <1>13, <2>1 DEF BeatPing, BeatReady
<1>14. CASE BeatCopy
  BY <1>14 DEF BeatCopy, BeatInv
<1>15. CASE BeatErase
  BY <1>15 DEF BeatErase
<1>16. CASE BeatCount
  BY <1>16, SMTT(30) DEF BeatCount, Up
<1>17. CASE BeatEnd
  BY <1>17 DEF BeatEnd, BeatReady, BeatInv
<1>. QED
  BY <1>1, <1>2, <1>3, <1>4, <1>5, <1>6, <1>7, <1>8, <1>9, <1>10, <1>11, <1>12, <1>13,
     <1>14, <1>15, <1>16, <1>17, StepCases

\* Each step keeps what the heartbeat relies on.
LEMMA BeatStep == TypeOK /\ BeatInv /\ [Next]_vars => BeatInv'
<1> SUFFICES ASSUME TypeOK, BeatInv, [Next]_vars PROVE BeatInv'
  OBVIOUS
<1> USE SessionAssumption
    DEF TypeOK, Stages, BeatInv, Served, acceptVars, closeVars, beatVars, otherVars, idleVars
<1>1. CASE UNCHANGED vars
  BY <1>1 DEF vars
<1>2. ASSUME NEW s \in Sessions, RequestAccept(s) PROVE BeatInv'
  BY <1>2 DEF RequestAccept
<1>3. ASSUME NEW s \in Sessions, \/ ProcessAccept(s) \/ AcceptRefused(s) \/ AcceptStart(s)
                                 \/ Add(s) \/ AcceptArrives(s) \/ AcceptLost(s)
      PROVE  BeatInv'
  BY <1>3, SMTT(30) DEF ProcessAccept, AcceptFails, AcceptRefused, AcceptStart, Add, AcceptArrives,
              AcceptLost
<1>4. ASSUME NEW s \in Sessions, StartRefused(s) \/ RecvClose(s) PROVE BeatInv'
  BY <1>4, SMTT(30) DEF StartRefused, RecvClose, Using, CloseBegin
<1>5. ASSUME NEW s \in Sessions, \/ RecvHandled(s) \/ ProcessRecv(s) \/ RecvArrives(s)
                                 \/ RecvEnds(s) \/ RecvIgnored(s) \/ HandlePong(s)
      PROVE  BeatInv'
  BY <1>5 DEF RecvHandled, ProcessRecv, RecvArrives, RecvEnds, RecvIgnored, HandlePong,
              Using, Recv
<1>6. ASSUME NEW s \in Sessions, \/ CloseLock(s) \/ CloseResource(s) \/ SendsStop(s)
                                 \/ OnSendCompleted(s)
      PROVE  BeatInv'
  BY <1>6 DEF CloseLock, CloseResource, SendsStop, OnSendCompleted
<1>7. ASSUME NEW s \in Sessions, BeatSort(s) PROVE BeatInv'
  BY <1>7 DEF BeatSort
<1>8. ASSUME NEW s \in Sessions, BeatClose(s) \/ BeatSilent(s) PROVE BeatInv'
  BY <1>8 DEF BeatClose, BeatSilent, CloseBegin
<1>9. ASSUME NEW s \in Sessions, BeatPing(s) PROVE BeatInv'
  BY <1>9 DEF BeatPing
<1>10. CASE BeatCopy
  BY <1>10 DEF BeatCopy
<1>11. CASE BeatErase
  BY <1>11 DEF BeatErase, BeatReady
<1>12. CASE BeatCount
  BY <1>12 DEF BeatCount
<1>13. CASE BeatEnd
  BY <1>13 DEF BeatEnd, BeatReady
<1>. QED
  BY <1>1, <1>2, <1>3, <1>4, <1>5, <1>6, <1>7, <1>8, <1>9, <1>10, <1>11, <1>12, <1>13,
     StepCases

\* Each step keeps the difference of the counters right.
LEMMA CountStep == TypeOK /\ BeatInv /\ CountInv /\ [Next]_vars => CountInv'
<1> SUFFICES ASSUME TypeOK, BeatInv, CountInv, [Next]_vars PROVE CountInv'
  OBVIOUS
<1> USE NumberAssumption, SessionAssumption
    DEF acceptVars, closeVars, beatVars, otherVars, idleVars
<1>0. /\ missing \in [Sessions -> 0 .. CountMod - 1] /\ owed \in [Sessions -> Int]
      /\ \A t \in Sessions : /\ MaxSurplus[t] \in Nat
                             /\ owed[t] \in - MaxSurplus[t] .. PingPongDiff
                             /\ PingPongDiff + MaxSurplus[t] < CountMod
  BY SurplusAssumption DEF TypeOK
<1>1. CASE UNCHANGED <<missing, pinging, owed>>
  BY <1>1 DEF CountInv, Residue
<1>2. ASSUME NEW s \in Sessions, HandlePong(s) PROVE CountInv'
  <2> SUFFICES ASSUME NEW t \in Sessions
               PROVE  missing'[t] = Residue(IF pinging = t THEN owed'[t] - 1 ELSE owed'[t])
    BY <1>2 DEF CountInv, Residue, HandlePong
  <2>1. missing[t] = Residue(IF pinging = t THEN owed[t] - 1 ELSE owed[t])
    BY DEF CountInv
  <2>2. CASE t = s
    <3>1. missing'[t] = Down(missing[t]) /\ owed'[t] = owed[t] - 1 /\ owed[t] > - MaxSurplus[t]
      BY <1>0, <1>2, <2>2 DEF HandlePong
    <3>. QED
      BY <1>0, <2>1, <3>1 DEF Down, Residue
  <2>3. CASE t # s
    BY <1>0, <1>2, <2>1, <2>3 DEF HandlePong
  <2>. QED
    BY <2>2, <2>3
<1>3. ASSUME NEW s \in Sessions, BeatPing(s) PROVE CountInv'
  <2> SUFFICES ASSUME NEW t \in Sessions
               PROVE  missing'[t] = Residue(IF pinging' = t THEN owed'[t] - 1 ELSE owed'[t])
    BY DEF CountInv, Residue
  <2>1. missing[t] = Residue(owed[t])
    BY <1>3 DEF BeatPing, BeatReady, CountInv
  <2>2. /\ missing'[t] = missing[t] /\ (pinging' = t <=> t = s)
        /\ owed'[t] = IF t = s THEN owed[t] + 1 ELSE owed[t]
    BY <1>0, <1>3 DEF BeatPing
  <2>. QED
    BY <1>0, <2>1, <2>2
<1>4. CASE BeatCount
  <2> SUFFICES ASSUME NEW t \in Sessions
               PROVE  missing'[t] = Residue(IF pinging' = t THEN owed'[t] - 1 ELSE owed'[t])
    BY DEF CountInv, Residue
  <2>1. missing[t] = Residue(IF pinging = t THEN owed[t] - 1 ELSE owed[t])
    BY DEF CountInv
  <2>2. /\ pinging' # t /\ owed'[t] = owed[t]
        /\ missing'[t] = IF pinging = t THEN Up(missing[t]) ELSE missing[t]
    BY <1>0, <1>4 DEF BeatCount
  <2>. QED
    BY <1>0, <2>1, <2>2 DEF Up, Residue
<1>5. ASSUME NEW s \in Sessions,
             \/ RequestAccept(s) \/ ProcessAccept(s) \/ AcceptRefused(s) \/ AcceptStart(s)
             \/ StartRefused(s) \/ Add(s) \/ CloseLock(s) \/ CloseResource(s)
             \/ AcceptArrives(s) \/ AcceptLost(s)
      PROVE  UNCHANGED <<missing, pinging, owed>>
  BY <1>5 DEF RequestAccept, ProcessAccept, AcceptRefused, AcceptStart, StartRefused, Add,
              CloseLock, CloseResource, AcceptArrives, AcceptLost
<1>6. ASSUME NEW s \in Sessions,
             \/ RecvHandled(s) \/ ProcessRecv(s) \/ RecvClose(s) \/ RecvArrives(s)
             \/ RecvEnds(s) \/ RecvIgnored(s) \/ SendsStop(s) \/ OnSendCompleted(s)
      PROVE  UNCHANGED <<missing, pinging, owed>>
  BY <1>6 DEF RecvHandled, ProcessRecv, RecvClose, RecvArrives, RecvEnds, RecvIgnored,
              SendsStop, OnSendCompleted
<1>7. ASSUME NEW s \in Sessions, BeatSort(s) \/ BeatClose(s) \/ BeatSilent(s)
      PROVE  UNCHANGED <<missing, pinging, owed>>
  BY <1>7 DEF BeatSort, BeatClose, BeatSilent
<1>8. CASE BeatCopy \/ BeatErase \/ BeatEnd
  BY <1>1, <1>8 DEF BeatCopy, BeatErase, BeatEnd
<1>9. CASE UNCHANGED vars
  BY <1>1, <1>9 DEF vars
<1>. QED
  BY <1>1, <1>2, <1>3, <1>4, <1>5, <1>6, <1>7, <1>8, <1>9, StepCases

\* Each step keeps the open sessions in the registry: what the heartbeat erases,
\* it has closed.
LEMMA OpenStep == TypeOK /\ BeatInv /\ OpenIsRegistered /\ [Next]_vars => OpenIsRegistered'
<1> SUFFICES ASSUME TypeOK, BeatInv, OpenIsRegistered, [Next]_vars PROVE OpenIsRegistered'
  OBVIOUS
<1> USE DEF OpenIsRegistered, acceptVars, closeVars, beatVars, otherVars, idleVars
<1>1. CASE UNCHANGED <<stage, registry>> /\ \A t \in Sessions : closed[t] => closed'[t]
  BY <1>1
<1>2. ASSUME NEW s \in Sessions,
             \/ RequestAccept(s) \/ ProcessAccept(s) \/ AcceptRefused(s) \/ AcceptStart(s)
             \/ Add(s) \/ AcceptArrives(s) \/ AcceptLost(s)
      PROVE  OpenIsRegistered'
  <2>0. stage \in [Sessions -> Stages]
    BY DEF TypeOK
  <2>1. CASE RequestAccept(s)
    <3>1. /\ stage[s] = "unmade"
          /\ \/ stage' = [stage EXCEPT ![s] = "made"]
             \/ \E t \in Sessions :
                  /\ stage[t] = "sleeping"
                  /\ stage' = [stage EXCEPT ![s] = "made", ![t] = "done"]
             \/ \E t \in Sessions :
                  stage' = [stage EXCEPT ![s] = "made", ![t] = "dropped"]
      BY <2>1 DEF RequestAccept
    <3>2. \A t \in Sessions :
            stage'[t] \in {"sleeping", "done"} => stage[t] \in {"sleeping", "done"}
      BY <2>0, <3>1
    <3>. QED
      BY <2>1, <3>2 DEF RequestAccept
  <2>2. CASE ProcessAccept(s) \/ AcceptRefused(s)
    <3>1. \E next \in {"outstanding", "failed"} : stage' = [stage EXCEPT ![s] = next]
      BY <2>2 DEF ProcessAccept, AcceptFails, AcceptRefused
    <3>2. \A t \in Sessions :
            stage'[t] \in {"sleeping", "done"} => stage[t] \in {"sleeping", "done"}
      BY <2>0, <3>1
    <3>. QED
      BY <2>2, <3>2 DEF ProcessAccept, AcceptRefused
  <2>3. CASE AcceptStart(s)
    BY <2>3, SMTT(30) DEF AcceptStart, TypeOK, Stages
  <2>4. CASE Add(s)
    BY <2>4, SMTT(30) DEF Add, TypeOK, Stages
  <2>5. CASE AcceptArrives(s) \/ AcceptLost(s)
    BY <2>5, SMTT(30) DEF AcceptArrives, AcceptLost, AcceptFails, TypeOK, Stages
  <2>. QED
    BY <1>2, <2>1, <2>2, <2>3, <2>4, <2>5
<1>3. ASSUME NEW s \in Sessions,
             \/ StartRefused(s) \/ RecvClose(s) \/ BeatClose(s) \/ BeatSilent(s)
      PROVE  OpenIsRegistered'
  <2>1. UNCHANGED <<stage, registry>>
    BY <1>3 DEF StartRefused, RecvClose, BeatClose, BeatSilent
  <2>2. UNCHANGED closed \/ \E by \in {"accept", "worker", "beat"} : CloseBegin(s, by)
    BY <1>3 DEF StartRefused, RecvClose, Using, BeatClose, BeatSilent
  <2>. QED
    BY <1>1, <2>1, <2>2, CloseFacts
<1>4. ASSUME NEW s \in Sessions,
             \/ RecvHandled(s) \/ ProcessRecv(s) \/ RecvArrives(s) \/ RecvEnds(s)
             \/ RecvIgnored(s) \/ HandlePong(s) \/ SendsStop(s) \/ OnSendCompleted(s)
             \/ CloseLock(s) \/ CloseResource(s)
      PROVE  OpenIsRegistered'
  BY <1>1, <1>4 DEF RecvHandled, ProcessRecv, RecvArrives, RecvEnds, RecvIgnored, HandlePong,
                    SendsStop, OnSendCompleted, CloseLock, CloseResource, Using, Recv
<1>5. ASSUME NEW s \in Sessions, BeatSort(s) \/ BeatPing(s) PROVE OpenIsRegistered'
  BY <1>1, <1>5 DEF BeatSort, BeatPing
<1>6. CASE BeatErase
  BY <1>6 DEF BeatErase, BeatInv
<1>7. CASE BeatCopy \/ BeatCount \/ BeatEnd
  BY <1>1, <1>7 DEF BeatCopy, BeatCount, BeatEnd
<1>8. CASE UNCHANGED vars
  BY <1>1, <1>8 DEF vars
<1>. QED
  BY <1>2, <1>3, <1>4, <1>5, <1>6, <1>7, <1>8, StepCases

\* Each step keeps the number of accepts.
LEMMA AcceptStep == TypeOK /\ AcceptsAreKept /\ [Next]_vars => AcceptsAreKept'
<1> SUFFICES ASSUME TypeOK, AcceptsAreKept, [Next]_vars PROVE AcceptsAreKept'
  OBVIOUS
<1>0. IsFiniteSet(Busy) /\ Cardinality(Busy) \in Nat /\ toAsk + Cardinality(Busy) = AcceptNum
  BY SessionAssumption, FS_Subset, FS_CardinalityType DEF AcceptsAreKept, Busy
<1>1. CASE UNCHANGED toAsk /\ Busy' = Busy
  BY <1>0, <1>1 DEF AcceptsAreKept, Busy
<1>2. ASSUME NEW t \in Sessions, RequestAccept(t) PROVE AcceptsAreKept'
  <2>1. stage[t] = "unmade" /\ t \notin Busy
    BY <1>2 DEF RequestAccept, Busy
  <2>2. CASE toAsk > 0 /\ toAsk' = toAsk - 1 /\ stage' = [stage EXCEPT ![t] = "made"]
    <3>1. Busy' = Busy \cup {t}
      BY <2>2 DEF Busy, TypeOK
    <3>2. Cardinality(Busy') = Cardinality(Busy) + 1
      BY <1>0, <2>1, <3>1, FS_AddElement
    <3>. QED
      BY <1>0, <2>2, <3>2 DEF AcceptsAreKept, Busy, TypeOK
  <2>3. CASE \E s \in Sessions :
               /\ stage[s] \in {"sleeping", "failed"}
               /\ \E next \in {"done", "dropped"} :
                    stage' = [stage EXCEPT ![t] = "made", ![s] = next]
               /\ UNCHANGED toAsk
    <3>1. PICK s \in Sessions :
               /\ stage[s] \in {"sleeping", "failed"}
               /\ \E next \in {"done", "dropped"} :
                    stage' = [stage EXCEPT ![t] = "made", ![s] = next]
               /\ UNCHANGED toAsk
      BY <2>3
    <3>2. s \in Busy /\ s # t
      BY <2>1, <3>1 DEF Busy
    <3>3. Busy' = (Busy \ {s}) \cup {t}
      BY <3>1, <3>2 DEF Busy, TypeOK
    <3>4. /\ Cardinality(Busy \ {s}) = Cardinality(Busy) - 1
          /\ IsFiniteSet(Busy \ {s}) /\ t \notin Busy \ {s}
      BY <1>0, <2>1, <3>2, FS_RemoveElement
    <3>5. Cardinality(Busy') = Cardinality(Busy)
      <4>1. Cardinality((Busy \ {s}) \cup {t}) = Cardinality(Busy \ {s}) + 1
        BY <3>4, FS_AddElement
      <4>. QED
        BY <1>0, <3>3, <3>4, <4>1
    <3>. QED
      BY <1>0, <3>1, <3>5 DEF AcceptsAreKept, Busy
  <2>. QED
    BY <1>2, <2>2, <2>3 DEF RequestAccept
<1>3. ASSUME NEW s \in Sessions,
             \/ ProcessAccept(s) \/ AcceptRefused(s) \/ AcceptStart(s)
             \/ Add(s) \/ AcceptArrives(s) \/ AcceptLost(s)
      PROVE  UNCHANGED toAsk /\ Busy' = Busy
  BY <1>3 DEF ProcessAccept, AcceptFails, AcceptRefused, AcceptStart, Add, AcceptArrives,
              AcceptLost, Busy, TypeOK, Stages
<1>4. CASE UNCHANGED <<toAsk, stage>>
  BY <1>1, <1>4 DEF Busy
<1> USE DEF acceptVars, otherVars, idleVars
<1>5. ASSUME NEW s \in Sessions,
             \/ StartRefused(s) \/ RecvClose(s) \/ BeatClose(s) \/ BeatSilent(s)
             \/ RecvHandled(s) \/ ProcessRecv(s) \/ RecvArrives(s) \/ RecvEnds(s)
             \/ RecvIgnored(s) \/ HandlePong(s)
      PROVE  UNCHANGED <<toAsk, stage>>
  BY <1>5 DEF StartRefused, RecvClose, BeatClose, BeatSilent, RecvHandled, ProcessRecv,
              RecvArrives, RecvEnds, RecvIgnored, HandlePong
<1>6. ASSUME NEW s \in Sessions,
             \/ SendsStop(s) \/ OnSendCompleted(s) \/ CloseLock(s) \/ CloseResource(s)
             \/ BeatSort(s) \/ BeatPing(s)
      PROVE  UNCHANGED <<toAsk, stage>>
  BY <1>6 DEF SendsStop, OnSendCompleted, CloseLock, CloseResource, BeatSort, BeatPing
<1>7. CASE BeatCopy \/ BeatErase \/ BeatCount \/ BeatEnd
  BY <1>4, <1>7 DEF BeatCopy, BeatErase, BeatCount, BeatEnd
<1>8. CASE UNCHANGED vars
  BY <1>4, <1>8 DEF vars
<1>. QED
  BY <1>1, <1>2, <1>3, <1>4, <1>5, <1>6, <1>7, <1>8, StepCases

\* The whole invariant is kept.
LEMMA StepInv == IInv /\ [Next]_vars => IInv'
  BY TypeStep, BeatStep, CountStep, OpenStep, AcceptStep DEF IInv

-----------------------------------------------------------------------------
(* Results *)

\* The invariant of the accept loop, the registry and the heartbeat together.
THEOREM Invariant == Spec => []IInv
  BY InitInv, StepInv, PTL DEF Spec

\* Type correctness; in particular no session is received from, registered or
\* closed before its accept was served, and none ever owes more pongs than
\* PING_PONG_DIFF.
THEOREM TypeCorrect == Spec => []TypeOK
<1>1. IInv => TypeOK
  BY DEF IInv
<1>. QED
  BY <1>1, Invariant, PTL

\* No failure in the accept loop, short of a completion that reports an error,
\* loses an accept, for any number of accepts.
THEOREM Accepts == Spec => []AcceptsAreKept
<1>1. IInv => AcceptsAreKept
  BY DEF IInv
<1>. QED
  BY <1>1, Invariant, PTL

\* Every open session is in the registry: Heartbeat erases none that a send has
\* made timely again, Add forgets none.
THEOREM Registered == Spec => []OpenIsRegistered
<1>1. IInv => OpenIsRegistered
  BY DEF IInv
<1>. QED
  BY <1>1, Invariant, PTL

\* Heartbeat pings again a client that owes fewer pongs than PING_PONG_DIFF and
\* sent none too many, and closes for its answers any other and only these,
\* however its pongs fall between the sending and the counting of the pings.
THEOREM Judged == Spec => JudgedByAnswers
<1> DEFINE A == \A s \in Sessions :
                  beat = "ping" =>
                    /\ closer[s].by # "beat" /\ closer'[s].by = "beat"
                         => owed[s] \notin 0 .. PingPongDiff - 1
                    /\ pinging # s /\ pinging' = s => owed[s] \in 0 .. PingPongDiff - 1
<1>1. IInv /\ [Next]_vars => [A]_vars
  <2> SUFFICES ASSUME IInv, Next PROVE A
    OBVIOUS
  <2> DEFINE Due(s) == owed[s] \in 0 .. PingPongDiff - 1
  <2> SUFFICES ASSUME NEW s \in Sessions, beat = "ping"
               PROVE  /\ closer[s].by # "beat" /\ closer'[s].by = "beat" => ~ Due(s)
                      /\ pinging # s /\ pinging' = s => Due(s)
    OBVIOUS
  <2> HIDE DEF Due
  <2> USE DEF IInv, acceptVars, closeVars, beatVars, otherVars, idleVars
  <2> DEFINE Closes == closer[s].by # "beat" /\ closer'[s].by = "beat"
             Pings  == pinging # s /\ pinging' = s
  <2>0. pinging = None => (MissesPongs(s) <=> ~ Due(s))
    BY Judgement, SessionAssumption DEF Due
  <2>1. ASSUME NEW t \in Sessions, BeatSilent(t) PROVE (Closes => ~ Due(s)) /\ ~ Pings
    <3>1. CASE t = s
      BY <2>0, <2>1, <3>1 DEF BeatSilent, BeatReady
    <3>2. CASE t # s
      BY <2>1, <3>2, CloseFacts DEF BeatSilent
    <3>. QED
      BY <2>1, <3>1, <3>2 DEF BeatSilent
  <2>2. ASSUME NEW t \in Sessions, StartRefused(t) \/ RecvClose(t) PROVE ~ Closes /\ ~ Pings
    <3>1. UNCHANGED pinging
      BY <2>2 DEF StartRefused, RecvClose
    <3>2. UNCHANGED closer \/ CloseBegin(t, "accept") \/ CloseBegin(t, "worker")
      BY <2>2 DEF StartRefused, RecvClose, Using
    <3>. QED
      <4>1. closer \in [Sessions -> Closers]
        BY DEF TypeOK, Closers
      <4>2. UNCHANGED closer \/ \E by \in {"accept", "worker"} :
                                  closer' = [closer EXCEPT ![t] = [by |-> by, at |-> "begun"]]
        BY <3>2 DEF CloseBegin
      <4>3. ~ Closes
        BY <4>1, <4>2
      <4>. QED
        BY <3>1, <4>3
  <2>3. ASSUME NEW t \in Sessions, CloseLock(t) \/ CloseResource(t) PROVE ~ Closes /\ ~ Pings
    BY <2>3 DEF CloseLock, CloseResource, TypeOK
  <2>4. ASSUME NEW t \in Sessions, BeatClose(t) PROVE ~ Closes /\ ~ Pings
    BY <2>4 DEF BeatClose
  <2>5. ASSUME NEW t \in Sessions,
               \/ RequestAccept(t) \/ ProcessAccept(t) \/ AcceptRefused(t) \/ AcceptStart(t)
               \/ Add(t) \/ AcceptArrives(t) \/ AcceptLost(t) \/ BeatSort(t)
        PROVE  ~ Closes /\ ~ Pings
    BY <2>5 DEF RequestAccept, ProcessAccept, AcceptRefused, AcceptStart, Add,
                AcceptArrives, AcceptLost, BeatSort
  <2>6. ASSUME NEW t \in Sessions,
               \/ RecvHandled(t) \/ ProcessRecv(t) \/ RecvArrives(t) \/ RecvEnds(t)
               \/ RecvIgnored(t) \/ HandlePong(t) \/ SendsStop(t) \/ OnSendCompleted(t)
        PROVE  ~ Closes /\ ~ Pings
    BY <2>6 DEF RecvHandled, ProcessRecv, RecvArrives, RecvEnds, RecvIgnored, HandlePong,
                SendsStop, OnSendCompleted, Using, Recv
  <2>7. ASSUME NEW t \in Sessions, BeatPing(t) PROVE ~ Closes /\ (Pings => Due(s))
    BY <2>0, <2>7 DEF BeatPing, BeatReady
  <2>8. CASE BeatCopy \/ BeatErase \/ BeatCount \/ BeatEnd
    BY <2>8, SessionAssumption DEF BeatCopy, BeatErase, BeatCount, BeatEnd
  <2>. QED
    BY <2>1, <2>2, <2>3, <2>4, <2>5, <2>6, <2>7, <2>8, StepCases
<1>. QED
  BY <1>1, Invariant, PTL DEF Spec, JudgedByAnswers
=============================================================================
