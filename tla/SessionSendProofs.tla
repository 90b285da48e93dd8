--------------------------- MODULE SessionSendProofs ---------------------------
(***************************************************************************)
(* Proofs about SessionSend, for any threads, packets and sizes of batches:*)
(* the flags _sending and _isClosed do what they are there for, whichever  *)
(* way their unlocked accesses interleave, and no packet is lost or        *)
(* overtaken on the way from the deque to the kernel.                      *)
(***************************************************************************)
EXTENDS SessionSend, FiniteSetTheorems, SequenceTheorems, WellFoundedInduction, TLAPS

-----------------------------------------------------------------------------
(* Types, as far as they are needed *)

\* What the two flags and the places of threads may be.
FlagType ==
  /\ closed \in BOOLEAN /\ sending \in BOOLEAN /\ socketOpen \in BOOLEAN
  /\ pc \in [Threads -> Labels]
  /\ disconnects \in Nat
  /\ \E S : flight \in Seq(S)

-----------------------------------------------------------------------------
(* One WSASend at a time *)

DrivingAt == {"pop", "clear", "post", "take", "requeue"}

\* The right to send is with one thread or with the kernel, and _sending is set
\* as long as somebody has it.
RightInv ==
  ~ closed =>
    /\ \A t, u \in Driving : t = u
    /\ flight # <<>> => Driving = {} /\ Len(flight) = 1
    /\ Driving # {} \/ flight # <<>> => sending

\* One thread at most is in Close behind the exchange of _isClosed, and it is
\* the one that tells the owner and closes the socket.
ClosingAt == {"unsend", "notify", "closesocket", "discard"}
CloseInv ==
  /\ \A t, u \in Threads : pc[t] \in ClosingAt /\ pc[u] \in ClosingAt => t = u
  /\ \A t \in Threads :
       /\ pc[t] \in ClosingAt => closed
       /\ pc[t] \in {"unsend", "notify"} => disconnects = 0 /\ socketOpen
       /\ pc[t] = "closesocket" => disconnects = 1 /\ socketOpen
  /\ ~ closed => disconnects = 0 /\ socketOpen
  /\ DisconnectedOnce

\* The inductive invariant.
IInv == FlagType /\ RightInv /\ CloseInv

LEMMA InitInv == Init => IInv
<1> SUFFICES ASSUME Init PROVE IInv
  OBVIOUS
<1>1. /\ closed = FALSE /\ sending = FALSE /\ flight = <<>> /\ socketOpen = TRUE
      /\ pc = [t \in Threads |-> "idle"] /\ disconnects = 0
  BY DEF Init
<1>2. FlagType
  <2>1. flight \in Seq({})
    BY <1>1
  <2>. QED
    BY <1>1, <2>1 DEF FlagType, Labels
<1>3. RightInv
  BY <1>1 DEF RightInv, Driving
<1>4. CloseInv
  BY <1>1 DEF CloseInv, ClosingAt, DisconnectedOnce
<1>. QED
  BY <1>2, <1>3, <1>4 DEF IInv

\* The queue of the kernel grows by one, and shrinks by one.
LEMMA FlightGrows ==
  ASSUME NEW S, flight \in Seq(S), NEW op, flight' = Append(flight, op)
  PROVE  (\E T : flight' \in Seq(T)) /\ Len(flight') = Len(flight) + 1 /\ flight' # <<>>
<1>1. flight \in Seq(S \cup {op}) /\ op \in S \cup {op}
  OBVIOUS
<1>2. flight' \in Seq(S \cup {op}) /\ Len(flight') = Len(flight) + 1 /\ Len(flight) \in Nat
  BY <1>1
<1>. QED
  BY <1>2

LEMMA FlightShrinks ==
  ASSUME NEW S, flight \in Seq(S), flight # <<>>, flight' = Tail(flight)
  PROVE  (\E T : flight' \in Seq(T)) /\ (Len(flight) = 1 => flight' = <<>>)
<1>1. flight' \in Seq(S) /\ Len(flight') = Len(flight) - 1 /\ Len(flight) \in Nat
  OBVIOUS
<1>. QED
  BY <1>1

-----------------------------------------------------------------------------
(* The steps *)

\* The steps of a thread that has neither the right to send nor gets it.
LEMMA RightStays ==
  ASSUME FlagType, RightInv, NEW t \in Threads, NEW to \in Labels \ DrivingAt,
         pc[t] \notin DrivingAt, pc' = [pc EXCEPT ![t] = to],
         UNCHANGED <<sending, flight>>, closed => closed'
  PROVE  RightInv'
<1>1. Driving' = Driving
  BY DEF Driving, DrivingAt, FlagType
<1>. QED
  BY <1>1 DEF RightInv

\* The thread that has the right to send keeps it.
LEMMA RightMoves ==
  ASSUME FlagType, RightInv, NEW t \in Threads, NEW to \in DrivingAt,
         pc[t] \in DrivingAt, pc' = [pc EXCEPT ![t] = to],
         UNCHANGED <<sending, flight, closed>>
  PROVE  RightInv'
<1>1. Driving' = Driving
  BY DEF Driving, DrivingAt, FlagType
<1>. QED
  BY <1>1 DEF RightInv

\* The thread that has the right to send gives it up.
LEMMA RightEnds ==
  ASSUME FlagType, RightInv, NEW t \in Threads, NEW to \in Labels \ DrivingAt,
         pc[t] \in DrivingAt, pc' = [pc EXCEPT ![t] = to],
         UNCHANGED <<flight, closed>>
  PROVE  RightInv'
<1>1. SUFFICES ASSUME ~ closed PROVE Driving' = {} /\ flight' = <<>>
  BY DEF RightInv
<1>2. t \in Driving
  BY DEF Driving, DrivingAt
<1>3. (\A u \in Driving : t = u) /\ flight = <<>>
  BY <1>1, <1>2 DEF RightInv
<1>4. Driving' = {}
  BY <1>3 DEF Driving, DrivingAt, FlagType
<1>. QED
  BY <1>3, <1>4

\* The steps of a thread that is not behind the exchange and does not get there.
LEMMA CloseStays ==
  ASSUME FlagType, CloseInv, NEW t \in Threads, NEW to \in Labels \ ClosingAt,
         pc[t] \notin ClosingAt, pc' = [pc EXCEPT ![t] = to],
         UNCHANGED <<closed, socketOpen, disconnects>>
  PROVE  CloseInv'
<1>1. \A u \in Threads : pc'[u] = pc[u] \/ pc'[u] \notin ClosingAt
  BY DEF FlagType
<1>. QED
  BY <1>1 DEF CloseInv, ClosingAt, DisconnectedOnce

LEMMA NextInv == IInv /\ [Next]_vars => IInv'
<1> SUFFICES ASSUME IInv, [Next]_vars PROVE IInv'
  OBVIOUS
<1>0. /\ FlagType /\ RightInv /\ CloseInv
      /\ closed \in BOOLEAN /\ sending \in BOOLEAN /\ socketOpen \in BOOLEAN
      /\ pc \in [Threads -> Labels] /\ disconnects \in Nat
      /\ \E S : flight \in Seq(S)
  BY DEF IInv, FlagType
<1>. USE DEF Goto, flags, queues, kernel, threads, history
<1>1. ASSUME NEW t \in Threads, NEW b \in Buffers, SendBegin(t, b) PROVE IInv'
  <2>1. /\ pc[t] = "idle" /\ pc' = [pc EXCEPT ![t] = "push"]
        /\ UNCHANGED <<closed, sending, socketOpen, flight, disconnects>>
    BY <1>1 DEF SendBegin
  <2>2. "push" \in Labels \ DrivingAt /\ "push" \in Labels \ ClosingAt
    BY DEF Labels, DrivingAt, ClosingAt
  <2>3. pc[t] \notin DrivingAt /\ pc[t] \notin ClosingAt
    BY <2>1 DEF DrivingAt, ClosingAt
  <2>4. FlagType'
    BY <1>0, <2>1, <2>2 DEF FlagType
  <2>. QED
    BY <1>0, <2>1, <2>2, <2>3, <2>4, RightStays, CloseStays DEF IInv
<1>2. ASSUME NEW t \in Threads, CloseBegin(t) PROVE IInv'
  <2>1. /\ pc[t] = "idle" /\ pc' = [pc EXCEPT ![t] = "close"]
        /\ UNCHANGED <<closed, sending, socketOpen, flight, disconnects>>
    BY <1>2 DEF CloseBegin
  <2>2. "close" \in Labels \ DrivingAt /\ "close" \in Labels \ ClosingAt
    BY DEF Labels, DrivingAt, ClosingAt
  <2>3. pc[t] \notin DrivingAt /\ pc[t] \notin ClosingAt
    BY <2>1 DEF DrivingAt, ClosingAt
  <2>4. FlagType'
    BY <1>0, <2>1, <2>2 DEF FlagType
  <2>. QED
    BY <1>0, <2>1, <2>2, <2>3, <2>4, RightStays, CloseStays DEF IInv
<1>3. ASSUME NEW t \in Threads, SendPush(t) PROVE IInv'
  <2>1. /\ pc[t] = "push" /\ sending' = TRUE
        /\ pc' = [pc EXCEPT ![t] = IF sending THEN "idle" ELSE "pop"]
        /\ UNCHANGED <<closed, socketOpen, flight, disconnects>>
    BY <1>3 DEF SendPush, ExchangeSending
  <2>2. pc[t] \notin DrivingAt /\ pc[t] \notin ClosingAt
    BY <2>1 DEF DrivingAt, ClosingAt
  <2>3. (IF sending THEN "idle" ELSE "pop") \in Labels \ ClosingAt
    BY DEF Labels, ClosingAt
  <2>4. FlagType'
    BY <1>0, <2>1, <2>3 DEF FlagType
  <2>5. RightInv'
    <3>1. CASE sending
      <4>1. pc' = [pc EXCEPT ![t] = "idle"] /\ "idle" \in Labels \ DrivingAt
        BY <2>1, <3>1 DEF Labels, DrivingAt
      <4>2. UNCHANGED <<sending, flight>>
        BY <2>1, <3>1, <1>0
      <4>. QED
        BY <4>1, <4>2, <2>1, <2>2, <1>0, RightStays
    <3>2. CASE ~ sending
      <4>1. SUFFICES ASSUME ~ closed
                     PROVE /\ \A u, v \in Driving' : u = v
                           /\ flight' = <<>> /\ sending'
        BY <2>1 DEF RightInv
      <4>2. Driving = {} /\ flight = <<>>
        BY <4>1, <3>2, <1>0 DEF RightInv
      <4>3. \A u \in Driving' : u = t
        BY <4>2, <2>1, <1>0 DEF Driving
      <4>. QED
        BY <4>2, <4>3, <2>1
    <3>. QED
      BY <3>1, <3>2
  <2>. QED
    BY <1>0, <2>1, <2>2, <2>3, <2>4, <2>5, CloseStays DEF IInv
<1>4. ASSUME NEW t \in Threads, ProcessPop(t) PROVE IInv'
  <2>1. PICK to \in {"clear", "post"} : pc' = [pc EXCEPT ![t] = to]
    BY <1>4 DEF ProcessPop
  <2>2. pc[t] = "pop" /\ UNCHANGED <<closed, sending, socketOpen, flight, disconnects>>
    BY <1>4 DEF ProcessPop
  <2>3. to \in DrivingAt /\ to \in Labels \ ClosingAt /\ pc[t] \in DrivingAt /\ pc[t] \notin ClosingAt
    BY <2>2 DEF Labels, DrivingAt, ClosingAt
  <2>4. FlagType'
    BY <1>0, <2>1, <2>2, <2>3 DEF FlagType
  <2>. QED
    BY <1>0, <2>1, <2>2, <2>3, <2>4, RightMoves, CloseStays DEF IInv
<1>5. ASSUME NEW t \in Threads, ProcessClear(t) PROVE IInv'
  <2>1. /\ pc[t] = "clear" /\ pc' = [pc EXCEPT ![t] = "idle"] /\ sending' = FALSE
        /\ UNCHANGED <<closed, socketOpen, flight, disconnects>>
    BY <1>5 DEF ProcessClear
  <2>2. "idle" \in Labels \ DrivingAt /\ "idle" \in Labels \ ClosingAt
    BY DEF Labels, DrivingAt, ClosingAt
  <2>3. pc[t] \in DrivingAt /\ pc[t] \notin ClosingAt
    BY <2>1 DEF DrivingAt, ClosingAt
  <2>4. FlagType'
    BY <1>0, <2>1, <2>2 DEF FlagType
  <2>. QED
    BY <1>0, <2>1, <2>2, <2>3, <2>4, RightEnds, CloseStays DEF IInv
<1>6. ASSUME NEW t \in Threads, PostAccepted(t) PROVE IInv'
  <2>1. /\ pc[t] = "post" /\ pc' = [pc EXCEPT ![t] = "store"]
        /\ flight' = Append(flight, local[t])
        /\ UNCHANGED <<closed, sending, socketOpen, disconnects>>
    BY <1>6 DEF PostAccepted
  <2>2. "store" \in Labels \ ClosingAt /\ pc[t] \notin ClosingAt
    BY <2>1 DEF Labels, ClosingAt
  <2>3. (\E S : flight' \in Seq(S)) /\ Len(flight') = Len(flight) + 1 /\ flight' # <<>>
    BY <1>0, <2>1, FlightGrows
  <2>4. FlagType'
    BY <1>0, <2>1, <2>2, <2>3 DEF FlagType
  <2>5. RightInv'
    <3>1. SUFFICES ASSUME ~ closed PROVE Driving' = {} /\ Len(flight') = 1 /\ sending'
      BY <2>1, <2>3 DEF RightInv
    <3>2. t \in Driving
      BY <2>1 DEF Driving
    <3>3. (\A u \in Driving : u = t) /\ flight = <<>> /\ sending
      BY <3>1, <3>2, <1>0 DEF RightInv
    <3>4. Driving' = {}
      BY <3>3, <2>1, <1>0 DEF Driving
    <3>. QED
      BY <3>3, <3>4, <2>1, <2>3
  <2>. QED
    BY <1>0, <2>1, <2>2, <2>4, <2>5, CloseStays DEF IInv
<1>7. ASSUME NEW t \in Threads, PostRefused(t) PROVE IInv'
  <2>1. /\ pc[t] = "post" /\ pc' = [pc EXCEPT ![t] = "close"]
        /\ UNCHANGED <<closed, sending, socketOpen, flight, disconnects>>
    BY <1>7 DEF PostRefused
  <2>2. "close" \in Labels \ DrivingAt /\ "close" \in Labels \ ClosingAt
    BY DEF Labels, DrivingAt, ClosingAt
  <2>3. pc[t] \in DrivingAt /\ pc[t] \notin ClosingAt
    BY <2>1 DEF DrivingAt, ClosingAt
  <2>4. FlagType'
    BY <1>0, <2>1, <2>2 DEF FlagType
  <2>. QED
    BY <1>0, <2>1, <2>2, <2>3, <2>4, RightEnds, CloseStays DEF IInv
<1>8. ASSUME NEW t \in Threads, ProcessStore(t) PROVE IInv'
  <2>1. /\ pc[t] = "store" /\ pc' = [pc EXCEPT ![t] = "idle"]
        /\ UNCHANGED <<closed, sending, socketOpen, flight, disconnects>>
    BY <1>8 DEF ProcessStore
  <2>2. "idle" \in Labels \ DrivingAt /\ "idle" \in Labels \ ClosingAt
    BY DEF Labels, DrivingAt, ClosingAt
  <2>3. pc[t] \notin DrivingAt /\ pc[t] \notin ClosingAt
    BY <2>1 DEF DrivingAt, ClosingAt
  <2>4. FlagType'
    BY <1>0, <2>1, <2>2 DEF FlagType
  <2>. QED
    BY <1>0, <2>1, <2>2, <2>3, <2>4, RightStays, CloseStays DEF IInv
<1>9. ASSUME NEW w \in Workers, CompletionArrives(w) PROVE IInv'
  <2>0. w \in Threads
    BY DEF Threads
  <2>1. /\ pc[w] = "idle" /\ pc' = [pc EXCEPT ![w] = "take"]
        /\ flight # <<>> /\ flight' = Tail(flight)
        /\ UNCHANGED <<closed, sending, socketOpen, disconnects>>
    BY <1>9 DEF CompletionArrives, Completed
  <2>2. "take" \in Labels \ ClosingAt /\ pc[w] \notin ClosingAt
    BY <2>1 DEF Labels, ClosingAt
  <2>3. (\E S : flight' \in Seq(S)) /\ (Len(flight) = 1 => flight' = <<>>)
    BY <1>0, <2>1, FlightShrinks
  <2>4. FlagType'
    BY <1>0, <2>0, <2>1, <2>2, <2>3 DEF FlagType
  <2>5. RightInv'
    <3>1. SUFFICES ASSUME ~ closed
                   PROVE  (\A u, v \in Driving' : u = v) /\ flight' = <<>> /\ sending'
      BY <2>1 DEF RightInv
    <3>2. Driving = {} /\ Len(flight) = 1 /\ sending
      BY <3>1, <2>1, <1>0 DEF RightInv
    <3>3. \A u \in Driving' : u = w
      BY <3>2, <2>0, <2>1, <1>0 DEF Driving
    <3>. QED
      BY <3>2, <3>3, <2>1, <2>3
  <2>. QED
    BY <1>0, <2>0, <2>1, <2>2, <2>4, <2>5, CloseStays DEF IInv
<1>10. ASSUME NEW w \in Workers, CompletionFails(w) \/ CompletionSwallowed(w) PROVE IInv'
  <2>0. w \in Threads
    BY DEF Threads
  <2>1. /\ pc[w] = "idle"
        /\ flight # <<>> /\ flight' = Tail(flight)
        /\ UNCHANGED <<closed, sending, socketOpen, disconnects>>
    BY <1>10 DEF CompletionFails, CompletionSwallowed
  <2>2. PICK to \in {"close", "idle"} : pc' = [pc EXCEPT ![w] = to]
    BY <1>0, <1>10, <2>0, <2>1 DEF CompletionFails, CompletionSwallowed
  <2>3. to \in Labels \ ClosingAt /\ pc[w] \notin ClosingAt
    BY <2>1 DEF Labels, ClosingAt
  <2>4. (\E S : flight' \in Seq(S)) /\ (Len(flight) = 1 => flight' = <<>>)
    BY <1>0, <2>1, FlightShrinks
  <2>5. FlagType'
    BY <1>0, <2>0, <2>1, <2>2, <2>3, <2>4 DEF FlagType
  <2>6. RightInv'
    <3>1. SUFFICES ASSUME ~ closed PROVE Driving' = {} /\ flight' = <<>>
      BY <2>1 DEF RightInv
    <3>2. Driving = {} /\ Len(flight) = 1
      BY <3>1, <2>1, <1>0 DEF RightInv
    <3>3. Driving' = {}
      BY <3>2, <2>0, <2>2, <1>0 DEF Driving
    <3>. QED
      BY <3>2, <3>3, <2>4
  <2>. QED
    BY <1>0, <2>0, <2>1, <2>2, <2>3, <2>5, <2>6, CloseStays DEF IInv
<1>11. ASSUME NEW t \in Threads, CompletionTake(t) PROVE IInv'
  <2>1. /\ pc[t] = "take" /\ pc' = [pc EXCEPT ![t] = "requeue"]
        /\ UNCHANGED <<closed, sending, socketOpen, flight, disconnects>>
    BY <1>11 DEF CompletionTake
  <2>2. "requeue" \in DrivingAt /\ "requeue" \in Labels \ ClosingAt
    BY DEF Labels, DrivingAt, ClosingAt
  <2>3. pc[t] \in DrivingAt /\ pc[t] \notin ClosingAt
    BY <2>1 DEF DrivingAt, ClosingAt
  <2>4. FlagType'
    BY <1>0, <2>1, <2>2 DEF FlagType
  <2>. QED
    BY <1>0, <2>1, <2>2, <2>3, <2>4, RightMoves, CloseStays DEF IInv
<1>12. ASSUME NEW t \in Threads, CompletionRequeue(t) PROVE IInv'
  <2>1. /\ pc[t] = "requeue" /\ UNCHANGED <<closed, socketOpen, flight, disconnects>>
        /\ \/ pc' = [pc EXCEPT ![t] = "pop"] /\ sending' = sending
           \/ pc' = [pc EXCEPT ![t] = "idle"] /\ sending' = FALSE
    BY <1>12 DEF CompletionRequeue, ContinueSending
  <2>2. /\ "pop" \in DrivingAt /\ "pop" \in Labels \ ClosingAt
        /\ "idle" \in Labels \ DrivingAt /\ "idle" \in Labels \ ClosingAt
    BY DEF Labels, DrivingAt, ClosingAt
  <2>3. pc[t] \in DrivingAt /\ pc[t] \notin ClosingAt
    BY <2>1 DEF DrivingAt, ClosingAt
  <2>4. CASE pc' = [pc EXCEPT ![t] = "pop"] /\ sending' = sending
    <3>1. FlagType'
      BY <1>0, <2>1, <2>2, <2>4 DEF FlagType
    <3>. QED
      BY <1>0, <2>1, <2>2, <2>3, <2>4, <3>1, RightMoves, CloseStays DEF IInv
  <2>5. CASE pc' = [pc EXCEPT ![t] = "idle"] /\ sending' = FALSE
    <3>1. FlagType'
      BY <1>0, <2>1, <2>2, <2>5 DEF FlagType
    <3>. QED
      BY <1>0, <2>1, <2>2, <2>3, <2>5, <3>1, RightEnds, CloseStays DEF IInv
  <2>. QED
    BY <2>1, <2>4, <2>5
<1>13. ASSUME NEW t \in Threads, CloseExchange(t) PROVE IInv'
  <2>1. /\ pc[t] = "close" /\ closed' = TRUE
        /\ pc' = [pc EXCEPT ![t] = IF closed THEN "idle" ELSE "unsend"]
        /\ UNCHANGED <<sending, socketOpen, flight, disconnects>>
    BY <1>13 DEF CloseExchange
  <2>2. FlagType'
    BY <1>0, <2>1 DEF FlagType, Labels
  <2>3. RightInv'
    BY <2>1 DEF RightInv
  <2>4. CloseInv'
    <3>1. CASE closed
      <4>1. pc' = [pc EXCEPT ![t] = "idle"] /\ "idle" \in Labels \ ClosingAt /\ pc[t] \notin ClosingAt
        BY <2>1, <3>1 DEF Labels, ClosingAt
      <4>2. UNCHANGED <<closed, socketOpen, disconnects>>
        BY <1>0, <2>1, <3>1
      <4>. QED
        BY <1>0, <4>1, <4>2, CloseStays
    <3>2. CASE ~ closed
      <4>1. /\ \A u \in Threads : pc[u] \notin ClosingAt
            /\ disconnects = 0 /\ socketOpen
        BY <1>0, <3>2 DEF CloseInv
      <4>2. \A u \in Threads : IF u = t THEN pc'[u] = "unsend" ELSE pc'[u] \notin ClosingAt
        BY <1>0, <2>1, <3>2, <4>1
      <4>3. ~ disconnects = 1 /\ disconnects <= 1
        BY <4>1
      <4>. QED
        BY <2>1, <4>1, <4>2, <4>3 DEF CloseInv, ClosingAt, DisconnectedOnce
    <3>. QED
      BY <3>1, <3>2
  <2>. QED
    BY <2>2, <2>3, <2>4 DEF IInv
<1>14. ASSUME NEW t \in Threads,
              CloseUnsend(t) \/ CloseNotify(t) \/ CloseSocket(t) \/ CloseDiscard(t)
       PROVE  IInv'
  <2>1. pc[t] \in ClosingAt /\ closed /\ UNCHANGED <<closed, flight>>
    BY <1>0, <1>14 DEF CloseUnsend, CloseNotify, CloseSocket, CloseDiscard, CloseInv, ClosingAt
  <2>2. RightInv'
    BY <2>1 DEF RightInv
  <2>3. \A u \in Threads : u # t => pc[u] \notin ClosingAt
    BY <1>0, <2>1 DEF CloseInv
  <2>4. /\ pc[t] \in {"unsend", "notify"} => disconnects = 0 /\ socketOpen
        /\ pc[t] = "closesocket" => disconnects = 1 /\ socketOpen
        /\ DisconnectedOnce
    BY <1>0 DEF CloseInv
  <2>5. CASE CloseUnsend(t)
    <3>1. /\ pc[t] = "unsend" /\ pc' = [pc EXCEPT ![t] = "notify"] /\ sending' = FALSE
          /\ UNCHANGED <<socketOpen, disconnects>>
      BY <2>5 DEF CloseUnsend
    <3>2. \A u \in Threads : IF u = t THEN pc'[u] = "notify" ELSE pc'[u] \notin ClosingAt
      BY <1>0, <2>3, <3>1
    <3>3. FlagType'
      BY <1>0, <2>1, <3>1 DEF FlagType, Labels
    <3>4. CloseInv'
      BY <2>1, <2>4, <3>1, <3>2 DEF CloseInv, ClosingAt, DisconnectedOnce
    <3>. QED
      BY <2>2, <3>3, <3>4 DEF IInv
  <2>6. CASE CloseNotify(t)
    <3>1. /\ pc[t] = "notify" /\ pc' = [pc EXCEPT ![t] = "closesocket"]
          /\ disconnects' = disconnects + 1
          /\ UNCHANGED <<sending, socketOpen>>
      BY <2>6 DEF CloseNotify
    <3>2. \A u \in Threads : IF u = t THEN pc'[u] = "closesocket" ELSE pc'[u] \notin ClosingAt
      BY <1>0, <2>3, <3>1
    <3>3. FlagType'
      BY <1>0, <2>1, <3>1 DEF FlagType, Labels
    <3>4. disconnects' = 1 /\ socketOpen'
      BY <2>4, <3>1
    <3>5. CloseInv'
      BY <2>1, <3>2, <3>4 DEF CloseInv, ClosingAt, DisconnectedOnce
    <3>. QED
      BY <2>2, <3>3, <3>5 DEF IInv
  <2>7. CASE CloseSocket(t)
    <3>1. /\ pc[t] = "closesocket" /\ pc' = [pc EXCEPT ![t] = "discard"]
          /\ socketOpen' = FALSE
          /\ UNCHANGED <<sending, disconnects>>
      BY <2>7 DEF CloseSocket
    <3>2. \A u \in Threads : IF u = t THEN pc'[u] = "discard" ELSE pc'[u] \notin ClosingAt
      BY <1>0, <2>3, <3>1
    <3>3. FlagType'
      BY <1>0, <2>1, <3>1 DEF FlagType, Labels
    <3>4. disconnects' = 1
      BY <2>4, <3>1
    <3>5. CloseInv'
      BY <2>1, <3>2, <3>4 DEF CloseInv, ClosingAt, DisconnectedOnce
    <3>. QED
      BY <2>2, <3>3, <3>5 DEF IInv
  <2>8. CASE CloseDiscard(t)
    <3>1. /\ pc[t] = "discard" /\ pc' = [pc EXCEPT ![t] = "idle"]
          /\ UNCHANGED <<sending, socketOpen, disconnects>>
      BY <2>8 DEF CloseDiscard
    <3>2. \A u \in Threads : pc'[u] \notin ClosingAt
      BY <1>0, <2>3, <3>1 DEF ClosingAt
    <3>3. FlagType'
      BY <1>0, <2>1, <3>1 DEF FlagType, Labels
    <3>4. CloseInv'
      BY <2>1, <2>4, <3>1, <3>2 DEF CloseInv, ClosingAt, DisconnectedOnce
    <3>. QED
      BY <2>2, <3>3, <3>4 DEF IInv
  <2>. QED
    BY <1>14, <2>5, <2>6, <2>7, <2>8
<1>15. CASE UNCHANGED vars
  <2>1. UNCHANGED <<closed, sending, socketOpen, pc, disconnects, flight>>
    BY <1>15 DEF vars
  <2>2. Driving' = Driving
    BY <2>1 DEF Driving
  <2>3. FlagType'
    BY <1>0, <2>1 DEF FlagType
  <2>4. RightInv'
    BY <1>0, <2>1, <2>2 DEF RightInv
  <2>5. CloseInv'
    BY <1>0, <2>1 DEF CloseInv, DisconnectedOnce
  <2>. QED
    BY <2>3, <2>4, <2>5 DEF IInv
<1>. QED
  BY <1>1, <1>2, <1>3, <1>4, <1>5, <1>6, <1>7, <1>8, <1>9, <1>10, <1>11, <1>12, <1>13, <1>14,
     <1>15
  DEF Next, Proceed, Complete

-----------------------------------------------------------------------------
(* What follows *)

\* Who has the right to send is one thread, or the kernel with one WSASend.
LEMMA RightCounts == FlagType /\ RightInv => SingleOutstanding
<1> SUFFICES ASSUME FlagType, RightInv, ~ closed
             PROVE  Len(flight) + Cardinality(Driving) <= 1
  BY DEF SingleOutstanding
<1>1. PICK S : flight \in Seq(S)
  BY DEF FlagType
<1>2. CASE Driving = {}
  <2>1. Cardinality(Driving) = 0
    BY <1>2, FS_EmptySet
  <2>2. Len(flight) \in Nat /\ Len(flight) <= 1
    <3>1. CASE flight = <<>>
      <4>1. Len(flight) = 0
        BY <3>1
      <4>. QED
        BY <4>1
    <3>2. CASE flight # <<>>
      <4>1. Len(flight) = 1
        BY <3>2, Zenon DEF RightInv
      <4>. QED
        BY <4>1
    <3>. QED
      BY <3>1, <3>2
  <2>. QED
    BY <2>1, <2>2
<1>3. ASSUME NEW t \in Driving PROVE Len(flight) + Cardinality(Driving) <= 1
  <2>1. Driving = {t}
    BY <1>3 DEF RightInv
  <2>2. Cardinality(Driving) = 1
    BY <2>1, FS_Singleton
  <2>3. flight = <<>>
    BY <2>1 DEF RightInv
  <2>4. Len(flight) = 0
    BY <2>3
  <2>. QED
    BY <2>2, <2>4
<1>. QED
  BY <1>2, <1>3

\* _sending does what it is there for: as long as the session is open, one
\* WSASend is outstanding at most, and no thread is about to issue a second.
THEOREM OneSend == Spec => []SingleOutstanding
<1>1. IInv => SingleOutstanding
  BY RightCounts DEF IInv
<1>. QED
  BY <1>1, InitInv, NextInv, PTL DEF Spec

\* The owner of a session is told of its end once, and before the socket is
\* closed, however many threads close it.
THEOREM Once == Spec => []DisconnectedOnce
<1>1. IInv => DisconnectedOnce
  BY DEF IInv, CloseInv
<1>. QED
  BY <1>1, InitInv, NextInv, PTL DEF Spec

-----------------------------------------------------------------------------
(* What Only selects *)

\* Induction, by the least counterexample.
LEMMA Least ==
  ASSUME NEW T, T \subseteq Nat, T # {}
  PROVE  \E n \in T : \A m \in T : n <= m
<1> DEFINE R == {ss \in Nat \X Nat : ss[1] < ss[2]}
<1>1. IsWellFoundedOn(R, Nat)
  BY NatLessThanWellFounded DEF OpToRel
<1>2. \A m, n \in Nat : m < n => <<m, n>> \in R
  OBVIOUS
<1>. HIDE DEF R
<1>3. PICK n \in T : \A m \in T : <<m, n>> \notin R
  BY <1>1, WFMin
<1> SUFFICES ASSUME NEW m \in T PROVE n <= m
  OBVIOUS
<1>4. m \in Nat /\ n \in Nat
  OBVIOUS
<1>5. ~ (m < n)
  BY <1>2, <1>3, <1>4
<1>. QED
  BY <1>4, <1>5

\* Of a set of sequences that is not empty, some member is empty, or becomes a
\* sequence outside the set when its last element is taken away.
LEMMA LeastSequence ==
  ASSUME NEW X, NEW Bad, Bad \subseteq Seq(X), Bad # {}
  PROVE  \/ <<>> \in Bad
         \/ \E r \in Seq(X), b \in X : Append(r, b) \in Bad /\ r \notin Bad
<1> DEFINE Lengths == {n \in Nat : \E s \in Bad : Len(s) = n}
<1>1. PICK n \in Lengths : \A m \in Lengths : n <= m
  <2>1. \A s \in Bad : Len(s) \in Nat
    OBVIOUS
  <2>2. Lengths \subseteq Nat /\ Lengths # {}
    BY <2>1
  <2>. HIDE DEF Lengths
  <2>. QED
    BY <2>2, Least
<1>2. PICK s \in Bad : Len(s) = n
  OBVIOUS
<1>3. CASE s # <<>>
  <2>1. PICK r \in Seq(X), b \in X : s = Append(r, b)
    BY <1>3, SequenceEmptyOrAppend
  <2>2. Len(r) \in Nat /\ n = Len(r) + 1
    BY <1>2, <2>1
  <2>3. Len(r) \notin Lengths
    <3>1. ~ (n <= Len(r))
      BY <2>2
    <3>. QED
      BY <1>1, <3>1
  <2>4. r \notin Bad
    BY <2>2, <2>3
  <2>. QED
    BY <2>1, <2>4
<1>. QED
  BY <1>2, <1>3

\* Only, as far as the first elements go.
OnlyUpTo(s, S, f) ==
  /\ f = [i \in 0 .. Len(s) |-> f[i]]
  /\ f[0] = <<>>
  /\ \A i \in 1 .. Len(s) : f[i] = IF s[i] \in S THEN Append(f[i - 1], s[i]) ELSE f[i - 1]

\* The recursion of Only is one: every s has a function that satisfies it.
LEMMA OnlyExists ==
  ASSUME NEW X, NEW S
  PROVE  \A s \in Seq(X) : \E f : OnlyUpTo(s, S, f)
<1> DEFINE Has(s) == \E f : OnlyUpTo(s, S, f)
           Bad == {s \in Seq(X) : ~ Has(s)}
<1>1. <<>> \notin Bad
  <2> DEFINE f == [i \in 0 .. 0 |-> <<>>]
  <2>1. f[0] = <<>> /\ f = [i \in 0 .. 0 |-> f[i]] /\ Len(<<>>) = 0
    OBVIOUS
  <2>. HIDE DEF f
  <2>2. OnlyUpTo(<<>>, S, f)
    BY <2>1 DEF OnlyUpTo
  <2>. QED
    BY <2>2
<1>2. ASSUME NEW r \in Seq(X), NEW b \in X, r \notin Bad PROVE Append(r, b) \notin Bad
  <2>1. PICK f : OnlyUpTo(r, S, f)
    BY <1>2
  <2> DEFINE s == Append(r, b)
             last == IF b \in S THEN Append(f[Len(r)], b) ELSE f[Len(r)]
             g == [i \in 0 .. Len(s) |-> IF i = Len(s) THEN last ELSE f[i]]
  <2>2. /\ Len(r) \in Nat /\ Len(s) = Len(r) + 1 /\ s[Len(s)] = b
        /\ \A i \in 1 .. Len(r) : s[i] = r[i]
    BY AppendProperties
  <2>3. ASSUME NEW i \in 1 .. Len(s)
        PROVE  g[i] = IF s[i] \in S THEN Append(g[i - 1], s[i]) ELSE g[i - 1]
    <3>1. g[i - 1] = f[i - 1]
      BY <2>2
    <3>2. CASE i = Len(s)
      BY <2>2, <3>1, <3>2
    <3>3. CASE i # Len(s)
      <4>1. i \in 1 .. Len(r) /\ g[i] = f[i]
        BY <2>2, <3>3
      <4>. QED
        BY <2>1, <2>2, <3>1, <4>1 DEF OnlyUpTo
    <3>. QED
      BY <3>2, <3>3
  <2>4. g[0] = <<>>
    BY <2>1, <2>2 DEF OnlyUpTo
  <2>5. OnlyUpTo(s, S, g)
    <3>1. g = [i \in 0 .. Len(s) |-> g[i]]
      OBVIOUS
    <3>. HIDE DEF g
    <3>. QED
      BY <2>3, <2>4, <3>1 DEF OnlyUpTo
  <2>. HIDE DEF g
  <2>. QED
    BY <2>5
<1>3. Bad = {}
  <2>1. Bad \subseteq Seq(X)
    OBVIOUS
  <2>. HIDE DEF Bad
  <2>. QED
    BY <1>1, <1>2, <2>1, LeastSequence
<1>. QED
  BY <1>3

\* Only is what the recursion leads to, and the recursion is sound.
LEMMA OnlyIs ==
  ASSUME NEW X, NEW s \in Seq(X), NEW S
  PROVE  \E f : OnlyUpTo(s, S, f) /\ Only(s, S) = f[Len(s)]
<1> DEFINE upTo == CHOOSE f : f = [i \in 0 .. Len(s) |->
                     IF i = 0 THEN <<>>
                     ELSE IF s[i] \in S THEN Append(f[i - 1], s[i]) ELSE f[i - 1]]
<1>1. PICK f : OnlyUpTo(s, S, f)
  BY OnlyExists
<1>2. f = [i \in 0 .. Len(s) |->
             IF i = 0 THEN <<>>
             ELSE IF s[i] \in S THEN Append(f[i - 1], s[i]) ELSE f[i - 1]]
  <2> DEFINE h == [i \in 0 .. Len(s) |->
             IF i = 0 THEN <<>>
             ELSE IF s[i] \in S THEN Append(f[i - 1], s[i]) ELSE f[i - 1]]
  <2>1. \A i \in 0 .. Len(s) : f[i] = h[i]
    BY <1>1 DEF OnlyUpTo
  <2>2. h = [i \in 0 .. Len(s) |-> h[i]]
    OBVIOUS
  <2>. HIDE DEF h
  <2>3. f = h
    BY <1>1, <2>1, <2>2
  <2>. QED
    BY <2>3 DEF h
<1>3. upTo = [i \in 0 .. Len(s) |->
                IF i = 0 THEN <<>>
                ELSE IF s[i] \in S THEN Append(upTo[i - 1], s[i]) ELSE upTo[i - 1]]
  BY <1>2
<1>4. Len(s) \in Nat
  OBVIOUS
<1>5. Only(s, S) = upTo[Len(s)]
  BY DEF Only
<1>. HIDE DEF upTo
<1>6. OnlyUpTo(s, S, upTo)
  <2>1. upTo = [i \in 0 .. Len(s) |-> upTo[i]]
    BY <1>3
  <2>2. upTo[0] = <<>>
    BY <1>3, <1>4
  <2>3. ASSUME NEW i \in 1 .. Len(s)
        PROVE  upTo[i] = IF s[i] \in S THEN Append(upTo[i - 1], s[i]) ELSE upTo[i - 1]
    <3>1. i \in 0 .. Len(s) /\ i # 0
      BY <1>4
    <3>. QED
      BY <1>3, <3>1, Zenon
  <2>. QED
    BY <2>1, <2>2, <2>3 DEF OnlyUpTo
<1>. QED
  BY <1>5, <1>6

\* How Only goes on from one element to the next; nothing else is used of it.
LEMMA OnlyEmpty == \A S : Only(<<>>, S) = <<>>
<1>. TAKE S
<1>1. <<>> \in Seq({}) /\ Len(<<>>) = 0
  OBVIOUS
<1>2. PICK f : OnlyUpTo(<<>>, S, f) /\ Only(<<>>, S) = f[Len(<<>>)]
  BY <1>1, OnlyIs
<1>. QED
  BY <1>1, <1>2 DEF OnlyUpTo

LEMMA OnlyAppend ==
  ASSUME NEW X, NEW s \in Seq(X), NEW b \in X, NEW S
  PROVE  Only(Append(s, b), S) = IF b \in S THEN Append(Only(s, S), b) ELSE Only(s, S)
<1> DEFINE t == Append(s, b)
<1>1. /\ t \in Seq(X) /\ Len(s) \in Nat /\ Len(t) = Len(s) + 1 /\ t[Len(t)] = b
      /\ \A i \in 1 .. Len(s) : t[i] = s[i]
  BY AppendProperties
<1>2. PICK f : OnlyUpTo(s, S, f) /\ Only(s, S) = f[Len(s)]
  BY OnlyIs
<1>3. PICK g : OnlyUpTo(t, S, g) /\ Only(t, S) = g[Len(t)]
  BY <1>1, OnlyIs
<1> DEFINE Bad == {i \in 0 .. Len(s) : f[i] # g[i]}
<1>4. Bad = {}
  <2>1. SUFFICES ASSUME Bad # {} PROVE FALSE
    OBVIOUS
  <2>2. Bad \subseteq Nat
    OBVIOUS
  <2>3. PICK i \in Bad : \A j \in Bad : i <= j
    <3>. HIDE DEF Bad
    <3>. QED
      BY <2>1, <2>2, Least
  <2>4. i # 0 /\ i \in 1 .. Len(s)
    BY <1>1, <1>2, <1>3 DEF OnlyUpTo
  <2>5. i - 1 \in 0 .. Len(s) /\ ~ (i <= i - 1) /\ i \in 1 .. Len(t)
    BY <1>1, <2>4
  <2>6. f[i - 1] = g[i - 1]
    BY <2>3, <2>5
  <2>7. f[i] = g[i]
    BY <1>1, <1>2, <1>3, <2>4, <2>5, <2>6 DEF OnlyUpTo
  <2>. QED
    BY <2>3, <2>7
<1>5. f[Len(s)] = g[Len(s)]
  BY <1>1, <1>4
<1>6. Len(t) \in 1 .. Len(t) /\ Len(t) - 1 = Len(s)
  BY <1>1
<1>. HIDE DEF t
<1>7. g[Len(t)] = IF b \in S THEN Append(g[Len(s)], b) ELSE g[Len(s)]
  BY <1>1, <1>3, <1>6 DEF OnlyUpTo
<1>. QED
  BY <1>2, <1>3, <1>5, <1>7 DEF t

\* What Only returns is a sequence of the elements that were asked for.
LEMMA OnlyType ==
  ASSUME NEW X, NEW q \in Seq(X), NEW S
  PROVE  Only(q, S) \in Seq(X)
<1> DEFINE Bad == {s \in Seq(X) : Only(s, S) \notin Seq(X)}
<1>1. <<>> \notin Bad
  BY OnlyEmpty
<1>2. ASSUME NEW r \in Seq(X), NEW b \in X, r \notin Bad PROVE Append(r, b) \notin Bad
  <2>1. Only(Append(r, b), S) = IF b \in S THEN Append(Only(r, S), b) ELSE Only(r, S)
    BY OnlyAppend
  <2>2. Only(r, S) \in Seq(X)
    BY <1>2
  <2>3. Append(Only(r, S), b) \in Seq(X)
    BY <2>2, AppendProperties
  <2>. QED
    BY <2>1, <2>2, <2>3
<1>3. Bad = {}
  <2>1. Bad \subseteq Seq(X)
    OBVIOUS
  <2>. HIDE DEF Bad
  <2>. QED
    BY <1>1, <1>2, <2>1, LeastSequence
<1>. QED
  BY <1>3

\* The elements of a sequence that grows, and of two in a row.
LEMMA ElementsAppend ==
  ASSUME NEW X, NEW s \in Seq(X), NEW b \in X
  PROVE  Elements(Append(s, b)) = Elements(s) \cup {b}
<1> DEFINE t == Append(s, b)
<1>1. /\ t \in Seq(X) /\ Len(s) \in Nat /\ Len(t) = Len(s) + 1 /\ t[Len(t)] = b
      /\ \A i \in 1 .. Len(s) : t[i] = s[i]
  BY AppendProperties
<1>2. DOMAIN s = 1 .. Len(s) /\ DOMAIN t = 1 .. Len(t)
  BY <1>1
<1>. HIDE DEF t
<1>3. Elements(t) \subseteq Elements(s) \cup {b}
  BY <1>1, <1>2 DEF Elements
<1>4. Elements(s) \cup {b} \subseteq Elements(t)
  <2>1. \A i \in 1 .. Len(s) : i \in 1 .. Len(t)
    BY <1>1
  <2>2. Len(t) \in 1 .. Len(t)
    BY <1>1
  <2>. QED
    BY <1>1, <1>2, <2>1, <2>2 DEF Elements
<1>. QED
  BY <1>3, <1>4 DEF t

LEMMA ElementsConcat ==
  ASSUME NEW X, NEW s \in Seq(X), NEW t \in Seq(X)
  PROVE  Elements(s \o t) = Elements(s) \cup Elements(t)
<1>1. /\ s \o t \in Seq(X) /\ Len(s) \in Nat /\ Len(t) \in Nat
      /\ Len(s \o t) = Len(s) + Len(t)
      /\ \A i \in 1 .. Len(s) + Len(t) :
           (s \o t)[i] = IF i <= Len(s) THEN s[i] ELSE t[i - Len(s)]
  BY ConcatProperties
<1>2. /\ DOMAIN s = 1 .. Len(s) /\ DOMAIN t = 1 .. Len(t)
      /\ DOMAIN (s \o t) = 1 .. Len(s) + Len(t)
  BY <1>1
<1>3. ASSUME NEW i \in 1 .. Len(s) + Len(t) PROVE (s \o t)[i] \in Elements(s) \cup Elements(t)
  <2>1. CASE i <= Len(s)
    BY <1>1, <1>2, <2>1 DEF Elements
  <2>2. CASE ~ (i <= Len(s))
    <3>1. i - Len(s) \in 1 .. Len(t)
      BY <1>1, <2>2
    <3>. QED
      BY <1>1, <1>2, <2>2, <3>1 DEF Elements
  <2>. QED
    BY <2>1, <2>2
<1>4. ASSUME NEW i \in 1 .. Len(s) PROVE s[i] \in Elements(s \o t)
  <2>1. i \in 1 .. Len(s) + Len(t) /\ i <= Len(s)
    BY <1>1
  <2>. QED
    BY <1>1, <1>2, <2>1 DEF Elements
<1>5. ASSUME NEW i \in 1 .. Len(t) PROVE t[i] \in Elements(s \o t)
  <2>1. /\ i + Len(s) \in 1 .. Len(s) + Len(t) /\ ~ (i + Len(s) <= Len(s))
        /\ (i + Len(s)) - Len(s) = i
    BY <1>1
  <2>2. (s \o t)[i + Len(s)] = t[i]
    BY <1>1, <2>1
  <2>. QED
    BY <1>2, <2>1, <2>2 DEF Elements
<1>6. Elements(s \o t) \subseteq Elements(s) \cup Elements(t)
  BY <1>2, <1>3 DEF Elements
<1>7. Elements(s) \cup Elements(t) \subseteq Elements(s \o t)
  <2>1. \A x \in Elements(s) : \E i \in 1 .. Len(s) : x = s[i]
    BY <1>2 DEF Elements
  <2>2. \A x \in Elements(t) : \E i \in 1 .. Len(t) : x = t[i]
    BY <1>2 DEF Elements
  <2>. QED
    BY <1>4, <1>5, <2>1, <2>2
<1>. QED
  BY <1>6, <1>7

\* Only returns the elements that are in the set, and no other.
LEMMA OnlyElements ==
  ASSUME NEW X, NEW q \in Seq(X), NEW S
  PROVE  Elements(Only(q, S)) = Elements(q) \cap S
<1> DEFINE Bad == {s \in Seq(X) : Elements(Only(s, S)) # Elements(s) \cap S}
<1>1. <<>> \notin Bad
  BY OnlyEmpty DEF Elements
<1>2. ASSUME NEW r \in Seq(X), NEW b \in X, r \notin Bad PROVE Append(r, b) \notin Bad
  <2>1. Only(Append(r, b), S) = IF b \in S THEN Append(Only(r, S), b) ELSE Only(r, S)
    BY OnlyAppend
  <2>2. Only(r, S) \in Seq(X) /\ Elements(Only(r, S)) = Elements(r) \cap S
    BY <1>2, OnlyType
  <2>3. Elements(Append(r, b)) = Elements(r) \cup {b}
    BY ElementsAppend
  <2>4. Elements(Append(Only(r, S), b)) = Elements(Only(r, S)) \cup {b}
    BY <2>2, ElementsAppend
  <2>. QED
    BY <2>1, <2>2, <2>3, <2>4
<1>3. Bad = {}
  <2>1. Bad \subseteq Seq(X)
    OBVIOUS
  <2>. HIDE DEF Bad
  <2>. QED
    BY <1>1, <1>2, <2>1, LeastSequence
<1>. QED
  BY <1>3

\* Appending to the end of a concatenation.
LEMMA AppendConcat ==
  ASSUME NEW X, NEW s \in Seq(X), NEW t \in Seq(X), NEW b \in X
  PROVE  s \o Append(t, b) = Append(s \o t, b)
<1>1. <<b>> \in Seq(X) /\ s \o t \in Seq(X)
  OBVIOUS
<1>2. Append(t, b) = t \o <<b>> /\ Append(s \o t, b) = (s \o t) \o <<b>>
  BY <1>1, AppendIsConcat
<1>. QED
  BY <1>1, <1>2, ConcatAssociative

\* Of two sequences in a row each is selected from for itself.
LEMMA OnlyConcat ==
  ASSUME NEW X, NEW q \in Seq(X), NEW p \in Seq(X), NEW S
  PROVE  Only(q \o p, S) = Only(q, S) \o Only(p, S)
<1> DEFINE Bad == {s \in Seq(X) : Only(q \o s, S) # Only(q, S) \o Only(s, S)}
<1>0. Only(q, S) \in Seq(X)
  BY OnlyType
<1>1. <<>> \notin Bad
  <2>1. q \o <<>> = q /\ Only(q, S) \o <<>> = Only(q, S)
    BY <1>0
  <2>. QED
    BY <2>1, OnlyEmpty
<1>2. ASSUME NEW r \in Seq(X), NEW b \in X, r \notin Bad PROVE Append(r, b) \notin Bad
  <2>1. Only(Append(r, b), S) = IF b \in S THEN Append(Only(r, S), b) ELSE Only(r, S)
    BY OnlyAppend
  <2>2. Only(r, S) \in Seq(X) /\ q \o r \in Seq(X)
    BY OnlyType
  <2>3. q \o Append(r, b) = Append(q \o r, b)
    BY AppendConcat
  <2>4. Only(Append(q \o r, b), S)
          = IF b \in S THEN Append(Only(q \o r, S), b) ELSE Only(q \o r, S)
    BY <2>2, OnlyAppend
  <2>5. Only(q, S) \o Append(Only(r, S), b) = Append(Only(q, S) \o Only(r, S), b)
    BY <1>0, <2>2, AppendConcat
  <2>. QED
    BY <1>2, <2>1, <2>3, <2>4, <2>5
<1>3. Bad = {}
  <2>1. Bad \subseteq Seq(X)
    OBVIOUS
  <2>. HIDE DEF Bad
  <2>. QED
    BY <1>1, <1>2, <2>1, LeastSequence
<1>. QED
  BY <1>3

\* Sets that agree on the elements of q select the same.
LEMMA OnlyAgree ==
  ASSUME NEW X, NEW q \in Seq(X), NEW S, NEW T,
         \A b \in Elements(q) : b \in S <=> b \in T
  PROVE  Only(q, S) = Only(q, T)
<1> DEFINE Agree(s) == \A b \in Elements(s) : b \in S <=> b \in T
           Bad == {s \in Seq(X) : Agree(s) /\ Only(s, S) # Only(s, T)}
<1>1. <<>> \notin Bad
  BY OnlyEmpty
<1>2. ASSUME NEW r \in Seq(X), NEW b \in X, r \notin Bad PROVE Append(r, b) \notin Bad
  <2>1. SUFFICES ASSUME Agree(Append(r, b)) PROVE Only(Append(r, b), S) = Only(Append(r, b), T)
    OBVIOUS
  <2>2. Elements(Append(r, b)) = Elements(r) \cup {b}
    BY ElementsAppend
  <2>3. (b \in S <=> b \in T) /\ Agree(r)
    BY <2>1, <2>2
  <2>4. Only(r, S) = Only(r, T)
    BY <1>2, <2>3
  <2>5. /\ Only(Append(r, b), S) = IF b \in S THEN Append(Only(r, S), b) ELSE Only(r, S)
        /\ Only(Append(r, b), T) = IF b \in T THEN Append(Only(r, T), b) ELSE Only(r, T)
    BY OnlyAppend
  <2>. QED
    BY <2>3, <2>4, <2>5
<1>3. Bad = {}
  <2>1. Bad \subseteq Seq(X)
    OBVIOUS
  <2>. HIDE DEF Bad
  <2>. QED
    BY <1>1, <1>2, <2>1, LeastSequence
<1>. QED
  BY <1>3

\* Selecting twice is selecting what is in both sets.
LEMMA OnlyTwice ==
  ASSUME NEW X, NEW q \in Seq(X), NEW S, NEW T
  PROVE  Only(Only(q, S), T) = Only(q, S \cap T)
<1> DEFINE Bad == {s \in Seq(X) : Only(Only(s, S), T) # Only(s, S \cap T)}
<1>1. <<>> \notin Bad
  BY OnlyEmpty
<1>2. ASSUME NEW r \in Seq(X), NEW b \in X, r \notin Bad PROVE Append(r, b) \notin Bad
  <2>1. /\ Only(Append(r, b), S) = IF b \in S THEN Append(Only(r, S), b) ELSE Only(r, S)
        /\ Only(Append(r, b), S \cap T)
             = IF b \in S \cap T THEN Append(Only(r, S \cap T), b) ELSE Only(r, S \cap T)
    BY OnlyAppend
  <2>2. Only(r, S) \in Seq(X)
    BY OnlyType
  <2>3. Only(Append(Only(r, S), b), T)
          = IF b \in T THEN Append(Only(Only(r, S), T), b) ELSE Only(Only(r, S), T)
    BY <2>2, OnlyAppend
  <2>4. Only(Only(r, S), T) = Only(r, S \cap T)
    BY <1>2
  <2>5. CASE b \in S /\ b \in T
    BY <2>1, <2>3, <2>4, <2>5
  <2>6. CASE b \in S /\ b \notin T
    BY <2>1, <2>3, <2>4, <2>6
  <2>7. CASE b \notin S
    BY <2>1, <2>4, <2>7
  <2>8. Only(Only(Append(r, b), S), T) = Only(Append(r, b), S \cap T)
    BY <2>5, <2>6, <2>7
  <2>. QED
    BY <2>8
<1>3. Bad = {}
  <2>1. Bad \subseteq Seq(X)
    OBVIOUS
  <2>. HIDE DEF Bad
  <2>. QED
    BY <1>1, <1>2, <2>1, LeastSequence
<1>. QED
  BY <1>3

-----------------------------------------------------------------------------
(* The packets in their order: those that have gone out, then the others *)

\* What has gone out of the packets, what a thread or the kernel has in hand of
\* the others, and what the deque has of them.
Rest(w, s, d) == w \o Only(s, Buffers \ Elements(w)) \o Only(d, Buffers \ Elements(w))

\* Every packet is in one of the three parts.
LEMMA RestElements ==
  ASSUME NEW w \in Seq(Buffers), NEW s \in Seq(Buffers), NEW d \in Seq(Buffers)
  PROVE  Elements(Rest(w, s, d)) = Elements(w) \cup Elements(s) \cup Elements(d)
<1> DEFINE S == Buffers \ Elements(w)
           a == Only(s, S)
           b == Only(d, S)
<1>1. a \in Seq(Buffers) /\ b \in Seq(Buffers)
  BY OnlyType
<1>2. Elements(a) = Elements(s) \cap S /\ Elements(b) = Elements(d) \cap S
  BY OnlyElements
<1>3. Elements(s) \subseteq Buffers /\ Elements(d) \subseteq Buffers
  BY DEF Elements
<1>. HIDE DEF a, b
<1>4. w \o a \in Seq(Buffers) /\ (w \o a) \o b \in Seq(Buffers) /\ (w \o a) \o b = w \o (a \o b)
  BY <1>1, ConcatProperties, ConcatAssociative
<1>5. Elements((w \o a) \o b) = Elements(w) \cup Elements(a) \cup Elements(b)
  <2>1. Elements(w \o a) = Elements(w) \cup Elements(a)
    BY <1>1, ElementsConcat
  <2> DEFINE c == w \o a
  <2>2. c \in Seq(Buffers)
    BY <1>4
  <2>. HIDE DEF c
  <2>3. Elements(c \o b) = Elements(c) \cup Elements(b)
    BY <1>1, <2>2, ElementsConcat
  <2>. QED
    BY <2>1, <2>3 DEF c
<1>6. Elements((w \o a) \o b) = Elements(w) \cup Elements(s) \cup Elements(d)
  BY <1>2, <1>3, <1>5
<1>. QED
  BY <1>6 DEF Rest, a, b

\* The types of the parts.
LEMMA RestParts ==
  ASSUME NEW w \in Seq(Buffers), NEW s \in Seq(Buffers), NEW d \in Seq(Buffers)
  PROVE  /\ Only(s, Buffers \ Elements(w)) \in Seq(Buffers)
         /\ Only(d, Buffers \ Elements(w)) \in Seq(Buffers)
         /\ Rest(w, s, d) = w \o (Only(s, Buffers \ Elements(w)) \o Only(d, Buffers \ Elements(w)))
<1> DEFINE a == Only(s, Buffers \ Elements(w))
           b == Only(d, Buffers \ Elements(w))
<1>1. a \in Seq(Buffers) /\ b \in Seq(Buffers)
  BY OnlyType
<1>. HIDE DEF a, b
<1>2. (w \o a) \o b = w \o (a \o b)
  <2>1. PICK p \in Seq(Buffers), q \in Seq(Buffers) : p = a /\ q = b
    BY <1>1
  <2>2. (w \o p) \o q = w \o (p \o q)
    BY ConcatAssociative
  <2>. QED
    BY <2>1, <2>2
<1>. QED
  BY <1>1, <1>2 DEF Rest, a, b

\* A packet that is new goes to the end.
LEMMA RestPush ==
  ASSUME NEW w \in Seq(Buffers), NEW s \in Seq(Buffers), NEW d \in Seq(Buffers),
         NEW b \in Buffers, b \notin Elements(w)
  PROVE  Rest(w, s, Append(d, b)) = Append(Rest(w, s, d), b)
<1> DEFINE S == Buffers \ Elements(w)
<1>1. Only(s, S) \in Seq(Buffers) /\ Only(d, S) \in Seq(Buffers)
  BY OnlyType
<1>2. Only(Append(d, b), S) = Append(Only(d, S), b)
  <2>1. b \in S
    OBVIOUS
  <2>. HIDE DEF S
  <2>2. Only(Append(d, b), S) = IF b \in S THEN Append(Only(d, S), b) ELSE Only(d, S)
    BY OnlyAppend
  <2>. QED
    BY <2>1, <2>2
<1>3. w \o Only(s, S) \in Seq(Buffers)
  BY <1>1
<1>4. (w \o Only(s, S)) \o Append(Only(d, S), b) = Append((w \o Only(s, S)) \o Only(d, S), b)
  <2>. HIDE DEF S
  <2>. QED
    BY <1>1, <1>3, AppendConcat
<1>. QED
  BY <1>2, <1>4 DEF Rest

\* The deque gives its first n packets, without those that have gone out.
LEMMA RestPop ==
  ASSUME NEW w \in Seq(Buffers), NEW d \in Seq(Buffers), NEW n \in 0 .. Len(d),
         NEW gone \in SUBSET Elements(w)
  PROVE  Rest(w, Only(SubSeq(d, 1, n), Buffers \ gone), SubSeq(d, n + 1, Len(d))) = Rest(w, <<>>, d)
<1> DEFINE S == Buffers \ Elements(w)
           first == SubSeq(d, 1, n)
           others == SubSeq(d, n + 1, Len(d))
<1>1. /\ first \in Seq(Buffers) /\ others \in Seq(Buffers) /\ first \o others = d
  <2>1. Len(d) \in Nat /\ n \in Int /\ n + 1 \in Int /\ Len(d) \in Int /\ 1 \in Int
    OBVIOUS
  <2>2. (\A i \in 1 .. n : d[i] \in Buffers) /\ (\A i \in n + 1 .. Len(d) : d[i] \in Buffers)
    OBVIOUS
  <2>3. first \in Seq(Buffers) /\ others \in Seq(Buffers)
    BY <2>1, <2>2, SubSeqProperties
  <2>4. 1 \in 1 .. Len(d) + 1 /\ n \in 1 - 1 .. Len(d) /\ Len(d) \in n .. Len(d)
    BY <2>1
  <2>5. first \o others = SubSeq(d, 1, Len(d))
    BY <2>4, ConcatAdjacentSubSeq
  <2>6. SubSeq(d, 1, Len(d)) = d
    BY SubSeqFull
  <2>. QED
    BY <2>3, <2>5, <2>6
<1>. HIDE DEF first, others
<1>2. Only(Only(first, Buffers \ gone), S) = Only(first, S)
  <2>1. (Buffers \ gone) \cap S = S
    OBVIOUS
  <2>. QED
    BY <1>1, <2>1, OnlyTwice
<1>3. Only(d, S) = Only(first, S) \o Only(others, S)
  <2>. HIDE DEF S
  <2>1. \A p, q \in Seq(Buffers) : Only(p \o q, S) = Only(p, S) \o Only(q, S)
    BY OnlyConcat, SMTT(20)
  <2>. QED
    BY <1>1, <2>1
<1>4. Only(<<>>, S) = <<>> /\ w \o <<>> = w
  BY OnlyEmpty
<1>5. Only(first, S) \in Seq(Buffers) /\ Only(others, S) \in Seq(Buffers)
  BY <1>1, OnlyType
<1>6. (w \o Only(first, S)) \o Only(others, S) = w \o (Only(first, S) \o Only(others, S))
  BY <1>5, ConcatAssociative
<1>. QED
  BY <1>2, <1>3, <1>4, <1>6 DEF Rest, first, others

\* A packet that has gone out may go back to the deque.
LEMMA RestFront ==
  ASSUME NEW w \in Seq(Buffers), NEW s \in Seq(Buffers), NEW d \in Seq(Buffers),
         NEW b \in Elements(w)
  PROVE  Rest(w, s, <<b>> \o d) = Rest(w, s, d)
<1> DEFINE S == Buffers \ Elements(w)
<1>1. b \in Buffers /\ <<b>> \in Seq(Buffers) /\ <<b>> = Append(<<>>, b)
  BY DEF Elements
<1>2. <<>> \in Seq(Buffers)
  OBVIOUS
<1>3. Only(<<b>>, S) = <<>>
  <2>1. b \notin S
    OBVIOUS
  <2>. HIDE DEF S
  <2>2. Only(Append(<<>>, b), S) = IF b \in S THEN Append(Only(<<>>, S), b) ELSE Only(<<>>, S)
    BY <1>1, <1>2, OnlyAppend
  <2>3. Only(<<>>, S) = <<>>
    BY OnlyEmpty
  <2>. QED
    BY <1>1, <2>1, <2>2, <2>3
<1>4. Only(<<b>> \o d, S) = Only(<<b>>, S) \o Only(d, S)
  <2>. HIDE DEF S
  <2> DEFINE c == <<b>>
  <2>1. c \in Seq(Buffers)
    BY <1>1
  <2>. HIDE DEF c
  <2>2. Only(c \o d, S) = Only(c, S) \o Only(d, S)
    BY <2>1, OnlyConcat
  <2>. QED
    BY <2>2 DEF c
<1>5. Only(d, S) \in Seq(Buffers)
  BY OnlyType
<1>6. <<>> \o Only(d, S) = Only(d, S)
  BY <1>5, ConcatEmptySeq
<1>. QED
  BY <1>3, <1>4, <1>6 DEF Rest

\* What was in hand goes out.
LEMMA RestSent ==
  ASSUME NEW w \in Seq(Buffers), NEW s \in Seq(Buffers), NEW d \in Seq(Buffers),
         \A i, j \in DOMAIN Rest(w, s, d) : Rest(w, s, d)[i] = Rest(w, s, d)[j] => i = j
  PROVE  Rest(w \o Only(s, Buffers \ Elements(w)), <<>>, d) = Rest(w, s, d)
<1> DEFINE S == Buffers \ Elements(w)
           a == Only(s, S)
           b == Only(d, S)
           v == w \o a
           T == Buffers \ Elements(v)
           r == v \o b
<1>1. a \in Seq(Buffers) /\ b \in Seq(Buffers)
  BY OnlyType
<1>2. Elements(a) = Elements(s) \cap S /\ Elements(b) = Elements(d) \cap S
  BY OnlyElements
<1>3. r = Rest(w, s, d) /\ \A i, j \in DOMAIN r : r[i] = r[j] => i = j
  BY DEF Rest
<1>4. Elements(s) \subseteq Buffers /\ Elements(d) \subseteq Buffers
  BY DEF Elements
<1>. HIDE DEF a, b
<1>5. v \in Seq(Buffers) /\ Elements(v) = Elements(w) \cup Elements(a)
  BY <1>1, ElementsConcat, ConcatProperties
<1>. HIDE DEF v
<1>6. ASSUME NEW x \in Elements(b), x \in Elements(v) PROVE FALSE
  <2>1. /\ Len(v) \in Nat /\ Len(b) \in Nat /\ DOMAIN v = 1 .. Len(v) /\ DOMAIN b = 1 .. Len(b)
        /\ r \in Seq(Buffers) /\ Len(r) = Len(v) + Len(b) /\ DOMAIN r = 1 .. Len(v) + Len(b)
        /\ \A i \in 1 .. Len(v) + Len(b) : r[i] = IF i <= Len(v) THEN v[i] ELSE b[i - Len(v)]
    <3>1. /\ r \in Seq(Buffers) /\ Len(r) = Len(v) + Len(b)
          /\ \A i \in 1 .. Len(v) + Len(b) : r[i] = IF i <= Len(v) THEN v[i] ELSE b[i - Len(v)]
      BY <1>1, <1>5, ConcatProperties
    <3>. HIDE DEF r
    <3>. QED
      BY <1>1, <1>5, <3>1, LenProperties
  <2>2. PICK i \in 1 .. Len(v) : v[i] = x
    BY <1>6, <2>1 DEF Elements
  <2>3. PICK j \in 1 .. Len(b) : b[j] = x
    BY <1>6, <2>1 DEF Elements
  <2> DEFINE k == j + Len(v)
  <2>4. /\ i \in 1 .. Len(v) + Len(b) /\ i <= Len(v)
        /\ k \in 1 .. Len(v) + Len(b) /\ ~ (k <= Len(v)) /\ k - Len(v) = j /\ i # k
    BY <2>1
  <2>. HIDE DEF r, k
  <2>5. r[i] = x /\ r[k] = x
    BY <2>1, <2>2, <2>3, <2>4
  <2>. QED
    BY <1>3, <2>1, <2>4, <2>5
<1>7. Only(d, T) = b
  <2>1. \A x \in Elements(d) : x \in S <=> x \in T
    BY <1>2, <1>4, <1>5, <1>6
  <2>. HIDE DEF S, T
  <2>. QED
    BY <2>1, OnlyAgree DEF b
<1>8. Only(<<>>, T) = <<>> /\ v \o <<>> = v
  BY <1>5, OnlyEmpty
<1>9. Rest(v, <<>>, d) = r
  BY <1>7, <1>8 DEF Rest
<1>. QED
  BY <1>3, <1>9 DEF v, a

-----------------------------------------------------------------------------
(* The inductive invariant of the packets *)

\* No packet is pushed twice, and no thread is about to push one again.
PushInv ==
  /\ \A i, j \in DOMAIN accepted : accepted[i] = accepted[j] => i = j
  /\ \A t \in Threads : pc[t] = "push" => arg[t] \in Buffers \ Elements(accepted)
  /\ \A t, u \in Threads : pc[t] = "push" /\ pc[u] = "push" /\ arg[t] = arg[u] => t = u

\* The session is open and nothing has gone wrong so far.
Going == ~ Closing /\ ~ swallowed /\ ~ cut

\* The packet has gone out, or the kernel has it.
WentOut(b) == b \in Elements(wire) \/ \E i \in DOMAIN flight : b \in Elements(flight[i])

\* The packets pushed are those that have gone out, then what is in hand of the
\* others, then what the deque has of them.
StreamIs(s) == accepted = Rest(wire, s, deque)

\* A batch is in hand from the time it is taken off the deque to the time it
\* has gone out.  What is in _sendContext, and what the threads make of it, has
\* gone out by the time it counts: only then it is marked as complete or put
\* back into the deque.
StreamInv ==
  Going =>
    /\ complete \subseteq Elements(wire)
    /\ \A b \in Elements(ctx) : WentOut(b)
    /\ \A t \in Threads :
         /\ pc[t] = "store" => \A b \in Elements(local[t]) : WentOut(b)
         /\ pc[t] = "requeue" => Elements(local[t]) \subseteq Elements(wire)
         /\ pc[t] = "post" => StreamIs(local[t])
    /\ \A i \in DOMAIN flight : StreamIs(flight[i])
    /\ flight = <<>> /\ (\A t \in Threads : pc[t] # "post") => StreamIs(<<>>)

\* What ProcessSend takes off the deque, and what it leaves.
LEMMA UsableType ==
  ASSUME NEW s \in Seq(Buffers), NEW n \in 0 .. Len(s)
  PROVE  /\ Usable(SubSeq(s, 1, n)) \in Seq(Buffers)
         /\ SubSeq(s, n + 1, Len(s)) \in Seq(Buffers)
<1>1. Len(s) \in Nat /\ n \in Int /\ n + 1 \in Int /\ Len(s) \in Int /\ 1 \in Int
  OBVIOUS
<1>2. (\A i \in 1 .. n : s[i] \in Buffers) /\ (\A i \in n + 1 .. Len(s) : s[i] \in Buffers)
  OBVIOUS
<1>3. SubSeq(s, 1, n) \in Seq(Buffers) /\ SubSeq(s, n + 1, Len(s)) \in Seq(Buffers)
  BY <1>1, <1>2, SubSeqProperties
<1>. QED
  BY <1>3, OnlyType DEF Usable

\* The types hold; that a thread about to push has a packet is in PushInv.
LEMMA InitType == Init => TypeOK
<1> SUFFICES ASSUME Init PROVE TypeOK
  OBVIOUS
<1>1. "idle" \in Labels /\ "idle" \notin {"take", "requeue"}
  BY DEF Labels
<1>2. <<>> \in Seq(Buffers) /\ <<>> \in Seq(Seq(Buffers)) /\ 0 \in Nat
  OBVIOUS
<1>. QED
  BY <1>1, <1>2 DEF Init, TypeOK, NoArg

LEMMA NextType == TypeOK /\ PushInv /\ [Next]_vars => TypeOK'
<1> SUFFICES ASSUME TypeOK, PushInv, [Next]_vars PROVE TypeOK'
  OBVIOUS
<1>0. /\ closed \in BOOLEAN /\ sending \in BOOLEAN
      /\ deque \in Seq(Buffers) /\ ctx \in Seq(Buffers)
      /\ complete \subseteq Buffers
      /\ socketOpen \in BOOLEAN
      /\ flight \in Seq(Seq(Buffers))
      /\ pc \in [Threads -> Labels]
      /\ \A t \in Threads : pc[t] \in {"take", "requeue"} => t \in Workers
      /\ local \in [Threads -> Seq(Buffers)]
      /\ arg \in [Threads -> Buffers \cup Nat]
      /\ accepted \in Seq(Buffers) /\ wire \in Seq(Buffers)
      /\ resent \in BOOLEAN /\ cut \in BOOLEAN /\ swallowed \in BOOLEAN
      /\ disconnects \in Nat
  BY DEF TypeOK
<1>l. /\ "idle" \in Labels /\ "push" \in Labels /\ "pop" \in Labels /\ "clear" \in Labels
      /\ "post" \in Labels /\ "store" \in Labels /\ "take" \in Labels /\ "requeue" \in Labels
      /\ "close" \in Labels /\ "unsend" \in Labels /\ "notify" \in Labels
      /\ "closesocket" \in Labels /\ "discard" \in Labels
  BY DEF Labels
<1>n. NoArg \in Nat
  BY DEF NoArg
<1>. USE DEF Goto, flags, queues, kernel, threads, history
<1>1. ASSUME NEW t \in Threads, NEW b \in Buffers, SendBegin(t, b) PROVE TypeOK'
  BY <1>0, <1>l, <1>1 DEF SendBegin, TypeOK
<1>2. ASSUME NEW t \in Threads, CloseBegin(t) PROVE TypeOK'
  BY <1>0, <1>l, <1>2 DEF CloseBegin, TypeOK
<1>3. ASSUME NEW t \in Threads, SendPush(t) PROVE TypeOK'
  <2>1. arg[t] \in Buffers
    BY <1>3 DEF SendPush, PushInv
  <2>. QED
    BY <1>0, <1>l, <1>n, <1>3, <2>1 DEF SendPush, PushBack, ExchangeSending, TypeOK
<1>4. ASSUME NEW t \in Threads, ProcessPop(t) PROVE TypeOK'
  <2>1. PICK n \in 0 .. Len(deque) :
          /\ deque' = SubSeq(deque, n + 1, Len(deque))
          /\ local' = [local EXCEPT ![t] = Usable(SubSeq(deque, 1, n))]
    BY <1>4 DEF ProcessPop
  <2>2. deque' \in Seq(Buffers) /\ local' \in [Threads -> Seq(Buffers)]
    BY <1>0, <2>1, UsableType
  <2>3. PICK to \in {"clear", "post"} : pc' = [pc EXCEPT ![t] = to]
    BY <1>4 DEF ProcessPop
  <2>. QED
    BY <1>0, <1>l, <1>4, <2>2, <2>3 DEF ProcessPop, TypeOK
<1>5. ASSUME NEW t \in Threads, ProcessClear(t) PROVE TypeOK'
  BY <1>0, <1>l, <1>5 DEF ProcessClear, TypeOK
<1>6. ASSUME NEW t \in Threads, PostAccepted(t) PROVE TypeOK'
  BY <1>0, <1>l, <1>6 DEF PostAccepted, TypeOK
<1>7. ASSUME NEW t \in Threads, PostRefused(t) PROVE TypeOK'
  BY <1>0, <1>l, <1>7 DEF PostRefused, TypeOK
<1>8. ASSUME NEW t \in Threads, ProcessStore(t) PROVE TypeOK'
  BY <1>0, <1>l, <1>8 DEF ProcessStore, TypeOK
<1>9. ASSUME NEW w \in Workers, CompletionArrives(w) PROVE TypeOK'
  <2>0. w \in Threads
    BY DEF Threads
  <2>1. /\ flight # <<>> /\ flight' = Tail(flight)
        /\ cut' \in BOOLEAN
        /\ pc' = [pc EXCEPT ![w] = "take"]
        /\ UNCHANGED <<flags, queues, socketOpen, local, accepted, swallowed, disconnects>>
    BY <1>9, <1>0 DEF CompletionArrives, Completed
  <2>2. PICK n : n \in 1 .. Total(Head(flight)) /\ Completed(w, n)
    BY <1>9 DEF CompletionArrives
  <2>3. n \in Nat
    BY <2>2
  <2>4. arg' = [arg EXCEPT ![w] = n]
    BY <2>2 DEF Completed
  <2>5. Head(flight) \in Seq(Buffers) /\ Tail(flight) \in Seq(Seq(Buffers))
    BY <1>0, <2>1, HeadTailProperties
  <2>6. resent' \in BOOLEAN /\ wire' \in Seq(Buffers)
    <3>1. \/ wire' = wire /\ resent' = resent
          \/ /\ resent' \in BOOLEAN
             /\ wire' = wire \o Only(Head(flight), Buffers \ Elements(wire))
      BY <2>2, <1>0 DEF Completed
    <3>2. Only(Head(flight), Buffers \ Elements(wire)) \in Seq(Buffers)
      BY <2>5, OnlyType
    <3>3. wire \o Only(Head(flight), Buffers \ Elements(wire)) \in Seq(Buffers)
      BY <1>0, <3>2, ConcatProperties
    <3>. QED
      BY <1>0, <3>1, <3>3
  <2>7. arg' \in [Threads -> Buffers \cup Nat]
    BY <1>0, <2>0, <2>3, <2>4
  <2>8. flight' \in Seq(Seq(Buffers))
    BY <2>1, <2>5
  <2>9. /\ pc' \in [Threads -> Labels]
        /\ \A t \in Threads : pc'[t] \in {"take", "requeue"} => t \in Workers
    BY <1>0, <1>l, <2>0, <2>1
  <2>. QED
    BY <1>0, <2>1, <2>6, <2>7, <2>8, <2>9 DEF TypeOK
<1>10. ASSUME NEW w \in Workers, CompletionFails(w) \/ CompletionSwallowed(w) PROVE TypeOK'
  <2>0. w \in Threads
    BY DEF Threads
  <2>1. flight # <<>> /\ flight' = Tail(flight)
    BY <1>10 DEF CompletionFails, CompletionSwallowed
  <2>2. flight' \in Seq(Seq(Buffers))
    BY <1>0, <2>1, HeadTailProperties
  <2>3. CASE CompletionFails(w)
    BY <1>0, <1>l, <2>0, <2>2, <2>3 DEF CompletionFails, TypeOK
  <2>4. CASE CompletionSwallowed(w)
    BY <1>0, <1>l, <2>0, <2>2, <2>4 DEF CompletionSwallowed, TypeOK
  <2>. QED
    BY <1>10, <2>3, <2>4
<1>11. ASSUME NEW t \in Threads, CompletionTake(t) PROVE TypeOK'
  <2>1. t \in Workers
    BY <1>0, <1>11 DEF CompletionTake
  <2>. QED
    BY <1>0, <1>l, <1>11, <2>1 DEF CompletionTake, TypeOK
<1>12. ASSUME NEW t \in Threads, CompletionRequeue(t) PROVE TypeOK'
  <2>1. local[t] \in Seq(Buffers) /\ \A i \in DOMAIN local[t] : local[t][i] \in Buffers
    BY <1>0
  <2>2. Whole(local[t], arg[t]) \subseteq Buffers /\ Split(local[t], arg[t]) \subseteq Buffers
    BY <2>1 DEF Whole, Split
  <2>3. complete' \subseteq Buffers
    BY <1>0, <1>12, <2>2 DEF CompletionRequeue
  <2>4. deque' \in Seq(Buffers)
    <3>1. \/ deque' = deque
          \/ \E b \in Split(local[t], arg[t]) : deque' = <<b>> \o deque
      BY <1>12 DEF CompletionRequeue
    <3>2. \A b \in Buffers : <<b>> \o deque \in Seq(Buffers)
      BY <1>0
    <3>. QED
      BY <1>0, <2>2, <3>1, <3>2
  <2>5. sending' \in BOOLEAN /\ \E to \in {"pop", "idle"} : pc' = [pc EXCEPT ![t] = to]
    BY <1>0, <1>12 DEF CompletionRequeue, ContinueSending
  <2>6. PICK to \in {"pop", "idle"} : pc' = [pc EXCEPT ![t] = to]
    BY <2>5
  <2>7. /\ local' = [local EXCEPT ![t] = <<>>] /\ arg' = [arg EXCEPT ![t] = NoArg]
        /\ UNCHANGED <<closed, ctx, kernel, history, accepted, swallowed, disconnects>>
    BY <1>12 DEF CompletionRequeue
  <2>. QED
    BY <1>0, <1>l, <1>n, <2>3, <2>4, <2>5, <2>6, <2>7 DEF TypeOK
<1>13. ASSUME NEW t \in Threads, CloseExchange(t) PROVE TypeOK'
  BY <1>0, <1>l, <1>13 DEF CloseExchange, TypeOK
<1>14. ASSUME NEW t \in Threads, CloseUnsend(t) PROVE TypeOK'
  BY <1>0, <1>l, <1>14 DEF CloseUnsend, TypeOK
<1>15. ASSUME NEW t \in Threads, CloseNotify(t) PROVE TypeOK'
  BY <1>0, <1>l, <1>15 DEF CloseNotify, TypeOK
<1>16. ASSUME NEW t \in Threads, CloseSocket(t) PROVE TypeOK'
  BY <1>0, <1>l, <1>16 DEF CloseSocket, TypeOK
<1>17. ASSUME NEW t \in Threads, CloseDiscard(t) PROVE TypeOK'
  BY <1>0, <1>l, <1>17 DEF CloseDiscard, TypeOK
<1>18. CASE UNCHANGED vars
  BY <1>0, <1>18 DEF vars, TypeOK
<1>. QED
  BY <1>1, <1>2, <1>3, <1>4, <1>5, <1>6, <1>7, <1>8, <1>9, <1>10, <1>11, <1>12, <1>13, <1>14,
     <1>15, <1>16, <1>17, <1>18
  DEF Next, Proceed, Complete

\* Nothing is pushed twice.
LEMMA InitPush == Init => PushInv
<1> SUFFICES ASSUME Init PROVE PushInv
  OBVIOUS
<1>1. accepted = <<>> /\ pc = [t \in Threads |-> "idle"]
  BY DEF Init
<1>2. DOMAIN accepted = {}
  BY <1>1
<1>. QED
  BY <1>1, <1>2 DEF PushInv

\* The steps of a thread that do not push and that do not take up a packet.
LEMMA PushStays ==
  ASSUME TypeOK, PushInv, accepted' = accepted,
         \A t \in Threads : pc'[t] = "push" => pc[t] = "push" /\ arg'[t] = arg[t]
  PROVE  PushInv'
BY DEF PushInv

LEMMA NextPush == TypeOK /\ PushInv /\ [Next]_vars => PushInv'
<1> SUFFICES ASSUME TypeOK, PushInv, [Next]_vars PROVE PushInv'
  OBVIOUS
<1>0. /\ pc \in [Threads -> Labels] /\ accepted \in Seq(Buffers)
      /\ arg \in [Threads -> Buffers \cup Nat] /\ local \in [Threads -> Seq(Buffers)]
  BY DEF TypeOK
<1>. USE DEF Goto, flags, queues, kernel, threads, history
<1>1. ASSUME NEW t \in Threads, NEW b \in Buffers, SendBegin(t, b) PROVE PushInv'
  <2>1. /\ pc[t] = "idle" /\ pc' = [pc EXCEPT ![t] = "push"] /\ arg' = [arg EXCEPT ![t] = b]
        /\ b \notin Elements(accepted) /\ b \notin Pushing /\ accepted' = accepted
    BY <1>1 DEF SendBegin
  <2>2. pc'[t] = "push" /\ arg'[t] = b
    BY <1>0, <2>1
  <2>3. ASSUME NEW u \in Threads, u # t, pc'[u] = "push"
        PROVE  pc[u] = "push" /\ arg'[u] = arg[u] /\ arg[u] # b
    BY <1>0, <2>1, <2>3 DEF Pushing
  <2>. QED
    BY <1>0, <2>1, <2>2, <2>3 DEF PushInv
<1>2. ASSUME NEW t \in Threads, SendPush(t) PROVE PushInv'
  <2> DEFINE b == arg[t]
  <2>1. /\ pc[t] = "push" /\ arg' = [arg EXCEPT ![t] = NoArg]
        /\ accepted' = Append(accepted, b)
        /\ pc' = [pc EXCEPT ![t] = IF sending THEN "idle" ELSE "pop"]
    BY <1>2 DEF SendPush, ExchangeSending
  <2>2. b \in Buffers /\ b \notin Elements(accepted)
    BY <2>1 DEF PushInv
  <2>3. ASSUME NEW u \in Threads, pc'[u] = "push"
        PROVE  u # t /\ pc[u] = "push" /\ arg'[u] = arg[u] /\ arg[u] # b
    BY <1>0, <2>1, <2>3 DEF PushInv
  <2>. HIDE DEF b
  <2>4. Elements(accepted') = Elements(accepted) \cup {b}
    BY <1>0, <2>1, <2>2, ElementsAppend
  <2>5. ASSUME NEW i \in DOMAIN accepted', NEW j \in DOMAIN accepted',
               accepted'[i] = accepted'[j]
        PROVE  i = j
    <3>1. /\ Len(accepted) \in Nat /\ DOMAIN accepted = 1 .. Len(accepted)
          /\ DOMAIN accepted' = 1 .. Len(accepted) + 1
          /\ accepted'[Len(accepted) + 1] = b
          /\ \A k \in 1 .. Len(accepted) : accepted'[k] = accepted[k]
      BY <1>0, <2>1, <2>2, AppendProperties
    <3>2. \A k \in 1 .. Len(accepted) : accepted[k] # b
      BY <2>2, <3>1 DEF Elements
    <3>3. \A k \in DOMAIN accepted' : k \in 1 .. Len(accepted) \/ k = Len(accepted) + 1
      BY <3>1
    <3>. QED
      BY <2>5, <3>1, <3>2, <3>3 DEF PushInv
  <2>. QED
    BY <2>2, <2>3, <2>4, <2>5 DEF PushInv
<1>3. ASSUME NEW t \in Threads,
             \/ CloseBegin(t) \/ ProcessClear(t) \/ PostAccepted(t) \/ PostRefused(t)
             \/ ProcessStore(t) \/ CompletionTake(t) \/ CloseExchange(t) \/ CloseUnsend(t)
             \/ CloseNotify(t) \/ CloseSocket(t) \/ CloseDiscard(t) \/ CompletionFails(t)
      PROVE  PushInv'
  <2>1. /\ accepted' = accepted /\ arg' = arg
        /\ \E to \in Labels \ {"push"} : pc' = [pc EXCEPT ![t] = to]
    BY <1>3 DEF CloseBegin, ProcessClear, PostAccepted, PostRefused, ProcessStore,
       CompletionTake, CloseExchange, CloseUnsend, CloseNotify, CloseSocket, CloseDiscard,
       CompletionFails, Labels
  <2>. QED
    BY <1>0, <2>1, PushStays
<1>4. ASSUME NEW t \in Threads, ProcessPop(t) PROVE PushInv'
  <2>1. /\ accepted' = accepted /\ arg' = arg
        /\ \E to \in {"clear", "post"} : pc' = [pc EXCEPT ![t] = to]
    BY <1>4 DEF ProcessPop
  <2>. QED
    BY <1>0, <2>1, PushStays
<1>5. ASSUME NEW t \in Threads, CompletionRequeue(t) PROVE PushInv'
  <2>1. /\ accepted' = accepted /\ arg' = [arg EXCEPT ![t] = NoArg]
        /\ \E to \in {"pop", "idle"} : pc' = [pc EXCEPT ![t] = to]
    BY <1>5 DEF CompletionRequeue, ContinueSending
  <2>. QED
    BY <1>0, <2>1, PushStays
<1>6. ASSUME NEW t \in Threads, CompletionArrives(t) PROVE PushInv'
  <2>1. /\ accepted' = accepted /\ pc' = [pc EXCEPT ![t] = "take"]
        /\ \E n : arg' = [arg EXCEPT ![t] = n]
    BY <1>6 DEF CompletionArrives, Completed
  <2>. QED
    BY <1>0, <2>1, PushStays
<1>7. ASSUME NEW t \in Threads, CompletionSwallowed(t) PROVE PushInv'
  <2>1. UNCHANGED <<accepted, pc, arg>>
    BY <1>7 DEF CompletionSwallowed
  <2>. QED
    BY <2>1, PushStays
<1>8. CASE UNCHANGED vars
  <2>1. UNCHANGED <<accepted, pc, arg>>
    BY <1>8 DEF vars
  <2>. QED
    BY <2>1, PushStays
<1>9. \A w \in Workers : w \in Threads
  BY DEF Threads
<1>. QED
  BY <1>1, <1>2, <1>3, <1>4, <1>5, <1>6, <1>7, <1>8, <1>9 DEF Next, Proceed, Complete

\* At first there is no packet.
LEMMA InitStream == Init => StreamInv
<1> SUFFICES ASSUME Init PROVE StreamInv
  OBVIOUS
<1>1. /\ complete = {} /\ ctx = <<>> /\ flight = <<>>
      /\ wire = <<>> /\ deque = <<>> /\ accepted = <<>>
      /\ pc = [t \in Threads |-> "idle"]
  BY DEF Init
<1>2. Elements(<<>>) = {} /\ DOMAIN flight = {} /\ DOMAIN ctx = {}
  BY <1>1 DEF Elements
<1>3. Only(<<>>, Buffers \ Elements(<<>>)) = <<>>
  BY OnlyEmpty
<1>4. <<>> \o <<>> = <<>>
  BY EmptySeq, ConcatEmptySeq
<1>5. StreamIs(<<>>)
  BY <1>1, <1>3, <1>4 DEF StreamIs, Rest
<1>. QED
  BY <1>1, <1>2, <1>5 DEF StreamInv

-----------------------------------------------------------------------------
(* The steps, as far as packets go *)

\* What has gone wrong stays wrong.
LEMMA GoingBefore ==
  ASSUME TypeOK, [Next]_vars, Going'
  PROVE  Going
<1>. USE DEF Goto, flags, queues, kernel, threads, history
<1>1. ~ closed' /\ (\A t \in Threads : pc'[t] # "close") /\ ~ swallowed' /\ ~ cut'
  BY DEF Going, Closing
<1>2. /\ closed => closed'
      /\ swallowed => swallowed'
      /\ cut => cut'
  <2>1. CASE UNCHANGED vars
    BY <2>1 DEF vars
  <2>2. ASSUME NEW t \in Threads, NEW b \in Buffers, SendBegin(t, b)
        PROVE  UNCHANGED <<closed, swallowed, cut>>
    BY <2>2 DEF SendBegin
  <2>3. ASSUME NEW t \in Threads, CloseBegin(t) \/ Proceed(t)
        PROVE  (swallowed => swallowed') /\ (cut => cut') /\ (closed => closed')
    <3>1. CASE CloseBegin(t) \/ SendPush(t) \/ ProcessClear(t)
      BY <3>1 DEF CloseBegin, SendPush, ProcessClear
    <3>2. CASE ProcessPop(t)
      BY <3>2, Zenon DEF ProcessPop
    <3>3. CASE PostAccepted(t) \/ PostRefused(t) \/ ProcessStore(t) \/ CompletionTake(t)
      BY <3>3 DEF PostAccepted, PostRefused, ProcessStore, CompletionTake
    <3>4. CASE CompletionRequeue(t)
      BY <3>4 DEF CompletionRequeue
    <3>5. CASE \/ CloseExchange(t) \/ CloseUnsend(t) \/ CloseNotify(t)
               \/ CloseSocket(t) \/ CloseDiscard(t)
      BY <3>5 DEF CloseExchange, CloseUnsend, CloseNotify, CloseSocket, CloseDiscard
    <3>. QED
      BY <2>3, <3>1, <3>2, <3>3, <3>4, <3>5 DEF Proceed
  <2>4. ASSUME NEW w \in Workers, Complete(w)
        PROVE  (closed => closed') /\ (swallowed => swallowed') /\ (cut => cut')
    <3>1. CASE CompletionArrives(w)
      <4>1. UNCHANGED <<closed, swallowed>> /\ \E n : cut' = (cut \/ n)
        BY <3>1, Zenon DEF CompletionArrives, Completed
      <4>. QED
        BY <4>1
    <3>2. CASE CompletionFails(w) \/ CompletionSwallowed(w)
      BY <3>2 DEF CompletionFails, CompletionSwallowed
    <3>. QED
      BY <2>4, <3>1, <3>2 DEF Complete
  <2>. QED
    BY <2>1, <2>2, <2>3, <2>4 DEF Next
<1>3. ASSUME NEW u \in Threads, pc[u] = "close" PROVE FALSE
  <2>0. pc \in [Threads -> Labels]
    BY DEF TypeOK
  <2>1. pc'[u] # "close"
    BY <1>1
  <2>2. ASSUME NEW t \in Threads, NEW to, pc[t] # "close", pc' = [pc EXCEPT ![t] = to]
        PROVE  FALSE
    BY <2>0, <2>1, <2>2, <1>3
  <2>3. ASSUME NEW t \in Threads, NEW b \in Buffers, SendBegin(t, b) PROVE FALSE
    BY <2>2, <2>3 DEF SendBegin
  <2>4. ASSUME NEW t \in Threads, CloseExchange(t) PROVE FALSE
    BY <1>1, <2>4 DEF CloseExchange
  <2>5. ASSUME NEW t \in Threads, CloseBegin(t) \/ (Proceed(t) /\ ~ CloseExchange(t)) PROVE FALSE
    <3>1. pc[t] # "close" /\ \E to : pc' = [pc EXCEPT ![t] = to]
      BY <2>5 DEF CloseBegin, Proceed, SendPush, ExchangeSending, ProcessPop, ProcessClear,
         PostAccepted, PostRefused, ProcessStore, CompletionTake, CompletionRequeue, ContinueSending,
         CloseUnsend, CloseNotify, CloseSocket, CloseDiscard
    <3>. QED
      BY <3>1, <2>2
  <2>6. ASSUME NEW w \in Workers, Complete(w) PROVE FALSE
    <3>0. w \in Threads
      BY DEF Threads
    <3>1. CASE CompletionSwallowed(w)
      BY <1>1, <3>1 DEF CompletionSwallowed
    <3>2. CASE CompletionArrives(w) \/ CompletionFails(w)
      BY <3>0, <3>2, <2>2 DEF CompletionArrives, CompletionFails
    <3>. QED
      BY <2>6, <3>1, <3>2 DEF Complete
  <2>7. CASE UNCHANGED vars
    BY <2>7, <1>1, <1>3 DEF vars
  <2>. QED
    BY <2>3, <2>4, <2>5, <2>6, <2>7 DEF Next
<1>4. closed \in BOOLEAN /\ swallowed \in BOOLEAN /\ cut \in BOOLEAN
  BY DEF TypeOK
<1>. QED
  BY <1>1, <1>2, <1>3, <1>4 DEF Going, Closing

\* Of an open session the kernel has one batch at most, and then no thread has
\* one.
LEMMA OneInHand ==
  ASSUME TypeOK, RightInv, ~ closed
  PROVE  /\ \A t, u \in Driving : t = u
         /\ Driving # {} => flight = <<>>
         /\ flight # <<>> => /\ Len(flight) = 1 /\ DOMAIN flight = {1}
                             /\ Head(flight) = flight[1] /\ Tail(flight) = <<>>
<1>1. flight # <<>> => Driving = {} /\ Len(flight) = 1
  BY DEF RightInv
<1>2. flight \in Seq(Seq(Buffers))
  BY DEF TypeOK
<1>3. ASSUME flight # <<>>, Len(flight) = 1
      PROVE  DOMAIN flight = {1} /\ Head(flight) = flight[1] /\ Tail(flight) = <<>>
  <2>1. DOMAIN flight = 1 .. 1 /\ Head(flight) = flight[1]
    BY <1>2, <1>3
  <2>2. Tail(flight) \in Seq(Seq(Buffers)) /\ Len(Tail(flight)) = 0
    BY <1>2, <1>3, HeadTailProperties
  <2>3. 1 .. 1 = {1}
    OBVIOUS
  <2>. QED
    BY <2>1, <2>2, <2>3, EmptySeq
<1>. QED
  BY <1>1, <1>3 DEF RightInv

\* The steps that touch no packet.
LEMMA StreamStays ==
  ASSUME Going, StreamInv, UNCHANGED <<complete, ctx, wire, deque, flight, accepted>>,
         \A u \in Threads : pc'[u] \in {"store", "requeue", "post"} =>
                              pc'[u] = pc[u] /\ local'[u] = local[u],
         \A u \in Threads : pc[u] = "post" => pc'[u] = "post"
  PROVE  StreamInv'
<1>1. \A b : WentOut(b) => WentOut(b)'
  BY DEF WentOut
<1>2. \A s : StreamIs(s) => StreamIs(s)'
  BY DEF StreamIs
<1>. QED
  BY <1>1, <1>2 DEF StreamInv

\* ProcessSend takes a batch: from the deque to the hand.
LEMMA PopStream ==
  ASSUME TypeOK, RightInv, Going, StreamInv, NEW t \in Threads, ProcessPop(t)
  PROVE  StreamInv'
<1>0. /\ pc \in [Threads -> Labels] /\ local \in [Threads -> Seq(Buffers)]
      /\ deque \in Seq(Buffers) /\ wire \in Seq(Buffers) /\ ~ closed
  BY DEF TypeOK, Going, Closing
<1>1. PICK n \in 0 .. Len(deque) :
        /\ deque' = SubSeq(deque, n + 1, Len(deque))
        /\ local' = [local EXCEPT ![t] = Usable(SubSeq(deque, 1, n))]
  BY DEF ProcessPop
<1>2. /\ pc[t] = "pop" /\ UNCHANGED <<ctx, complete, flight, wire, accepted>>
      /\ pc' = [pc EXCEPT ![t] = IF local'[t] = <<>> THEN "clear" ELSE "post"]
  BY DEF ProcessPop, Goto, kernel, history
<1>3. t \in Driving
  BY <1>2 DEF Driving
<1>4. /\ flight = <<>> /\ DOMAIN flight = {}
      /\ \A u \in Threads : u # t => pc[u] # "post" /\ pc[u] # "requeue"
  BY <1>0, <1>3, OneInHand DEF Driving
<1>5. /\ complete \subseteq Elements(wire) /\ StreamIs(<<>>)
      /\ \A b \in Elements(ctx) : WentOut(b)
      /\ \A u \in Threads : pc[u] = "store" => \A b \in Elements(local[u]) : WentOut(b)
  BY <1>2, <1>4 DEF StreamInv, StreamIs
<1>6. Rest(wire, local'[t], deque') = Rest(wire, <<>>, deque)
  <2>1. local'[t] = Only(SubSeq(deque, 1, n), Buffers \ complete)
    BY <1>0, <1>1 DEF Usable
  <2>2. complete \in SUBSET Elements(wire)
    BY <1>5
  <2>3. Rest(wire, Only(SubSeq(deque, 1, n), Buffers \ complete), SubSeq(deque, n + 1, Len(deque)))
          = Rest(wire, <<>>, deque)
    BY <1>0, <2>2, RestPop
  <2>. QED
    BY <1>1, <2>1, <2>3
<1>7. /\ accepted' = Rest(wire', local'[t], deque')
      /\ (local'[t] = <<>> => accepted' = Rest(wire', <<>>, deque'))
  BY <1>2, <1>5, <1>6 DEF StreamIs
<1>8. \A u \in Threads : u # t => pc'[u] = pc[u] /\ local'[u] = local[u]
  BY <1>0, <1>1, <1>2
<1>9. pc'[t] = IF local'[t] = <<>> THEN "clear" ELSE "post"
  BY <1>0, <1>2
<1>10. \A b : WentOut(b)' <=> WentOut(b)
  BY <1>2 DEF WentOut
<1>11. /\ accepted' = Rest(wire', local'[t], deque')
       /\ (pc'[t] # "post" => accepted' = Rest(wire', <<>>, deque'))
  BY <1>7, <1>9
<1>12. \A u \in Threads :
         /\ pc'[u] = "store" => \A b \in Elements(local'[u]) : WentOut(b)'
         /\ pc'[u] # "requeue"
         /\ pc'[u] = "post" => u = t
  BY <1>4, <1>5, <1>8, <1>9, <1>10
<1>. QED
  BY <1>2, <1>4, <1>5, <1>10, <1>11, <1>12 DEF StreamInv, StreamIs

\* The kernel takes the batch over.
LEMMA PostStream ==
  ASSUME TypeOK, RightInv, Going, StreamInv, NEW t \in Threads, PostAccepted(t)
  PROVE  StreamInv'
<1>0. /\ pc \in [Threads -> Labels] /\ local \in [Threads -> Seq(Buffers)] /\ ~ closed
  BY DEF TypeOK, Going, Closing
<1>1. /\ pc[t] = "post" /\ pc' = [pc EXCEPT ![t] = "store"] /\ flight' = Append(flight, local[t])
      /\ UNCHANGED <<ctx, complete, wire, deque, accepted, local>>
  BY DEF PostAccepted, Goto, queues, history
<1>2. t \in Driving
  BY <1>1 DEF Driving
<1>3. /\ flight = <<>> /\ DOMAIN flight = {}
      /\ \A u \in Threads : u # t => pc[u] # "post" /\ pc[u] # "requeue"
  BY <1>0, <1>2, OneInHand DEF Driving
<1>4. DOMAIN flight' = {1} /\ flight'[1] = local[t] /\ flight' # <<>>
  <2>1. flight' = <<local[t]>>
    BY <1>1, <1>3
  <2>. QED
    BY <2>1
<1>5. \A u \in Threads : u # t => pc'[u] = pc[u]
  BY <1>0, <1>1
<1>6. \A b : WentOut(b) => WentOut(b)'
  BY <1>1, <1>3 DEF WentOut
<1>7. \A b \in Elements(local[t]) : WentOut(b)'
  BY <1>4 DEF WentOut
<1>8. accepted' = Rest(wire', local[t], deque')
  BY <1>1 DEF StreamInv, StreamIs
<1>9. \A u \in Threads :
         /\ pc'[u] = "store" => \A b \in Elements(local'[u]) : WentOut(b)'
         /\ pc'[u] # "requeue" /\ pc'[u] # "post"
  BY <1>0, <1>1, <1>3, <1>5, <1>6, <1>7 DEF StreamInv, StreamIs
<1>10. complete' \subseteq Elements(wire') /\ \A b \in Elements(ctx') : WentOut(b)'
  BY <1>1, <1>6 DEF StreamInv, StreamIs
<1>11. \A i \in DOMAIN flight' : accepted' = Rest(wire', flight'[i], deque')
  BY <1>4, <1>8
<1>. QED
  BY <1>4, <1>9, <1>10, <1>11 DEF StreamInv, StreamIs

\* The kernel is through with the batch, all of it: it has gone out.
LEMMA ArriveStream ==
  ASSUME TypeOK, RightInv, PushInv, Going, Going', StreamInv,
         NEW t \in Threads, CompletionArrives(t)
  PROVE  StreamInv'
<1>0. /\ pc \in [Threads -> Labels] /\ ~ closed /\ wire \in Seq(Buffers) /\ deque \in Seq(Buffers)
      /\ flight \in Seq(Seq(Buffers))
  BY DEF TypeOK, Going, Closing
<1> DEFINE op == Head(flight)
           sent == Only(op, Buffers \ Elements(wire))
<1>1. /\ pc[t] = "idle" /\ pc' = [pc EXCEPT ![t] = "take"]
      /\ flight # <<>> /\ flight' = Tail(flight)
      /\ UNCHANGED <<ctx, complete, deque, accepted, local>>
  BY DEF CompletionArrives, Completed, Goto, queues
<1>2. wire' = wire \o sent
  <2>1. ~ cut'
    BY DEF Going
  <2>. QED
    BY <2>1 DEF CompletionArrives, Completed
<1>3. /\ Driving = {} /\ DOMAIN flight = {1} /\ op = flight[1]
      /\ flight' = <<>> /\ DOMAIN flight' = {}
  BY <1>0, <1>1, OneInHand
<1>4. op \in Seq(Buffers) /\ StreamIs(op)
  BY <1>0, <1>1, <1>3, HeadTailProperties DEF StreamInv, StreamIs
<1>. HIDE DEF op
<1>5. Rest(wire', <<>>, deque) = Rest(wire, op, deque)
  <2>1. \A i, j \in DOMAIN Rest(wire, op, deque) :
          Rest(wire, op, deque)[i] = Rest(wire, op, deque)[j] => i = j
    BY <1>4 DEF StreamIs, PushInv
  <2>. QED
    BY <1>0, <1>2, <1>4, <2>1, RestSent
<1>6. accepted' = Rest(wire', <<>>, deque')
  BY <1>1, <1>4, <1>5 DEF StreamIs
<1>7. Elements(wire) \subseteq Elements(wire') /\ Elements(op) \subseteq Elements(wire')
  <2>1. sent \in Seq(Buffers)
    BY <1>4, OnlyType
  <2>2. Elements(sent) = Elements(op) \cap (Buffers \ Elements(wire))
    BY <1>4, OnlyElements
  <2>3. Elements(op) \subseteq Buffers
    BY <1>4 DEF Elements
  <2>. HIDE DEF sent
  <2>4. Elements(wire') = Elements(wire) \cup Elements(sent)
    BY <1>0, <1>2, <2>1, ElementsConcat
  <2>. QED
    BY <2>2, <2>3, <2>4
<1>8. \A b : WentOut(b) => WentOut(b)'
  BY <1>3, <1>7 DEF WentOut
<1>9. \A u \in Threads : pc[u] # "post" /\ pc[u] # "requeue"
  BY <1>3 DEF Driving
<1>10. \A u \in Threads :
         /\ pc'[u] = "store" => \A b \in Elements(local'[u]) : WentOut(b)'
         /\ pc'[u] # "requeue" /\ pc'[u] # "post"
  BY <1>0, <1>1, <1>8, <1>9 DEF StreamInv, StreamIs
<1>11. complete' \subseteq Elements(wire') /\ \A b \in Elements(ctx') : WentOut(b)'
  BY <1>1, <1>7, <1>8 DEF StreamInv, StreamIs
<1>. QED
  BY <1>3, <1>6, <1>10, <1>11 DEF StreamInv, StreamIs

\* The batch goes from the thread to _sendContext, and from there to the worker.
LEMMA StoreStream ==
  ASSUME TypeOK, Going, StreamInv, NEW t \in Threads, ProcessStore(t)
  PROVE  StreamInv'
<1>0. pc \in [Threads -> Labels] /\ local \in [Threads -> Seq(Buffers)]
  BY DEF TypeOK
<1>1. /\ pc[t] = "store" /\ pc' = [pc EXCEPT ![t] = "idle"] /\ ctx' = local[t]
      /\ local' = [local EXCEPT ![t] = <<>>]
      /\ UNCHANGED <<complete, wire, deque, flight, accepted>>
  BY DEF ProcessStore, Goto, kernel, history
<1>2. \A u \in Threads : u # t => pc'[u] = pc[u] /\ local'[u] = local[u]
  BY <1>0, <1>1
<1>3. pc'[t] = "idle"
  BY <1>0, <1>1
<1>4. \A b : WentOut(b)' <=> WentOut(b)
  BY <1>1 DEF WentOut
<1>5. \A s : (accepted' = Rest(wire', s, deque')) <=> StreamIs(s)
  BY <1>1 DEF StreamIs
<1>6. \A b \in Elements(ctx') : WentOut(b)'
  BY <1>1, <1>4 DEF StreamInv, StreamIs
<1>7. (\A u \in Threads : pc'[u] # "post") => \A u \in Threads : pc[u] # "post"
  BY <1>1, <1>2
<1>. QED
  BY <1>1, <1>2, <1>3, <1>4, <1>5, <1>6, <1>7 DEF StreamInv, StreamIs

\* The worker finds in _sendContext nothing that has not gone out.
LEMMA TakeStream ==
  ASSUME TypeOK, RightInv, Going, StreamInv, NEW t \in Threads, CompletionTake(t)
  PROVE  StreamInv'
<1>0. pc \in [Threads -> Labels] /\ local \in [Threads -> Seq(Buffers)] /\ ~ closed
  BY DEF TypeOK, Going, Closing
<1>1. /\ pc[t] = "take" /\ pc' = [pc EXCEPT ![t] = "requeue"] /\ ctx' = <<>>
      /\ local' = [local EXCEPT ![t] = ctx]
      /\ UNCHANGED <<complete, wire, deque, flight, accepted>>
  BY DEF CompletionTake, Goto, kernel, history
<1>2. flight = <<>> /\ DOMAIN flight = {}
  <2>1. t \in Driving
    BY <1>1 DEF Driving
  <2>2. flight = <<>>
    BY <1>0, <2>1, OneInHand
  <2>. QED
    BY <2>2
<1>3. \A u \in Threads : u # t => pc'[u] = pc[u] /\ local'[u] = local[u]
  BY <1>0, <1>1
<1>4. pc'[t] = "requeue" /\ local'[t] = ctx
  BY <1>0, <1>1
<1>5. \A b : WentOut(b)' <=> WentOut(b)
  BY <1>1 DEF WentOut
<1>6. \A s : (accepted' = Rest(wire', s, deque')) <=> StreamIs(s)
  BY <1>1 DEF StreamIs
<1>7. Elements(ctx) \subseteq Elements(wire)
  BY <1>2 DEF StreamInv, WentOut
<1>8. Elements(ctx') = {}
  BY <1>1 DEF Elements
<1>9. (\A u \in Threads : pc'[u] # "post") => \A u \in Threads : pc[u] # "post"
  BY <1>1, <1>3
<1>. QED
  BY <1>1, <1>3, <1>4, <1>5, <1>6, <1>7, <1>8, <1>9 DEF StreamInv, StreamIs

\* Only what has gone out is complete, and only such a packet is put back.
LEMMA RequeueStream ==
  ASSUME TypeOK, Going, StreamInv, NEW t \in Threads, CompletionRequeue(t)
  PROVE  StreamInv'
<1>0. /\ pc \in [Threads -> Labels] /\ local \in [Threads -> Seq(Buffers)]
      /\ wire \in Seq(Buffers) /\ deque \in Seq(Buffers) /\ flight \in Seq(Seq(Buffers))
  BY DEF TypeOK
<1>1. /\ pc[t] = "requeue" /\ complete' = complete \cup Whole(local[t], arg[t])
      /\ local' = [local EXCEPT ![t] = <<>>]
      /\ UNCHANGED <<ctx, wire, flight, accepted>>
      /\ \E to \in {"pop", "idle"} : pc' = [pc EXCEPT ![t] = to]
      /\ \/ deque' = deque
         \/ \E b \in Split(local[t], arg[t]) : deque' = <<b>> \o deque
  BY DEF CompletionRequeue, ContinueSending, Goto, kernel, history
<1>2. /\ Whole(local[t], arg[t]) \subseteq Elements(wire)
      /\ Split(local[t], arg[t]) \subseteq Elements(wire)
  <2>1. Elements(local[t]) \subseteq Elements(wire)
    BY <1>1 DEF StreamInv, StreamIs
  <2>. QED
    BY <2>1 DEF Whole, Split, Elements
<1>3. ASSUME NEW s \in Seq(Buffers) PROVE Rest(wire, s, deque') = Rest(wire, s, deque)
  <2>1. ASSUME NEW b \in Elements(wire) PROVE Rest(wire, s, <<b>> \o deque) = Rest(wire, s, deque)
    BY <1>0, RestFront
  <2>2. CASE deque' = deque
    BY <2>2
  <2>3. CASE \E b \in Split(local[t], arg[t]) : deque' = <<b>> \o deque
    <3>1. PICK b \in Elements(wire) : deque' = <<b>> \o deque
      BY <1>2, <2>3
    <3>. QED
      BY <2>1, <3>1
  <2>. QED
    BY <1>1, <2>2, <2>3
<1>4. ASSUME NEW s \in Seq(Buffers), StreamIs(s) PROVE accepted' = Rest(wire', s, deque')
  BY <1>1, <1>3, <1>4 DEF StreamIs
<1>5. \A u \in Threads : u # t => pc'[u] = pc[u] /\ local'[u] = local[u]
  BY <1>0, <1>1
<1>6. pc'[t] \in {"pop", "idle"}
  BY <1>0, <1>1
<1>7. \A b : WentOut(b)' <=> WentOut(b)
  BY <1>1 DEF WentOut
<1>8. complete' \subseteq Elements(wire')
  BY <1>1, <1>2 DEF StreamInv, StreamIs
<1>9. (\A u \in Threads : pc'[u] # "post") => \A u \in Threads : pc[u] # "post"
  BY <1>1, <1>5
<1>10. /\ \A i \in DOMAIN flight' : accepted' = Rest(wire', flight'[i], deque')
       /\ \A u \in Threads : pc'[u] = "post" => accepted' = Rest(wire', local'[u], deque')
       /\ flight' = <<>> /\ (\A u \in Threads : pc'[u] # "post") =>
            accepted' = Rest(wire', <<>>, deque')
  <2>1. \A i \in DOMAIN flight : flight[i] \in Seq(Buffers)
    BY <1>0
  <2>2. \A i \in DOMAIN flight' : accepted' = Rest(wire', flight'[i], deque')
    BY <1>1, <1>4, <2>1 DEF StreamInv, StreamIs
  <2>3. ASSUME NEW u \in Threads, pc'[u] = "post" PROVE accepted' = Rest(wire', local'[u], deque')
    <3>1. u # t /\ pc[u] = "post" /\ local'[u] = local[u] /\ local[u] \in Seq(Buffers)
      BY <1>0, <1>5, <1>6, <2>3
    <3>2. StreamIs(local[u])
      BY <3>1 DEF StreamInv, StreamIs
    <3>. QED
      BY <1>4, <3>1, <3>2
  <2>4. ASSUME flight' = <<>>, \A u \in Threads : pc'[u] # "post"
        PROVE  accepted' = Rest(wire', <<>>, deque')
    <3>1. <<>> \in Seq(Buffers)
      OBVIOUS
    <3>2. StreamIs(<<>>)
      BY <1>1, <1>9, <2>4 DEF StreamInv, StreamIs
    <3>. QED
      BY <1>4, <3>1, <3>2
  <2>. QED
    BY <2>2, <2>3, <2>4
<1>. QED
  BY <1>1, <1>5, <1>6, <1>7, <1>8, <1>10 DEF StreamInv, StreamIs

\* Send puts a packet at the end of the deque.
LEMMA PushStream ==
  ASSUME TypeOK, PushInv, Going, StreamInv, NEW t \in Threads, SendPush(t)
  PROVE  StreamInv'
<1>0. /\ pc \in [Threads -> Labels] /\ local \in [Threads -> Seq(Buffers)]
      /\ wire \in Seq(Buffers) /\ deque \in Seq(Buffers) /\ flight \in Seq(Seq(Buffers))
  BY DEF TypeOK
<1> DEFINE b == arg[t]
<1>1. /\ pc[t] = "push" /\ deque' = Append(deque, b) /\ accepted' = Append(accepted, b)
      /\ UNCHANGED <<ctx, complete, wire, flight, local>>
      /\ \E to \in {"pop", "idle"} : pc' = [pc EXCEPT ![t] = to]
  BY DEF SendPush, PushBack, ExchangeSending, Goto, kernel, history
<1>2. b \in Buffers /\ b \notin Elements(accepted)
  BY <1>1 DEF PushInv
<1>. HIDE DEF b
<1>3. ASSUME NEW s \in Seq(Buffers), StreamIs(s) PROVE accepted' = Rest(wire', s, deque')
  <2>1. b \notin Elements(wire)
    <3>1. Elements(Rest(wire, s, deque)) = Elements(wire) \cup Elements(s) \cup Elements(deque)
      BY <1>0, RestElements
    <3>. QED
      BY <1>2, <1>3, <3>1 DEF StreamIs
  <2>2. Rest(wire, s, Append(deque, b)) = Append(Rest(wire, s, deque), b)
    BY <1>0, <1>2, <2>1, RestPush
  <2>. QED
    BY <1>1, <1>3, <2>2 DEF StreamIs
<1>4. \A u \in Threads : u # t => pc'[u] = pc[u]
  BY <1>0, <1>1
<1>5. pc'[t] \in {"pop", "idle"}
  BY <1>0, <1>1
<1>6. \A c : WentOut(c)' <=> WentOut(c)
  BY <1>1 DEF WentOut
<1>7. (\A u \in Threads : pc'[u] # "post") => \A u \in Threads : pc[u] # "post"
  BY <1>1, <1>4
<1>8. \A i \in DOMAIN flight' : accepted' = Rest(wire', flight'[i], deque')
  BY <1>0, <1>1, <1>3 DEF StreamInv, StreamIs
<1>9. ASSUME NEW u \in Threads, pc'[u] = "post" PROVE accepted' = Rest(wire', local'[u], deque')
  <2>1. pc[u] = "post" /\ local[u] \in Seq(Buffers)
    BY <1>0, <1>4, <1>5, <1>9
  <2>2. StreamIs(local[u])
    BY <2>1 DEF StreamInv, StreamIs
  <2>. QED
    BY <1>1, <1>3, <2>1, <2>2
<1>10. ASSUME flight' = <<>>, \A u \in Threads : pc'[u] # "post"
       PROVE  accepted' = Rest(wire', <<>>, deque')
  <2>1. <<>> \in Seq(Buffers)
    OBVIOUS
  <2>2. StreamIs(<<>>)
    BY <1>1, <1>7, <1>10 DEF StreamInv, StreamIs
  <2>. QED
    BY <1>3, <2>1, <2>2
<1>. QED
  BY <1>1, <1>4, <1>5, <1>6, <1>8, <1>9, <1>10 DEF StreamInv, StreamIs

\* Every step keeps the packets in their order.
LEMMA NextStream == IInv /\ TypeOK /\ PushInv /\ StreamInv /\ [Next]_vars => StreamInv'
<1> SUFFICES ASSUME IInv, TypeOK, PushInv, StreamInv, [Next]_vars, Going' PROVE StreamInv'
  BY DEF StreamInv
<1>0. /\ Going /\ RightInv /\ CloseInv /\ ~ closed /\ ~ closed' /\ ~ swallowed'
      /\ pc \in [Threads -> Labels] /\ local \in [Threads -> Seq(Buffers)]
      /\ \A t \in Threads : pc'[t] # "close"
  BY GoingBefore DEF Going, Closing, IInv, TypeOK
<1>. USE DEF Goto, flags, queues, kernel, threads, history
<1>1. ASSUME NEW t \in Threads,
             \/ (\E b \in Buffers : SendBegin(t, b))
             \/ ProcessClear(t)
      PROVE  StreamInv'
  <2>1. /\ UNCHANGED <<complete, ctx, wire, deque, flight, accepted, local>>
        /\ pc[t] # "post"
        /\ \E to \in {"push", "idle"} : pc' = [pc EXCEPT ![t] = to]
    BY <1>1 DEF SendBegin, ProcessClear
  <2>. QED
    BY <1>0, <2>1, StreamStays
<1>2. ASSUME NEW t \in Threads, CloseBegin(t) \/ PostRefused(t) \/ CompletionFails(t) PROVE FALSE
  <2>1. pc' = [pc EXCEPT ![t] = "close"]
    BY <1>2 DEF CloseBegin, PostRefused, CompletionFails
  <2>. QED
    BY <1>0, <2>1
<1>3. ASSUME NEW t \in Threads, CloseExchange(t) \/ CompletionSwallowed(t) PROVE FALSE
  BY <1>0, <1>3 DEF CloseExchange, CompletionSwallowed
<1>4. ASSUME NEW t \in Threads,
             CloseUnsend(t) \/ CloseNotify(t) \/ CloseSocket(t) \/ CloseDiscard(t)
      PROVE  FALSE
  BY <1>0, <1>4 DEF CloseUnsend, CloseNotify, CloseSocket, CloseDiscard, CloseInv, ClosingAt
<1>5. CASE UNCHANGED vars
  <2>1. UNCHANGED <<complete, ctx, wire, deque, flight, accepted, local, pc>>
    BY <1>5 DEF vars
  <2>. QED
    BY <1>0, <2>1, StreamStays
<1>6. ASSUME NEW t \in Threads,
             \/ SendPush(t) \/ ProcessPop(t) \/ PostAccepted(t) \/ ProcessStore(t)
             \/ CompletionTake(t) \/ CompletionRequeue(t) \/ CompletionArrives(t)
      PROVE  StreamInv'
  BY <1>0, <1>6, PushStream, PopStream, PostStream, StoreStream, TakeStream, RequeueStream,
     ArriveStream
<1>7. \A w \in Workers : w \in Threads
  BY DEF Threads
<1>. QED
  BY <1>1, <1>2, <1>3, <1>4, <1>5, <1>6, <1>7 DEF Next, Proceed, Complete

\* What is in hand, and what is in the deque, is behind what has gone out.
LEMMA StreamSays ==
  ASSUME TypeOK, NEW s \in Seq(Buffers), StreamIs(s)
  PROVE  /\ IsPrefix(wire, accepted)
         /\ Elements(accepted) = Elements(wire) \cup Elements(s) \cup Elements(deque)
<1> DEFINE tail == Only(s, Buffers \ Elements(wire)) \o Only(deque, Buffers \ Elements(wire))
<1>0. wire \in Seq(Buffers) /\ deque \in Seq(Buffers)
  BY DEF TypeOK
<1>1. /\ Only(s, Buffers \ Elements(wire)) \in Seq(Buffers)
      /\ Only(deque, Buffers \ Elements(wire)) \in Seq(Buffers)
      /\ accepted = wire \o tail
  BY <1>0, RestParts DEF StreamIs
<1>e. Elements(accepted) = Elements(wire) \cup Elements(s) \cup Elements(deque)
  BY <1>0, RestElements DEF StreamIs
<1>2. tail \in Seq(Buffers)
  BY <1>1, ConcatProperties
<1>. HIDE DEF tail
<1>3. /\ Len(wire) \in Nat /\ Len(tail) \in Nat /\ Len(accepted) = Len(wire) + Len(tail)
      /\ accepted \in Seq(Buffers)
      /\ \A i \in 1 .. Len(wire) + Len(tail) :
           accepted[i] = IF i <= Len(wire) THEN wire[i] ELSE tail[i - Len(wire)]
  BY <1>0, <1>1, <1>2, ConcatProperties
<1>4. SubSeq(accepted, 1, Len(wire)) = wire
  <2>1. \A i \in 1 .. Len(wire) : accepted[i] = wire[i] /\ accepted[i] \in Buffers
    BY <1>0, <1>3
  <2>2. 1 \in Int /\ Len(wire) \in Int /\ Len(wire) - 1 + 1 = Len(wire)
    BY <1>3
  <2>3. /\ SubSeq(accepted, 1, Len(wire)) \in Seq(Buffers)
        /\ Len(SubSeq(accepted, 1, Len(wire))) = IF 1 <= Len(wire) THEN Len(wire) - 1 + 1 ELSE 0
        /\ \A i \in 1 .. Len(wire) - 1 + 1 : SubSeq(accepted, 1, Len(wire))[i] = accepted[1 + i - 1]
    BY <2>1, <2>2, SubSeqProperties
  <2> DEFINE first == SubSeq(accepted, 1, Len(wire))
  <2>4. /\ first \in Seq(Buffers) /\ Len(first) = Len(wire)
        /\ \A i \in 1 .. Len(wire) : first[i] = wire[i]
    <3>1. \A i \in 1 .. Len(wire) : 1 + i - 1 = i /\ i \in 1 .. Len(wire) - 1 + 1
      BY <1>3
    <3>2. Len(first) = Len(wire)
      BY <1>3, <2>3
    <3>. HIDE DEF first
    <3>. QED
      BY <2>1, <2>3, <3>1, <3>2 DEF first
  <2>. HIDE DEF first
  <2>5. first = wire
    BY <1>0, <2>4, SeqEqual
  <2>. QED
    BY <2>5 DEF first
<1>5. SubSeq(wire, 1, Len(wire)) = wire
  BY <1>0, SubSeqFull
<1>6. Len(wire) <= Len(accepted)
  BY <1>3
<1>. QED
  BY <1>e, <1>4, <1>5, <1>6 DEF IsPrefix

\* The inductive invariant of the packets.
PacketInv == IInv /\ TypeOK /\ PushInv /\ StreamInv

\* The invariant is what was to be shown.
LEMMA PacketInvSays == PacketInv => NoPacketLost
<1> SUFFICES ASSUME PacketInv, Going
             PROVE  /\ IsPrefix(wire, accepted)
                    /\ \A b \in Elements(accepted) :
                         \/ b \in Elements(wire) \cup Elements(deque)
                         \/ \E i \in DOMAIN flight : b \in Elements(flight[i])
                         \/ \E t \in Threads : pc[t] = "post" /\ b \in Elements(local[t])
  BY DEF NoPacketLost, Going, PacketInv
<1>0. TypeOK /\ flight \in Seq(Seq(Buffers)) /\ local \in [Threads -> Seq(Buffers)]
  BY DEF PacketInv, TypeOK
<1>1. CASE flight # <<>>
  <2>1. 1 \in DOMAIN flight /\ flight[1] \in Seq(Buffers)
    BY <1>0, <1>1
  <2>2. StreamIs(flight[1])
    BY <2>1 DEF PacketInv, StreamInv
  <2>. QED
    BY <1>0, <2>1, <2>2, StreamSays
<1>2. ASSUME NEW t \in Threads, pc[t] = "post"
      PROVE  /\ IsPrefix(wire, accepted)
             /\ \A b \in Elements(accepted) :
                  b \in Elements(wire) \cup Elements(deque) \cup Elements(local[t])
  <2>1. StreamIs(local[t]) /\ local[t] \in Seq(Buffers)
    BY <1>0, <1>2 DEF PacketInv, StreamInv
  <2>. QED
    BY <1>0, <2>1, StreamSays
<1>3. CASE flight = <<>> /\ \A t \in Threads : pc[t] # "post"
  <2>1. StreamIs(<<>>) /\ <<>> \in Seq(Buffers) /\ Elements(<<>>) = {}
    BY <1>3 DEF PacketInv, StreamInv, Elements
  <2>. QED
    BY <1>0, <2>1, StreamSays
<1>. QED
  BY <1>1, <1>2, <1>3

\* As long as a session is open and the kernel completes what it accepts whole,
\* no packet is lost and none overtakes another, whichever buffers the workers
\* find in _sendContext.
THEOREM NothingLost == Spec => []NoPacketLost
<1>1. Init => PacketInv
  BY InitInv, InitType, InitPush, InitStream DEF PacketInv
<1>2. PacketInv /\ [Next]_vars => PacketInv'
  BY NextInv, NextType, NextPush, NextStream DEF PacketInv
<1>. QED
  BY <1>1, <1>2, PacketInvSays, PTL DEF Spec
================================================================================
