---------------------------- MODULE SessionSend ----------------------------
(***************************************************************************)
(* The sending half of a Session: Send, ProcessSend, OnSendCompleted and   *)
(* Close (src/ServerCore/Network/Session.cpp), with the IOCP worker that   *)
(* calls OnSendCompleted (IocpCore.cpp) and the kernel that transmits.     *)
(*                                                                         *)
(* Any thread may Send or Close; the I/O workers also handle completions.  *)
(* The flag _sending is meant to let one WSASend be outstanding at a time. *)
(* It is atomic and not always touched under the session's lock, and the   *)
(* buffers of a WSASend are stored in _sendContext.buffers only after the  *)
(* call, when its completion may already be in another worker's hands.     *)
(* Every section under the lock, every access to an atomic flag and every  *)
(* system call is a step of its own.                                       *)
(*                                                                         *)
(* A buffer is one packet, made for one session; its bytes are counted and *)
(* not represented.  A null buffer is never sent by the server.            *)
(***************************************************************************)
EXTENDS Integers, Sequences, FiniteSets, SequencesExt

CONSTANTS Senders,   \* threads that only send or close
          Workers,   \* I/O worker threads
          Buffers,   \* the packets
          Size,      \* buffer -> its length in bytes
          MaxBatch   \* MAX_SEND_BUFFER_COUNT

Threads == Senders \cup Workers

ASSUME SizeAssumption == Size \in [Buffers -> Nat \ {0}]
ASSUME BatchAssumption == MaxBatch \in Nat \ {0}

VARIABLES closed,     \* _isClosed
          sending,    \* _sending
          deque,      \* _sendDeque
          ctx,        \* _sendContext.buffers
          complete,   \* the buffers that are IsCompleted()
          socketOpen, \* _socket # INVALID_SOCKET
          flight,     \* the WSASends outstanding in the kernel, oldest first
          pc,         \* thread -> where it is
          local,      \* thread -> its local variable sendBuffers
          arg,        \* thread -> bytesTransferred, or the packet to send
          accepted,   \* history: the buffers pushed, in order
          wire,       \* history: the buffers transmitted, in order, until cut
          resent,     \* history: was a byte transmitted twice?
          cut,        \* history: has a WSASend completed short?
          swallowed,  \* history: did a worker ignore a failed completion?
          disconnects \* history: the calls of OnDisconnected

flags == <<closed, sending>>
queues == <<deque, ctx, complete>>
kernel == <<socketOpen, flight>>
threads == <<pc, local, arg>>
history == <<wire, resent, cut>>
vars == <<flags, queues, kernel, threads, history, accepted, swallowed, disconnects>>

NoArg == 0

Init == /\ closed = FALSE /\ sending = FALSE
        /\ deque = <<>> /\ ctx = <<>> /\ complete = {}
        /\ socketOpen = TRUE /\ flight = <<>>
        /\ pc = [t \in Threads |-> "idle"]
        /\ local = [t \in Threads |-> <<>>]
        /\ arg = [t \in Threads |-> NoArg]
        /\ accepted = <<>> /\ wire = <<>>
        /\ resent = FALSE /\ cut = FALSE /\ swallowed = FALSE /\ disconnects = 0

Goto(t, label) == pc' = [pc EXCEPT ![t] = label]
Elements(s) == {s[i] : i \in DOMAIN s}

\* The elements of s that are in S, in their order (SelectSeq, for a set, as a
\* function that proofs can unfold).
Only(s, S) ==
  LET upTo[i \in 0 .. Len(s)] ==
        IF i = 0 THEN <<>>
        ELSE IF s[i] \in S THEN Append(upTo[i - 1], s[i]) ELSE upTo[i - 1]
  IN upTo[Len(s)]

\* The buffers some thread is carrying towards the queue.
Pushing == {arg[t] : t \in {u \in Threads : pc[u] = "push"}}

-----------------------------------------------------------------------------
(* Send *)

\* The test of _isClosed, without the lock.
SendBegin(t, b) ==
  /\ pc[t] = "idle"
  /\ b \notin Elements(accepted) \cup Pushing
  /\ ~ closed
  /\ Goto(t, "push")
  /\ arg' = [arg EXCEPT ![t] = b]
  /\ UNCHANGED <<flags, queues, kernel, local, history, accepted, swallowed,
                 disconnects>>

\* Mutant: _sending is tested and not set.
TestSending(t) ==
  /\ UNCHANGED sending
  /\ Goto(t, IF sending THEN "idle" ELSE "pop")

\* _sending.exchange(true): whoever finds it false goes on to ProcessSend.
ExchangeSending(t) ==
  /\ sending' = TRUE
  /\ Goto(t, IF sending THEN "idle" ELSE "pop")

\* Mutant: the newest packet goes to the front.
PushFront(b) == deque' = <<b>> \o deque

PushBack(b) == deque' = Append(deque, b)

\* Under the lock: push_back and the exchange.
SendPush(t) ==
  /\ pc[t] = "push"
  /\ PushBack(arg[t])
  /\ accepted' = Append(accepted, arg[t])
  /\ ExchangeSending(t)
  /\ arg' = [arg EXCEPT ![t] = NoArg]
  /\ UNCHANGED <<closed, ctx, complete, kernel, local, history, swallowed,
                 disconnects>>

-----------------------------------------------------------------------------
(* ProcessSend *)

\* The loop takes the first n buffers of s off the deque: all of them, or as
\* far as the MaxBatch-th buffer that is not complete.
Usable(s) == Only(s, Buffers \ complete)
Scanned(s, n) ==
  LET count == Len(Usable(SubSeq(s, 1, n))) IN
  \/ n = Len(s) /\ count < MaxBatch
  \/ count = MaxBatch /\ s[n] \notin complete

\* Under the lock: the batch is taken off the front of the deque.
ProcessPop(t) ==
  /\ pc[t] = "pop"
  /\ \E n \in 0 .. Len(deque) :
       /\ Scanned(deque, n)
       /\ deque' = SubSeq(deque, n + 1, Len(deque))
       /\ local' = [local EXCEPT ![t] = Usable(SubSeq(deque, 1, n))]
  /\ Goto(t, IF local'[t] = <<>> THEN "clear" ELSE "post")
  /\ UNCHANGED <<flags, ctx, complete, kernel, arg, history, accepted, swallowed,
                 disconnects>>

\* Nothing to send: _sending.store(false), after the lock is released.
ProcessClear(t) ==
  /\ pc[t] = "clear"
  /\ sending' = FALSE
  /\ Goto(t, "idle")
  /\ UNCHANGED <<closed, queues, kernel, local, arg, history, accepted, swallowed,
                 disconnects>>

\* WSASend takes the batch.
PostAccepted(t) ==
  /\ pc[t] = "post"
  /\ socketOpen
  /\ flight' = Append(flight, local[t])
  /\ Goto(t, "store")
  /\ UNCHANGED <<flags, queues, socketOpen, local, arg, history, accepted,
                 swallowed, disconnects>>

\* WSASend fails, and does so surely on INVALID_SOCKET: the batch is released
\* and the session closed.
PostRefused(t) ==
  /\ pc[t] = "post"
  /\ local' = [local EXCEPT ![t] = <<>>]
  /\ Goto(t, "close")
  /\ UNCHANGED <<flags, queues, kernel, arg, history, accepted, swallowed,
                 disconnects>>

\* Under the lock again: the batch becomes _sendContext.buffers.
ProcessStore(t) ==
  /\ pc[t] = "store"
  /\ ctx' = local[t]
  /\ local' = [local EXCEPT ![t] = <<>>]
  /\ Goto(t, "idle")
  /\ UNCHANGED <<flags, deque, complete, kernel, arg, history, accepted, swallowed,
                 disconnects>>

-----------------------------------------------------------------------------
(* Completions: the kernel, the IOCP worker and OnSendCompleted *)

Total(s) == FoldLeft(LAMBDA n, b : n + Size[b], 0, s)

\* The buffers of s whose last byte is among the first n bytes of s, and the
\* buffer that is split there, if any.
UpTo(s, i) == Total(SubSeq(s, 1, i))
Whole(s, n) == {s[i] : i \in {j \in DOMAIN s : UpTo(s, j) <= n}}
Split(s, n) == {s[i] : i \in {j \in DOMAIN s : UpTo(s, j - 1) < n /\ n < UpTo(s, j)}}

\* The kernel has transmitted the first n bytes of the oldest WSASend, and the
\* worker has got its completion.
Completed(w, n) ==
  LET op == Head(flight) IN
  /\ cut' = (cut \/ n < Total(op))
  /\ IF cut' THEN UNCHANGED <<wire, resent>>
     ELSE /\ resent' = (resent \/ Elements(op) \cap Elements(wire) # {})
          /\ wire' = wire \o Only(op, Buffers \ Elements(wire))
  /\ flight' = Tail(flight)
  /\ arg' = [arg EXCEPT ![w] = n]

CompletionArrives(w) ==
  /\ pc[w] = "idle"
  /\ flight # <<>> /\ socketOpen
  /\ \E n \in 1 .. Total(Head(flight)) : Completed(w, n)
  /\ Goto(w, "take")
  /\ UNCHANGED <<flags, queues, socketOpen, local, accepted, swallowed, disconnects>>

\* The send failed and the worker finds an expected disconnection, or no bytes.
CompletionFails(w) ==
  /\ pc[w] = "idle"
  /\ flight # <<>>
  /\ flight' = Tail(flight)
  /\ Goto(w, "close")
  /\ UNCHANGED <<flags, queues, socketOpen, local, arg, history, accepted,
                 swallowed, disconnects>>

\* The send failed with any other error: the worker logs it and goes on.
CompletionSwallowed(w) ==
  /\ pc[w] = "idle"
  /\ flight # <<>>
  /\ flight' = Tail(flight)
  /\ swallowed' = TRUE
  /\ UNCHANGED <<flags, queues, socketOpen, threads, history, accepted, disconnects>>

\* OnSendCompleted, first section under the lock: the buffers are moved out of
\* _sendContext, whichever they are by now.
CompletionTake(w) ==
  /\ pc[w] = "take"
  /\ local' = [local EXCEPT ![w] = ctx]
  /\ ctx' = <<>>
  /\ Goto(w, "requeue")
  /\ UNCHANGED <<flags, deque, complete, kernel, arg, history, accepted, swallowed,
                 disconnects>>

\* Mutant: _sending is cleared whatever the deque holds.
ClearSending(w) == sending' = FALSE /\ Goto(w, "idle")

\* More to send: go on to ProcessSend; otherwise _sending is cleared.
ContinueSending(w) ==
  /\ sending' = IF deque' # <<>> THEN sending ELSE FALSE
  /\ Goto(w, IF deque' # <<>> THEN "pop" ELSE "idle")

\* The bytes are accounted to the buffers taken; the first buffer they do not
\* fill, if they reach it, goes back to the front of the deque, and the
\* buffers after it are released.  Then the second section under the lock.
CompletionRequeue(w) ==
  /\ pc[w] = "requeue"
  /\ complete' = complete \cup Whole(local[w], arg[w])
  /\ \/ Split(local[w], arg[w]) = {} /\ UNCHANGED deque
     \/ \E b \in Split(local[w], arg[w]) : deque' = <<b>> \o deque
  /\ ContinueSending(w)
  /\ local' = [local EXCEPT ![w] = <<>>]
  /\ arg' = [arg EXCEPT ![w] = NoArg]
  /\ UNCHANGED <<closed, ctx, kernel, history, accepted, swallowed, disconnects>>

-----------------------------------------------------------------------------
(* Close *)

\* The heartbeat, the receiving half, a packet handler: anyone may close.
CloseBegin(t) ==
  /\ pc[t] = "idle"
  /\ ~ closed
  /\ Goto(t, "close")
  /\ UNCHANGED <<flags, queues, kernel, local, arg, history, accepted, swallowed,
                 disconnects>>

\* Mutant: _isClosed is tested and not set.
CloseTest(t) ==
  /\ pc[t] = "close"
  /\ UNCHANGED closed
  /\ Goto(t, IF closed THEN "idle" ELSE "unsend")
  /\ UNCHANGED <<sending, queues, kernel, local, arg, history, accepted, swallowed,
                 disconnects>>

\* _isClosed.exchange(true): only the first to get here goes on.
CloseExchange(t) ==
  /\ pc[t] = "close"
  /\ closed' = TRUE
  /\ Goto(t, IF closed THEN "idle" ELSE "unsend")
  /\ UNCHANGED <<sending, queues, kernel, local, arg, history, accepted, swallowed,
                 disconnects>>

\* _sending.store(false), without the lock.
CloseUnsend(t) ==
  /\ pc[t] = "unsend"
  /\ sending' = FALSE
  /\ Goto(t, "notify")
  /\ UNCHANGED <<closed, queues, kernel, local, arg, history, accepted, swallowed,
                 disconnects>>

\* Mutant: the resources are not released.
NotifyAndReturn(t) ==
  /\ pc[t] = "notify"
  /\ disconnects' = disconnects + 1
  /\ Goto(t, "idle")
  /\ UNCHANGED <<flags, queues, kernel, local, arg, history, accepted, swallowed>>

\* CoreService::OnDisconnected.
CloseNotify(t) ==
  /\ pc[t] = "notify"
  /\ disconnects' = disconnects + 1
  /\ Goto(t, "closesocket")
  /\ UNCHANGED <<flags, queues, kernel, local, arg, history, accepted, swallowed>>

\* CloseResource: closesocket; what is outstanding now fails.
CloseSocket(t) ==
  /\ pc[t] = "closesocket"
  /\ socketOpen' = FALSE
  /\ Goto(t, "discard")
  /\ UNCHANGED <<flags, queues, flight, local, arg, history, accepted, swallowed,
                 disconnects>>

\* CloseResource, under the lock: both containers are cleared.
CloseDiscard(t) ==
  /\ pc[t] = "discard"
  /\ deque' = <<>> /\ ctx' = <<>>
  /\ Goto(t, "idle")
  /\ UNCHANGED <<flags, complete, kernel, local, arg, history, accepted, swallowed,
                 disconnects>>

-----------------------------------------------------------------------------

\* What a thread does once it is inside Send, OnSendCompleted or Close.
Proceed(t) == \/ SendPush(t) \/ ProcessPop(t) \/ ProcessClear(t) 
              \/ PostAccepted(t) \/ PostRefused(t) \/ ProcessStore(t)
              \/ CompletionTake(t) \/ CompletionRequeue(t)
              \/ CloseExchange(t) \/ CloseUnsend(t) \/ CloseNotify(t)
              \/ CloseSocket(t) \/ CloseDiscard(t)

Complete(w) == CompletionArrives(w) \/ CompletionFails(w) \/ CompletionSwallowed(w)

Next == \/ \E t \in Threads : \/ \E b \in Buffers : SendBegin(t, b)
                              \/ CloseBegin(t) \/ Proceed(t)
        \/ \E w \in Workers : Complete(w)

Spec == Init /\ [][Next]_vars

\* Threads run, and the kernel completes every WSASend, well or not.
Fairness == /\ \A t \in Threads : WF_vars(Proceed(t))
            /\ WF_vars(\E w \in Workers : Complete(w))
FairSpec == Spec /\ Fairness

-----------------------------------------------------------------------------
(* Properties *)

Labels == {"idle", "push", "pop", "clear", "post", "store", "take", "requeue",
           "close", "unsend", "notify", "closesocket", "discard"}

\* Every variable has its type, and only an I/O worker is in OnSendCompleted.
TypeOK ==
  /\ closed \in BOOLEAN /\ sending \in BOOLEAN
  /\ deque \in Seq(Buffers) /\ ctx \in Seq(Buffers)
  /\ complete \subseteq Buffers
  /\ socketOpen \in BOOLEAN
  /\ flight \in Seq(Seq(Buffers))
  /\ pc \in [Threads -> Labels]
  /\ \A t \in Threads : pc[t] \in {"take", "requeue"} => t \in Workers
  /\ local \in [Threads -> Seq(Buffers)]
  /\ arg \in [Threads -> Buffers \cup Nat]
  /\ accepted \in Seq(Buffers) /\ wire \in Seq(Buffers)
  /\ resent \in BOOLEAN /\ cut \in BOOLEAN /\ swallowed \in BOOLEAN
  /\ disconnects \in Nat

\* The threads that have the session's sending in their hands.
Driving == {t \in Threads : pc[t] \in {"pop", "clear", "post", "take", "requeue"}}

\* As long as the session is open at most one WSASend is outstanding, and no
\* thread is about to issue another: the one OVERLAPPED of the session's
\* _sendContext is never in use twice (_sending is there for that).
SingleOutstanding == ~ closed => Len(flight) + Cardinality(Driving) <= 1

\* Somebody closes the session, or has noticed that it must be closed.
Closing == closed \/ \E t \in Threads : pc[t] = "close"

\* As long as the session is open and the kernel completes what it accepts
\* whole, the packets go out (for the first time) in the order in which they
\* were pushed, and those that have not gone out are in the deque, in the batch
\* of a thread about to post it or in the kernel's hands: whatever buffers a
\* completion finds in _sendContext, none is lost and none overtakes another.
NoPacketLost ==
  /\ TypeOK
  /\ ~ Closing /\ ~ swallowed /\ ~ cut =>
       /\ IsPrefix(wire, accepted)
       /\ \A b \in Elements(accepted) :
            \/ b \in Elements(wire) \cup Elements(deque)
            \/ \E i \in DOMAIN flight : b \in Elements(flight[i])
            \/ \E t \in Threads : pc[t] = "post" /\ b \in Elements(local[t])

\* OnDisconnected is called once, and before the socket is closed, however many
\* threads close the session at once.
DisconnectedOnce == disconnects <= 1 /\ (~ socketOpen => disconnects = 1)

\* What is sent is what was pushed, byte after byte: "Send complete & if data is
\* left, send on" (Session.h:43) sends the rest, never what has been sent.
StreamInOrder == ~ closed /\ ~ cut => IsPrefix(wire, accepted) /\ ~ resent

\* A packet pushed to a session that stays open is transmitted at last, unless
\* a worker has ignored a failed completion or a WSASend has completed short:
\* OnSendCompleted then drops the buffers behind the one that was cut.
EveryPacketGoesOut ==
  \A b \in Buffers :
    b \in Elements(accepted) ~> (b \in Elements(wire) \/ closed \/ swallowed \/ cut)

\* A session that is being closed gets its socket closed and its owner told.
CloseCompletes == closed ~> (~ socketOpen /\ disconnects = 1)
=============================================================================
