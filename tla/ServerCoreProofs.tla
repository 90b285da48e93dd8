---------------------------- MODULE ServerCoreProofs ----------------------------
(***************************************************************************)
(* Proofs about what the whole process shares.                             *)
(*                                                                         *)
(* ServerStop with LogManager, for any number of lines and any size of the *)
(* buffer: the log is complete and in order up to the lines that come      *)
(* after the stop of the server.                                           *)
(*                                                                         *)
(* DeadlockDetector, for any threads and locks: no deadlock goes unnoticed *)
(* and no alarm is false.                                                  *)
(***************************************************************************)
EXTENDS ServerStop, DeadlockDetector, SequenceTheorems, TLAPS

-----------------------------------------------------------------------------
(* The log: the inductive invariant *)

Kept == log.file \o log.buffer

Logs == [buffer : Seq(Nat), file : Seq(Nat), open : BOOLEAN]

\* Where Stop is before it turns to the log.
Ahead == {"no", "wake", "close", "release", "log"}

TypeInv ==
  /\ log \in Logs
  /\ pushed \in 0 .. MaxLines /\ handled \in 0 .. pushed /\ closedAt \in 0 .. MaxLines
  /\ writing \in BOOLEAN /\ closing \in BOOLEAN /\ raced \in BOOLEAN

\* Stop closes the log once.
StopInv ==
  /\ stop \in Ahead => closedAt = MaxLines /\ log.open
  /\ stop \notin Ahead => closedAt <= handled
  /\ stop # "logClose" => ~closing

\* The line that is being written comes after all that are kept.
OrderInv ==
  /\ \A i, j \in DOMAIN Kept : i < j => Kept[i] < Kept[j] \/ Kept[j] = Blank
  /\ \A i \in DOMAIN Kept : IF writing THEN Kept[i] < handled ELSE Kept[i] <= handled

\* While the file is closed, only lines from after the stop are written or wait.
KeptInv ==
  /\ ~(writing /\ closing)
  /\ writing /\ stop \notin Ahead => handled > closedAt
  /\ \A line \in 1 .. handled :
       line \in Range(Kept) \/ line > closedAt \/ (writing /\ line = handled)
  /\ handled > 0 /\ ~writing => Len(log.buffer) < FlushSize
  /\ ~log.open => \A line \in Range(log.buffer) : line > closedAt

IInv == TypeInv /\ StopInv /\ (~raced => OrderInv /\ KeptInv)

-----------------------------------------------------------------------------
(* What the functions on the log do *)

LEMMA LinesAre ==
  ASSUME NEW s \in Seq(Nat)
  PROVE  /\ DOMAIN s = 1 .. Len(s) /\ Len(s) \in Nat
         /\ \A i \in 1 .. Len(s) : s[i] \in Nat
         /\ Range(s) = {s[i] : i \in 1 .. Len(s)}
<1>1. /\ DOMAIN s = 1 .. Len(s) /\ Len(s) \in Nat
      /\ \A i \in 1 .. Len(s) : s[i] \in Nat
  OBVIOUS
<1>2. Range(s) = {s[i] : i \in 1 .. Len(s)}
  BY <1>1, Zenon DEF Range
<1>. QED
  BY <1>1, <1>2

LEMMA RangeOfAppend ==
  ASSUME NEW s \in Seq(Nat), NEW e \in Nat
  PROVE  /\ Append(s, e) \in Seq(Nat)
         /\ DOMAIN Append(s, e) = 1 .. Len(s) + 1
         /\ \A i \in 1 .. Len(s) : Append(s, e)[i] = s[i]
         /\ Append(s, e)[Len(s) + 1] = e
         /\ Range(Append(s, e)) = Range(s) \cup {e}
<1>1. /\ Append(s, e) \in Seq(Nat)
      /\ DOMAIN Append(s, e) = 1 .. Len(s) + 1 /\ Len(s) \in Nat /\ DOMAIN s = 1 .. Len(s)
      /\ \A i \in 1 .. Len(s) : Append(s, e)[i] = s[i]
      /\ Append(s, e)[Len(s) + 1] = e
  OBVIOUS
<1>2. 1 .. Len(s) + 1 = (1 .. Len(s)) \cup {Len(s) + 1}
  BY <1>1
<1>3. Range(Append(s, e)) = Range(s) \cup {e}
  <2>1. /\ Range(s) = {s[i] : i \in 1 .. Len(s)}
        /\ Range(Append(s, e)) = {Append(s, e)[i] : i \in (1 .. Len(s)) \cup {Len(s) + 1}}
    BY <1>1, <1>2, Zenon DEF Range
  <2>2. ASSUME NEW a \in Range(Append(s, e)) PROVE a \in Range(s) \cup {e}
    BY <1>1, <2>1
  <2>3. ASSUME NEW a \in Range(s) \cup {e} PROVE a \in Range(Append(s, e))
    BY <1>1, <2>1
  <2>. QED
    BY <2>2, <2>3
<1>. QED
  BY <1>1, <1>3

LEMMA EmptyIs == <<>> \in Seq(Nat) /\ Range(<<>>) = {} /\ Len(<<>>) = 0
  BY DEF Range

LEMMA EmptyConcat ==
  ASSUME NEW s \in Seq(Nat)
  PROVE  <<>> \in Seq(Nat) /\ s \o <<>> = s /\ Range(<<>>) = {} /\ Len(<<>>) = 0
  BY ConcatEmptySeq, EmptyIs

LEMMA ConcatAppend ==
  ASSUME NEW s \in Seq(Nat), NEW t \in Seq(Nat), NEW e \in Nat
  PROVE  s \o Append(t, e) = Append(s \o t, e) /\ s \o t \in Seq(Nat)
  BY AppendIsConcat, ConcatAssociative, ConcatProperties

\* A flush moves the lines that wait to the file, or drops them.
LEMMA FlushIs ==
  ASSUME NEW l \in Logs
  PROVE  /\ FlushBuffer(l) \in Logs /\ FlushBuffer(l).open = l.open
         /\ FlushBuffer(l).buffer = <<>>
         /\ FlushBuffer(l).file = IF l.open THEN l.file \o l.buffer ELSE l.file
<1>1. /\ l.file \in Seq(Nat) /\ l.buffer \in Seq(Nat) /\ l.file \o l.buffer \in Seq(Nat)
      /\ <<>> \in Seq(Nat)
  BY ConcatAppend, EmptyConcat DEF Logs
<1>. QED
  BY <1>1 DEF FlushBuffer, Logs

LEMMA CloseIs ==
  ASSUME NEW l \in Logs
  PROVE  /\ CloseLogFile(l) \in Logs /\ ~CloseLogFile(l).open
         /\ CloseLogFile(l).file \o CloseLogFile(l).buffer = l.file \o l.buffer
         /\ CloseLogFile(l).buffer = IF l.open THEN <<>> ELSE l.buffer
<1>1. l.file \in Seq(Nat) /\ l.buffer \in Seq(Nat) /\ l.file \o l.buffer \in Seq(Nat)
  BY ConcatAppend DEF Logs
<1>2. CASE l.open
  <2>1. PICK f \in Logs : f = FlushBuffer(l) /\ f.buffer = <<>> /\ f.file = l.file \o l.buffer
    BY <1>2, FlushIs
  <2>2. CloseLogFile(l) = [f EXCEPT !.open = FALSE]
    BY <1>2, <2>1 DEF CloseLogFile
  <2>3. /\ CloseLogFile(l) \in Logs /\ CloseLogFile(l).open = FALSE
        /\ CloseLogFile(l).file = l.file \o l.buffer /\ CloseLogFile(l).buffer = <<>>
    BY <2>1, <2>2 DEF Logs
  <2>. QED
    BY <1>1, <1>2, <2>3, EmptyConcat
<1>3. CASE ~l.open
  BY <1>3 DEF CloseLogFile
<1>. QED
  BY <1>2, <1>3

\* A line that is processed is kept after the others, or, with the file closed,
\* it is dropped with all that wait.
KeptOrDropped(l, line, r) ==
  /\ r \in Logs /\ Len(r.buffer) < FlushSize /\ (l.open => r.open)
  /\ \/ /\ r.file \o r.buffer = Append(l.file \o l.buffer, line)
        /\ ~r.open => r.buffer = Append(l.buffer, line)
     \/ ~l.open /\ ~r.open /\ r.file = l.file /\ r.buffer = <<>>

LEMMA ProcessedIs ==
  ASSUME NEW l \in Logs, NEW line \in Nat, NEW newDay \in BOOLEAN, NEW late \in BOOLEAN
  PROVE  KeptOrDropped(l, line, Processed(l, line, newDay, late))
<1> SUFFICES ASSUME NEW r, r = Processed(l, line, newDay, late)
             PROVE  KeptOrDropped(l, line, r)
  OBVIOUS
<1> USE DEF KeptOrDropped
<1> DEFINE today == IF newDay THEN CreateLogFile(CloseLogFile(l)) ELSE l
           more  == [today EXCEPT !.buffer = Append(@, line)]
<1>1. /\ today \in Logs /\ today.file \o today.buffer = l.file \o l.buffer
      /\ (l.open => today.open) /\ (~today.open => today = l)
  <2>1. CASE newDay
    <3>1. PICK c \in Logs : c = CloseLogFile(l)
      BY CloseIs
    <3>2. today = [c EXCEPT !.open = TRUE]
      BY <2>1, <3>1 DEF CreateLogFile
    <3>3. today \in Logs /\ today.file = c.file /\ today.buffer = c.buffer /\ today.open
      BY <3>2 DEF Logs
    <3>. QED
      BY <3>1, <3>3, CloseIs
  <2>2. CASE ~newDay
    BY <2>2
  <2>. QED
    BY <2>1, <2>2
<1>2. r = IF Len(more.buffer) >= FlushSize \/ late THEN FlushBuffer(more) ELSE more
  BY DEF Processed
<1> HIDE DEF today
<1>3. today.file \in Seq(Nat) /\ today.buffer \in Seq(Nat)
  BY <1>1 DEF Logs
<1>4. /\ more \in Logs /\ more.open = today.open /\ more.file = today.file
      /\ more.buffer = Append(today.buffer, line)
  BY <1>1, <1>3, RangeOfAppend DEF Logs
<1>5. more.file \o more.buffer = Append(l.file \o l.buffer, line)
  <2>1. today.file \o Append(today.buffer, line) = Append(today.file \o today.buffer, line)
    BY <1>3, ConcatAppend
  <2> HIDE DEF more
  <2>. QED
    BY <1>1, <1>4, <2>1
<1> HIDE DEF more
<1>6. FlushSize \in Nat \ {0} /\ Len(more.buffer) \in Nat
  BY <1>4, LogAssumption DEF Logs
<1>7. CASE r = more /\ Len(more.buffer) < FlushSize
  BY <1>1, <1>4, <1>5, <1>7
<1>8. CASE r = FlushBuffer(more)
  <2>1. /\ r \in Logs /\ r.open = today.open /\ r.buffer = <<>>
        /\ r.file = IF today.open THEN Append(l.file \o l.buffer, line) ELSE today.file
    <3>1. /\ FlushBuffer(more) \in Logs /\ FlushBuffer(more).open = more.open
          /\ FlushBuffer(more).buffer = <<>>
          /\ FlushBuffer(more).file = IF more.open THEN more.file \o more.buffer ELSE more.file
      BY <1>4, FlushIs
    <3>. QED
      BY <1>4, <1>5, <1>8, <3>1
  <2>2. Len(r.buffer) < FlushSize /\ r.file \o r.buffer = r.file
    BY <1>6, <2>1, EmptyConcat DEF Logs
  <2>. QED
    BY <1>1, <2>1, <2>2
<1>9. r = FlushBuffer(more) \/ (r = more /\ ~(Len(more.buffer) >= FlushSize))
  BY <1>2
<1>10. ~(Len(more.buffer) >= FlushSize) => Len(more.buffer) < FlushSize
  BY <1>6
<1>. QED
  BY <1>7, <1>8, <1>9, <1>10, Zenon

-----------------------------------------------------------------------------
(* The steps *)

LEMMA InitInv == Init => IInv
<1> SUFFICES ASSUME Init PROVE IInv
  OBVIOUS
<1>1. /\ log = [buffer |-> [i \in 1 .. FlushSize |-> Blank], file |-> <<>>, open |-> TRUE]
      /\ pushed = 0 /\ handled = 0 /\ writing = FALSE /\ closing = FALSE /\ raced = FALSE
      /\ closedAt = MaxLines /\ stop = "no"
  BY DEF Init, LogInit
<1>2. FlushSize \in Nat /\ MaxLines \in Nat
  BY LogAssumption
<1>3. [i \in 1 .. FlushSize |-> Blank] \in Seq(Nat)
  BY <1>2, IsASeq DEF Blank
<1>4. TypeInv
  <2>1. log \in Logs
    BY <1>1, <1>3, EmptyConcat DEF Logs
  <2>2. pushed \in 0 .. MaxLines /\ handled \in 0 .. pushed /\ closedAt \in 0 .. MaxLines
    BY <1>1, <1>2
  <2>. QED
    BY <1>1, <2>1, <2>2 DEF TypeInv
<1>5. StopInv
  BY <1>1 DEF StopInv, Ahead
<1>6. /\ Kept = [i \in 1 .. FlushSize |-> Blank]
      /\ \A i \in DOMAIN Kept : Kept[i] = Blank
  BY <1>1, <1>3, ConcatEmptySeq DEF Kept
<1>7. OrderInv
  BY <1>1, <1>6 DEF OrderInv, Blank
<1>8. KeptInv
  BY <1>1 DEF KeptInv
<1>. QED
  BY <1>4, <1>5, <1>7, <1>8 DEF IInv

\* What a step does to the log: nothing, but for a line that is pushed; or one
\* of the four steps of the System worker and of Stop.
Elsewhere ==
  /\ UNCHANGED <<log, handled, writing, closing, raced, closedAt>>
  /\ pushed' \in {pushed, pushed + 1} /\ pushed' <= MaxLines
  /\ stop' \in Ahead <=> stop \in Ahead
  /\ stop = "logClose" => stop' = stop

LEMMA StepCases ==
  ASSUME IInv, [Next]_vars
  PROVE  \/ Elsewhere
         \/ ProcessBegin /\ stop' = stop
         \/ ProcessEnd /\ stop' = stop
         \/ StopTo("log", "logClose") /\ ShutdownBegin
         \/ StopTo("logClose", "jobs") /\ ShutdownEnd
<1>1. /\ pushed \in Nat /\ MaxLines \in Nat /\ pushed <= MaxLines
  BY LogAssumption DEF IInv, TypeInv
<1>2. ASSUME UNCHANGED <<log, handled, writing, closing, raced, closedAt>>,
             pushed' = pushed \/ PushLine, stop' = stop
      PROVE  Elsewhere
  BY <1>1, <1>2 DEF Elsewhere, PushLine
<1>3. ASSUME NEW w \in Workers, IOWorkerThread(w) PROVE Elsewhere
  BY <1>2, <1>3 DEF IOWorkerThread, WorkerLoop, WorkerSignal, WorkerError, WorkerCompletion,
                    WorkerHandled, OnAcceptCompleted, RequestAccept, ProcessAccept, AndLog,
                    logVars
<1>4. CASE SystemWorker
  BY <1>2, <1>4 DEF SystemWorker, SystemLine, StartHeartbeatTask, SystemLeave, logVars
<1>5. CASE StopBegin \/ WakeUpIOWorkerThreads \/ CloseIocp \/ ReleaseIocp
  <2>1. stop \in Ahead /\ stop' \in Ahead /\ stop # "logClose"
    BY <1>5 DEF StopBegin, WakeUpIOWorkerThreads, CloseIocp, ReleaseIocp, StopTo, Ahead
  <2>2. /\ UNCHANGED <<log, handled, writing, closing, raced, closedAt>>
        /\ pushed' = pushed \/ PushLine
    BY <1>5 DEF StopBegin, WakeUpIOWorkerThreads, CloseIocp, ReleaseIocp, AndLog, logVars
  <2>. QED
    BY <1>1, <2>1, <2>2 DEF Elsewhere, PushLine
<1>6. CASE StopLog
  BY <1>6 DEF StopLog
<1>7. CASE StopJobs \/ StopSessions \/ StopEnd
  <2>1. stop \notin Ahead /\ stop' \notin Ahead /\ stop # "logClose"
    BY <1>7 DEF StopJobs, StopSessions, StopEnd, StopTo, Ahead
  <2>2. UNCHANGED logVars
    BY <1>7 DEF StopJobs, StopSessions, StopEnd
  <2>. QED
    BY <1>1, <2>1, <2>2 DEF Elsewhere, logVars
<1>8. CASE \E t \in Launched : Join(t)
  BY <1>2, <1>8 DEF Join, logVars
<1>9. CASE AnyLog
  BY <1>2, <1>9 DEF AnyLog, PushLog
<1>10. CASE UNCHANGED vars
  BY <1>2, <1>10 DEF vars, logVars
<1>. QED
  BY <1>3, <1>4, <1>5, <1>6, <1>7, <1>8, <1>9, <1>10 DEF Next, StopSteps

LEMMA ElsewhereStep ==
  ASSUME IInv, Elsewhere
  PROVE  IInv'
<1>1. TypeInv'
  <2>1. pushed \in Nat /\ handled \in Nat /\ handled <= pushed /\ MaxLines \in Nat
    BY LogAssumption DEF IInv, TypeInv
  <2>2. pushed' \in 0 .. MaxLines /\ handled \in 0 .. pushed'
    BY <2>1 DEF Elsewhere
  <2>. QED
    BY <2>2 DEF IInv, TypeInv, Elsewhere
<1>2. StopInv'
  BY DEF IInv, StopInv, Elsewhere
<1>3. ~raced => OrderInv' /\ KeptInv'
  BY DEF IInv, OrderInv, KeptInv, Kept, Elsewhere
<1>. QED
  BY <1>1, <1>2, <1>3 DEF IInv, Elsewhere

LEMMA ProcessBeginStep ==
  ASSUME IInv, ProcessBegin, stop' = stop
  PROVE  IInv'
<1> USE DEF ProcessBegin
<1>1. /\ handled \in Nat /\ pushed \in Nat /\ handled < pushed /\ pushed <= MaxLines
      /\ closedAt \in Nat /\ MaxLines \in Nat
  BY LogAssumption DEF IInv, TypeInv
<1>2. TypeInv'
  BY <1>1 DEF IInv, TypeInv
<1>3. StopInv'
  BY <1>1 DEF IInv, StopInv
<1>4. ASSUME ~raced'
      PROVE  OrderInv' /\ KeptInv'
  <2>1. ~raced /\ ~closing /\ OrderInv /\ KeptInv
    BY <1>4 DEF IInv, TypeInv
  <2>2. Kept' = Kept /\ Kept \in Seq(Nat)
    BY ConcatAppend DEF Kept, IInv, TypeInv, Logs
  <2>3. \A i \in DOMAIN Kept : Kept[i] < handled'
    <3> SUFFICES ASSUME NEW i \in DOMAIN Kept PROVE Kept[i] < handled'
      OBVIOUS
    <3>1. Kept[i] \in Nat /\ Kept[i] <= handled
      BY <2>1, <2>2, LinesAre DEF OrderInv
    <3>. QED
      BY <1>1, <3>1
  <2>4. OrderInv'
    BY <2>1, <2>2, <2>3 DEF OrderInv
  <2>5. \A line \in 1 .. handled' : line \in 1 .. handled \/ line = handled'
    BY <1>1
  <2>6. stop \notin Ahead => handled' > closedAt
    BY <1>1 DEF IInv, StopInv
  <2>7. KeptInv'
    BY <2>1, <2>2, <2>5, <2>6 DEF KeptInv
  <2>. QED
    BY <2>4, <2>7
<1>. QED
  BY <1>2, <1>3, <1>4 DEF IInv

\* Also when two threads were inside at once the log is a log.
LEMMA ProcessEndStep ==
  ASSUME IInv, ProcessEnd, stop' = stop
  PROVE  IInv'
<1>1. PICK newDay \in BOOLEAN, late \in BOOLEAN : log' = Processed(log, handled, newDay, late)
  BY DEF ProcessEnd
<1>2. /\ writing /\ writing' = FALSE
      /\ UNCHANGED <<pushed, handled, closing, raced, closedAt>>
  BY DEF ProcessEnd
<1>3. /\ log \in Logs /\ handled \in Nat /\ closedAt \in Nat
  BY DEF IInv, TypeInv
<1>4. /\ log' \in Logs /\ Len(log'.buffer) < FlushSize /\ (log.open => log'.open)
      /\ \/ /\ Kept' = Append(Kept, handled)
            /\ ~log'.open => log'.buffer = Append(log.buffer, handled)
         \/ ~log.open /\ ~log'.open /\ log'.file = log.file /\ log'.buffer = <<>>
  <2>1. KeptOrDropped(log, handled, log')
    BY <1>1, <1>3, ProcessedIs
  <2>. QED
    BY <2>1 DEF KeptOrDropped, Kept
<1>5. TypeInv'
  BY <1>2, <1>4 DEF IInv, TypeInv
<1>6. StopInv'
  BY <1>2, <1>4 DEF IInv, StopInv
<1>7. ASSUME ~raced
      PROVE  OrderInv' /\ KeptInv'
  <2>1. OrderInv /\ KeptInv /\ ~closing
    BY <1>2, <1>7 DEF IInv, KeptInv
  <2>2. /\ log.file \in Seq(Nat) /\ log.buffer \in Seq(Nat) /\ Kept \in Seq(Nat)
    BY <1>3, ConcatAppend DEF Logs, Kept
  <2>3. ~log.open => handled > closedAt
    BY <1>2, <2>1 DEF IInv, StopInv, KeptInv
  <2>4. \A i \in DOMAIN Kept : Kept[i] \in Nat /\ Kept[i] < handled
    BY <1>2, <2>1, <2>2, LinesAre DEF OrderInv
  <2>5. CASE /\ Kept' = Append(Kept, handled)
             /\ ~log'.open => log'.buffer = Append(log.buffer, handled)
    <3>1. /\ DOMAIN Kept' = 1 .. Len(Kept) + 1 /\ DOMAIN Kept = 1 .. Len(Kept) /\ Len(Kept) \in Nat
          /\ \A i \in 1 .. Len(Kept) : Kept'[i] = Kept[i]
          /\ Kept'[Len(Kept) + 1] = handled
          /\ Range(Kept') = Range(Kept) \cup {handled}
      BY <1>3, <2>2, <2>5, RangeOfAppend, LinesAre
    <3>2. ASSUME NEW i \in DOMAIN Kept', NEW j \in DOMAIN Kept', i < j
          PROVE  Kept'[i] < Kept'[j] \/ Kept'[j] = Blank
      <4>1. i \in 1 .. Len(Kept)
        BY <3>1, <3>2
      <4>2. CASE j \in 1 .. Len(Kept)
        BY <2>1, <3>1, <3>2, <4>1, <4>2 DEF OrderInv
      <4>3. CASE j = Len(Kept) + 1
        BY <2>4, <3>1, <4>1, <4>3
      <4>. QED
        BY <3>1, <3>2, <4>2, <4>3
    <3>3. ASSUME NEW i \in DOMAIN Kept'
          PROVE  Kept'[i] <= handled'
      <4>1. CASE i \in 1 .. Len(Kept)
        BY <1>2, <1>3, <2>4, <3>1, <4>1
      <4>2. CASE i = Len(Kept) + 1
        BY <1>2, <1>3, <3>1, <4>2
      <4>. QED
        BY <3>1, <4>1, <4>2
    <3>4. OrderInv'
      BY <1>2, <3>2, <3>3 DEF OrderInv
    <3>5. \A line \in 1 .. handled' : line \in Range(Kept') \/ line > closedAt'
      BY <1>2, <2>1, <3>1 DEF KeptInv
    <3>6. ~log'.open => \A line \in Range(log'.buffer) : line > closedAt'
      <4>1. SUFFICES ASSUME ~log'.open PROVE \A line \in Range(log'.buffer) : line > closedAt
        BY <1>2
      <4>2. ~log.open /\ Range(log'.buffer) = Range(log.buffer) \cup {handled}
        <5>1. log'.buffer = Append(log.buffer, handled)
          BY <2>5, <4>1
        <5>2. Range(Append(log.buffer, handled)) = Range(log.buffer) \cup {handled}
          BY <1>3, <2>2, RangeOfAppend
        <5>. QED
          BY <1>4, <4>1, <5>1, <5>2
      <4>. QED
        BY <2>1, <2>3, <4>2 DEF KeptInv
    <3>. QED
      BY <1>2, <1>4, <3>4, <3>5, <3>6 DEF KeptInv
  <2>6. CASE ~log.open /\ ~log'.open /\ log'.file = log.file /\ log'.buffer = <<>>
    <3>1. Kept' = log.file
      BY <2>2, <2>6, EmptyConcat DEF Kept
    <3>2. /\ DOMAIN log.file = 1 .. Len(log.file) /\ DOMAIN Kept = 1 .. Len(Kept)
          /\ Len(Kept) = Len(log.file) + Len(log.buffer)
          /\ Len(log.file) \in Nat /\ Len(log.buffer) \in Nat
          /\ \A i \in 1 .. Len(log.file) : i \in DOMAIN Kept /\ Kept[i] = log.file[i]
      <4>1. /\ DOMAIN log.file = 1 .. Len(log.file) /\ DOMAIN Kept = 1 .. Len(Kept)
            /\ Len(log.file) \in Nat /\ Len(log.buffer) \in Nat
        BY <2>2, LinesAre
      <4>2. /\ Len(Kept) = Len(log.file) + Len(log.buffer)
            /\ \A i \in 1 .. Len(log.file) + Len(log.buffer) :
                 Kept[i] = IF i <= Len(log.file) THEN log.file[i] ELSE log.buffer[i - Len(log.file)]
        BY <2>2, ConcatProperties, Zenon DEF Kept
      <4>3. ASSUME NEW i \in 1 .. Len(log.file)
            PROVE  i \in DOMAIN Kept /\ Kept[i] = log.file[i]
        <5>1. \A m, n \in Nat : \A k \in 1 .. m : k \in 1 .. m + n /\ k <= m
          OBVIOUS
        <5>2. i \in 1 .. Len(log.file) + Len(log.buffer) /\ i <= Len(log.file)
          BY <4>1, <5>1
        <5>. QED
          BY <4>1, <4>2, <5>2
      <4>. QED
        BY <4>1, <4>2, <4>3
    <3>3. OrderInv'
      <4>1. \A i, j \in DOMAIN Kept' : i < j => Kept'[i] < Kept'[j] \/ Kept'[j] = Blank
        BY <2>1, <3>1, <3>2 DEF OrderInv
      <4>2. \A i \in DOMAIN Kept' : Kept'[i] <= handled'
        <5> SUFFICES ASSUME NEW i \in DOMAIN Kept' PROVE Kept'[i] <= handled'
          OBVIOUS
        <5>1. i \in DOMAIN Kept /\ Kept'[i] = Kept[i]
          BY <3>1, <3>2
        <5>2. Kept[i] \in Nat /\ Kept[i] < handled
          BY <2>4, <5>1
        <5>. QED
          BY <1>2, <1>3, <5>1, <5>2
      <4>. QED
        BY <1>2, <4>1, <4>2 DEF OrderInv
    <3>4. ASSUME NEW line \in 1 .. handled', ~(line > closedAt')
          PROVE  line \in Range(Kept')
      <4>1. line \in Range(Kept)
        BY <1>2, <2>1, <2>3, <2>6, <3>4 DEF KeptInv
      <4>2. line \notin Range(log.buffer)
        BY <1>2, <2>1, <2>6, <3>4 DEF KeptInv
      <4>3. Range(Kept) = Range(log.file) \cup Range(log.buffer)
        BY <2>2, RangeConcatenation DEF Kept
      <4>. QED
        BY <3>1, <4>1, <4>2, <4>3
    <3>5. \A line \in Range(log'.buffer) : line > closedAt'
      <4>1. Range(<<>>) = {}
        BY <2>2, EmptyConcat
      <4>. QED
        BY <2>6, <4>1
    <3>. QED
      BY <1>2, <1>4, <3>3, <3>4, <3>5 DEF KeptInv
  <2>. QED
    BY <1>4, <2>5, <2>6
<1>. QED
  BY <1>2, <1>5, <1>6, <1>7 DEF IInv

LEMMA ShutdownBeginStep ==
  ASSUME IInv, StopTo("log", "logClose"), ShutdownBegin
  PROVE  IInv'
<1> USE DEF ShutdownBegin
<1>1. stop \in Ahead /\ stop' = "logClose" /\ stop' \notin Ahead
  BY DEF StopTo, Ahead
<1>2. /\ handled \in Nat /\ handled <= MaxLines /\ closedAt = MaxLines /\ log.open
      /\ MaxLines \in Nat
  BY <1>1, LogAssumption DEF IInv, TypeInv, StopInv
<1>3. TypeInv'
  BY <1>2 DEF IInv, TypeInv
<1>4. StopInv'
  BY <1>1, <1>2 DEF StopInv
<1>5. ASSUME ~raced'
      PROVE  OrderInv' /\ KeptInv'
  <2>1. ~raced /\ ~writing /\ OrderInv /\ KeptInv
    BY <1>5 DEF IInv, TypeInv
  <2>2. Kept' = Kept
    BY DEF Kept
  <2>3. \A line \in 1 .. handled : line \in Range(Kept)
    BY <1>2, <2>1 DEF KeptInv
  <2>. QED
    BY <1>2, <2>1, <2>2, <2>3 DEF OrderInv, KeptInv
<1>. QED
  BY <1>3, <1>4, <1>5 DEF IInv

LEMMA ShutdownEndStep ==
  ASSUME IInv, StopTo("logClose", "jobs"), ShutdownEnd
  PROVE  IInv'
<1>1. stop \notin Ahead /\ stop' = "jobs" /\ stop' \notin Ahead
  BY DEF StopTo, Ahead
<1>2. /\ closing /\ closing' = FALSE /\ log' = CloseLogFile(log)
      /\ UNCHANGED <<pushed, handled, writing, raced, closedAt>>
  BY DEF ShutdownEnd
<1>3. log \in Logs /\ FlushSize \in Nat \ {0}
  BY LogAssumption DEF IInv, TypeInv
<1>4. /\ log' \in Logs /\ ~log'.open /\ Kept' = Kept
      /\ log'.buffer = IF log.open THEN <<>> ELSE log.buffer
  BY <1>2, <1>3, CloseIs DEF Kept
<1>5. TypeInv'
  BY <1>2, <1>4 DEF IInv, TypeInv
<1>6. StopInv'
  BY <1>1, <1>2 DEF IInv, StopInv
<1>7. ASSUME ~raced
      PROVE  OrderInv' /\ KeptInv'
  <2>1. OrderInv /\ KeptInv
    BY <1>7 DEF IInv
  <2>2. OrderInv'
    BY <1>2, <1>4, <2>1 DEF OrderInv
  <2>3. handled' > 0 /\ ~writing' => Len(log'.buffer) < FlushSize
    <3>1. Len(<<>>) < FlushSize
      BY <1>3
    <3>. QED
      BY <1>2, <1>4, <2>1, <3>1 DEF KeptInv
  <2>4. \A line \in Range(log'.buffer) : line > closedAt'
    <3>1. Range(<<>>) = {}
      BY EmptyIs
    <3>. QED
      BY <1>2, <1>4, <2>1, <3>1 DEF KeptInv
  <2>5. /\ writing' /\ stop' \notin Ahead => handled' > closedAt'
        /\ \A line \in 1 .. handled' :
             line \in Range(Kept') \/ line > closedAt' \/ (writing' /\ line = handled')
    BY <1>1, <1>2, <1>4, <2>1 DEF KeptInv
  <2>6. KeptInv'
    BY <1>2, <2>3, <2>4, <2>5 DEF KeptInv
  <2>. QED
    BY <2>2, <2>6
<1>. QED
  BY <1>2, <1>5, <1>6, <1>7 DEF IInv

LEMMA NextInv == IInv /\ [Next]_vars => IInv'
  BY StepCases, ElsewhereStep, ProcessBeginStep, ProcessEndStep, ShutdownBeginStep, ShutdownEndStep

-----------------------------------------------------------------------------
(* The theorem *)

\* No line is lost, doubled or out of order, in the file and the buffer, but for
\* lines that come after the server has begun to close the file, unless the two
\* threads were in the log at the same time.
THEOREM Log == Spec => []LogIsKept
<1>1. IInv => LogIsKept
  BY DEF IInv, OrderInv, KeptInv, Kept, LogIsKept
<1>. QED
  BY <1>1, InitInv, NextInv, PTL DEF Spec

-----------------------------------------------------------------------------
(* The locks: reachability *)

LEMMA ReachesNext ==
  ASSUME NEW nodes, NEW graph, NEW a, NEW b, <<a, b>> \in graph
  PROVE  Reaches(graph, nodes, a, b)
BY SMT DEF Reaches

LEMMA ReachesFurther ==
  ASSUME NEW nodes, NEW graph, NEW a, NEW b, NEW c,
         Reaches(graph, nodes, a, b), <<b, c>> \in graph
  PROVE  Reaches(graph, nodes, a, c)
BY SMT DEF Reaches

LEMMA ReachesInMore ==
  ASSUME NEW nodes, NEW graph, NEW more, graph \subseteq more,
         NEW a, NEW b, Reaches(graph, nodes, a, b)
  PROVE  Reaches(more, nodes, a, b)
BY DEF Reaches

\* A circle that comes with an edge is one through the end of that edge.
LEMMA CircleIsThroughEdge ==
  ASSUME NEW nodes, NEW graph \in SUBSET (nodes \X nodes),
         NEW from \in nodes, NEW to \in nodes, NEW l \in nodes,
         ~Reaches(graph, nodes, l, l),
         ~Reaches(graph \cup {<<from, to>>}, nodes, to, to)
  PROVE  ~Reaches(graph \cup {<<from, to>>}, nodes, l, l)
<1>1. PICK S \in SUBSET nodes :
        (\A e \in graph : e[1] \in S \cup {l} => e[2] \in S) /\ l \notin S
  BY DEF Reaches
<1>2. PICK R \in SUBSET nodes :
        /\ \A e \in graph \cup {<<from, to>>} : e[1] \in R \cup {to} => e[2] \in R
        /\ to \notin R
  BY DEF Reaches
<1>3. from \notin R
  <2>1. <<from, to>>[1] \in R \cup {to} => <<from, to>>[2] \in R
    BY <1>2
  <2>. QED  BY <2>1, <1>2
<1>4. CASE l = to
  BY <1>2, <1>4 DEF Reaches
<1>5. CASE l \in R
  <2>1. \A e \in graph \cup {<<from, to>>} : e[1] \in (S \cap R) \cup {l} => e[2] \in S \cap R
    BY <1>1, <1>2, <1>3, <1>5, SMT
  <2>2. S \cap R \in SUBSET nodes /\ l \notin S \cap R
    BY <1>1
  <2>. QED  BY <2>1, <2>2 DEF Reaches
<1>6. CASE l # to /\ l \notin R
  <2>1. \A e \in graph \cup {<<from, to>>} :
          e[1] \in (S \cup R \cup {to}) \cup {l} => e[2] \in S \cup R \cup {to}
    BY <1>1, <1>2, SMT
  <2>2. S \cup R \cup {to} \in SUBSET nodes /\ l \notin S \cup R \cup {to}
    BY <1>1, <1>2, <1>6
  <2>. QED  BY <2>1, <2>2 DEF Reaches
<1>. QED
  BY <1>4, <1>5, <1>6

-----------------------------------------------------------------------------
(* The locks: the inductive invariant *)

LockTypes ==
  /\ _lockGraph \in SUBSET (Locks \X Locks) /\ nested \in SUBSET (Locks \X Locks)
  /\ LHoldLock \in [Threads -> Seq(Locks)] /\ guards \in [Threads -> Seq(Locks)]
  /\ owner \in [Locks -> Threads \cup {None}]
  /\ pc \in [Threads -> {"run", "check", "block"}]
  /\ lock \in [Threads -> Locks \cup {None}]
  /\ IsCheck \in BOOLEAN /\ crashed \in BOOLEAN
  /\ \A t \in Threads : pc[t] # "run" => lock[t] \in Locks

\* The stack of a thread is its guards, for as long as it is looked at.
StackInv ==
  \A t \in Threads : /\ IsCheck \/ pc[t] = "check" => LHoldLock[t] = guards[t]
                     /\ pc[t] = "check" => guards[t] # <<>>

\* Who has a mutex has a guard for it.
OwnerInv ==
  \A l \in Locks : owner[l] # None =>
    \E i \in DOMAIN guards[owner[l]] : guards[owner[l]][i] = l

\* Every edge was asked for.
NestedInv ==
  /\ _lockGraph \subseteq nested
  /\ \A t \in Threads : pc[t] # "run" =>
       \A i \in DOMAIN guards[t] : <<guards[t][i], lock[t]>> \in nested

\* The graph leads from each lock a thread has to those it took, or waits for,
\* inside it.
Ordered(t) ==
  /\ \A i, j \in DOMAIN guards[t] : i < j =>
       Reaches(_lockGraph, Locks, guards[t][i], guards[t][j])
  /\ pc[t] = "block" => \A i \in DOMAIN guards[t] :
       Reaches(_lockGraph, Locks, guards[t][i], lock[t])

LockOrderInv == IsCheck /\ ~crashed => \A t \in Threads : Ordered(t)

\* The process stops with the first circle.
CircleInv ==
  IF crashed THEN \E l \in Locks : CycleCheck(_lockGraph, l)
             ELSE \A l \in Locks : ~CycleCheck(_lockGraph, l)

LockInv == /\ LockTypes /\ StackInv /\ OwnerInv
           /\ NestedInv /\ LockOrderInv /\ CircleInv

-----------------------------------------------------------------------------
(* The locks: it holds at first *)

LEMMA NoCircleAtFirst ==
  ASSUME NEW l \in Locks
  PROVE  ~CycleCheck({}, l)
<1>1. {} \in SUBSET Locks /\ l \notin {}
  OBVIOUS
<1>. QED
  BY <1>1 DEF CycleCheck, Reaches

LEMMA LockInvAtFirst == LockInit => LockInv
<1>. SUFFICES ASSUME LockInit PROVE LockInv
  OBVIOUS
<1>. USE DEF LockInit
<1>1. LockTypes
  <2>1. <<>> \in Seq(Locks)
    OBVIOUS
  <2>. QED  BY <2>1 DEF LockTypes
<1>2. StackInv /\ OwnerInv /\ NestedInv
  BY DEF StackInv, OwnerInv, NestedInv
<1>3. LockOrderInv
  BY DEF LockOrderInv, Ordered
<1>4. CircleInv
  BY NoCircleAtFirst DEF CircleInv
<1>. QED
  BY <1>1, <1>2, <1>3, <1>4 DEF LockInv

-----------------------------------------------------------------------------
(* The locks: every step keeps it *)

LEMMA FrontIs ==
  ASSUME NEW S, NEW s \in Seq(S), s # <<>>
  PROVE  /\ Len(s) \in Nat \ {0} /\ DOMAIN s = 1 .. Len(s)
         /\ Last(s) = s[Len(s)] /\ s[Len(s)] \in S /\ Front(s) \in Seq(S)
         /\ DOMAIN Front(s) = 1 .. (Len(s) - 1)
         /\ \A i \in 1 .. (Len(s) - 1) : Front(s)[i] = s[i]
<1>1. Len(s) \in Nat \ {0}
  OBVIOUS
<1>. QED
  BY <1>1 DEF Last, Front

LEMMA EnterKeeps ==
  ASSUME LockInv, NEW t \in Threads, NEW l \in Locks, Enter(t, l)
  PROVE  LockInv'
<1>. DEFINE to == IF IsCheck /\ LHoldLock[t] # <<>> THEN "check" ELSE "block"
<1>1. /\ ~crashed /\ pc[t] = "run" /\ pc' = [pc EXCEPT ![t] = to]
      /\ lock' = [lock EXCEPT ![t] = l]
      /\ nested' = nested \cup {<<h, l>> : h \in Range(guards[t])}
      /\ UNCHANGED <<IsCheck, _lockGraph, LHoldLock, guards, owner, crashed>>
  BY DEF Enter, Goto
<1>2. LockTypes /\ guards[t] \in Seq(Locks)
  BY DEF LockInv, LockTypes
<1>3. Range(guards[t]) = {guards[t][i] : i \in DOMAIN guards[t]}
  BY Zenon DEF Range
<1>4. \A i \in DOMAIN guards[t] : guards[t][i] \in Locks
  BY <1>2
<1>5. to \in {"check", "block"}
  OBVIOUS
<1>6. LockTypes'
  BY <1>1, <1>2, <1>3, <1>4, <1>5 DEF LockTypes
<1>7. \A u \in Threads : u # t => pc'[u] = pc[u] /\ lock'[u] = lock[u]
  BY <1>1, <1>2 DEF LockTypes
<1>8. pc'[t] = to /\ lock'[t] = l
  BY <1>1, <1>2 DEF LockTypes
<1>9. StackInv'
  <2>1. StackInv
    BY DEF LockInv
  <2>2. to = "check" => IsCheck /\ LHoldLock[t] # <<>>
    OBVIOUS
  <2>. QED  BY <1>1, <1>7, <1>8, <2>1, <2>2 DEF StackInv
<1>10. OwnerInv'
  BY <1>1 DEF LockInv, OwnerInv
<1>11. NestedInv'
  <2>1. NestedInv
    BY DEF LockInv
  <2>2. \A i \in DOMAIN guards[t] : <<guards[t][i], l>> \in nested'
    BY <1>1, <1>3
  <2>. QED  BY <1>1, <1>7, <1>8, <2>1, <2>2 DEF NestedInv
<1>12. LockOrderInv'
  <2>. SUFFICES ASSUME IsCheck, NEW u \in Threads PROVE Ordered(u)'
    BY <1>1 DEF LockOrderInv
  <2>1. Ordered(u) /\ StackInv
    BY <1>1 DEF LockInv, LockOrderInv
  <2>2. CASE u = t
    <3>1. to = "block" => guards[t] = <<>>
      BY <2>1 DEF StackInv
    <3>. QED  BY <1>1, <1>8, <2>1, <2>2, <3>1 DEF Ordered
  <2>3. CASE u # t
    BY <1>1, <1>7, <2>1, <2>3 DEF Ordered
  <2>. QED  BY <2>2, <2>3
<1>13. CircleInv'
  BY <1>1 DEF LockInv, CircleInv
<1>. QED
  BY <1>6, <1>9, <1>10, <1>11, <1>12, <1>13 DEF LockInv

LEMMA CheckKeeps ==
  ASSUME LockInv, NEW t \in Threads, InsertThenCheck(t)
  PROVE  LockInv'
<1>. DEFINE top == Last(LHoldLock[t])
<1>1. /\ ~crashed /\ pc[t] = "check" /\ pc' = [pc EXCEPT ![t] = "block"]
      /\ _lockGraph' = _lockGraph \cup {<<top, lock[t]>>}
      /\ crashed' = CycleCheck(_lockGraph', lock[t])
      /\ UNCHANGED <<IsCheck, LHoldLock, guards, owner, lock, nested>>
  BY DEF InsertThenCheck, Goto
<1>2. LockTypes /\ guards[t] \in Seq(Locks) /\ lock[t] \in Locks
  BY <1>1 DEF LockInv, LockTypes
<1>3. LHoldLock[t] = guards[t] /\ guards[t] # <<>>
  BY <1>1 DEF LockInv, StackInv
<1>4. /\ Len(guards[t]) \in DOMAIN guards[t] /\ DOMAIN guards[t] = 1 .. Len(guards[t])
      /\ top = guards[t][Len(guards[t])] /\ top \in Locks /\ Len(guards[t]) \in Nat
  BY <1>2, <1>3 DEF Last
<1>. HIDE DEF top
<1>5. crashed' \in BOOLEAN
  BY <1>1 DEF CycleCheck, Reaches
<1>6. LockTypes'
  BY <1>1, <1>2, <1>4, <1>5 DEF LockTypes
<1>7. \A u \in Threads : u # t => pc'[u] = pc[u]
  BY <1>1, <1>2 DEF LockTypes
<1>8. pc'[t] = "block"
  BY <1>1, <1>2 DEF LockTypes
<1>9. StackInv'
  BY <1>1, <1>7, <1>8 DEF LockInv, StackInv
<1>10. OwnerInv'
  BY <1>1 DEF LockInv, OwnerInv
<1>11. NestedInv'
  <2>1. NestedInv
    BY DEF LockInv
  <2>2. <<top, lock[t]>> \in nested
    BY <1>1, <1>4, <2>1 DEF NestedInv
  <2>. QED  BY <1>1, <1>7, <1>8, <2>1, <2>2 DEF NestedInv
<1>12. LockOrderInv'
  <2>. SUFFICES ASSUME IsCheck, NEW u \in Threads PROVE Ordered(u)'
    BY <1>1 DEF LockOrderInv
  <2>1. Ordered(u) /\ Ordered(t)
    BY <1>1 DEF LockInv, LockOrderInv
  <2>2. \A a, b : Reaches(_lockGraph, Locks, a, b) => Reaches(_lockGraph', Locks, a, b)
    BY <1>1, ReachesInMore
  <2>3. \A i, j \in DOMAIN guards[u] : i < j =>
          Reaches(_lockGraph', Locks, guards[u][i], guards[u][j])
    BY <2>1, <2>2 DEF Ordered
  <2>4. \A i \in DOMAIN guards[t] : Reaches(_lockGraph', Locks, guards[t][i], lock[t])
    <3>. SUFFICES ASSUME NEW i \in DOMAIN guards[t]
                  PROVE  Reaches(_lockGraph', Locks, guards[t][i], lock[t])
      OBVIOUS
    <3>1. <<top, lock[t]>> \in _lockGraph'
      BY <1>1
    <3>2. CASE i = Len(guards[t])
      BY <1>4, <3>1, <3>2, ReachesNext
    <3>3. CASE i < Len(guards[t])
      <4>1. Reaches(_lockGraph', Locks, guards[t][i], top)
        BY <1>4, <2>1, <2>2, <3>3 DEF Ordered
      <4>. QED  BY <3>1, <4>1, ReachesFurther
    <3>. QED  BY <1>4, <3>2, <3>3
  <2>5. CASE u = t
    BY <1>1, <2>3, <2>4, <2>5 DEF Ordered
  <2>6. CASE u # t
    BY <1>1, <1>7, <2>1, <2>2, <2>3, <2>6 DEF Ordered
  <2>. QED  BY <2>5, <2>6
<1>13. CircleInv'
  <2>1. CASE crashed'
    BY <1>1, <1>2, <2>1 DEF CircleInv
  <2>2. CASE ~crashed'
    <3>. SUFFICES ASSUME NEW l \in Locks PROVE ~CycleCheck(_lockGraph', l)
      BY <2>2 DEF CircleInv
    <3>1. ~Reaches(_lockGraph, Locks, l, l)
      BY <1>1 DEF LockInv, CircleInv, CycleCheck
    <3>2. ~Reaches(_lockGraph \cup {<<top, lock[t]>>}, Locks, lock[t], lock[t])
      BY <1>1, <2>2 DEF CycleCheck
    <3>3. _lockGraph \in SUBSET (Locks \X Locks)
      BY <1>2 DEF LockTypes
    <3>4. ~Reaches(_lockGraph \cup {<<top, lock[t]>>}, Locks, l, l)
      BY <1>2, <1>4, <3>1, <3>2, <3>3, CircleIsThroughEdge
    <3>. QED  BY <1>1, <3>4 DEF CycleCheck
  <2>. QED  BY <2>1, <2>2
<1>. QED
  BY <1>6, <1>9, <1>10, <1>11, <1>12, <1>13 DEF LockInv

LEMMA AcquireKeeps ==
  ASSUME LockInv, NEW t \in Threads, Acquire(t)
  PROVE  LockInv'
<1>. DEFINE n == Len(guards[t])
<1>1. /\ ~crashed /\ pc[t] = "block" /\ pc' = [pc EXCEPT ![t] = "run"]
      /\ owner[lock[t]] = None /\ owner' = [owner EXCEPT ![lock[t]] = t]
      /\ guards' = [guards EXCEPT ![t] = Append(@, lock[t])]
      /\ LHoldLock' = Pushed(t)
      /\ lock' = [lock EXCEPT ![t] = None]
      /\ UNCHANGED <<IsCheck, _lockGraph, crashed, nested>>
  BY DEF Acquire, Goto
<1>2. /\ LockTypes /\ guards[t] \in Seq(Locks) /\ LHoldLock[t] \in Seq(Locks)
      /\ lock[t] \in Locks /\ None \notin Threads
  BY <1>1, LockAssumption DEF LockInv, LockTypes
<1>3. /\ guards'[t] = Append(guards[t], lock[t]) /\ pc'[t] = "run"
      /\ n \in Nat /\ DOMAIN guards[t] = 1 .. n /\ DOMAIN guards'[t] = 1 .. (n + 1)
      /\ \A i \in 1 .. n : guards'[t][i] = guards[t][i]
      /\ guards'[t][n + 1] = lock[t]
  BY <1>1, <1>2 DEF LockTypes
<1>4. \A u \in Threads : u # t =>
        /\ guards'[u] = guards[u] /\ pc'[u] = pc[u]
        /\ lock'[u] = lock[u] /\ LHoldLock'[u] = LHoldLock[u]
  BY <1>1, <1>2 DEF LockTypes, Pushed
<1>. HIDE DEF n
<1>5. LockTypes'
  <2>1. Append(guards[t], lock[t]) \in Seq(Locks) /\ Append(LHoldLock[t], lock[t]) \in Seq(Locks)
    BY <1>2
  <2>2. LHoldLock' \in [Threads -> Seq(Locks)] /\ guards' \in [Threads -> Seq(Locks)]
    BY <1>1, <1>2, <2>1 DEF LockTypes, Pushed
  <2>. QED  BY <1>1, <1>2, <2>2 DEF LockTypes
<1>6. StackInv'
  <2>1. StackInv
    BY DEF LockInv
  <2>2. IsCheck => LHoldLock'[t] = guards'[t]
    BY <1>1, <1>2, <1>3, <2>1 DEF StackInv, LockTypes, Pushed
  <2>. QED  BY <1>1, <1>3, <1>4, <2>1, <2>2 DEF StackInv
<1>7. OwnerInv'
  <2>. SUFFICES ASSUME NEW l \in Locks, owner'[l] # None
                PROVE  \E i \in DOMAIN guards'[owner'[l]] : guards'[owner'[l]][i] = l
    BY DEF OwnerInv
  <2>1. CASE l = lock[t]
    <3>1. owner'[l] = t
      BY <1>1, <1>2, <2>1 DEF LockTypes
    <3>2. n + 1 \in DOMAIN guards'[t] /\ guards'[t][n + 1] = l
      BY <1>3, <2>1
    <3>. QED  BY <3>1, <3>2
  <2>2. CASE l # lock[t]
    <3>1. owner'[l] = owner[l] /\ owner[l] \in Threads
      BY <1>1, <1>2, <2>2 DEF LockTypes
    <3>2. PICK i \in DOMAIN guards[owner[l]] : guards[owner[l]][i] = l
      BY <3>1 DEF LockInv, OwnerInv
    <3>3. i \in DOMAIN guards'[owner[l]] /\ guards'[owner[l]][i] = l
      BY <1>3, <1>4, <3>1, <3>2
    <3>. QED  BY <3>1, <3>3
  <2>. QED  BY <2>1, <2>2
<1>8. NestedInv'
  <2>1. NestedInv
    BY DEF LockInv
  <2>2. ASSUME NEW u \in Threads, pc'[u] # "run"
        PROVE  u # t /\ guards'[u] = guards[u] /\ lock'[u] = lock[u] /\ pc[u] # "run"
    BY <1>3, <1>4, <2>2
  <2>. QED  BY <1>1, <2>1, <2>2 DEF NestedInv
<1>9. LockOrderInv'
  <2>. SUFFICES ASSUME IsCheck, NEW u \in Threads PROVE Ordered(u)'
    BY <1>1 DEF LockOrderInv
  <2>1. Ordered(u)
    BY <1>1 DEF LockInv, LockOrderInv
  <2>2. CASE u = t
    <3>. SUFFICES ASSUME NEW i \in 1 .. (n + 1), NEW j \in 1 .. (n + 1), i < j
                  PROVE  Reaches(_lockGraph, Locks, guards'[t][i], guards'[t][j])
      BY <1>1, <1>3, <2>2 DEF Ordered
    <3>1. CASE j = n + 1
      BY <1>1, <1>3, <2>1, <2>2, <3>1 DEF Ordered
    <3>2. CASE j < n + 1
      BY <1>3, <2>1, <2>2, <3>2 DEF Ordered
    <3>. QED  BY <1>3, <3>1, <3>2
  <2>3. CASE u # t
    BY <1>1, <1>4, <2>1, <2>3 DEF Ordered
  <2>. QED  BY <2>2, <2>3
<1>10. CircleInv'
  BY <1>1 DEF LockInv, CircleInv
<1>. QED
  BY <1>5, <1>6, <1>7, <1>8, <1>9, <1>10 DEF LockInv

LEMMA ReleaseKeeps ==
  ASSUME LockInv, NEW t \in Threads, Release(t)
  PROVE  LockInv'
<1>. DEFINE n == Len(guards[t])
<1>1. /\ ~crashed /\ pc[t] = "run" /\ pc' = [pc EXCEPT ![t] = "run"]
      /\ guards[t] # <<>>
      /\ owner' = [owner EXCEPT ![Last(guards[t])] = None]
      /\ guards' = [guards EXCEPT ![t] = Front(@)]
      /\ LHoldLock' = Popped(t)
      /\ UNCHANGED <<IsCheck, _lockGraph, lock, crashed, nested>>
  BY DEF Release, Goto
<1>2. /\ LockTypes /\ guards[t] \in Seq(Locks) /\ LHoldLock[t] \in Seq(Locks)
      /\ None \notin Threads /\ guards \in [Threads -> Seq(Locks)]
  BY <1>1, LockAssumption DEF LockInv, LockTypes
<1>3. pc' = pc
  BY <1>1, <1>2 DEF LockTypes
<1>4. /\ n \in Nat \ {0} /\ DOMAIN guards[t] = 1 .. n
      /\ Last(guards[t]) = guards[t][n] /\ guards[t][n] \in Locks
      /\ Front(guards[t]) \in Seq(Locks)
      /\ DOMAIN Front(guards[t]) = 1 .. (n - 1)
      /\ \A i \in 1 .. (n - 1) : Front(guards[t])[i] = guards[t][i]
  BY <1>1, <1>2, FrontIs
<1>5. guards'[t] = Front(guards[t])
  BY <1>1, <1>2
<1>6. \A u \in Threads : u # t => guards'[u] = guards[u] /\ LHoldLock'[u] = LHoldLock[u]
  BY <1>1, <1>2 DEF LockTypes, Popped
<1>7. \A u \in Threads : \A i \in DOMAIN guards'[u] :
        i \in DOMAIN guards[u] /\ guards'[u][i] = guards[u][i]
  BY <1>4, <1>5, <1>6
<1>. HIDE DEF n
<1>8. LockTypes'
  <2>1. LHoldLock[t] # <<>> => Front(LHoldLock[t]) \in Seq(Locks)
    BY <1>2, FrontIs
  <2>2. LHoldLock' \in [Threads -> Seq(Locks)] /\ guards' \in [Threads -> Seq(Locks)]
    BY <1>1, <1>2, <1>4, <2>1 DEF LockTypes, Popped
  <2>. QED  BY <1>1, <1>2, <1>3, <1>4, <2>2 DEF LockTypes
<1>9. StackInv'
  <2>1. StackInv
    BY DEF LockInv
  <2>2. IsCheck => LHoldLock'[t] = guards'[t]
    BY <1>1, <1>2, <1>5, <2>1 DEF StackInv, LockTypes, Popped
  <2>. QED  BY <1>1, <1>3, <1>6, <2>1, <2>2 DEF StackInv
<1>10. OwnerInv'
  <2>. SUFFICES ASSUME NEW l \in Locks, owner'[l] # None
                PROVE  \E i \in DOMAIN guards'[owner'[l]] : guards'[owner'[l]][i] = l
    BY DEF OwnerInv
  <2>1. l # guards[t][n] /\ owner'[l] = owner[l] /\ owner[l] \in Threads
    BY <1>1, <1>2, <1>4 DEF LockTypes
  <2>2. PICK i \in DOMAIN guards[owner[l]] : guards[owner[l]][i] = l
    BY <2>1 DEF LockInv, OwnerInv
  <2>3. i \in DOMAIN guards'[owner[l]] /\ guards'[owner[l]][i] = l
    BY <1>4, <1>5, <1>6, <2>1, <2>2
  <2>. QED  BY <2>1, <2>3
<1>11. NestedInv'
  BY <1>1, <1>3, <1>7 DEF LockInv, NestedInv
<1>12. LockOrderInv'
  <2>. SUFFICES ASSUME IsCheck, NEW u \in Threads PROVE Ordered(u)'
    BY <1>1 DEF LockOrderInv
  <2>1. Ordered(u)
    BY <1>1 DEF LockInv, LockOrderInv
  <2>. QED  BY <1>1, <1>3, <1>7, <2>1 DEF Ordered
<1>13. CircleInv'
  BY <1>1 DEF LockInv, CircleInv
<1>. QED
  BY <1>8, <1>9, <1>10, <1>11, <1>12, <1>13 DEF LockInv

LEMMA LockStep == LockInv /\ [LockNext]_lockVars => LockInv'
<1>. SUFFICES ASSUME LockInv, [LockNext]_lockVars PROVE LockInv'
  OBVIOUS
<1>1. ASSUME NEW t \in Threads, NEW l \in Locks, Enter(t, l) PROVE LockInv'
  BY <1>1, EnterKeeps
<1>2. ASSUME NEW t \in Threads, InsertThenCheck(t) PROVE LockInv'
  BY <1>2, CheckKeeps
<1>3. ASSUME NEW t \in Threads, Acquire(t) PROVE LockInv'
  BY <1>3, AcquireKeeps
<1>4. ASSUME NEW t \in Threads, Release(t) PROVE LockInv'
  BY <1>4, ReleaseKeeps
<1>5. CASE Shutdown
  <2>. USE <1>5 DEF Shutdown, LockInv
  <2>1. LockTypes' /\ StackInv'
    BY DEF LockTypes, StackInv
  <2>2. OwnerInv' /\ NestedInv'
    BY DEF OwnerInv, NestedInv
  <2>3. LockOrderInv' /\ CircleInv'
    BY DEF LockOrderInv, CircleInv
  <2>. QED  BY <2>1, <2>2, <2>3
<1>6. CASE UNCHANGED lockVars
  <2>. USE <1>6 DEF lockVars, LockInv
  <2>1. LockTypes' /\ StackInv'
    BY DEF LockTypes, StackInv
  <2>2. OwnerInv' /\ NestedInv'
    BY DEF OwnerInv, NestedInv
  <2>3. LockOrderInv' /\ CircleInv'
    BY DEF LockOrderInv, Ordered, CircleInv
  <2>. QED  BY <2>1, <2>2, <2>3
<1>. QED
  BY <1>1, <1>2, <1>3, <1>4, <1>5, <1>6 DEF LockNext

LEMMA LocksStay == LockSpec => []LockInv
<1>. QED
  BY LockInvAtFirst, LockStep, PTL DEF LockSpec

-----------------------------------------------------------------------------
(* The locks: the theorems *)

\* A thread that waits for one that waits is before it in the order of locks:
\* from the mutex the first waits for the graph leads to that of the second.
LEMMA WaitIsOrdered ==
  ASSUME LockInv, IsCheck, ~crashed, NEW t \in Threads, NEW u \in Threads,
         pc[t] = "block", owner[lock[t]] = u, pc[u] = "block"
  PROVE  Reaches(_lockGraph, Locks, lock[t], lock[u])
<1>1. lock[t] \in Locks /\ owner[lock[t]] # None
  BY LockAssumption DEF LockInv, LockTypes
<1>2. PICK i \in DOMAIN guards[u] : guards[u][i] = lock[t]
  BY <1>1 DEF LockInv, OwnerInv
<1>3. Ordered(u)
  BY DEF LockInv, LockOrderInv
<1>. QED
  BY <1>2, <1>3 DEF Ordered

\* The threads that wait for a lock the graph leads to from lock[t], and those
\* that do not wait, are all that t waits for, and t is not among them.
LEMMA NoCircleOfThreads == LockInv => NoSilentDeadlock
<1>. SUFFICES ASSUME LockInv, IsCheck, ~crashed, NEW t \in Threads
              PROVE  ~Reaches(WaitsFor, Threads, t, t)
  BY DEF NoSilentDeadlock
<1>1. CASE pc[t] # "block"
  <2>1. {} \in SUBSET Threads /\ \A w \in WaitsFor : w[1] \in {} \cup {t} => w[2] \in {}
    BY <1>1 DEF WaitsFor
  <2>. QED  BY <2>1 DEF Reaches
<1>2. CASE pc[t] = "block"
  <2>1. lock[t] \in Locks
    BY <1>2 DEF LockInv, LockTypes
  <2>2. ~Reaches(_lockGraph, Locks, lock[t], lock[t])
    BY <2>1 DEF LockInv, CircleInv, CycleCheck
  <2>3. PICK S \in SUBSET Locks :
          /\ \A e \in _lockGraph : e[1] \in S \cup {lock[t]} => e[2] \in S
          /\ lock[t] \notin S
    BY <2>2 DEF Reaches
  <2>. DEFINE T == {u \in Threads : pc[u] = "block" => lock[u] \in S}
  <2>4. ASSUME NEW u \in Threads, NEW v \in Threads, <<u, v>> \in WaitsFor,
               u \in T \/ u = t
        PROVE  v \in T
    <3>. SUFFICES ASSUME pc[v] = "block" PROVE lock[v] \in S
      OBVIOUS
    <3>1. pc[u] = "block" /\ owner[lock[u]] = v
      BY <2>4 DEF WaitsFor
    <3>2. Reaches(_lockGraph, Locks, lock[u], lock[v])
      BY <3>1, WaitIsOrdered
    <3>3. lock[u] \in S \cup {lock[t]}
      BY <2>4, <3>1
    <3>4. \A e \in _lockGraph : e[1] \in S \cup {lock[u]} => e[2] \in S
      BY <2>3, <3>3
    <3>. QED  BY <3>2, <3>4 DEF Reaches
  <2>5. T \in SUBSET Threads /\ t \notin T
    BY <1>2, <2>3
  <2>6. \A w \in WaitsFor : w[1] \in T \cup {t} => w[2] \in T
    <3>. SUFFICES ASSUME NEW u \in Threads, NEW v \in Threads, <<u, v>> \in WaitsFor,
                         u \in T \cup {t}
                  PROVE  v \in T
      BY DEF WaitsFor
    <3>. QED  BY <2>4
  <2>. QED  BY <2>5, <2>6 DEF Reaches
<1>. QED
  BY <1>1, <1>2

\* While the detector is on and has not stopped the process, no threads wait
\* for each other in a circle (LockGuard and DeadlockDetector), however many
\* threads and locks there are and however deep their guards are nested.
THEOREM NoDeadlock == LockSpec => []NoSilentDeadlock
<1>. QED
  BY LocksStay, NoCircleOfThreads, PTL

\* CrashDeadLock is called only when locks were asked for in a circle, each
\* inside the one before.
THEOREM NoFalseAlarm == LockSpec => []CrashOnlyForCycle
<1>1. LockInv => CrashOnlyForCycle
  <2>. SUFFICES ASSUME LockInv, crashed PROVE \E l \in Locks : Reaches(nested, Locks, l, l)
    BY DEF CrashOnlyForCycle
  <2>1. PICK l \in Locks : Reaches(_lockGraph, Locks, l, l)
    BY DEF LockInv, CircleInv, CycleCheck
  <2>2. _lockGraph \subseteq nested
    BY DEF LockInv, NestedInv
  <2>. QED  BY <2>1, <2>2, ReachesInMore
<1>. QED
  BY LocksStay, <1>1, PTL
=============================================================================
