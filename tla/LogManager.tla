------------------------------ MODULE LogManager ------------------------------
(***************************************************************************)
(* LogManager (src/ServerCore/Log): lines are pushed as jobs of the System *)
(* group, whose only worker collects them in _buffer and writes them to    *)
(* the file of the day a few at a time.  Whoever stops the server closes   *)
(* the file, on its own thread and without a lock.                         *)
(*                                                                         *)
(* Lines are numbered in the order in which the System group takes them    *)
(* (see JobPriorityQueue).                                                 *)
(***************************************************************************)
EXTENDS Naturals, Sequences, SequencesExt

CONSTANTS FlushSize, \* _flushSize
          MaxLines   \* bound: the lines that are logged

ASSUME LogAssumption == FlushSize \in Nat \ {0} /\ MaxLines \in Nat

VARIABLES log,      \* [buffer, file, open]: _buffer, and _file with what it holds
          pushed,   \* the lines pushed so far
          handled,  \* the lines ProcessThread was called with
          writing,  \* the System worker is inside ProcessThread
          closing,  \* the stopping thread is inside CloseLogFile
          raced,    \* they were inside at the same time
          closedAt  \* history: the lines handled before CloseLogFile

logVars == <<log, pushed, handled, writing, closing, raced, closedAt>>

\* An empty string, of which Init puts thirty-two into _buffer, more than
\* FlushSize, so that the first line is written at once.
Blank == 0

LogInit ==
  /\ log = [buffer |-> [i \in 1 .. FlushSize |-> Blank], file |-> <<>>, open |-> TRUE]
  /\ pushed = 0 /\ handled = 0
  /\ writing = FALSE /\ closing = FALSE /\ raced = FALSE
  /\ closedAt = MaxLines

\* PushLog; when the bound is reached the line is left out.
PushLine == pushed' = IF pushed < MaxLines THEN pushed + 1 ELSE pushed

PushLog == /\ pushed < MaxLines /\ PushLine
           /\ UNCHANGED <<log, handled, writing, closing, raced, closedAt>>

-----------------------------------------------------------------------------
(* Functions on the record l = log *)

\* Writing to a file that is not open does nothing, and the lines are cleared.
FlushBuffer(l) == [l EXCEPT !.file = IF l.open THEN @ \o l.buffer ELSE @,
                            !.buffer = <<>>]

\* Mutant: the file is closed without the lines that wait.
CloseOnly(l) == [l EXCEPT !.open = FALSE]

CloseLogFile(l) == IF l.open THEN [FlushBuffer(l) EXCEPT !.open = FALSE] ELSE l

CreateLogFile(l) == [l EXCEPT !.open = TRUE]

\* newDay: IsNewDay reads the date into LToday and compares it with the date
\* it reads next, so that it holds only if midnight falls between the two.
\* late: _flushTime has passed since the last flush.
Processed(l, line, newDay, late) ==
  LET today == IF newDay THEN CreateLogFile(CloseLogFile(l)) ELSE l
      more  == [today EXCEPT !.buffer = Append(@, line)]
  IN IF Len(more.buffer) >= FlushSize \/ late THEN FlushBuffer(more) ELSE more

-----------------------------------------------------------------------------
(* Steps.  Two threads inside at once are a data race on _buffer and _file, *)
(* after which nothing is known of them; it is enough to note it.           *)

\* The System worker takes the next line.
ProcessBegin ==
  /\ ~writing /\ handled < pushed
  /\ handled' = handled + 1
  /\ writing' = TRUE /\ raced' = (raced \/ closing)
  /\ UNCHANGED <<log, pushed, closing, closedAt>>

ProcessEnd ==
  /\ writing
  /\ writing' = FALSE
  /\ \E newDay, late \in BOOLEAN : log' = Processed(log, handled, newDay, late)
  /\ UNCHANGED <<pushed, handled, closing, raced, closedAt>>

\* Shutdown
ShutdownBegin ==
  /\ closing' = TRUE /\ raced' = (raced \/ writing)
  /\ closedAt' = handled
  /\ UNCHANGED <<log, pushed, handled, writing>>

ShutdownEnd ==
  /\ closing /\ closing' = FALSE
  /\ log' = CloseLogFile(log)
  /\ UNCHANGED <<pushed, handled, writing, raced, closedAt>>

-----------------------------------------------------------------------------
(* Properties *)

\* Every line that was handled is in the file or in _buffer, once and in order,
\* and fewer than FlushSize lines wait, whatever the day and the time.  The only
\* lines missing are handled after the server has begun to close the file; when
\* it is closed no line from before is left in _buffer.
LogIsKept ==
  ~raced /\ ~writing =>
    LET kept == log.file \o log.buffer IN
    /\ \A i, j \in DOMAIN kept : i < j => kept[i] < kept[j] \/ kept[j] = Blank
    /\ \A line \in 1 .. handled : line \in Range(kept) \/ line > closedAt
    /\ handled > 0 => Len(log.buffer) < FlushSize
    /\ ~log.open => \A line \in Range(log.buffer) : line > closedAt
=============================================================================
