\* Two sessions, one accept at a time, two pings to answer.
SPECIFICATION FairSpec
CONSTANTS
  Sessions = {s1, s2}
  Eager = {s1}
  AcceptNum = 1
  PingPongDiff = 2
  MaxSurplus <- Surplus
  CountMod = 4
  None = None
INVARIANTS
  TypeOK
  AcceptsAreKept
  OpenIsRegistered
PROPERTIES
  JudgedByAnswers
  ClosedIsForgotten
  GhostsAreSwept
\* A server that used a destroyed session stops.
CHECK_DEADLOCK FALSE
