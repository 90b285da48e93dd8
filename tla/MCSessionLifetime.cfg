\* Two sessions, accepted one after the other.
SPECIFICATION Spec
CONSTANTS
  Sessions = {s1, s2}
  Eager = {s1}
  AcceptNum = 1
  PingPongDiff = 2
  MaxSurplus <- Surplus
  CountMod = 4
  None = None
INVARIANT ReceiveHasOwner
\* A server that used a destroyed session stops.
CHECK_DEADLOCK FALSE
