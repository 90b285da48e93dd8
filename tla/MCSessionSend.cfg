\* Sends, completions and closes interleaved.
SPECIFICATION FairSpec
CONSTANTS
  Senders = {game, social}
  Workers = {io1, io2}
  small = small
  large = large
  Buffers = {small, large}
  Size <- MCSize
  MaxBatch = 2
INVARIANTS SingleOutstanding NoPacketLost DisconnectedOnce
PROPERTIES EveryPacketGoesOut CloseCompletes
\* A closed session stops.
CHECK_DEADLOCK FALSE
