\* Sends, completions and closes interleaved.
SPECIFICATION Spec
CONSTANTS
  Senders = {game, social}
  Workers = {io1, io2}
  small = small
  large = large
  Buffers = {small, large, other}
  Size <- MCSize
  MaxBatch = 2
SYMMETRY ThreadSymmetry
INVARIANT StreamInOrder
\* A closed session stops.
CHECK_DEADLOCK FALSE
