\* Two threads and three pointers on three blocks.
SPECIFICATION Spec
CONSTANTS
  Threads = {t1, t2}
  Refs = {r1, r2, r3}
  Requests = {1, 3, 5}
  BlockSize <- MCBlockSize
  Ratio <- MCRatio
  ChunkSize = 12
  HeaderSize = 1
  CountMod = 4
  None = None
SYMMETRY MCSymmetry
INVARIANTS OnePlace RoomEnough CountersAgree
