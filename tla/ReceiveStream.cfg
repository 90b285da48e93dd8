SPECIFICATION FairSpec
CONSTANTS
  HeaderSize = 2
  MaxPacket = 4
  BufferSize = 7
  MaxStream = 10
INVARIANTS
  TypeOK
  RoomForPacket
  ClosedWithReason
PROPERTIES
  DeliversInOrder
  EveryPacketHandled
CHECK_DEADLOCK FALSE
