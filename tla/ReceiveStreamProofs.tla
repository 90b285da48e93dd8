-------------------------- MODULE ReceiveStreamProofs --------------------------
(***************************************************************************)
(* Proofs about ReceiveStream, for every size of header, packet and buffer *)
(* such that a header fits in a packet and a packet in the buffer, and for *)
(* any number of bytes sent.                                               *)
(***************************************************************************)
EXTENDS ReceiveStream, TLAPS

-----------------------------------------------------------------------------
(* The buffer has room *)

\* The bound is kept, and a receive that is about to be posted has room for
\* the rest of the packet that has begun.
RoomInv ==
  /\ streamed <= MaxStream
  /\ recv = "post" => GetFreeSize > 0 /\ BufferSize - readPos >= MaxPacket

TInv == TypeOK /\ RoomForPacket /\ RoomInv

\* A header that is not there yet, or a packet that is not, is shorter than
\* MaxPacket.
LEMMA IncompleteIsShort ==
  ASSUME TypeOK, Incomplete
  PROVE  GetDataSize < MaxPacket
<1> USE SizeAssumption DEF TypeOK, GetDataSize
<1>1. CASE GetDataSize < HeaderSize
  BY <1>1
<1>2. CASE \E size \in HeaderSizes \cap Sizes : size > GetDataSize
  BY <1>2 DEF Sizes
<1>. QED
  BY <1>1, <1>2 DEF Incomplete

\* After Compact less than a packet of data leaves room for the rest of it.
LEMMA CompactMakesRoom ==
  ASSUME TypeOK, Compact, GetDataSize < MaxPacket
  PROVE  /\ readPos' \in 0 .. writePos' 
         /\ writePos' \in 0 .. BufferSize /\ writePos' < BufferSize
         /\ writePos' - readPos' = writePos - readPos
         /\ BufferSize - readPos' >= MaxPacket
<1> USE SizeAssumption DEF GetDataSize, GetFreeSize
<1>. /\ readPos \in Int /\ writePos \in Int
     /\ 0 <= readPos /\ readPos <= writePos /\ writePos <= BufferSize
  BY DEF TypeOK
<1>1. CASE readPos' = readPos /\ writePos' = writePos /\ readPos = 0
  BY <1>1
<1>2. CASE readPos' = readPos /\ writePos' = writePos /\ GetFreeSize >= MaxPacket
  BY <1>2
<1>3. CASE readPos' = 0 /\ writePos' = GetDataSize
  BY <1>3
<1>. QED
  BY <1>1, <1>2, <1>3 DEF Compact, cursors

\* Compact keeps the buffer what it is.
LEMMA CompactType ==
  ASSUME TypeOK, Compact
  PROVE  buffer' \in [0 .. BufferSize - 1 -> Int]
<1> USE SizeAssumption DEF TypeOK, GetDataSize, GetFreeSize
<1>1. CASE UNCHANGED <<buffer, cursors>>
  BY <1>1
<1>2. CASE buffer' = [i \in DOMAIN buffer |-> IF i < GetDataSize THEN buffer[readPos + i]
                                                                ELSE buffer[i]]
  <2>1. \A i \in 0 .. BufferSize - 1 : i < GetDataSize => readPos + i \in 0 .. BufferSize - 1
    OBVIOUS
  <2>. QED
    BY <1>2, <2>1
<1>. QED
  BY <1>1, <1>2 DEF Compact

-----------------------------------------------------------------------------

\* The initial state satisfies the invariant.
LEMMA InitType == Init => TInv
<1> USE SizeAssumption DEF Init, GetDataSize, GetFreeSize, cursors
<1>1. Init => TypeOK
  <2>1. Init => buffer \in [0 .. BufferSize - 1 -> Int]
    BY DEF Junk
  <2>2. Init => wsabuf \in [buf : 0 .. BufferSize, len : 0 .. BufferSize]
    OBVIOUS
  <2>3. Init => sent \in Seq(Packet) /\ handled \in Seq([at : Int, size : Sizes])
    OBVIOUS
  <2>4. Init => /\ streamed \in Nat /\ arrived \in 0 .. streamed /\ bytes \in 0 .. BufferSize
                /\ readPos \in 0 .. writePos /\ writePos \in 0 .. BufferSize
    OBVIOUS
  <2>5. Init => /\ ended \in BOOLEAN
                /\ recv \in {"posted", "arrived", "packets", "post", "none"}
                /\ closed \in {"no", "zero", "size", "full", "refused"}
    OBVIOUS
  <2>6. Init => /\ wsabuf = [buf |-> writePos, len |-> GetFreeSize]
                /\ recv # "arrived"
    OBVIOUS
  <2>. HIDE DEF Init, GetFreeSize, GetDataSize
  <2>. QED
    BY <2>1, <2>2, <2>3, <2>4, <2>5, <2>6 DEF TypeOK
<1>2. Init => RoomForPacket /\ RoomInv
  BY DEF RoomForPacket, RoomInv
<1>. QED
  BY <1>1, <1>2 DEF TInv

\* Every step of the sender, the system and the receiver keeps it.
LEMMA NextType == TInv /\ [Next]_vars => TInv'
<1> SUFFICES ASSUME TInv, [Next]_vars PROVE TInv'
  OBVIOUS
<1> USE SizeAssumption DEF TInv, GetDataSize, GetFreeSize, cursors
<1>1. ASSUME NEW size \in 0 .. MaxPacket + 1, NEW n \in Nat, PutOnStream(size, n)
      PROVE  /\ sent' \in Seq(Packet) /\ streamed' \in Nat /\ streamed' <= MaxStream
             /\ arrived \in 0 .. streamed'
  <2>1. [at |-> streamed, size |-> size] \in Packet
    BY <1>1 DEF PutOnStream, Packet, TypeOK, RoomInv
  <2>. QED
    BY <1>1, <2>1 DEF PutOnStream, TypeOK
<1>2. ASSUME NEW payload \in 0 .. MaxPacket, SendPacket(payload)
      PROVE  TInv'
  <2>1. HeaderSize + payload \in 0 .. MaxPacket + 1
    BY <1>2 DEF SendPacket, Fits
  <2>2. PutOnStream(HeaderSize + payload, HeaderSize + payload) /\ UNCHANGED ended
    BY <1>2 DEF SendPacket
  <2>3. /\ sent' \in Seq(Packet) /\ streamed' \in Nat /\ streamed' <= MaxStream
        /\ arrived \in 0 .. streamed'
    BY <1>1, <2>1, <2>2
  <2>. QED
    BY <2>2, <2>3 DEF PutOnStream, TypeOK, RoomForPacket, RoomInv
<1>3. CASE SendBroken
  <2>1. PICK size \in {HeaderSize - 1, MaxPacket + 1} : PutOnStream(size, HeaderSize)
    BY <1>3 DEF SendBroken
  <2>2. /\ sent' \in Seq(Packet) /\ streamed' \in Nat /\ streamed' <= MaxStream
        /\ arrived \in 0 .. streamed'
    BY <1>1, <2>1
  <2>. QED
    BY <1>3, <2>1, <2>2 DEF SendBroken, PutOnStream, TypeOK, RoomForPacket, RoomInv
<1>4. CASE End
  BY <1>4 DEF End, TypeOK, RoomForPacket, RoomInv
<1>5. ASSUME NEW n \in 0 .. BufferSize, Arrive(n)
      PROVE  TInv'
  <2>1. buffer' \in [0 .. BufferSize - 1 -> Int]
    BY <1>5 DEF Arrive, TypeOK
  <2>2. arrived' \in 0 .. streamed /\ bytes' \in 0 .. GetFreeSize
    BY <1>5 DEF Arrive, TypeOK
  <2>. QED
    BY <1>5, <2>1, <2>2 DEF Arrive, TypeOK, RoomForPacket, RoomInv
<1>6. CASE RecvNothing
  BY <1>6 DEF RecvNothing, TypeOK, RoomForPacket, RoomInv
<1>7. CASE MoveWritePos
  <2>1. writePos' \in readPos .. BufferSize
    BY <1>7 DEF MoveWritePos, TypeOK
  <2>. QED
    BY <1>7, <2>1 DEF MoveWritePos, TypeOK, RoomForPacket, RoomInv
<1>8. CASE BadHeader
  BY <1>8 DEF BadHeader, TypeOK, RoomForPacket, RoomInv
<1>9. CASE HandlePacket
  <2>1. PICK size \in HeaderSizes \cap Sizes :
          /\ size <= GetDataSize
          /\ OnRecv(PacketAt(readPos, size))
          /\ readPos' = readPos + size
    BY <1>9 DEF HandlePacket
  <2>2. readPos \in DOMAIN buffer /\ size \in Nat
    BY <1>9, <2>1 DEF HandlePacket, TypeOK, Sizes
  <2>3. PacketAt(readPos, size) \in [at : Int, size : Sizes]
    BY <2>1, <2>2 DEF PacketAt, Junk, TypeOK
  <2>4. handled' \in Seq([at : Int, size : Sizes])
    BY <2>1, <2>3 DEF OnRecv, TypeOK
  <2>5. readPos' \in 0 .. writePos
    BY <2>1, <2>2 DEF TypeOK
  <2>. QED
    BY <1>9, <2>4, <2>5 DEF HandlePacket, TypeOK, RoomForPacket, RoomInv
<1>10. CASE LoopEnd
  <2>1. GetDataSize < MaxPacket
    BY <1>10, IncompleteIsShort DEF LoopEnd
  <2>2. /\ readPos' \in 0 .. writePos'
        /\ writePos' \in 0 .. BufferSize /\ writePos' < BufferSize
        /\ BufferSize - readPos' >= MaxPacket
    BY <1>10, <2>1, CompactMakesRoom DEF LoopEnd
  <2>3. buffer' \in [0 .. BufferSize - 1 -> Int]
    BY <1>10, CompactType DEF LoopEnd
  <2>4. /\ recv' = "post"
        /\ UNCHANGED <<sent, ended, streamed, arrived, wsabuf, bytes, handled, closed>>
    BY <1>10 DEF LoopEnd
  <2>5. TypeOK'
    <3>1. /\ recv' \in {"posted", "arrived", "packets", "post", "none"}
          /\ recv' \notin {"posted", "arrived"} /\ recv' # "arrived"
      BY <2>4
    <3>4. readPos' \in 0 .. writePos' /\ writePos' \in 0 .. BufferSize
      BY <2>2
    <3>2. /\ sent' \in Seq(Packet) /\ handled' \in Seq([at : Int, size : Sizes])
          /\ ended' \in BOOLEAN /\ streamed' \in Nat /\ arrived' \in 0 .. streamed'
      BY <2>4 DEF TypeOK
    <3>3. /\ wsabuf' \in [buf : 0 .. BufferSize, len : 0 .. BufferSize]
          /\ bytes' \in 0 .. BufferSize
          /\ closed' \in {"no", "zero", "size", "full", "refused"}
      BY <2>4 DEF TypeOK
    <3>. HIDE SizeAssumption DEF TInv, GetDataSize, GetFreeSize, cursors
    <3>. QED
      BY <2>3, <3>1, <3>2, <3>3, <3>4 DEF TypeOK
  <2>6. RoomForPacket'
    BY <2>4 DEF RoomForPacket
  <2>7. RoomInv'
    <3>1. streamed' <= MaxStream
      BY <2>4 DEF RoomInv
    <3>2. writePos' \in Int /\ BufferSize \in Int /\ writePos' < BufferSize
      BY <2>2
    <3>3. GetFreeSize' > 0
      <4>. HIDE SizeAssumption DEF TInv
      <4>1. \A b, w \in Int : w < b => b - w > 0
        OBVIOUS
      <4>. QED
        BY <3>2, <4>1
    <3>. QED
      BY <2>2, <3>1, <3>3, Zenon DEF RoomInv
  <2>. HIDE DEF TInv, GetDataSize, GetFreeSize, cursors
  <2>. QED
    BY <2>5, <2>6, <2>7 DEF TInv
<1>11. CASE ProcessRecv
  <2>1. UNCHANGED <<buffer, cursors>> /\ writePos < BufferSize
    BY <1>11 DEF ProcessRecv, RoomInv, TypeOK
  <2>2. PostRecv
    BY <1>11, <2>1 DEF ProcessRecv, TypeOK
  <2>. QED
    BY <1>11, <2>1, <2>2 DEF ProcessRecv, PostRecv, TypeOK, RoomForPacket, RoomInv
<1>12. CASE RecvRefused
  BY <1>12 DEF RecvRefused, TypeOK, RoomForPacket, RoomInv
<1>13. CASE UNCHANGED vars
  BY <1>13 DEF vars, TypeOK, RoomForPacket, RoomInv
<1>. QED
  BY <1>2, <1>3, <1>4, <1>5, <1>6, <1>7, <1>8, <1>9, <1>10, <1>11, <1>12, <1>13
  DEF Next, OnRecvCompleted

\* Neither assertion of BaseBuffer fails, whatever the sizes and however the
\* stream is cut.
THEOREM TypeCorrect == Spec => []TypeOK
<1>1. TInv => TypeOK
  BY DEF TInv
<1>. QED
  BY <1>1, InitType, NextType, PTL DEF Spec

\* Whatever the sizes, a receive always has room for the rest of the packet that
\* has begun, and no connection is closed for want of room.
THEOREM Room == Spec => []RoomForPacket
<1>1. TInv => RoomForPacket
  BY DEF TInv
<1>. QED
  BY <1>1, InitType, NextType, PTL DEF Spec

-----------------------------------------------------------------------------
(* What is in the buffer *)

\* Where the next packet to be handled begins in the stream.
NextAt == IF Len(handled) < Len(sent) THEN sent[Len(handled) + 1].at ELSE streamed

\* The end of the data in the buffer, what the receive has brought included.
Filled == writePos + (IF recv = "arrived" THEN bytes ELSE 0)

\* Packets follow each other in the stream; one of a wrong size is the last.
SentInv ==
  /\ \A k \in 1 .. Len(sent) :
       /\ sent[k].at + HeaderSize <= streamed
       /\ IF sent[k].size \in Sizes
          THEN sent[k].at + sent[k].size = IF k < Len(sent) THEN sent[k + 1].at ELSE streamed
          ELSE ended /\ k = Len(sent)
  /\ \A j, k \in 1 .. Len(sent) : j < k => sent[j].at < sent[k].at

\* The data in the buffer is the stretch of the stream that begins with the
\* next packet and ends with the last byte that arrived.
BufferInv ==
  /\ Len(handled) <= Len(sent)
  /\ NextAt = arrived - (Filled - readPos)
  /\ \A i \in readPos .. Filled - 1 : buffer[i] = arrived - Filled + i

\* The next packet is not in the buffer as a whole.
NotWhole ==
  Len(handled) < Len(sent) =>
    \/ writePos - readPos < HeaderSize
    \/ /\ sent[Len(handled) + 1].size \in Sizes
       /\ writePos - readPos < sent[Len(handled) + 1].size

\* A receive is asked for when there is no whole packet, and none once the
\* session is closed.
ReasonInv ==
  /\ recv \in {"post", "posted"} => NotWhole
  /\ recv = "arrived" /\ bytes = 0 => ended /\ Len(handled) = Len(sent)
  /\ closed # "no" => recv = "none"
  /\ ClosedWithReason

IInv == TInv /\ SentInv /\ BufferInv /\ ReasonInv

LEMMA IInit == Init => IInv
<1> SUFFICES ASSUME Init PROVE IInv
  OBVIOUS
<1>1. TInv
  BY InitType
<1>2. /\ sent = <<>> /\ handled = <<>> /\ streamed = 0 /\ arrived = 0 
      /\ readPos = 0 /\ writePos = 0 /\ recv = "posted" /\ closed = "no"
  BY DEF Init, cursors
<1>3. Len(sent) = 0 /\ Len(handled) = 0
  BY <1>2
<1>4. SentInv
  BY <1>3 DEF SentInv
<1>5. BufferInv
  BY <1>2, <1>3 DEF BufferInv, NextAt, Filled
<1>6. ReasonInv
  BY <1>2, <1>3 DEF ReasonInv, NotWhole, ClosedWithReason
<1>. QED
  BY <1>1, <1>4, <1>5, <1>6 DEF IInv

\* A packet is added to the stream behind all others.
LEMMA PutKeeps ==
  ASSUME IInv, NEW size \in 0 .. MaxPacket + 1, NEW n \in Nat, PutOnStream(size, n),
         ~ ended, n >= HeaderSize,
         size \in Sizes => n = size,
         size \notin Sizes => ended'
  PROVE  /\ \E p \in Packet : sent' = Append(sent, p)
         /\ Len(sent') = Len(sent) + 1
         /\ \A k \in 1 .. Len(sent) : sent'[k] = sent[k]
         /\ SentInv'
         /\ NextAt' = NextAt
<1> DEFINE p == [at |-> streamed, size |-> size]
<1> USE SizeAssumption
<1>0. sent \in Seq(Packet) /\ streamed \in Nat /\ streamed <= MaxStream
      /\ handled \in Seq([at : Int, size : Sizes])
  BY DEF IInv, TInv, TypeOK, RoomInv
<1>1. p \in Packet
  BY <1>0 DEF Packet
<1>2. /\ sent' = Append(sent, p) /\ streamed' = streamed + n /\ handled' = handled
  BY DEF PutOnStream
<1>3. Len(sent') = Len(sent) + 1 /\ Len(sent) \in Nat
  BY <1>0, <1>1, <1>2
<1>4. \A k \in 1 .. Len(sent) : sent'[k] = sent[k]
  BY <1>0, <1>1, <1>2
<1>5. sent'[Len(sent) + 1] = p
  BY <1>0, <1>1, <1>2
<1>6. p.at = streamed /\ p.size = size
  OBVIOUS
<1>7. \A k \in 1 .. Len(sent) : /\ sent[k].at \in Nat /\ sent[k].size \in Nat
                                /\ sent[k].at + HeaderSize <= streamed
                                /\ sent[k].size \in Sizes
                                /\ sent[k].at + sent[k].size = IF k < Len(sent) THEN sent[k + 1].at
                                                                                ELSE streamed
  <2>1. \A k \in 1 .. Len(sent) : sent[k] \in Packet
    BY <1>0
  <2>. QED
    BY <2>1 DEF IInv, SentInv, Packet
<1> HIDE DEF p
<1>8. SentInv'
  <2>1. ASSUME NEW k \in 1 .. Len(sent')
        PROVE  /\ sent'[k].at + HeaderSize <= streamed'
               /\ IF sent'[k].size \in Sizes
                  THEN sent'[k].at + sent'[k].size = IF k < Len(sent') THEN sent'[k + 1].at
                                                                       ELSE streamed'
                  ELSE ended' /\ k = Len(sent')
    <3>1. CASE k = Len(sent) + 1
      BY <3>1, <1>0, <1>2, <1>3, <1>5, <1>6
    <3>2. CASE k \in 1 .. Len(sent)
      <4>1. CASE k < Len(sent)
        BY <4>1, <3>2, <1>0, <1>2, <1>3, <1>4, <1>7
      <4>2. CASE k = Len(sent)
        BY <4>2, <3>2, <1>0, <1>2, <1>3, <1>4, <1>5, <1>6, <1>7
      <4>. QED
        BY <3>2, <1>3, <4>1, <4>2
    <3>. QED
      BY <1>3, <3>1, <3>2
  <2>2. ASSUME NEW j \in 1 .. Len(sent'), NEW k \in 1 .. Len(sent'), j < k
        PROVE  sent'[j].at < sent'[k].at
    <3>1. CASE k = Len(sent) + 1
      <4>1. j \in 1 .. Len(sent)
        BY <2>2, <3>1, <1>3
      <4>. QED
        BY <4>1, <3>1, <1>0, <1>4, <1>5, <1>6, <1>7
    <3>2. CASE k \in 1 .. Len(sent)
      <4>1. j \in 1 .. Len(sent)
        BY <2>2, <3>2, <1>3
      <4>. QED
        BY <4>1, <3>2, <2>2, <1>4 DEF IInv, SentInv
    <3>. QED
      BY <1>3, <3>1, <3>2
  <2>. QED
    BY <2>1, <2>2 DEF SentInv
<1>9. NextAt' = NextAt
  <2>0. Len(handled) \in Nat /\ Len(handled) <= Len(sent)
    BY <1>0 DEF IInv, BufferInv
  <2>1. CASE Len(handled) < Len(sent)
    <3>1. Len(handled) + 1 \in 1 .. Len(sent)
      BY <2>0, <2>1, <1>3
    <3>. QED
      BY <2>0, <2>1, <3>1, <1>2, <1>3, <1>4 DEF NextAt
  <2>2. CASE Len(handled) = Len(sent)
    BY <2>0, <2>2, <1>2, <1>3, <1>5, <1>6 DEF NextAt
  <2>. QED
    BY <2>0, <2>1, <2>2, <1>3
<1>. QED
  BY <1>1, <1>2, <1>3, <1>4, <1>8, <1>9

\* What the receiver finds at readPos, once a header is there, is the packet
\* that follows those it has handled.
LEMMA NextIsThere ==
  ASSUME IInv, recv = "packets", GetDataSize >= HeaderSize
  PROVE  /\ Len(handled) < Len(sent)
         /\ sent[Len(handled) + 1] \in Packet
         /\ HeaderSizes = {sent[Len(handled) + 1].size}
         /\ \A m \in Nat : m <= GetDataSize /\ m > 0 =>
              PacketAt(readPos, m) = [at |-> sent[Len(handled) + 1].at, size |-> m]
<1> DEFINE n == Len(handled) + 1
<1> USE SizeAssumption
<1>1. /\ sent \in Seq(Packet) /\ handled \in Seq([at : Int, size : Sizes])
      /\ streamed \in Nat /\ arrived \in 0 .. streamed
      /\ readPos \in 0 .. writePos /\ writePos \in 0 .. BufferSize
  BY DEF IInv, TInv, TypeOK
<1>2. Filled = writePos
  BY <1>1 DEF Filled
<1>3. /\ Len(handled) <= Len(sent)
      /\ NextAt = arrived - (writePos - readPos)
      /\ \A i \in readPos .. writePos - 1 : buffer[i] = arrived - writePos + i
  BY <1>2 DEF IInv, BufferInv
<1>4. writePos - readPos > 0 /\ GetDataSize = writePos - readPos
  BY <1>1 DEF GetDataSize
<1>5. Len(handled) < Len(sent)
  BY <1>1, <1>3, <1>4 DEF NextAt
<1>6. n \in 1 .. Len(sent) /\ sent[n] \in Packet
  BY <1>1, <1>5
<1>7. sent[n].at = arrived - (writePos - readPos)
  BY <1>3, <1>5 DEF NextAt
<1>8. buffer[readPos] = sent[n].at
  BY <1>1, <1>3, <1>4, <1>7
<1>9. \A m \in Nat : m <= GetDataSize => Whole(readPos, m)
  BY <1>1, <1>3, <1>4, <1>7, <1>8 DEF Whole
<1>10. HeaderSizes = {sent[n].size}
  <2>1. Whole(readPos, HeaderSize)
    BY <1>9
  <2>2. {q \in Range(sent) : q.at = buffer[readPos]} = {sent[n]}
    <3>1. \A q : q \in Range(sent) <=> \E k \in 1 .. Len(sent) : q = sent[k]
      BY <1>1 DEF Range
    <3>2. \A k \in 1 .. Len(sent) : sent[k].at = sent[n].at => k = n
      <4>1. \A k \in 1 .. Len(sent) : sent[k].at \in Nat
        <5>1. \A k \in 1 .. Len(sent) : sent[k] \in Packet
          BY <1>1
        <5>. QED
          BY <5>1 DEF Packet
      <4>2. \A j, k \in 1 .. Len(sent) : j < k => sent[j].at < sent[k].at
        BY DEF IInv, SentInv
      <4>. HIDE DEF n
      <4>3. ASSUME NEW k \in 1 .. Len(sent), sent[k].at = sent[n].at PROVE k = n
        <5>1. ~ k < n /\ ~ n < k
          BY <1>6, <4>1, <4>2, <4>3
        <5>2. k \in Int /\ n \in Int
          BY <1>1, <1>6
        <5>. QED
          BY <5>1, <5>2
      <4>. QED
        BY <4>3
    <3>. QED
      BY <1>6, <1>8, <3>1, <3>2
  <2>. HIDE DEF n
  <2>. QED
    BY <2>1, <2>2 DEF HeaderSizes
<1>11. \A m \in Nat : m <= GetDataSize /\ m > 0 => PacketAt(readPos, m) = [at |-> sent[n].at, size |-> m]
  BY <1>8, <1>9 DEF PacketAt
<1>. QED
  BY <1>5, <1>6, <1>10, <1>11

\* The sender disturbs nothing the receiver relies on.
LEMMA PutInv ==
  ASSUME IInv, NEW size \in 0 .. MaxPacket + 1, NEW n \in Nat, PutOnStream(size, n),
         ~ ended, n >= HeaderSize,
         size \in Sizes => n = size,
         size \notin Sizes => ended'
  PROVE  /\ \E p \in Packet : sent' = Append(sent, p)
         /\ SentInv' /\ BufferInv' /\ ReasonInv'
<1>1. /\ \E p \in Packet : sent' = Append(sent, p)
      /\ Len(sent') = Len(sent) + 1
      /\ \A k \in 1 .. Len(sent) : sent'[k] = sent[k]
      /\ SentInv'
      /\ NextAt' = NextAt
  BY PutKeeps
<1>2. UNCHANGED <<arrived, buffer, readPos, writePos, recv, bytes, handled, closed>>
  BY DEF PutOnStream, cursors
<1>3. /\ Len(handled) \in Nat /\ Len(sent) \in Nat /\ Len(handled) <= Len(sent)
      /\ streamed \in Nat /\ arrived \in 0 .. streamed
      /\ readPos \in 0 .. writePos /\ writePos \in 0 .. BufferSize /\ BufferSize \in Nat
  BY SizeAssumption DEF IInv, TInv, TypeOK, BufferInv
<1>4. Filled' = Filled
  BY <1>2 DEF Filled
<1>5. BufferInv'
  BY <1>1, <1>2, <1>3, <1>4 DEF IInv, BufferInv
<1>6. ReasonInv'
  <2>1. recv \in {"post", "posted"} => NotWhole'
    <3>1. CASE Len(handled) < Len(sent)
      <4>1. sent'[Len(handled) + 1] = sent[Len(handled) + 1]
        BY <3>1, <1>1, <1>3
      <4>2. recv \in {"post", "posted"} => NotWhole
        BY DEF IInv, ReasonInv
      <4>. QED
        BY <3>1, <4>1, <4>2, <1>2 DEF NotWhole
    <3>2. CASE Len(handled) = Len(sent) /\ recv \in {"post", "posted"}
      <4>1. streamed = arrived - (writePos - readPos)
        BY <3>2, <1>3 DEF IInv, BufferInv, NextAt, Filled
      <4>2. writePos - readPos < HeaderSize
        BY <4>1, <1>3, SizeAssumption
      <4>. QED
        BY <4>2, <1>2 DEF NotWhole
    <3>. QED
      BY <1>3, <3>1, <3>2
  <2>2. ~ (recv = "arrived" /\ bytes = 0) /\ closed # "zero"
    BY DEF IInv, ReasonInv, ClosedWithReason
  <2>3. ClosedWithReason'
    <3>1. CASE closed = "size"
      <4>1. Len(handled) < Len(sent) /\ sent[Len(handled) + 1] \notin Proper
        BY <3>1 DEF IInv, ReasonInv, ClosedWithReason
      <4>2. sent'[Len(handled) + 1] = sent[Len(handled) + 1]
        BY <4>1, <1>1, <1>3
      <4>. QED
        BY <3>1, <4>1, <4>2, <1>1, <1>2, <1>3 DEF ClosedWithReason, Proper
    <3>2. CASE closed # "size"
      BY <3>2, <2>2, <1>2 DEF ClosedWithReason
    <3>. QED
      BY <3>1, <3>2
  <2>. QED
    BY <2>1, <2>2, <2>3, <1>2 DEF IInv, ReasonInv
<1>. QED
  BY <1>1, <1>5, <1>6

\* SentInv is about the sender's variables only.
LEMMA SentKept ==
  ASSUME IInv, UNCHANGED <<sent, streamed>>, ended => ended'
  PROVE  SentInv'
<1>. QED
  BY DEF IInv, SentInv

\* The receiver's and the system's steps keep what is known of the buffer.
LEMMA ReceiverStep ==
  ASSUME IInv, TInv', OnRecvCompleted \/ \E n \in 0 .. BufferSize : Arrive(n)
  PROVE  /\ SentInv' /\ BufferInv' /\ ReasonInv'
         /\ [Stream!Next]_<<sent, handled>>
<1>0. UNCHANGED <<sent, ended, streamed>>
  BY DEF OnRecvCompleted, Arrive, RecvNothing, MoveWritePos, BadHeader, HandlePacket, LoopEnd,
         ProcessRecv, RecvRefused
<1>1. SentInv'
  BY <1>0, SentKept
<1>2. /\ sent \in Seq(Packet) /\ handled \in Seq([at : Int, size : Sizes])
      /\ streamed \in Nat /\ arrived \in 0 .. streamed
      /\ buffer \in [0 .. BufferSize - 1 -> Int]
      /\ readPos \in 0 .. writePos /\ writePos \in 0 .. BufferSize
      /\ bytes \in 0 .. BufferSize
      /\ recv \in {"posted", "arrived"} => wsabuf = [buf |-> writePos, len |-> GetFreeSize]
  BY DEF IInv, TInv, TypeOK
<1>3. /\ Len(handled) \in Nat /\ Len(sent) \in Nat /\ Len(handled) <= Len(sent)
      /\ NextAt = arrived - (Filled - readPos)
      /\ \A i \in readPos .. Filled - 1 : buffer[i] = arrived - Filled + i
  BY <1>2 DEF IInv, BufferInv
<1>4. UNCHANGED handled => NextAt' = NextAt /\ (NotWhole /\ UNCHANGED <<readPos, writePos>> => NotWhole')
  BY <1>0 DEF NextAt, NotWhole
<1>5. /\ recv \in {"post", "posted"} => NotWhole
      /\ recv = "arrived" /\ bytes = 0 => ended /\ Len(handled) = Len(sent)
      /\ closed # "no" => recv = "none"
      /\ ClosedWithReason
  BY DEF IInv, ReasonInv
<1>6. UNCHANGED <<handled, closed>> => ClosedWithReason'
  BY <1>0, <1>5 DEF ClosedWithReason, Proper
<1>7. UNCHANGED handled => [Stream!Next]_<<sent, handled>>
  BY <1>0
<1> HIDE DEF NextAt
<1>8. ASSUME NEW n \in 0 .. BufferSize, Arrive(n)
      PROVE  BufferInv' /\ ReasonInv' /\ UNCHANGED handled
  <2>1. /\ recv = "posted" /\ n <= BufferSize - writePos /\ arrived + n <= streamed
        /\ n = 0 => ended /\ arrived = streamed
        /\ wsabuf.buf = writePos
    BY <1>8, <1>2, SizeAssumption DEF Arrive, GetFreeSize, IInv, TInv, RoomForPacket
  <2>2. /\ arrived' = arrived + n /\ recv' = "arrived" /\ bytes' = n
        /\ UNCHANGED <<readPos, writePos, handled, closed>>
        /\ buffer' = [i \in 0 .. BufferSize - 1 |->
                        IF i \in writePos .. writePos + n - 1 THEN arrived + (i - writePos)
                                                              ELSE buffer[i]]
    BY <1>8, <1>2, <2>1 DEF Arrive, cursors
  <2>3. Filled = writePos /\ Filled' = writePos + n
    BY <1>2, <2>1, <2>2 DEF Filled
  <2>4. BufferInv'
    <3>1. NextAt' = arrived' - (Filled' - readPos')
      BY <1>2, <1>3, <1>4, <2>2, <2>3
    <3>2. ASSUME NEW i \in readPos .. writePos + n - 1
          PROVE  buffer'[i] = arrived + n - (writePos + n) + i
      <4>1. i \in 0 .. BufferSize - 1
        BY <1>2, <2>1, SizeAssumption
      <4>2. CASE i < writePos
        <5>1. buffer[i] = arrived - writePos + i
          BY <4>2, <1>2, <1>3, <2>3
        <5>2. buffer'[i] = buffer[i]
          BY <4>1, <4>2, <1>2, <2>2
        <5>. QED
          BY <5>1, <5>2, <1>2
      <4>3. CASE i >= writePos
        BY <4>1, <4>3, <1>2, <2>2
      <4>. QED
        BY <4>1, <4>2, <4>3, <1>2
    <3>3. arrived' - Filled' = arrived + n - (writePos + n) /\ Filled' - 1 = writePos + n - 1
      BY <1>2, <2>2, <2>3
    <3>4. \A i \in readPos' .. Filled' - 1 : buffer'[i] = arrived' - Filled' + i
      BY <2>2, <3>2, <3>3
    <3>5. Len(handled') <= Len(sent')
      BY <1>0, <1>3, <2>2
    <3>. QED
      BY <3>1, <3>4, <3>5 DEF BufferInv
  <2>5. n = 0 => ended /\ Len(handled) = Len(sent)
    <3>1. SUFFICES ASSUME n = 0, Len(handled) < Len(sent) PROVE FALSE
      BY <1>3, <2>1
    <3>2. NotWhole
      BY <1>5, <2>1
    <3> DEFINE p == sent[Len(handled) + 1]
    <3>3. p.at = arrived - (writePos - readPos) /\ arrived = streamed
      BY <3>1, <1>3, <2>1, <2>3 DEF NextAt
    <3>4. Len(handled) + 1 \in 1 .. Len(sent)
      BY <3>1, <1>3
    <3>5. p \in Packet /\ p.at \in Nat /\ p.size \in Nat
      <4>1. p \in Packet
        BY <3>4, <1>2
      <4>. QED
        BY <4>1 DEF Packet
    <3>6. p.at + HeaderSize <= streamed
      BY <3>4 DEF IInv, SentInv
    <3>7. p.size \in Sizes => p.at + p.size <= streamed
      <4>1. CASE Len(handled) + 1 < Len(sent)
        <5>1. Len(handled) + 2 \in 1 .. Len(sent)
          BY <4>1, <1>3
        <5>2. sent[Len(handled) + 2].at \in Nat
          <6>1. sent[Len(handled) + 2] \in Packet
            BY <5>1, <1>2
          <6>. QED
            BY <6>1 DEF Packet
        <5>3. sent[Len(handled) + 2].at + HeaderSize <= streamed
          BY <5>1 DEF IInv, SentInv
        <5>4. p.size \in Sizes => p.at + p.size = sent[(Len(handled) + 1) + 1].at
          BY <4>1, <3>4 DEF IInv, SentInv
        <5>. HIDE DEF p
        <5>5. (Len(handled) + 1) + 1 = Len(handled) + 2
          BY <1>3
        <5>6. ASSUME p.size \in Sizes PROVE p.at + p.size <= streamed
          <6>1. p.at + p.size = sent[Len(handled) + 2].at
            <7>1. p.at + p.size = sent[(Len(handled) + 1) + 1].at
              BY <5>4, <5>6, Zenon
            <7>. QED
              BY <7>1, <5>5, Zenon
          <6>2. sent[Len(handled) + 2].at <= streamed
            BY <5>2, <5>3, <1>2, SizeAssumption
          <6>. QED
            BY <6>1, <6>2
        <5>. QED
          BY <5>6
      <4>2. CASE Len(handled) + 1 = Len(sent)
        <5>1. p.size \in Sizes => p.at + p.size = streamed
          BY <4>2, <3>4 DEF IInv, SentInv
        <5>. QED
          BY <5>1, <1>2
      <4>. QED
        BY <4>1, <4>2, <3>4, <1>3
    <3>8. writePos - readPos < HeaderSize \/ (p.size \in Sizes /\ writePos - readPos < p.size)
      BY <3>1, <3>2 DEF NotWhole
    <3>. HIDE DEF p
    <3>. QED
      BY <3>3, <3>5, <3>6, <3>7, <3>8, <1>2, SizeAssumption
  <2>6. closed = "no"
    BY <1>5, <2>1
  <2>7. ClosedWithReason'
    BY <1>6, <2>2
  <2>. QED
    BY <1>0, <2>2, <2>4, <2>5, <2>6, <2>7 DEF ReasonInv
<1>9. CASE RecvNothing
  <2>1. /\ recv = "arrived" /\ bytes = 0 /\ recv' = "none" /\ closed' = "zero"
        /\ UNCHANGED <<arrived, buffer, readPos, writePos, handled>>
    BY <1>9 DEF RecvNothing, cursors
  <2>2. Filled = writePos /\ Filled' = writePos
    BY <1>2, <2>1 DEF Filled
  <2>3. BufferInv'
    BY <1>0, <1>3, <1>4, <2>1, <2>2 DEF BufferInv
  <2>4. ReasonInv'
    BY <1>0, <1>5, <2>1 DEF ReasonInv, ClosedWithReason
  <2>. QED
    BY <1>7, <1>1, <2>1, <2>3, <2>4
<1>10. CASE MoveWritePos
  <2>1. /\ recv = "arrived" /\ recv' = "packets" /\ writePos' = writePos + bytes
        /\ UNCHANGED <<arrived, buffer, readPos, handled, closed>>
    BY <1>10 DEF MoveWritePos
  <2>2. Filled = writePos + bytes /\ Filled' = writePos + bytes
    BY <1>2, <2>1 DEF Filled
  <2>3. BufferInv'
    BY <1>0, <1>3, <1>4, <2>1, <2>2 DEF BufferInv
  <2>4. ReasonInv'
    BY <1>5, <1>6, <2>1 DEF ReasonInv
  <2>. QED
    BY <1>7, <1>1, <2>1, <2>3, <2>4
<1>11. CASE BadHeader
  <2>1. /\ recv = "packets" /\ GetDataSize >= HeaderSize /\ HeaderSizes \ Sizes # {}
        /\ recv' = "none" /\ closed' = "size"
        /\ UNCHANGED <<arrived, buffer, readPos, writePos, handled>>
    BY <1>11 DEF BadHeader, cursors
  <2>2. Filled = writePos /\ Filled' = writePos
    BY <1>2, <2>1 DEF Filled
  <2>3. BufferInv'
    BY <1>0, <1>3, <1>4, <2>1, <2>2 DEF BufferInv
  <2>4. Len(handled) < Len(sent) /\ sent[Len(handled) + 1].size \notin Sizes
    BY <2>1, NextIsThere
  <2>5. ReasonInv'
    BY <1>0, <2>1, <2>4 DEF ReasonInv, ClosedWithReason, Proper
  <2>. QED
    BY <1>7, <1>1, <2>1, <2>3, <2>5
<1>12. CASE HandlePacket
  <2> DEFINE p == sent[Len(handled) + 1]
  <2>1. /\ recv = "packets" /\ GetDataSize >= HeaderSize
        /\ recv' = "packets"
        /\ UNCHANGED <<arrived, buffer, writePos, closed>>
    BY <1>12 DEF HandlePacket
  <2>2. PICK size \in HeaderSizes \cap Sizes :
          size <= GetDataSize /\ OnRecv(PacketAt(readPos, size)) /\ readPos' = readPos + size
    BY <1>12 DEF HandlePacket
  <2>3. /\ Len(handled) < Len(sent) /\ p \in Packet /\ HeaderSizes = {p.size}
        /\ \A m \in Nat : m <= GetDataSize /\ m > 0 =>
              PacketAt(readPos, m) = [at |-> p.at, size |-> m]
    BY <2>1, NextIsThere
  <2>4. size = p.size /\ size \in Sizes /\ size \in Nat /\ size > 0
    BY <2>2, <2>3, SizeAssumption DEF Sizes
  <2>5. PacketAt(readPos, size) = p
    <3>1. p = [at |-> p.at, size |-> p.size]
      BY <2>3 DEF Packet
    <3>2. PacketAt(readPos, size) = [at |-> p.at, size |-> size]
      BY <2>2, <2>3, <2>4
    <3>. HIDE DEF p
    <3>. QED
      BY <3>1, <3>2, <2>4
  <2>6. handled' = Append(handled, p)
    BY <2>2, <2>5 DEF OnRecv
  <2>7. p \in Proper /\ p.at \in Nat
    BY <2>3, <2>4 DEF Packet, Proper
  <2>8. Len(handled') = Len(handled) + 1
    BY <2>6, <1>2
  <2>9. NextAt' = p.at + size
    <3>1. Len(handled) + 1 \in 1 .. Len(sent)
      BY <2>3, <1>3
    <3>2. p.at + p.size = IF Len(handled) + 1 < Len(sent) THEN sent[(Len(handled) + 1) + 1].at ELSE streamed
      BY <3>1, <2>4 DEF IInv, SentInv
    <3>. QED
      BY <3>2, <2>4, <2>8, <1>0 DEF NextAt
  <2>10. Filled = writePos /\ Filled' = writePos
    BY <1>2, <2>1 DEF Filled
  <2>11. p.at = arrived - (writePos - readPos)
    BY <1>3, <2>3, <2>10 DEF NextAt
  <2>12. BufferInv'
    <3>. HIDE DEF p
    <3>1. NextAt' = arrived - (writePos - readPos')
      <4>1. /\ {p.at, arrived, writePos, readPos, size} \subseteq Int
            /\ readPos' = readPos + size
        BY <2>2, <2>4, <2>7, <1>2
      <4>2. p.at + size = arrived - (writePos - (readPos + size))
        BY <2>11, <4>1
      <4>. QED
        BY <2>9, <4>1, <4>2
    <3>2. \A i \in readPos' .. writePos - 1 : i \in readPos .. writePos - 1
      BY <2>2, <2>4, <1>2
    <3>3. Len(handled') <= Len(sent')
      BY <2>3, <2>8, <1>0, <1>3
    <3>. QED
      BY <1>3, <2>1, <2>10, <3>1, <3>2, <3>3 DEF BufferInv
  <2>13. closed = "no"
    BY <1>5, <2>1
  <2>14. ReasonInv'
    BY <2>1, <2>13 DEF ReasonInv, ClosedWithReason
  <2>15. Stream!Handle
    BY <2>3, <2>6, <2>7, <1>0 DEF Stream!Handle
  <2>. QED
    BY <1>1, <2>12, <2>14, <2>15 DEF Stream!Next
<1>13. CASE LoopEnd
  <2>1. /\ recv = "packets" /\ Incomplete /\ Compact
        /\ recv' = "post" /\ UNCHANGED <<arrived, bytes, handled, closed>>
    BY <1>13 DEF LoopEnd
  <2>2. GetDataSize = writePos - readPos
    BY DEF GetDataSize
  <2>3. /\ writePos' - readPos' = writePos - readPos
        /\ \/ UNCHANGED <<buffer, readPos, writePos>>
           \/ /\ readPos' = 0 /\ writePos' = writePos - readPos
              /\ \A i \in 0 .. writePos - readPos - 1 : buffer'[i] = buffer[readPos + i]
    <3>1. CASE UNCHANGED <<buffer, cursors>>
      BY <3>1 DEF cursors
    <3>2. CASE /\ readPos' = 0 /\ writePos' = GetDataSize
               /\ buffer' = [i \in DOMAIN buffer |-> IF i < GetDataSize THEN buffer[readPos + i]
                                                               ELSE buffer[i]]
      <4>1. \A i \in 0 .. writePos - readPos - 1 : i \in DOMAIN buffer /\ i < GetDataSize
        BY <1>2, <2>2, SizeAssumption
      <4>2. writePos' - readPos' = writePos - readPos
        BY <3>2, <2>2, <1>2
      <4>. QED
        BY <3>2, <4>1, <4>2, <2>2
    <3>. QED
      BY <2>1, <3>1, <3>2 DEF Compact
  <2>4. Filled = writePos /\ Filled' = writePos'
    BY <1>2, <2>1, <2>3 DEF Filled
  <2>5. BufferInv'
    <3>1. \A i \in readPos' .. writePos' - 1 : buffer'[i] = arrived - writePos' + i
      <4>1. CASE UNCHANGED <<buffer, readPos, writePos>>
        BY <4>1, <1>3, <2>4
      <4>2. CASE /\ readPos' = 0 /\ writePos' = writePos - readPos
                 /\ \A i \in 0 .. writePos - readPos - 1 : buffer'[i] = buffer[readPos + i]
        <5>1. ASSUME NEW i \in 0 .. writePos - readPos - 1
              PROVE  buffer'[i] = arrived - (writePos - readPos) + i
          <6>1. readPos + i \in readPos .. writePos - 1
            BY <1>2
          <6>2. buffer[readPos + i] = arrived - writePos + (readPos + i)
            BY <6>1, <1>3, <2>4
          <6>. QED
            BY <6>2, <4>2, <1>2
        <5>. QED
          BY <5>1, <4>2
      <4>. QED
        BY <4>1, <4>2, <2>3
    <3>2. NextAt' = arrived' - (Filled' - readPos')
      BY <1>3, <1>4, <2>1, <2>3, <2>4
    <3>. QED
      BY <1>0, <1>3, <2>1, <2>4, <3>1, <3>2 DEF BufferInv
  <2>6. NotWhole'
    <3>1. CASE writePos - readPos < HeaderSize
      BY <3>1, <2>3 DEF NotWhole
    <3>2. CASE GetDataSize >= HeaderSize /\ \E size \in HeaderSizes \cap Sizes : size > GetDataSize
      <4>1. HeaderSizes = {sent[Len(handled) + 1].size}
        BY <3>2, <2>1, NextIsThere
      <4>2. sent[Len(handled) + 1].size \in Sizes /\ writePos - readPos < sent[Len(handled) + 1].size
        BY <3>2, <4>1, <2>2, <1>2, SizeAssumption DEF Sizes
      <4>. QED
        BY <4>2, <2>1, <2>3, <1>0 DEF NotWhole
    <3>. QED
      BY <2>1, <2>2, <3>1, <3>2 DEF Incomplete
  <2>7. ReasonInv'
    BY <1>5, <1>6, <2>1, <2>6 DEF ReasonInv
  <2>. QED
    BY <1>7, <1>1, <2>1, <2>5, <2>7
<1>14. CASE ProcessRecv
  <2>1. /\ recv = "post" /\ UNCHANGED <<arrived, buffer, readPos, writePos, bytes, handled>>
        /\ recv' = "posted" /\ UNCHANGED closed
    <3>1. GetFreeSize > 0
      BY <1>14 DEF ProcessRecv, IInv, TInv, RoomInv
    <3>2. writePos < BufferSize
      BY <3>1, <1>2, SizeAssumption DEF GetFreeSize
    <3>. QED
      BY <1>14, <3>1, <3>2 DEF ProcessRecv, PostRecv, cursors
  <2>2. Filled = writePos /\ Filled' = writePos
    BY <1>2, <2>1 DEF Filled
  <2>3. BufferInv'
    BY <1>0, <1>3, <1>4, <2>1, <2>2 DEF BufferInv
  <2>4. ReasonInv'
    BY <1>4, <1>5, <1>6, <2>1 DEF ReasonInv
  <2>. QED
    BY <1>7, <1>1, <2>1, <2>3, <2>4
<1>15. CASE RecvRefused
  <2>1. /\ recv = "post" /\ recv' = "none" /\ closed' = "refused"
        /\ UNCHANGED <<arrived, buffer, readPos, writePos, bytes, handled>>
    BY <1>15 DEF RecvRefused, cursors
  <2>2. Filled = writePos /\ Filled' = writePos
    BY <1>2, <2>1 DEF Filled
  <2>3. BufferInv'
    BY <1>0, <1>3, <1>4, <2>1, <2>2 DEF BufferInv
  <2>4. ReasonInv'
    BY <2>1 DEF ReasonInv, ClosedWithReason
  <2>. QED
    BY <1>7, <1>1, <2>1, <2>3, <2>4
<1>. QED
  BY <1>1, <1>7, <1>8, <1>9, <1>10, <1>11, <1>12, <1>13, <1>14, <1>15 DEF OnRecvCompleted

\* Every step keeps the invariant and is a step of the abstract stream, or none.
LEMMA INext == IInv /\ [Next]_vars => IInv' /\ [Stream!Next]_<<sent, handled>>
<1> SUFFICES ASSUME IInv, [Next]_vars PROVE IInv' /\ [Stream!Next]_<<sent, handled>>
  OBVIOUS
<1>1. TInv'
  BY NextType DEF IInv
<1>2. ASSUME NEW payload \in 0 .. MaxPacket, SendPacket(payload)
      PROVE  /\ SentInv' /\ BufferInv' /\ ReasonInv' /\ [Stream!Next]_<<sent, handled>>
  <2>1. /\ HeaderSize + payload \in Sizes /\ HeaderSize + payload \in 0 .. MaxPacket + 1
        /\ HeaderSize + payload \in Nat /\ HeaderSize + payload >= HeaderSize
    BY <1>2, SizeAssumption DEF SendPacket, Fits, Sizes
  <2>2. ~ ended /\ PutOnStream(HeaderSize + payload, HeaderSize + payload)
    BY <1>2 DEF SendPacket
  <2>3. /\ \E p \in Packet : sent' = Append(sent, p)
        /\ SentInv' /\ BufferInv' /\ ReasonInv'
    BY <2>1, <2>2, PutInv
  <2>. QED
    BY <2>2, <2>3 DEF PutOnStream, Stream!Next, Stream!Send
<1>3. CASE SendBroken
  <2>1. PICK size \in {HeaderSize - 1, MaxPacket + 1} : PutOnStream(size, HeaderSize)
    BY <1>3 DEF SendBroken
  <2>2. /\ size \in 0 .. MaxPacket + 1 /\ size \notin Sizes
        /\ HeaderSize \in Nat /\ HeaderSize >= HeaderSize
    BY SizeAssumption DEF Sizes
  <2>3. ~ ended /\ ended'
    BY <1>3 DEF SendBroken
  <2>4. /\ \E p \in Packet : sent' = Append(sent, p)
        /\ SentInv' /\ BufferInv' /\ ReasonInv'
    BY <2>1, <2>2, <2>3, PutInv
  <2>5. UNCHANGED handled
    BY <2>1 DEF PutOnStream
  <2>. QED
    BY <1>1, <2>4, <2>5 DEF IInv, Stream!Next, Stream!Send
<1>4. CASE End \/ UNCHANGED vars
  <2>1. /\ UNCHANGED <<sent, streamed, arrived, buffer, readPos, writePos, recv, bytes, handled, closed>>
        /\ ended => ended'
    BY <1>4 DEF End, vars, cursors
  <2>2. SentInv'
    BY <2>1, SentKept
  <2>3. NextAt' = NextAt /\ Filled' = Filled /\ (NotWhole => NotWhole')
    BY <2>1 DEF NextAt, Filled, NotWhole
  <2>4. BufferInv'
    BY <2>1, <2>3 DEF IInv, BufferInv
  <2>5. ReasonInv'
    BY <2>1, <2>3 DEF IInv, ReasonInv, ClosedWithReason, Proper
  <2>6. UNCHANGED <<sent, handled>>
    BY <2>1
  <2>. QED
    BY <1>1, <2>2, <2>4, <2>5, <2>6 DEF IInv
<1>. QED
  BY <1>1, <1>2, <1>3, <1>4, ReceiverStep DEF Next, IInv

\* Whatever the sizes, however the stream is cut and however often the data is
\* moved, the packets are handled whole, once and in the order they were sent.
THEOREM Implementation == Spec => DeliversInOrder
<1>1. Init => Stream!Init
  BY DEF Init, Stream!Init
<1>. QED
  BY <1>1, IInit, INext, PTL DEF Spec, DeliversInOrder, Stream!Spec

\* A connection is closed for a reason only: for a size no packet has after all
\* packets before that one, and for its end after all packets.
THEOREM Reasons == Spec => []ClosedWithReason
<1>1. IInv => ClosedWithReason
  BY DEF IInv, ReasonInv
<1>. QED
  BY <1>1, IInit, INext, PTL DEF Spec
=============================================================================
