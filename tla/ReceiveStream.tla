------------------------------ MODULE ReceiveStream ------------------------------
(***************************************************************************)
(* How packets are put on a connection (PacketHandler::SendPacket) and     *)
(* found again in the stream of bytes that arrives at its other end        *)
(* (Session::OnRecvCompleted and ProcessRecv, RecvBuffer, BaseBuffer in    *)
(* src/ServerCore).  The server and the client use the same code.          *)
(*                                                                         *)
(* TCP keeps bytes in order but not their boundaries: a receive may end    *)
(* inside a packet, inside its header even, or carry several packets.      *)
(* A byte is represented by its place in the stream.  The first bytes of a *)
(* packet are its header, with the size of the whole packet.               *)
(*                                                                         *)
(* One receive is outstanding at a time and nobody else uses the buffer    *)
(* (see SessionRegistry for who owns the receive).                         *)
(***************************************************************************)
EXTENDS Integers, Sequences, Functions

CONSTANTS HeaderSize, \* sizeof(PacketHeader)
          MaxPacket,  \* MAX_PACKET_SIZE
          BufferSize, \* BUFFER_SIZE
          MaxStream   \* bound: the bytes sent on the connection

ASSUME SizeAssumption ==
  /\ HeaderSize \in Nat \ {0} /\ MaxPacket \in Nat /\ BufferSize \in Nat
  /\ HeaderSize <= MaxPacket /\ MaxPacket <= BufferSize
  /\ MaxStream \in Nat

Junk == -1  \* what a byte of the buffer holds before it is first written

VARIABLES sent,     \* the packets sent: [at, size]
          ended,    \* the sender has closed its end
          streamed, \* the bytes sent
          arrived,  \* the bytes that have arrived
          buffer,   \* _buffer
          readPos,  \* _readPos
          writePos, \* _writePos
          recv,     \* where the receive is
          wsabuf,   \* [buf, len] of the receive that is outstanding
          bytes,    \* bytesTransferred
          handled,  \* the packets passed to OnRecv
          closed    \* why the session was closed

cursors == <<readPos, writePos>>
vars == <<sent, ended, streamed, arrived, buffer, cursors, recv, wsabuf, bytes, handled, closed>>

Sizes  == HeaderSize .. MaxPacket  \* what the size in a header may be
Packet == [at : 0 .. MaxStream, size : 0 .. MaxPacket + 1]
Proper == [at : 0 .. MaxStream, size : Sizes]

Init == /\ sent = <<>> /\ ended = FALSE /\ streamed = 0 /\ arrived = 0
        /\ buffer = [i \in 0 .. BufferSize - 1 |-> Junk]
        /\ readPos = 0 /\ writePos = 0
        /\ recv = "posted" /\ wsabuf = [buf |-> 0, len |-> BufferSize] /\ bytes = 0
        /\ handled = <<>>
        /\ closed = "no"

GetDataSize == writePos - readPos
GetFreeSize == BufferSize - writePos

-----------------------------------------------------------------------------
(* The sender *)

\* if (totalSize > MAX_PACKET_SIZE) return.  Payloads are taken to be short
\* enough for their size to fit the sixteen bits of the header.
Fits(payload) == HeaderSize + payload <= MaxPacket

\* n bytes that begin with a header of the given size.
PutOnStream(size, n) ==
  /\ streamed + n <= MaxStream
  /\ sent' = Append(sent, [at |-> streamed, size |-> size])
  /\ streamed' = streamed + n
  /\ UNCHANGED <<arrived, buffer, cursors, recv, wsabuf, bytes, handled, closed>>

\* SendPacket; what Session::Send makes of it is in SessionSend.
SendPacket(payload) ==
  LET totalSize == HeaderSize + payload IN
  ~ended /\ Fits(payload) /\ PutOnStream(totalSize, totalSize) /\ UNCHANGED ended

\* A peer that does not use SendPacket: the last header has a size that no packet has.
SendBroken == /\ ~ended /\ ended' = TRUE
              /\ \E size \in {HeaderSize - 1, MaxPacket + 1} : PutOnStream(size, HeaderSize)

\* The peer closes its end.
End == /\ ~ended /\ ended' = TRUE
       /\ UNCHANGED <<sent, streamed, arrived, buffer, cursors, recv, wsabuf, bytes, handled, closed>>

-----------------------------------------------------------------------------
(* The system: it completes the receive *)

\* Some of the bytes on their way are written where the receive asked for
\* them; none, when no more will come.
Arrive(n) ==
  /\ recv = "posted"
  /\ n <= wsabuf.len /\ arrived + n <= streamed
  /\ n = 0 => (ended /\ arrived = streamed) \/ wsabuf.len = 0
  /\ buffer' = [i \in DOMAIN buffer |->
                  IF i \in wsabuf.buf .. wsabuf.buf + n - 1 THEN arrived + (i - wsabuf.buf)
                                                            ELSE buffer[i]]
  /\ arrived' = arrived + n
  /\ recv' = "arrived" /\ bytes' = n
  /\ UNCHANGED <<sent, ended, streamed, cursors, wsabuf, handled, closed>>

-----------------------------------------------------------------------------
(* OnRecvCompleted *)

\* No bytes: the other end has closed the connection.
RecvNothing ==
  /\ recv = "arrived" /\ bytes = 0
  /\ recv' = "none" /\ closed' = "zero"
  /\ UNCHANGED <<sent, ended, streamed, arrived, buffer, cursors, wsabuf, bytes, handled>>

MoveWritePos ==
  /\ recv = "arrived" /\ bytes > 0
  /\ writePos' = writePos + bytes
  /\ recv' = "packets" /\ bytes' = 0
  /\ UNCHANGED <<sent, ended, streamed, arrived, buffer, readPos, wsabuf, handled, closed>>

\* The bytes from index i on are n consecutive bytes of the stream.
Whole(i, n) == \A k \in 0 .. n - 1 : buffer[i + k] = buffer[i] + k

\* header->size: that of the packet that begins at readPos, and anything if
\* none does.
HeaderSizes ==
  LET begun == {p \in Range(sent) : p.at = buffer[readPos]} IN
  IF Whole(readPos, HeaderSize) /\ begun # {} THEN {p.size : p \in begun}
                                              ELSE 0 .. MaxPacket + 1

\* What OnRecv is given.
PacketAt(i, n) == IF Whole(i, n) THEN [at |-> buffer[i], size |-> n]
                                 ELSE [at |-> Junk, size |-> n]

\* The handler for the packet's id runs, whether or not the payload could be
\* parsed.  Every id is taken to have a handler.
OnRecv(packet) == handled' = Append(handled, packet)

\* The size in the header is impossible.
BadHeader ==
  /\ recv = "packets"
  /\ GetDataSize >= HeaderSize
  /\ HeaderSizes \ Sizes # {}
  /\ recv' = "none" /\ closed' = "size"
  /\ UNCHANGED <<sent, ended, streamed, arrived, buffer, cursors, wsabuf, bytes, handled>>

\* Mutant: the packet is handled as soon as its header is there.
HandleBegun ==
  /\ recv = "packets"
  /\ GetDataSize >= HeaderSize
  /\ \E size \in HeaderSizes \cap Sizes :
       /\ OnRecv(PacketAt(readPos, size))
       /\ readPos' = readPos + size
  /\ UNCHANGED <<sent, ended, streamed, arrived, buffer, writePos, recv, wsabuf, bytes, closed>>

\* One turn of the loop, and MoveReadPos.
HandlePacket ==
  /\ recv = "packets"
  /\ GetDataSize >= HeaderSize
  /\ \E size \in HeaderSizes \cap Sizes :
       /\ size <= GetDataSize
       /\ OnRecv(PacketAt(readPos, size))
       /\ readPos' = readPos + size
  /\ UNCHANGED <<sent, ended, streamed, arrived, buffer, writePos, recv, wsabuf, bytes, closed>>

\* break: the rest of the header, or of the packet, has yet to arrive.
Incomplete ==
  \/ GetDataSize < HeaderSize
  \/ /\ GetDataSize >= HeaderSize
     /\ \E size \in HeaderSizes \cap Sizes : size > GetDataSize

\* Mutant: the data is moved by one byte too few.
MoveShort ==
  IF readPos = 0 \/ (GetDataSize > 0 /\ GetFreeSize >= MaxPacket) THEN UNCHANGED <<buffer, cursors>>
  ELSE /\ readPos' = 0
       /\ writePos' = GetDataSize
       /\ buffer' = [i \in DOMAIN buffer |-> IF i < GetDataSize - 1 THEN buffer[readPos + i]
                                                                   ELSE buffer[i]]

\* Mutant: the data is left where it is.
ResetOnly ==
  IF GetDataSize = 0 THEN readPos' = 0 /\ writePos' = 0 /\ UNCHANGED buffer
                     ELSE UNCHANGED <<buffer, cursors>>

\* BaseBuffer::Compact
Compact ==
  IF readPos = 0 \/ (GetDataSize > 0 /\ GetFreeSize >= MaxPacket) THEN UNCHANGED <<buffer, cursors>>
  ELSE /\ readPos' = 0
       /\ writePos' = GetDataSize
       /\ buffer' = [i \in DOMAIN buffer |-> IF i < GetDataSize THEN buffer[readPos + i]
                                                               ELSE buffer[i]]

\* Mutant: nothing more is asked for when a packet has begun.
EndOrReturn ==
  /\ recv = "packets"
  /\ Incomplete
  /\ Compact
  /\ recv' = IF GetDataSize = 0 THEN "post" ELSE "none"
  /\ UNCHANGED <<sent, ended, streamed, arrived, wsabuf, bytes, handled, closed>>

\* The end of the loop; the first Compact.
LoopEnd ==
  /\ recv = "packets"
  /\ Incomplete
  /\ Compact
  /\ recv' = "post"
  /\ UNCHANGED <<sent, ended, streamed, arrived, wsabuf, bytes, handled, closed>>

\* The receive that GetWSABUF describes.
PostRecv ==
  /\ wsabuf' = [buf |-> writePos', len |-> BufferSize - writePos']
  /\ recv' = "posted" /\ UNCHANGED closed

\* ProcessRecv: when there is no room another Compact, and Close if it is of no use.
ProcessRecv ==
  /\ recv = "post"
  /\ IF GetFreeSize > 0 THEN UNCHANGED <<buffer, cursors>> ELSE Compact
  /\ IF writePos' < BufferSize
     THEN PostRecv
     ELSE recv' = "none" /\ closed' = "full" /\ UNCHANGED wsabuf
  /\ UNCHANGED <<sent, ended, streamed, arrived, bytes, handled>>

\* ProcessRecv, when WSARecv fails.
RecvRefused ==
  /\ recv = "post"
  /\ recv' = "none" /\ closed' = "refused"
  /\ UNCHANGED <<sent, ended, streamed, arrived, buffer, cursors, wsabuf, bytes, handled>>

-----------------------------------------------------------------------------

OnRecvCompleted == \/ RecvNothing \/ MoveWritePos \/ BadHeader \/ HandlePacket \/ LoopEnd
                   \/ ProcessRecv \/ RecvRefused

Next == \/ \E payload \in 0 .. MaxPacket : SendPacket(payload)
        \/ SendBroken \/ End
        \/ \E n \in 0 .. BufferSize : Arrive(n)
        \/ OnRecvCompleted

Spec == Init /\ [][Next]_vars

\* What was sent arrives; the worker that has the completion goes on.
FairSpec == /\ Spec
            /\ WF_vars(\E n \in 0 .. BufferSize : Arrive(n))
            /\ WF_vars(OnRecvCompleted)

-----------------------------------------------------------------------------
(* Properties *)

\* Every variable has its type; neither ASSERT_CRASH of BaseBuffer fails: a
\* receive writes inside the buffer, and a packet is handled whole.
TypeOK ==
  /\ sent \in Seq(Packet) /\ handled \in Seq([at : Int, size : Sizes])
  /\ ended \in BOOLEAN
  /\ streamed \in Nat /\ arrived \in 0 .. streamed
  /\ buffer \in [0 .. BufferSize - 1 -> Int]
  /\ readPos \in 0 .. writePos /\ writePos \in 0 .. BufferSize
  /\ recv \in {"posted", "arrived", "packets", "post", "none"}
  /\ wsabuf \in [buf : 0 .. BufferSize, len : 0 .. BufferSize]
  /\ bytes \in 0 .. BufferSize
  /\ recv \in {"posted", "arrived"} => wsabuf = [buf |-> writePos, len |-> GetFreeSize]
  /\ recv = "arrived" => bytes <= GetFreeSize
  /\ closed \in {"no", "zero", "size", "full", "refused"}

\* "RecvBuffer has no room" never happens: a receive that is posted asks for at
\* least one byte, and leaves room for the rest of the packet that has begun.
\* A receive of no length would complete with no bytes, which OnRecvCompleted
\* takes for the end of the connection.
RoomForPacket ==
  /\ closed # "full"
  /\ recv = "posted" => wsabuf.len > 0 /\ BufferSize - readPos >= MaxPacket

\* A connection is closed for a wrong size only by a packet that has one, after
\* all packets before it were handled; and for its end only when all were.
ClosedWithReason ==
  /\ closed = "size" => /\ Len(handled) < Len(sent)
                        /\ sent[Len(handled) + 1] \notin Proper
  /\ closed = "zero" => ended /\ Len(handled) = Len(sent)

Stream == INSTANCE PacketStream

\* The packets are handled whole, once and in order, however the stream was cut
\* and however often the data was moved in the buffer.
DeliversInOrder == Stream!Spec

\* Every packet sent is handled at last, unless one before it is broken or the
\* receive fails.
EveryPacketHandled ==
  \A k \in 1 .. MaxStream :
    Len(sent) >= k ~> (Len(handled) >= k \/ closed \in {"size", "refused"})
=============================================================================
