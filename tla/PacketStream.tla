------------------------------ MODULE PacketStream ------------------------------
(***************************************************************************)
(* What a connection promises to the two programs at its ends: the packets *)
(* that are sent are handled whole, each once, and in the order in which   *)
(* they were sent, up to the first that is broken.  Implemented by         *)
(* ReceiveStream.                                                          *)
(***************************************************************************)
EXTENDS Sequences, Naturals

CONSTANTS Packet, \* what can be sent
          Proper  \* the packets that are not broken

VARIABLES sent,    \* the packets sent so far
          handled  \* the packets handled so far

Init == sent = <<>> /\ handled = <<>>

Send == /\ \E p \in Packet : sent' = Append(sent, p)
        /\ UNCHANGED handled

Handle == /\ Len(handled) < Len(sent)
          /\ sent[Len(handled) + 1] \in Proper
          /\ handled' = Append(handled, sent[Len(handled) + 1])
          /\ UNCHANGED sent

Next == Send \/ Handle

Spec == Init /\ [][Next]_<<sent, handled>>
=============================================================================
