--------------------------- MODULE MCSessionSend ---------------------------
(* Small instances of SessionSend for TLC. *)
EXTENDS SessionSend, TLC

CONSTANTS small, large

\* One packet is longer than the others.
MCSize == [b \in Buffers |-> IF b = large THEN 2 ELSE 1]

\* Threads of a kind differ in nothing but their name.
ThreadSymmetry == Permutations(Workers) \cup Permutations(Senders)
=============================================================================
