------------------------- MODULE MCSessionRegistry -------------------------
(* SessionRegistry with clients that send pongs nobody asked for.           *)
EXTENDS SessionRegistry

CONSTANT Eager \* the sessions of these clients

Surplus == [s \in Sessions |-> IF s \in Eager THEN 1 ELSE 0]
=============================================================================
