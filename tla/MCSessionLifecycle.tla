-------------------------- MODULE MCSessionLifecycle --------------------------
(* Small instances of SessionLifecycle: one client, connected to a gateway   *)
(* that stops and then to another.                                           *)
EXTENDS SessionLifecycle

CONSTANTS c1, c2, c3, g1, g2, k1

MCHost == [c \in Conn |-> IF c = c3 THEN g2 ELSE g1]
MCOwner == [c \in Conn |-> k1]
MCTargets == <<"lobby", "battle">>
=============================================================================
