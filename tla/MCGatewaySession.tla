--------------------------- MODULE MCGatewaySession ---------------------------
(* Small instances of GatewaySession: two connections on one gateway and,   *)
(* where there is a third, one on another.                                  *)
EXTENDS GatewaySession

CONSTANTS c1, c2, c3, g1, g2

MCHost == [c \in Conn |-> IF c = c3 THEN g2 ELSE g1]
=============================================================================
