---------------------------- MODULE MCGatewayDrain ----------------------------
(* Small instances of GatewayDrain. *)
EXTENDS GatewayDrain
=============================================================================
