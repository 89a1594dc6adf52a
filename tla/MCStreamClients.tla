--------------------------- MODULE MCStreamClients ---------------------------
(* Instances of StreamClients for TLC.                                     *)
EXTENDS StreamClients, TLC
=============================================================================
