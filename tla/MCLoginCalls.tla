---------------------------- MODULE MCLoginCalls ----------------------------
(* Small instances of LoginCalls. *)
EXTENDS LoginCalls
=============================================================================
