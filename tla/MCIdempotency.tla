----------------------------- MODULE MCIdempotency -----------------------------
(* Small instances of Idempotency. *)
EXTENDS Idempotency
=============================================================================
