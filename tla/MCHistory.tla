----------------------------- MODULE MCHistory -----------------------------
(* Model-checking instance of ChargerHistory. *)
EXTENDS ChargerHistory
=============================================================================
