------------------------------- MODULE MCCard -------------------------------
(* Model-checking instance of CardAuth. *)
EXTENDS CardAuth
=============================================================================
