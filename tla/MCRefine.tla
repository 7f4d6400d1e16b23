------------------------------ MODULE MCRefine ------------------------------
(* Model-checking instance of ChargerRefinement. *)
EXTENDS ChargerRefinement
=============================================================================
