----------------------------- MODULE MCCharger -----------------------------
(* Model-checking instance of Charger and of its refinement mapping. *)
EXTENDS ChargerRefinement
=============================================================================
