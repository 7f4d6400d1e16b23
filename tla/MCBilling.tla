----------------------------- MODULE MCBilling -----------------------------
(* Model-checking instance of Billing: a build without the concentrator's  *)
(* settlement, which ends a charge at its limits, and one with it.         *)
EXTENDS Billing

Alone   == [hub |-> FALSE, monitor |-> TRUE]
Settled == [hub |-> TRUE, monitor |-> FALSE]
BothBuilds == {Alone, Settled}
=============================================================================
