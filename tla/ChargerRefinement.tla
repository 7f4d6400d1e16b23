------------------------- MODULE ChargerRefinement -------------------------
(* The controller implements ChargeSession. *)
EXTENDS Charger

Phase == IF pc = "start_go" THEN "energising"
         ELSE IF ~charging THEN "off"
         ELSE IF role = "err" THEN "aborting"
         ELSE "charging"

Session == INSTANCE ChargeSession WITH phase <- Phase, live <- pin

(* The controller keeps the promise of ChargeSession to billing, the       *)
(* concentrator and the screen: charges are reported in order, over only   *)
(* with the contactor open, and an aborted one stays open.                 *)
ImplementsSession == Session!Safe

(* The same with the promise that an abort (charger_err_do) comes to its   *)
(* end, whatever the car does and whatever else is reported meanwhile.     *)
ImplementsFairSession == Session!Spec

(* An emergency latched while the contactor is closed opens it, whichever  *)
(* role the controller is in when it arrives.                              *)
EmergencyOpens == (pin /\ exitNow) ~> ~pin

(* A gun that is pulled and stays out brings the controller back to a role *)
(* that does not charge and waits for the next gun (idle, or allow, which  *)
(* has no way back on 12V).                                                *)
UnpluggedComesToRest ==
  <>[](vol = 12) => <>[](~pin /\ ~charging /\ role \in {"idle", "allow"})
=============================================================================
