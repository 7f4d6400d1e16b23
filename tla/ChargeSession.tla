--------------------------- MODULE ChargeSession ---------------------------
(***************************************************************************)
(* What the rest of the program relies on the controller for: a charge is  *)
(* reported (CHARGE_PIEL_START .. CHARGE_PILE_STOP) around every closing   *)
(* of the contactor, it is reported over only with the contactor open, and *)
(* once it is being aborted the contactor is not closed again and the      *)
(* charge does end.  Billing closes its record and the concentrator sends  *)
(* its settlement on these reports.                                        *)
(***************************************************************************)

VARIABLES phase,   \* "off", "energising", "charging" or "aborting"
          live     \* the contactor is commanded closed
sessionVars == <<phase, live>>

Init == phase = "off" /\ live = FALSE

Energise == phase = "off" /\ phase' = "energising" /\ live' = TRUE
Begin    == phase = "energising" /\ phase' = "charging" /\ UNCHANGED live
Cut      == live /\ live' = FALSE /\ UNCHANGED phase
Resume   == phase = "charging" /\ ~live /\ live' = TRUE /\ UNCHANGED phase
Abort    == phase = "charging" /\ phase' = "aborting" /\ UNCHANGED live
End      == /\ phase \in {"charging", "aborting"}
            /\ ~live
            /\ phase' = "off"
            /\ UNCHANGED live

Next == Energise \/ Begin \/ Cut \/ Resume \/ Abort \/ End

Safe == Init /\ [][Next]_sessionVars

(* An aborted charge is cut, and then ended. *)
Finish == phase = "aborting" /\ (Cut \/ End)
Spec == Safe /\ WF_sessionVars(Begin) /\ WF_sessionVars(Finish)
=============================================================================
