--------------------------- MODULE ChargerHistory ---------------------------
(***************************************************************************)
(* Charger with history variables: how long an abort is due, how long a    *)
(* fault has stood, and how long ago the contactor was opened over a       *)
(* locked gun.  They only record; no step depends on them.                 *)
(***************************************************************************)
EXTENDS Charger

VARIABLES
  abortAge,   \* time the closed contactor has been due to open, or Unset
  faultAge,   \* time a fault has stood with the contactor closed, or Unset
  openAge     \* time since the contactor was first opened after the gun was
              \* locked, up to UnlockT + 1, or Unset

hvars == <<vars, abortAge, faultAge, openAge>>

Cap == ErrT + 3       \* ages above every bound stated below are alike

HInit == Init /\ abortAge = Unset /\ faultAge = Unset /\ openAge = Unset

Ticked == due' /\ ~due
Older(a) == IF Ticked /\ a < Cap THEN a + 1 ELSE a

(* The age of a condition: counted while it lasts. *)
Lasting(cond, a) == IF ~cond THEN Unset
                    ELSE IF a = Unset THEN 0
                    ELSE Older(a)

(* Closed, and not in a charge that may go on. *)
AbortDue == pin /\ pc # "start_go" /\ (role = "ing" => exitNow)

(* The first time the contactor is opened; it may be closed again. *)
SinceOpened ==
  IF ~elock' THEN Unset
  ELSE IF openAge = Unset THEN (IF pin /\ ~pin' THEN 0 ELSE Unset)
  ELSE IF Ticked /\ openAge <= UnlockT THEN openAge + 1 ELSE openAge

Record ==
  /\ abortAge' = Lasting(AbortDue', abortAge)
  /\ faultAge' = Lasting(pin' /\ alarm' # {}, faultAge)
  /\ openAge' = SinceOpened

HNext == \/ Poll /\ Record
         \/ Tell /\ Record
         \/ Detectors /\ Record
         \/ ManStart /\ Record
         \/ \E t \in AuthTasks : AuthFail /\ Record
         \/ \E e \in Stops : StopCharge(e) /\ Record
         \/ LedRead /\ Record
         \/ LedTell /\ Record
         \/ ScramButton /\ Record
         \/ \E v \in Voltage : Car(v) /\ Record
         \/ Tick /\ Record

HSpec == HInit /\ [][HNext]_hvars

(* CHARGER_ERR_TIMEOUT_MS: once a charge is to be aborted, the contactor   *)
(* opens within ErrT of the first run of charger_err_do, whatever the car, *)
(* the detectors and the users do meanwhile (one unit for that first run,  *)
(* one for the run that finds the delay over).                             *)
AbortDeadline == abortAge <= ErrT + 2

(* An emergency in a charge does not get that delay. *)
EmergencyDeadline == (role = "ing" /\ exitNow) => abortAge <= 1

(* start_ticks is the one timer of four roles (charger_ing_do,             *)
(* charger_stop_do).  When a gun is given free, the delay that was waited  *)
(* for began with an opening of this charge, or the contactor has stayed   *)
(* open: the time of another role's delay (the wait for the car in start,  *)
(* an abort's, an older charge's) is never taken for it.  It is the FIRST  *)
(* opening of the charge that counts here; what is due after the last one  *)
(* is UnlockAfterCut.  A charge that CARD_AUTH_FAIL takes away is still    *)
(* reported, and its gun is given free without any delay.                  *)
UnlockByOwnDelay ==
  [][(elock /\ ~elock' /\ (role = "ing" \/ ~charging)) =>
       \/ openAge = Unset /\ ~pin
       \/ openAge > UnlockT]_hvars

(* "The time (ms) from the cutting of the AC output to the unlocking"      *)
(* (charger.c:65) is 200: seven runs of the task.  The run that cuts the   *)
(* output, at the least, does not unlock the gun.                          *)
UnlockAfterCut == [][(elock /\ ~elock') => ~pin]_hvars

(* "The longest time tolerated between a fault and the cutting of the AC   *)
(* output" (charger.c:66): a standing fault does not leave the contactor   *)
(* closed for longer.                                                      *)
FaultCutsOutput == faultAge <= ErrT + 2
=============================================================================
