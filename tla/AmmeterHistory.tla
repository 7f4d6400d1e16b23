--------------------------- MODULE AmmeterHistory ---------------------------
(***************************************************************************)
(* Ammeter with history variables: the voltages judged last, and how long  *)
(* the current has been out of range in the present charge.  They only     *)
(* record; no step depends on them.                                        *)
(***************************************************************************)
EXTENDS Ammeter

VARIABLES
  judged,    \* the voltage judged last
  same,      \* how many judgements in a row it has had, up to 3
  badAge     \* time since the current was last judged in range, or CHARGE_
             \* PIEL_START told

hvars == <<ammeterVars, judged, same, badAge>>

HInit == AmmeterInit /\ judged = "ok" /\ same = 0 /\ badAge = 0

Aged(a, d) == Min2(a + d, AgeMax)

Judging == pc = "vol" /\ pc' # "vol"
Playing == pc = "play" /\ pc' # "play" /\ monitor

HNext ==
  /\ AmmeterNext
  /\ judged' = IF Judging THEN vol ELSE judged
  /\ same' = IF ~Judging THEN same
             ELSE IF vol = judged THEN Min2(same + 1, 3) ELSE 1
  /\ \/ \E ok \in BOOLEAN, d \in 1..MaxPause :
          /\ ReadEnergy(ok, d)
          /\ badAge' = Aged(badAge, d)
     \/ /\ pc # "energy" \/ pc' = "energy"
        /\ badAge' = IF ChargeStart \/ (Playing /\ curr = "ok") THEN 0
                                                              ELSE badAge

HSpec == HInit /\ [][HNext]_hvars

(* A voltage fault, which ends a charge at once, takes two judgements in a *)
(* row on the same side.  Judgements are not readings: a read that fails   *)
(* (ammeter.c:312) leaves the voltage as it was, 0 V at first, to be       *)
(* judged again, so that one reading, or none, can confirm itself.         *)
VolJudgedTwice ==
  [][(volState' # volState /\ volState' # "ok")
       => /\ judged = volState' /\ same >= 1
          /\ judged' = volState']_hvars

(* Three readings alike settle the voltage state, whatever the monitor was *)
(* confirming before: it never gets stuck on an old fault or an old normal.*)
VolFollows == same = 3 => volState = judged

(* The others hold the verdict of the monitor, except while it is told: no *)
(* change of the voltage or of the meter goes untold, though each is told  *)
(* only once.                                                              *)
ToldAsJudged ==
  /\ pc # "tell_vol" => heard.vol = volState
  /\ pc # "tell_meter" => heard.meter = abnormal

(* A current fault needs its delay: the current has not been in range for  *)
(* OverT (a current too large) or UnderT (one too small), in this charge.  *)
(* Starts and stops, told at any step of the monitor, do not carry the     *)
(* time of an older charge over.                                           *)
CurrFaultTimed ==
  [][/\ (currState' = "over" /\ currState # "over") => badAge > OverT
     /\ (currState' = "under" /\ currState # "under") => badAge > UnderT]_hvars
=============================================================================
