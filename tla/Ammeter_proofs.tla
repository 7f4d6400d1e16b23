--------------------------- MODULE Ammeter_proofs ---------------------------
(***************************************************************************)
(* The monitors of the ammeter task confirm, time and tell what they find, *)
(* for all delays and pauses, with charges started and stopped at any of   *)
(* their steps.                                                            *)
(***************************************************************************)
EXTENDS AmmeterHistory, TLAPS

HTypes == judged \in Level /\ same \in 0..3 /\ badAge \in 0..AgeMax

(* What the step of the voltage monitor remembers is the voltage judged    *)
(* last; the longer that one lasts the more of the verdict is settled.     *)
VolInv ==
  /\ volStep # "idle" => judged = volStep /\ same >= 1
  /\ same >= 2 => IF judged = "ok" THEN volState = "ok" ELSE volStep = judged
  /\ same = 3 => volState = judged

(* start_ticks is never older than the present stretch out of range.       *)
CurrInv == started <= badAge

AmmeterInv == AmmeterTypeOK /\ HTypes /\ VolInv /\ CurrInv /\ ToldAsJudged

-----------------------------------------------------------------------------
LEMMA TypeInit == AmmeterInit => AmmeterTypeOK
<1> SUFFICES ASSUME AmmeterInit PROVE AmmeterTypeOK
  OBVIOUS
<1>1. HeardType
  BY DEF AmmeterInit, HeardType, Level
<1>2. pc \in AmmeterStep /\ failures \in 0..2
  BY DEF AmmeterInit, AmmeterStep
<1>3. SampleTypes /\ VolTypes
  BY DEF AmmeterInit, SampleTypes, VolTypes, Level
<1>4. CurrTypes
  BY DEF AmmeterInit, CurrTypes, Level
<1>5. abnormal \in BOOLEAN
  BY DEF AmmeterInit
<1> QED BY <1>1, <1>2, <1>3, <1>4, <1>5 DEF AmmeterTypeOK, MeterTypes

(* What a step leaves alone keeps its types. *)
LEMMA Frame ==
  ASSUME AmmeterTypeOK
  PROVE  /\ UNCHANGED meterVars => MeterTypes'
         /\ UNCHANGED <<vol, curr>> => SampleTypes'
         /\ UNCHANGED volVars => VolTypes'
         /\ UNCHANGED currVars => CurrTypes'
         /\ UNCHANGED heard => HeardType'
BY DEF AmmeterTypeOK, MeterTypes, SampleTypes, VolTypes, CurrTypes, HeardType,
   meterVars, volVars, currVars

LEMMA TypeStep == ASSUME AmmeterTypeOK, [AmmeterNext]_ammeterVars PROVE AmmeterTypeOK'
<1>1. ASSUME NEW ok \in BOOLEAN, NEW d \in 1..MaxPause, ReadEnergy(ok, d)
      PROVE  AmmeterTypeOK'
  <2>1. pc' \in AmmeterStep
    BY <1>1 DEF ReadEnergy, AmmeterStep
  <2>2. MeterTypes'
    <3>1. failures' \in 0..2
      BY <1>1 DEF ReadEnergy, MeterTypes, AmmeterTypeOK, Min2
    <3>2. abnormal' \in BOOLEAN
      BY <1>1 DEF ReadEnergy, MeterTypes, AmmeterTypeOK
    <3> QED BY <3>1, <3>2 DEF MeterTypes
  <2>3. Later(d) \in {Unset} \cup 0..AgeMax
    BY AmmeterAssumption DEF AmmeterTypeOK, CurrTypes, Later, Min2, Unset, AgeMax
  <2>4. CurrTypes'
    BY <1>1, <2>3 DEF ReadEnergy, CurrTypes, AmmeterTypeOK
  <2> QED BY <1>1, <2>1, <2>2, <2>4, Frame DEF ReadEnergy, AmmeterTypeOK
<1>2. CASE TellMeter
  <2>1. pc' \in AmmeterStep
    BY <1>2 DEF TellMeter, AmmeterTypeOK, AmmeterStep
  <2>2. HeardType'
    BY <1>2 DEF TellMeter, AmmeterTypeOK, HeardType, MeterTypes
  <2> QED BY <1>2, <2>1, <2>2, Frame DEF TellMeter, AmmeterTypeOK
<1>3. ASSUME NEW v \in Level, NEW c \in Level, SampleMeter(v, c) PROVE AmmeterTypeOK'
  <2>1. pc' \in AmmeterStep
    BY <1>3 DEF SampleMeter, AmmeterTypeOK, AmmeterStep
  <2>2. SampleTypes'
    BY <1>3 DEF SampleMeter, AmmeterTypeOK, SampleTypes, Level
  <2> QED BY <1>3, <2>1, <2>2, Frame DEF SampleMeter, AmmeterTypeOK
<1>4. CASE VolDo
  <2>1. pc' \in AmmeterStep
    BY <1>4 DEF VolDo, AmmeterTypeOK, AmmeterStep
  <2>2. VolTypes'
    BY <1>4 DEF VolDo, AmmeterTypeOK, VolTypes, SampleTypes, VolJudged, Level
  <2> QED BY <1>4, <2>1, <2>2, Frame DEF VolDo, AmmeterTypeOK
<1>5. CASE TellVol
  <2>1. pc' \in AmmeterStep
    BY <1>5 DEF TellVol, AmmeterTypeOK, AmmeterStep
  <2>2. HeardType'
    BY <1>5 DEF TellVol, AmmeterTypeOK, HeardType, VolTypes
  <2> QED BY <1>5, <2>1, <2>2, Frame DEF TellVol, AmmeterTypeOK
<1>6. CASE CurrRole
  <2>1. pc' \in AmmeterStep
    BY <1>6 DEF CurrRole, AmmeterTypeOK, AmmeterStep
  <2>2. CurrTypes'
    BY <1>6 DEF CurrRole, AmmeterTypeOK, CurrTypes, Level
  <2> QED BY <1>6, <2>1, <2>2, Frame DEF CurrRole, AmmeterTypeOK
<1>7. CASE PlayNothing
  <2>1. pc' \in AmmeterStep
    BY <1>7 DEF PlayNothing, AmmeterTypeOK, AmmeterStep
  <2> QED BY <1>7, <2>1, Frame DEF PlayNothing, AmmeterTypeOK
<1>8. CASE CurrAbnormal
  <2>1. pc' \in AmmeterStep
    BY <1>8 DEF CurrAbnormal, AmmeterTypeOK, AmmeterStep
  <2>2. CurrTypes'
    BY <1>8, AmmeterAssumption DEF CurrAbnormal, AmmeterTypeOK, CurrTypes,
       SampleTypes, AgeMax, Unset
  <2> QED BY <1>8, <2>1, <2>2, Frame DEF CurrAbnormal, AmmeterTypeOK
<1>9. CASE CurrNormal
  <2>1. pc' \in AmmeterStep
    BY <1>9 DEF CurrNormal, AmmeterTypeOK, AmmeterStep
  <2>2. CurrTypes'
    BY <1>9 DEF CurrNormal, AmmeterTypeOK, CurrTypes, Unset
  <2> QED BY <1>9, <2>1, <2>2, Frame DEF CurrNormal, AmmeterTypeOK
<1>10. CASE TellCurr
  <2>1. pc' \in AmmeterStep
    BY <1>10 DEF TellCurr, AmmeterTypeOK, AmmeterStep
  <2>2. CurrTypes'
    BY <1>10 DEF TellCurr, AmmeterTypeOK, CurrTypes, Level
  <2>3. HeardType'
    BY <1>10 DEF TellCurr, AmmeterTypeOK, HeardType, CurrTypes
  <2> QED BY <1>10, <2>1, <2>2, <2>3, Frame DEF TellCurr, AmmeterTypeOK
<1>11. CASE ChargeStart
  <2>1. pc' \in AmmeterStep
    BY <1>11 DEF ChargeStart, AmmeterTypeOK, AmmeterStep
  <2>2. CurrTypes'
    BY <1>11 DEF ChargeStart, AmmeterTypeOK, CurrTypes, Level, Unset
  <2> QED BY <1>11, <2>1, <2>2, Frame DEF ChargeStart, AmmeterTypeOK
<1>12. CASE ChargeStop
  <2>1. pc' \in AmmeterStep
    BY <1>12 DEF ChargeStop, AmmeterTypeOK, AmmeterStep
  <2>2. CurrTypes'
    BY <1>12 DEF ChargeStop, AmmeterTypeOK, CurrTypes
  <2> QED BY <1>12, <2>1, <2>2, Frame DEF ChargeStop, AmmeterTypeOK
<1>13. CASE UNCHANGED ammeterVars
  BY <1>13, Frame DEF ammeterVars, AmmeterTypeOK
<1> QED BY <1>1, <1>2, <1>3, <1>4, <1>5, <1>6, <1>7, <1>8, <1>9, <1>10,
       <1>11, <1>12, <1>13 DEF AmmeterNext

(* The variables of the ammeter task have their types, for all delays. *)
THEOREM AmmeterTypeCorrect == AmmeterSpec => []AmmeterTypeOK
BY TypeInit, TypeStep, PTL DEF AmmeterSpec

-----------------------------------------------------------------------------
LEMMA HTypesStep == ASSUME AmmeterTypeOK, HTypes, [HNext]_hvars PROVE HTypes'
<1>1. judged' \in Level /\ same' \in 0..3
  BY DEF HNext, hvars, HTypes, AmmeterTypeOK, SampleTypes, Min2
<1>2. badAge' \in 0..AgeMax
  BY AmmeterAssumption DEF HNext, hvars, HTypes, Aged, Min2, AgeMax
<1> QED BY <1>1, <1>2 DEF HTypes

(* Only a judgement changes what the voltage monitor knows. *)
LEMMA VolStepped ==
  ASSUME AmmeterTypeOK, HTypes, VolInv, [HNext]_hvars
  PROVE  VolInv'
<1>1. CASE Judging
  <2>1. /\ judged' = vol
        /\ same' = IF vol = judged THEN Min2(same + 1, 3) ELSE 1
    BY <1>1 DEF HNext, hvars, ammeterVars, Judging
  <2>2. VolDo
    BY <1>1 DEF HNext, hvars, ammeterVars, AmmeterNext, Judging, ReadEnergy, TellMeter,
       SampleMeter, TellVol, CurrRole, PlayNothing, CurrAbnormal, CurrNormal,
       TellCurr, ChargeStart, ChargeStop
  <2>3. VolJudged
    BY <2>2 DEF VolDo
  <2> QED BY <2>1, <2>3 DEF VolJudged, VolInv, AmmeterTypeOK, HTypes, SampleTypes,
     VolTypes, Level, Min2
<1>2. CASE ~Judging
  <2>1. UNCHANGED <<judged, same>>
    BY <1>2 DEF HNext, hvars
  <2>2. UNCHANGED volVars
    BY <1>2 DEF HNext, hvars, ammeterVars, AmmeterNext, Judging, ReadEnergy, TellMeter,
       SampleMeter, VolDo, TellVol, CurrRole, PlayNothing, CurrAbnormal,
       CurrNormal, TellCurr, ChargeStart, ChargeStop
  <2> QED BY <2>1, <2>2 DEF VolInv, volVars
<1> QED BY <1>1, <1>2

LEMMA CurrStepped ==
  ASSUME AmmeterTypeOK, HTypes, CurrInv, [HNext]_hvars
  PROVE  CurrInv'
<1> USE AmmeterAssumption DEF CurrInv, HTypes, AmmeterTypeOK, CurrTypes, Unset, AgeMax
<1>1. ASSUME NEW ok \in BOOLEAN, NEW d \in 1..MaxPause, ReadEnergy(ok, d),
             badAge' = Aged(badAge, d)
      PROVE  CurrInv'
  BY <1>1 DEF ReadEnergy, Later, Aged, Min2
<1>2. CASE UNCHANGED hvars
  BY <1>2 DEF hvars, ammeterVars, currVars
<1>3. ASSUME AmmeterNext, pc # "energy" \/ pc' = "energy",
             badAge' = IF ChargeStart \/ (Playing /\ curr = "ok") THEN 0
                                                                  ELSE badAge
      PROVE  CurrInv'
  <2>1. CASE ChargeStart
    BY <1>3, <2>1 DEF ChargeStart
  <2>2. CASE CurrNormal
    BY <1>3, <2>2 DEF CurrNormal
  <2>3. CASE CurrAbnormal
    <3>1. badAge' = badAge
      BY <1>3, <2>3 DEF CurrAbnormal, ChargeStart, Playing
    <3> QED BY <2>3, <3>1 DEF CurrAbnormal
  <2>4. CASE ~(ChargeStart \/ CurrNormal \/ CurrAbnormal)
    <3>1. started' = started
      BY <1>3, <2>4 DEF AmmeterNext, ReadEnergy, TellMeter, SampleMeter, VolDo, TellVol,
         CurrRole, PlayNothing, TellCurr, ChargeStop, currVars
    <3>2. badAge' = badAge
      BY <1>3, <2>4 DEF AmmeterNext, ReadEnergy, TellMeter, SampleMeter, VolDo, TellVol,
         CurrRole, PlayNothing, TellCurr, ChargeStop, Playing
    <3> QED BY <3>1, <3>2
  <2> QED BY <2>1, <2>2, <2>3, <2>4
<1> QED BY <1>1, <1>2, <1>3 DEF HNext

LEMMA ToldStepped ==
  ASSUME AmmeterTypeOK, ToldAsJudged, [AmmeterNext]_ammeterVars
  PROVE  ToldAsJudged'
<1> USE DEF ToldAsJudged, meterVars, volVars
<1>1. ASSUME NEW ok \in BOOLEAN, NEW d \in 1..MaxPause, ReadEnergy(ok, d)
      PROVE  ToldAsJudged'
  BY <1>1 DEF ReadEnergy
<1>2. CASE TellMeter
  BY <1>2 DEF TellMeter, AmmeterTypeOK, HeardType
<1>3. CASE VolDo
  BY <1>3 DEF VolDo
<1>4. CASE TellVol
  BY <1>4 DEF TellVol, AmmeterTypeOK, HeardType
<1>5. CASE TellCurr
  <2>1. heard'.vol = heard.vol /\ heard'.meter = heard.meter
    BY <1>5 DEF TellCurr, AmmeterTypeOK, HeardType
  <2> QED BY <1>5, <2>1 DEF TellCurr
<1>6. CASE \E v, c \in Level : SampleMeter(v, c)
  BY <1>6 DEF SampleMeter
<1>7. CASE CurrRole \/ PlayNothing \/ CurrAbnormal \/ CurrNormal
  BY <1>7 DEF CurrRole, PlayNothing, CurrAbnormal, CurrNormal
<1>8. CASE ChargeStart \/ ChargeStop \/ UNCHANGED ammeterVars
  BY <1>8 DEF ChargeStart, ChargeStop, ammeterVars
<1> QED BY <1>1, <1>2, <1>3, <1>4, <1>5, <1>6, <1>7, <1>8 DEF AmmeterNext

THEOREM AmmeterHolds == HSpec => []AmmeterInv
<1>1. HInit => AmmeterInv
  <2>1. ASSUME HInit
        PROVE  heard.vol = volState /\ heard.meter = abnormal
    <3>1. heard = [meter |-> FALSE, vol |-> "ok", curr |-> "ok"]
      BY <2>1 DEF HInit, AmmeterInit
    <3>2. volState = "ok" /\ abnormal = FALSE
      BY <2>1 DEF HInit, AmmeterInit
    <3> QED BY <3>1, <3>2
  <2>2. HInit => HTypes /\ VolInv /\ CurrInv
    BY AmmeterAssumption DEF HInit, AmmeterInit, HTypes, VolInv, CurrInv, Level,
       Unset, AgeMax
  <2> QED BY <2>1, <2>2, TypeInit DEF HInit, AmmeterInv, ToldAsJudged
<1>2. AmmeterInv /\ [HNext]_hvars => AmmeterInv'
  <2> SUFFICES ASSUME AmmeterInv, [HNext]_hvars PROVE AmmeterInv'
    OBVIOUS
  <2>1. [AmmeterNext]_ammeterVars
    BY DEF HNext, hvars
  <2> QED BY <2>1, TypeStep, HTypesStep, VolStepped, CurrStepped, ToldStepped
     DEF AmmeterInv
<1> QED BY <1>1, <1>2, PTL DEF HSpec

-----------------------------------------------------------------------------
(* The others hold the verdicts of the monitors, except while they are     *)
(* told (ammeter_vol_do, ammeter_task_entry).                              *)
THEOREM VerdictsTold == HSpec => []ToldAsJudged
<1>1. AmmeterInv => ToldAsJudged
  BY DEF AmmeterInv
<1> QED BY <1>1, AmmeterHolds, PTL

(* Three voltages alike settle the verdict (ammeter_vol_do). *)
THEOREM VerdictFollows == HSpec => []VolFollows
<1>1. AmmeterInv => VolFollows
  BY DEF AmmeterInv, VolInv, VolFollows
<1> QED BY <1>1, AmmeterHolds, PTL

(* A voltage fault has been judged twice in a row, of one reading or of    *)
(* two (ammeter_vol_do), whatever the delays and the pauses.               *)
THEOREM FaultJudgedTwice == HSpec => VolJudgedTwice
<1>1. AmmeterInv /\ [HNext]_hvars
        => [(volState' # volState /\ volState' # "ok")
              => /\ judged = volState' /\ same >= 1
                 /\ judged' = volState']_hvars
  <2> SUFFICES ASSUME AmmeterInv, HNext, volState' # volState,
                      volState' # "ok"
               PROVE  /\ judged = volState' /\ same >= 1
                      /\ judged' = volState'
    OBVIOUS
  <2>1. VolDo
    BY DEF HNext, AmmeterNext, ReadEnergy, TellMeter, SampleMeter, TellVol, CurrRole,
       PlayNothing, CurrAbnormal, CurrNormal, TellCurr, ChargeStart,
       ChargeStop, volVars
  <2>2. volStep # "idle" /\ vol = volStep /\ volState' = vol
    BY <2>1 DEF VolDo, VolJudged
  <2>3. judged' = vol
    BY <2>1 DEF HNext, Judging, VolDo
  <2> QED BY <2>2, <2>3 DEF AmmeterInv, VolInv
<1> QED BY <1>1, AmmeterHolds, PTL DEF HSpec, VolJudgedTwice

(* A current fault is told only when its delay is over, in this charge     *)
(* (ammeter_curr_do).                                                      *)
THEOREM FaultTimed == HSpec => CurrFaultTimed
<1>1. AmmeterInv /\ [HNext]_hvars
        => [/\ (currState' = "over" /\ currState # "over") => badAge > OverT
            /\ (currState' = "under" /\ currState # "under")
                 => badAge > UnderT]_hvars
  <2> SUFFICES ASSUME AmmeterInv, HNext, currState' # currState,
                      currState' \in {"over", "under"}
               PROVE  badAge > IF currState' = "under" THEN UnderT ELSE OverT
    OBVIOUS
  <2>1. CurrAbnormal
    BY DEF HNext, AmmeterNext, ReadEnergy, TellMeter, SampleMeter, VolDo, TellVol,
       CurrRole, PlayNothing, CurrNormal, TellCurr, ChargeStart, ChargeStop,
       currVars
  <2>2. Overdue(currState')
    BY <2>1 DEF CurrAbnormal
  <2> QED BY <2>2, AmmeterAssumption DEF Overdue, AmmeterInv, CurrInv, AmmeterTypeOK,
     CurrTypes, HTypes, Unset, AgeMax
<1> QED BY <1>1, AmmeterHolds, PTL DEF HSpec, CurrFaultTimed
=============================================================================
