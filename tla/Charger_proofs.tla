--------------------------- MODULE Charger_proofs ---------------------------
(***************************************************************************)
(* Type correctness and the safety properties of Charger, for all delays,  *)
(* detectors and stop events, with and without AuthFailures.               *)
(***************************************************************************)
EXTENDS Charger, TLAPS

-----------------------------------------------------------------------------
(* What an event raises is a set of bits of the alarm mask. *)
LEMMA BitsInMask ==
  ASSUME NEW e \in SoftFaultEvents \cup HardFaultEvents, NEW arg \in {0, 1, 2}
  PROVE  BitsOf(e) \subseteq AlarmBits /\ Raised(e, arg) \subseteq AlarmBits
<1>1. BitsOf(e) \subseteq AlarmBits
  BY DEF BitsOf, AlarmBits, SoftFaultEvents, HardFaultEvents
<1>2. Raised(e, arg) \subseteq AlarmBits
  BY <1>1 DEF Raised, AlarmBits
<1> QED BY <1>1, <1>2

(* Every fault and every stop has a reason of grp_charge_stop_reason. *)
LEMMA ReasonsTyped ==
  /\ \A e \in SoftFaultEvents : SoftReason(e) \in StopReason
  /\ \A e \in HardFaultEvents, arg \in {0, 1, 2} :
       HardReason(e, arg) \in StopReason
  /\ \A e \in StopEvents : StopCode(e) \in StopReason
<1>1. \A e \in SoftFaultEvents : SoftReason(e) \in StopReason
  BY DEF SoftReason, SoftFaultEvents, StopReason
<1>2. \A e \in HardFaultEvents, arg \in {0, 1, 2} :
        HardReason(e, arg) \in StopReason
  BY DEF HardReason, HardFaultEvents, StopReason
<1>3. \A e \in StopEvents : StopCode(e) \in StopReason
  BY DEF StopCode, StopEvents, StopReason
<1> QED BY <1>1, <1>2, <1>3

(* What a step leaves alone keeps its type.                                *)
LEMMA Frame ==
  ASSUME TypeOK
  PROVE  /\ vol' = vol => vol' \in Voltage
         /\ role' = role => role' \in Role
         /\ startTicks' = startTicks => startTicks' \in Delay
         /\ UNCHANGED taskVars => TaskTypes'
         /\ UNCHANGED datVars => DatTypes'
         /\ UNCHANGED outVars => OutTypes'
         /\ UNCHANGED pileVars => PileTypes'
         /\ UNCHANGED otherVars => OtherTypes'
         /\ /\ vol' \in Voltage /\ role' \in Role /\ startTicks' \in Delay
            /\ TaskTypes' /\ DatTypes' /\ OutTypes' /\ PileTypes' /\ OtherTypes'
            => TypeOK'
<1>1. vol' = vol => vol' \in Voltage BY DEF TypeOK
<1>2. role' = role => role' \in Role BY DEF TypeOK
<1>3. startTicks' = startTicks => startTicks' \in Delay BY DEF TypeOK
<1>4. UNCHANGED taskVars => TaskTypes' BY DEF TypeOK, taskVars, TaskTypes
<1>5. UNCHANGED datVars => DatTypes' BY DEF TypeOK, datVars, DatTypes
<1>6. UNCHANGED outVars => OutTypes' BY DEF TypeOK, outVars, OutTypes
<1>7. UNCHANGED pileVars => PileTypes' BY DEF TypeOK, pileVars, PileTypes
<1>8. UNCHANGED otherVars => OtherTypes' BY DEF TypeOK, otherVars, OtherTypes
<1> QED BY <1>1, <1>2, <1>3, <1>4, <1>5, <1>6, <1>7, <1>8 DEF TypeOK

LEMMA PollTyped == ASSUME TypeOK, Poll PROVE TypeOK'
<1> USE DEF Polling, AcOutput, AdvertiseMax, AdvertiseNone,
        LockGun, UnlockGun, Bouncing, ErrTimedOut
<1>1. CASE IdlePoll
  <2>1. TaskTypes'
    <3>1. insertCnt' \in 0..InsertPolls
      BY <1>1, ChargerAssumption DEF IdlePoll, TaskTypes, TypeOK
    <3>2. pc' \in Step BY <1>1 DEF IdlePoll, TaskTypes, Step, TypeOK
    <3> QED BY <1>1, <3>1, <3>2 DEF IdlePoll, TaskTypes, TypeOK
  <2>2. OutTypes'
    BY <1>1 DEF IdlePoll, OutTypes, TypeOK
  <2> QED BY <1>1, <2>1, <2>2, Frame DEF IdlePoll
<1>2. CASE AllowPoll
  <2>1. TaskTypes'
    BY <1>2 DEF AllowPoll, TaskTypes, Step, TypeOK
  <2>2. OutTypes'
    BY <1>2 DEF AllowPoll, OutTypes, TypeOK
  <2> QED BY <1>2, <2>1, <2>2, Frame DEF AllowPoll
<1>3. CASE StartPoll
  <2>1. TaskTypes'
    BY <1>3 DEF StartPoll, TaskTypes, Step, TypeOK
  <2>2. OutTypes'
    BY <1>3 DEF StartPoll, OutTypes, TypeOK
  <2> QED BY <1>3, <2>1, <2>2, Frame DEF StartPoll
<1>4. CASE IngExit
  <2>1. TaskTypes'
    BY <1>4 DEF IngExit, TaskTypes, Step, TypeOK
  <2>2. OutTypes'
    BY <1>4 DEF IngExit, OutTypes, TypeOK
  <2> QED BY <1>4, <2>1, <2>2, Frame DEF IngExit
<1>5. CASE IngCharge
  <2>1. TaskTypes'
    BY <1>5 DEF IngCharge, TaskTypes, Step, TypeOK
  <2>2. OutTypes'
    BY <1>5 DEF IngCharge, OutTypes, TypeOK
  <2> QED BY <1>5, <2>1, <2>2, Frame DEF IngCharge
<1>6. CASE IngDip
  <2>1. startTicks' \in Delay
    BY <1>6, ChargerAssumption DEF IngDip, Delay, Unset, AgeMax, TypeOK
  <2>2. TaskTypes'
    BY <1>6 DEF IngDip, TaskTypes, Step, TypeOK
  <2>3. OutTypes'
    BY <1>6 DEF IngDip, OutTypes, TypeOK
  <2> QED BY <1>6, <2>1, <2>2, <2>3, Frame DEF IngDip
<1>7. CASE IngFull
  <2>1. TaskTypes'
    BY <1>7 DEF IngFull, TaskTypes, Step, TypeOK
  <2>2. OutTypes'
    BY <1>7 DEF IngFull, OutTypes, TypeOK
  <2> QED BY <1>7, <2>1, <2>2, Frame DEF IngFull
<1>8. CASE ErrPoll
  <2>1. startTicks' \in Delay
    BY <1>8, ChargerAssumption DEF ErrPoll, Delay, Unset, AgeMax, TypeOK
  <2>2. TaskTypes'
    BY <1>8 DEF ErrPoll, TaskTypes, Step, TypeOK
  <2>3. OutTypes'
    BY <1>8 DEF ErrPoll, OutTypes, TypeOK
  <2> QED BY <1>8, <2>1, <2>2, <2>3, Frame DEF ErrPoll
<1>9. CASE StopPoll
  <2>1. TaskTypes'
    BY <1>9 DEF StopPoll, TaskTypes, Step, TypeOK
  <2>2. OutTypes'
    BY <1>9 DEF StopPoll, OutTypes, TypeOK
  <2> QED BY <1>9, <2>1, <2>2, Frame DEF StopPoll
<1> QED BY <1>1, <1>2, <1>3, <1>4, <1>5, <1>6, <1>7, <1>8, <1>9 DEF Poll

LEMMA TellTyped == ASSUME TypeOK, Tell PROVE TypeOK'
<1> USE DEF Goto, EnterStop, EnterIdle, EnterStart, EnterIng, EnterAllow,
        PileGunInsert, PileGunExtract, PileStart, PileStop,
        AdvertiseMax, AdvertiseNone,
        LockGun, UnlockGun
<1>1. CASE IdleInsert
  <2>1. TaskTypes'
    BY <1>1 DEF IdleInsert, TaskTypes, Step, TypeOK
  <2>2. DatTypes'
    BY <1>1 DEF IdleInsert, DatTypes, TypeOK
  <2>3. PileTypes'
    BY <1>1 DEF IdleInsert, PileTypes, TypeOK
  <2> QED BY <1>1, <2>1, <2>2, <2>3, Frame DEF IdleInsert
<1>2. CASE IdleManStart
  <2>1. role' \in Role
    BY <1>2 DEF IdleManStart, Role, TypeOK
  <2>2. TaskTypes'
    BY <1>2 DEF IdleManStart, TaskTypes, Step, TypeOK
  <2> QED BY <1>2, <2>1, <2>2, Frame DEF IdleManStart
<1>3. CASE IdleExtract
  <2>1. role' \in Role
    BY <1>3 DEF IdleExtract, Role, TypeOK
  <2>2. TaskTypes'
    BY <1>3 DEF IdleExtract, TaskTypes, Step, TypeOK
  <2>3. DatTypes'
    BY <1>3 DEF IdleExtract, DatTypes, TypeOK
  <2>4. PileTypes'
    BY <1>3 DEF IdleExtract, PileTypes, TypeOK
  <2> QED BY <1>3, <2>1, <2>2, <2>3, <2>4, Frame DEF IdleExtract
<1>4. CASE AllowWait
  <2>1. role' \in Role
    BY <1>4 DEF AllowWait, Role, TypeOK
  <2>2. startTicks' \in Delay
    BY <1>4, ChargerAssumption DEF AllowWait, Delay, Unset, AgeMax, TypeOK
  <2>3. TaskTypes'
    BY <1>4 DEF AllowWait, TaskTypes, Step, TypeOK
  <2>4. OutTypes'
    BY <1>4 DEF AllowWait, OutTypes, TypeOK
  <2> QED BY <1>4, <2>1, <2>2, <2>3, <2>4, Frame DEF AllowWait
<1>5. CASE StartGo
  <2>1. role' \in Role
    BY <1>5 DEF StartGo, Role, TypeOK
  <2>2. startTicks' \in Delay
    BY <1>5, ChargerAssumption DEF StartGo, Delay, Unset, AgeMax, TypeOK
  <2>3. TaskTypes'
    BY <1>5 DEF StartGo, TaskTypes, Step, TypeOK
  <2>4. PileTypes'
    BY <1>5 DEF StartGo, PileTypes, TypeOK
  <2> QED BY <1>5, <2>1, <2>2, <2>3, <2>4, Frame DEF StartGo
<1>6. CASE StartUnready
  <2>1. role' \in Role
    BY <1>6 DEF StartUnready, Role, TypeOK
  <2>2. startTicks' \in Delay
    BY <1>6, ChargerAssumption DEF StartUnready, Delay, Unset, AgeMax, TypeOK
  <2>3. TaskTypes'
    BY <1>6 DEF StartUnready, TaskTypes, Step, TypeOK
  <2>4. DatTypes'
    BY <1>6 DEF StartUnready, DatTypes, TypeOK
  <2> QED BY <1>6, <2>1, <2>2, <2>3, <2>4, Frame DEF StartUnready
<1>7. CASE TellExtract
  <2>1. role' \in Role
    BY <1>7 DEF TellExtract, Role, TypeOK
  <2>2. TaskTypes'
    BY <1>7 DEF TellExtract, TaskTypes, Step, TypeOK
  <2>3. PileTypes'
    BY <1>7 DEF TellExtract, PileTypes, TypeOK
  <2> QED BY <1>7, <2>1, <2>2, <2>3, Frame DEF TellExtract
<1>8. CASE TellFull
  <2>1. TaskTypes'
    BY <1>8 DEF TellFull, TaskTypes, Step, TypeOK
  <2> QED BY <1>8, <2>1, Frame DEF TellFull
<1>9. CASE DipFull
  <2>1. startTicks' \in Delay
    BY <1>9, ChargerAssumption DEF DipFull, Delay, Unset, AgeMax, TypeOK
  <2>2. TaskTypes'
    BY <1>9 DEF DipFull, TaskTypes, Step, TypeOK
  <2>3. OutTypes'
    BY <1>9 DEF DipFull, OutTypes, TypeOK
  <2> QED BY <1>9, <2>1, <2>2, <2>3, Frame DEF DipFull
<1>10. CASE TellStop
  <2>1. role' \in Role
    BY <1>10 DEF TellStop, Role, TypeOK
  <2>2. TaskTypes'
    BY <1>10 DEF TellStop, TaskTypes, Step, TypeOK
  <2>3. DatTypes'
    BY <1>10 DEF TellStop, DatTypes, TypeOK
  <2>4. PileTypes'
    BY <1>10 DEF TellStop, PileTypes, TypeOK
  <2> QED BY <1>10, <2>1, <2>2, <2>3, <2>4, Frame DEF TellStop
<1>11. CASE FullStop
  <2>1. role' \in Role
    BY <1>11 DEF FullStop, Role, TypeOK
  <2>2. startTicks' \in Delay
    BY <1>11, ChargerAssumption DEF FullStop, Delay, Unset, AgeMax, TypeOK
  <2>3. TaskTypes'
    BY <1>11 DEF FullStop, TaskTypes, Step, TypeOK
  <2>4. DatTypes'
    BY <1>11 DEF FullStop, DatTypes, TypeOK
  <2>5. OutTypes'
    BY <1>11 DEF FullStop, OutTypes, TypeOK
  <2>6. PileTypes'
    BY <1>11 DEF FullStop, PileTypes, TypeOK
  <2> QED BY <1>11, <2>1, <2>2, <2>3, <2>4, <2>5, <2>6, Frame DEF FullStop
<1>12. CASE ExitErr
  <2>1. role' \in Role
    BY <1>12 DEF ExitErr, Role, TypeOK
  <2>2. startTicks' \in Delay
    BY <1>12, ChargerAssumption DEF ExitErr, Delay, Unset, AgeMax, TypeOK
  <2>3. TaskTypes'
    BY <1>12 DEF ExitErr, TaskTypes, Step, TypeOK
  <2>4. DatTypes'
    BY <1>12 DEF ExitErr, DatTypes, TypeOK
  <2>5. OutTypes'
    BY <1>12 DEF ExitErr, OutTypes, TypeOK
  <2> QED BY <1>12, <2>1, <2>2, <2>3, <2>4, <2>5, Frame DEF ExitErr
<1>13. CASE ErrErr
  <2>1. role' \in Role
    BY <1>13 DEF ErrErr, Role, TypeOK
  <2>2. startTicks' \in Delay
    BY <1>13, ChargerAssumption DEF ErrErr, Delay, Unset, AgeMax, TypeOK
  <2>3. TaskTypes'
    BY <1>13 DEF ErrErr, TaskTypes, Step, TypeOK
  <2>4. DatTypes'
    BY <1>13 DEF ErrErr, DatTypes, TypeOK
  <2> QED BY <1>13, <2>1, <2>2, <2>3, <2>4, Frame DEF ErrErr
<1> QED
  BY <1>1, <1>2, <1>3, <1>4, <1>5, <1>6, <1>7, <1>8, <1>9, <1>10, <1>11,
     <1>12, <1>13 DEF Tell

LEMMA OthersTyped ==
  ASSUME TypeOK,
         \/ Detectors \/ Commands \/ LedRead \/ LedTell \/ ScramButton
         \/ \E v \in Voltage : Car(v)
         \/ Tick
  PROVE  TypeOK'
<1> USE DEF PileFault, EnterErr, LatchExit
<1>1. ASSUME NEW e \in SoftFaults, NEW arg \in FaultLevels(e),
             SoftFault(e, arg)
      PROVE  TypeOK'
  <2>1. e \in SoftFaultEvents /\ arg \in {0, 1, 2}
    BY ChargerAssumption DEF FaultLevels
  <2>2. /\ Raised(e, arg) \subseteq AlarmBits
        /\ SoftReason(e) \in StopReason
    BY <2>1, BitsInMask, ReasonsTyped
  <2>3. role' \in Role BY <1>1 DEF SoftFault, Role, TypeOK
  <2>4. DatTypes' BY <1>1, <2>2 DEF SoftFault, DatTypes, TypeOK
  <2>5. PileTypes' BY <1>1, <2>2 DEF SoftFault, PileTypes, TypeOK
  <2> QED BY <1>1, <2>3, <2>4, <2>5, Frame DEF SoftFault
<1>2. ASSUME NEW e \in HardFaults, NEW arg \in FaultLevels(e),
             HardFault(e, arg)
      PROVE  TypeOK'
  <2>1. e \in HardFaultEvents /\ arg \in {0, 1, 2}
    BY ChargerAssumption DEF FaultLevels
  <2>2. /\ Raised(e, arg) \subseteq AlarmBits
        /\ HardReason(e, arg) \in StopReason
    BY <2>1, BitsInMask, ReasonsTyped
  <2>3. DatTypes' BY <1>2, <2>2 DEF HardFault, DatTypes, TypeOK
  <2>4. PileTypes' BY <1>2, <2>2 DEF HardFault, PileTypes, TypeOK
  <2> QED BY <1>2, <2>3, <2>4, Frame DEF HardFault
<1>3. CASE ScramPoll
  <2>1. OutTypes'
    BY <1>3 DEF ScramPoll, OutTypes, TypeOK
  <2>2. OtherTypes'
    BY <1>3 DEF ScramPoll, OtherTypes, TypeOK
  <2> QED BY <1>3, <2>1, <2>2, Frame DEF ScramPoll
<1>4. CASE ScramTell
  <2>1. /\ Raised("ERR_SCRAM", 1) \subseteq AlarmBits
        /\ HardReason("ERR_SCRAM", 1) \in StopReason
    BY BitsInMask, ReasonsTyped DEF HardFaultEvents
  <2>2. DatTypes' BY <1>4, <2>1 DEF ScramTell, DatTypes, TypeOK
  <2>3. PileTypes' BY <1>4, <2>1 DEF ScramTell, PileTypes, TypeOK
  <2>4. OtherTypes' BY <1>4 DEF ScramTell, OtherTypes, TypeOK
  <2> QED BY <1>4, <2>2, <2>3, <2>4, Frame DEF ScramTell
<1>5. CASE ScramRelease
  <2>1. OtherTypes'
    BY <1>5 DEF ScramRelease, OtherTypes, TypeOK
  <2> QED BY <1>5, <2>1, Frame DEF ScramRelease
<1>6. CASE ManStart
  <2>1. role' \in Role
    BY <1>6 DEF ManStart, EnterAllow, Role, TypeOK
  <2> QED BY <1>6, <2>1, Frame DEF ManStart
<1>7. CASE AuthFail
  <2>1. role' \in Role
    BY <1>7 DEF AuthFail, EnterStop, Role, TypeOK
  <2>2. DatTypes'
    BY <1>7 DEF AuthFail, EnterStop, DatTypes, TypeOK
  <2> QED BY <1>7, <2>1, <2>2, Frame DEF AuthFail
<1>8. ASSUME NEW e \in Stops, StopCharge(e) PROVE TypeOK'
  <2>1. StopCode(e) \in StopReason BY ReasonsTyped, ChargerAssumption
  <2>2. role' \in Role BY <1>8 DEF StopCharge, Role, TypeOK
  <2>3. DatTypes' BY <1>8, <2>1 DEF StopCharge, DatTypes, TypeOK
  <2> QED BY <1>8, <2>2, <2>3, Frame DEF StopCharge
<1>9. CASE LedRead
  <2>1. OtherTypes'
    BY <1>9 DEF LedRead, PileTypes, OtherTypes, TypeOK
  <2> QED BY <1>9, <2>1, Frame DEF LedRead
<1>10. CASE LedTell
  <2>1. DatTypes'
    BY <1>10 DEF LedTell, OtherTypes, DatTypes, TypeOK
  <2>2. OtherTypes'
    BY <1>10 DEF LedTell, OtherTypes, TypeOK
  <2> QED BY <1>10, <2>1, <2>2, Frame DEF LedTell
<1>11. CASE ScramButton
  <2>1. OtherTypes'
    BY <1>11 DEF ScramButton, OtherTypes, TypeOK
  <2> QED BY <1>11, <2>1, Frame DEF ScramButton
<1>12. ASSUME NEW v \in Voltage, Car(v) PROVE TypeOK'
  BY <1>12, Frame DEF Car
<1>13. CASE Tick
  <2>1. startTicks' \in Delay
    BY <1>13, ChargerAssumption DEF Tick, Delay, Unset, AgeMax, TypeOK
  <2>2. TaskTypes'
    BY <1>13 DEF Tick, TaskTypes, Step, TypeOK
  <2> QED BY <1>13, <2>1, <2>2, Frame DEF Tick
<1> QED
  BY <1>1, <1>2, <1>3, <1>4, <1>5, <1>6, <1>7, <1>8, <1>9, <1>10, <1>11,
     <1>12, <1>13 DEF Detectors, Commands

LEMMA InitTyped == Init => TypeOK
<1> SUFFICES ASSUME Init PROVE TypeOK OBVIOUS
<1>1. vol \in Voltage /\ role \in Role /\ startTicks \in Delay
  BY DEF Init, Voltage, Role, Delay
<1>2. TaskTypes BY ChargerAssumption DEF Init, TaskTypes, Step
<1>3. DatTypes BY DEF Init, DatTypes, StopReason
<1>4. OutTypes BY DEF Init, OutTypes
<1>5. PileTypes BY DEF Init, PileTypes
<1>6. OtherTypes BY DEF Init, OtherTypes
<1> QED BY <1>1, <1>2, <1>3, <1>4, <1>5, <1>6 DEF TypeOK

LEMMA StepTyped == ASSUME TypeOK, [Next]_vars PROVE TypeOK'
<1>1. CASE UNCHANGED vars BY <1>1, Frame DEF vars
<1>2. CASE Next BY <1>2, PollTyped, TellTyped, OthersTyped DEF Next
<1> QED BY <1>1, <1>2

(* The controller's variables keep their types: in particular the          *)
(* insertion count stays within its limit and the delay within its range.  *)
THEOREM TypeCorrect == Spec => []TypeOK
BY InitTyped, StepTyped, PTL DEF Spec

-----------------------------------------------------------------------------
(* What is locked, open and advertised is kept by the runs of the task...  *)
LEMMA PollSecures == ASSUME TypeOK, Secured, Poll PROVE Secured'
<1> USE DEF Polling, AcOutput, AdvertiseMax, AdvertiseNone, LockGun,
        UnlockGun, Bouncing, Secured, AfterAuthFail, RoleAtStep, OpenWhenTold,
        Energised, LockHeld, Advertising, ScramKept, datVars, outVars,
        pileVars, otherVars
<1>1. CASE IdlePoll BY <1>1 DEF IdlePoll
<1>2. CASE AllowPoll BY <1>2 DEF AllowPoll
<1>3. CASE StartPoll
  <2>1. RoleAtStep' BY <1>3 DEF StartPoll
  <2>2. OpenWhenTold' BY <1>3 DEF StartPoll
  <2>3. (LockHeld => elock)' BY <1>3 DEF StartPoll
  <2>4. (pwm => Advertising)' BY <1>3 DEF StartPoll
  <2>5. ScramKept' BY <1>3 DEF StartPoll
  <2> QED BY <2>1, <2>2, <2>3, <2>4, <2>5
<1>4. CASE IngExit BY <1>4 DEF IngExit
<1>5. CASE IngCharge BY <1>5 DEF IngCharge
<1>6. CASE IngDip
  <2>1. RoleAtStep' BY <1>6 DEF IngDip
  <2>2. OpenWhenTold' BY <1>6 DEF IngDip
  <2>3. (LockHeld => elock)'
    <3>1. pc' = "dip_stop" \/ elock' = elock BY <1>6 DEF IngDip
    <3>2. elock /\ ~pin' BY <1>6 DEF IngDip
    <3> QED BY <3>1, <3>2
  <2>4. (pwm => Advertising)' BY <1>6 DEF IngDip
  <2>5. ScramKept' BY <1>6 DEF IngDip
  <2> QED BY <2>1, <2>2, <2>3, <2>4, <2>5
<1>7. CASE IngFull BY <1>7 DEF IngFull
<1>8. CASE ErrPoll BY <1>8 DEF ErrPoll
<1>9. CASE StopPoll BY <1>9 DEF StopPoll
<1> QED
  BY <1>1, <1>2, <1>3, <1>4, <1>5, <1>6, <1>7, <1>8, <1>9 DEF Poll

(* ...by what it tells...                                                  *)
LEMMA TellSecures == ASSUME TypeOK, Secured, Tell PROVE Secured'
<1> USE DEF Goto, EnterStop, EnterIdle, EnterStart, EnterIng, EnterAllow,
        ManStartAccepted, PileGunInsert, PileGunExtract, PileStart, PileStop,
        AdvertiseMax, AdvertiseNone, Secured, AfterAuthFail, RoleAtStep,
        OpenWhenTold, Energised, LockHeld, Advertising, ScramKept, datVars,
        outVars, pileVars, otherVars
<1>1. CASE IdleInsert BY <1>1 DEF IdleInsert
<1>2. CASE IdleManStart BY <1>2 DEF IdleManStart
<1>3. CASE IdleExtract BY <1>3 DEF IdleExtract
<1>4. CASE AllowWait BY <1>4 DEF AllowWait
<1>5. CASE StartGo BY <1>5 DEF StartGo
<1>6. CASE StartUnready BY <1>6 DEF StartUnready
<1>7. CASE TellExtract BY <1>7 DEF TellExtract
<1>8. CASE TellFull BY <1>8 DEF TellFull
<1>9. CASE DipFull BY <1>9 DEF DipFull
<1>10. CASE TellStop BY <1>10 DEF TellStop
<1>11. CASE FullStop BY <1>11 DEF FullStop
<1>12. CASE ExitErr BY <1>12 DEF ExitErr
<1>13. CASE ErrErr BY <1>13 DEF ErrErr
<1> QED
  BY <1>1, <1>2, <1>3, <1>4, <1>5, <1>6, <1>7, <1>8, <1>9, <1>10, <1>11,
     <1>12, <1>13 DEF Tell

(* A fault other than an emergency stop leaves the alarm of one alone, and *)
(* an emergency stop sets it.                                              *)
LEMMA ScramBit ==
  /\ \A e \in SoftFaults, arg \in {0, 1, 2} :
       "SCRAM" \notin BitsOf(e) \cup Raised(e, arg)
  /\ \A e \in HardFaults \ {"ERR_SCRAM"}, arg \in {0, 1, 2} :
       "SCRAM" \notin BitsOf(e) \cup Raised(e, arg)
  /\ "SCRAM" \in Raised("ERR_SCRAM", 1)
BY ChargerAssumption DEF BitsOf, Raised, SoftFaultEvents, HardFaultEvents

LEMMA ScramBitKept ==
  /\ \A e \in SoftFaults, arg \in {0, 1, 2} :
       SoftFault(e, arg) => ("SCRAM" \in alarm <=> "SCRAM" \in alarm')
  /\ \A e \in HardFaults \ {"ERR_SCRAM"}, arg \in {0, 1, 2} :
       HardFault(e, arg) => ("SCRAM" \in alarm <=> "SCRAM" \in alarm')
BY ScramBit DEF SoftFault, HardFault, PileFault

Others == \/ Detectors \/ Commands \/ LedRead \/ LedTell \/ ScramButton
          \/ \E v \in Voltage : Car(v)
          \/ Tick

(* ...and by the other tasks and the environment.                          *)
LEMMA OthersSecure == ASSUME TypeOK, Secured, Others PROVE Secured'
<1> USE DEF PileFault, EnterErr, LatchExit, EnterAllow, ManStartAccepted,
        Secured, AfterAuthFail, RoleAtStep, OpenWhenTold, Energised, LockHeld,
        Advertising, ScramKept, taskVars, datVars, outVars, pileVars,
        otherVars, FaultLevels
<1>1. ASSUME NEW e \in SoftFaults, NEW arg \in FaultLevels(e),
             SoftFault(e, arg)
      PROVE  Secured'
  <2>1. "SCRAM" \in alarm <=> "SCRAM" \in alarm' BY <1>1, ScramBitKept
  <2> QED BY <1>1, <2>1 DEF SoftFault
<1>2. ASSUME NEW e \in HardFaults \ {"ERR_SCRAM"}, NEW arg \in FaultLevels(e),
             HardFault(e, arg)
      PROVE  Secured'
  <2>1. "SCRAM" \in alarm <=> "SCRAM" \in alarm' BY <1>2, ScramBitKept
  <2> QED BY <1>2, <2>1 DEF HardFault
<1>3. CASE ScramPoll BY <1>3 DEF ScramPoll, TypeOK, OtherTypes
<1>4. CASE ScramTell BY <1>4, ScramBit DEF ScramTell
<1>5. CASE ScramRelease BY <1>5 DEF ScramRelease
<1>6. CASE ManStart BY <1>6 DEF ManStart
<1>7. CASE \E t \in AuthTasks : AuthFail
  <2>1. AuthFailures BY <1>7 DEF AuthFailures
  <2> QED BY <1>7, <2>1 DEF AuthFail, EnterStop
<1>8. ASSUME NEW e \in Stops, StopCharge(e) PROVE Secured'
  BY <1>8 DEF StopCharge
<1>9. CASE LedRead BY <1>9 DEF LedRead
<1>10. CASE LedTell BY <1>10 DEF LedTell
<1>11. CASE ScramButton BY <1>11 DEF ScramButton
<1>12. ASSUME NEW v \in Voltage, Car(v) PROVE Secured' BY <1>12 DEF Car
<1>13. CASE Tick BY <1>13 DEF Tick
<1> QED
  BY <1>1, <1>2, <1>3, <1>4, <1>5, <1>6, <1>7, <1>8, <1>9, <1>10, <1>11,
     <1>12, <1>13 DEF Others, Detectors, Commands

-----------------------------------------------------------------------------
(* What is reported, switched and enabled agrees where only the controller *)
(* ends a charge: after its runs...                                        *)
LEMMA PollAgrees ==
  ASSUME TypeOK, Outputs, ~AuthFailures, Poll
  PROVE  Agreed'
<1> USE DEF Polling, AcOutput, Outputs, Agreed, AfterAuthFail, RoleAtStep,
        ChargingReported, Energised, PinAgrees, pileVars, otherVars, outVars
<1>1. CASE IdlePoll BY <1>1 DEF IdlePoll
<1>2. CASE AllowPoll BY <1>2 DEF AllowPoll
<1>3. CASE StartPoll
  <2>1. ChargingReported' BY <1>3 DEF StartPoll
  <2>2. (acEnable => Energised)' BY <1>3 DEF StartPoll
  <2>3. PinAgrees'
    <3>1. ~acEnable /\ ~pin BY <1>3 DEF StartPoll
    <3>2. (pin' /\ acEnable') \/ (~pin' /\ ~acEnable')
      BY <1>3, <3>1 DEF StartPoll
    <3> QED BY <3>2
  <2> QED BY <2>1, <2>2, <2>3
<1>4. CASE IngExit BY <1>4 DEF IngExit
<1>5. CASE IngCharge BY <1>5 DEF IngCharge
<1>6. CASE IngDip BY <1>6 DEF IngDip
<1>7. CASE IngFull BY <1>7 DEF IngFull
<1>8. CASE ErrPoll BY <1>8 DEF ErrPoll
<1>9. CASE StopPoll BY <1>9 DEF StopPoll
<1> QED
  BY <1>1, <1>2, <1>3, <1>4, <1>5, <1>6, <1>7, <1>8, <1>9 DEF Poll

(* ...after what it tells...                                               *)
LEMMA TellAgrees ==
  ASSUME TypeOK, Outputs, ~AuthFailures, Tell
  PROVE  Agreed'
<1> USE DEF Goto, EnterStop, EnterIdle, EnterStart, EnterIng, EnterAllow,
        ManStartAccepted, PileGunInsert, PileGunExtract, PileStart, PileStop,
        Outputs, Secured, Agreed, AfterAuthFail, RoleAtStep, ChargingReported,
        Energised, PinAgrees, outVars, pileVars, otherVars
<1>1. CASE IdleInsert BY <1>1 DEF IdleInsert
<1>2. CASE IdleManStart BY <1>2 DEF IdleManStart
<1>3. CASE IdleExtract BY <1>3 DEF IdleExtract
<1>4. CASE AllowWait BY <1>4 DEF AllowWait
<1>5. CASE StartGo BY <1>5 DEF StartGo
<1>6. CASE StartUnready BY <1>6 DEF StartUnready
<1>7. CASE TellExtract BY <1>7 DEF TellExtract
<1>8. CASE TellFull BY <1>8 DEF TellFull
<1>9. CASE DipFull BY <1>9 DEF DipFull
<1>10. CASE TellStop BY <1>10 DEF TellStop
<1>11. CASE FullStop BY <1>11 DEF FullStop
<1>12. CASE ExitErr BY <1>12 DEF ExitErr
<1>13. CASE ErrErr BY <1>13 DEF ErrErr
<1> QED
  BY <1>1, <1>2, <1>3, <1>4, <1>5, <1>6, <1>7, <1>8, <1>9, <1>10, <1>11,
     <1>12, <1>13 DEF Tell

(* ...and after the steps of the others.                                   *)
LEMMA OthersAgree ==
  ASSUME TypeOK, Outputs, ~AuthFailures, Others
  PROVE  Agreed'
<1> USE DEF PileFault, EnterErr, EnterAllow, ManStartAccepted, Outputs, Agreed,
        ChargingReported, Energised, PinAgrees, taskVars, outVars, pileVars,
        otherVars, FaultLevels
<1>1. ASSUME NEW e \in SoftFaults, NEW arg \in FaultLevels(e),
             SoftFault(e, arg)
      PROVE  Agreed'
  <2>1. "SCRAM" \in alarm <=> "SCRAM" \in alarm' BY <1>1, ScramBitKept
  <2> QED BY <1>1, <2>1 DEF SoftFault
<1>2. ASSUME NEW e \in HardFaults \ {"ERR_SCRAM"}, NEW arg \in FaultLevels(e),
             HardFault(e, arg)
      PROVE  Agreed'
  <2>1. "SCRAM" \in alarm <=> "SCRAM" \in alarm' BY <1>2, ScramBitKept
  <2> QED BY <1>2, <2>1 DEF HardFault
<1>3. CASE ScramPoll
  BY <1>3 DEF ScramPoll, Secured, ScramKept, TypeOK, OtherTypes
<1>4. CASE ScramTell BY <1>4, ScramBit DEF ScramTell
<1>5. CASE ScramRelease BY <1>5 DEF ScramRelease
<1>6. CASE ManStart BY <1>6 DEF ManStart
<1>7. CASE \E t \in AuthTasks : AuthFail BY <1>7 DEF AuthFailures
<1>8. ASSUME NEW e \in Stops, StopCharge(e) PROVE Agreed'
  BY <1>8 DEF StopCharge
<1>9. CASE LedRead \/ LedTell BY <1>9 DEF LedRead, LedTell
<1>10. CASE ScramButton BY <1>10 DEF ScramButton
<1>11. ASSUME NEW v \in Voltage, Car(v) PROVE Agreed' BY <1>11 DEF Car
<1>12. CASE Tick BY <1>12 DEF Tick
<1> QED
  BY <1>1, <1>2, <1>3, <1>4, <1>5, <1>6, <1>7, <1>8, <1>9, <1>10, <1>11,
     <1>12 DEF Others, Detectors, Commands

-----------------------------------------------------------------------------
LEMMA InductiveStep == ASSUME Inductive, [Next]_vars PROVE Inductive'
<1>1. TypeOK' BY StepTyped DEF Inductive
<1>2. CASE UNCHANGED vars
  <2>1. Outputs'
    BY <1>2 DEF vars, taskVars, datVars, outVars, pileVars, otherVars,
         Inductive, Outputs, Secured, Agreed, AfterAuthFail, RoleAtStep,
         OpenWhenTold, ChargingReported, Energised, PinAgrees, LockHeld,
         Advertising, ScramKept
  <2> QED BY <1>1, <2>1 DEF Inductive
<1>3. CASE Next
  <2>1. Poll \/ Tell \/ Others BY <1>3 DEF Next, Others
  <2>2. Secured'
    BY <2>1, PollSecures, TellSecures, OthersSecure DEF Inductive, Outputs
  <2>3. ~AuthFailures => Agreed'
    BY <2>1, PollAgrees, TellAgrees, OthersAgree DEF Inductive
  <2> QED BY <1>1, <2>2, <2>3 DEF Inductive, Outputs
<1> QED BY <1>2, <1>3

LEMMA InitInductive == Init => Inductive
<1>1. Init => Outputs
  BY DEF Init, Outputs, Secured, Agreed, RoleAtStep, OpenWhenTold,
     ChargingReported, Energised, PinAgrees, LockHeld, Advertising, ScramKept
<1> QED BY <1>1, InitTyped DEF Inductive

(* So it holds of every state.                                             *)
THEOREM InductiveHolds == Spec => []Inductive
BY InitInductive, InductiveStep, PTL DEF Spec

(* The contactor is commanded closed only while a charge runs, is being    *)
(* aborted, or is about to be reported.                                    *)
THEOREM ContactorSafe ==
  ASSUME ~AuthFailures PROVE Spec => []ContactorOnlyInCharge
<1>1. Inductive => ContactorOnlyInCharge
  BY DEF Inductive, Outputs, Agreed, PinAgrees, Energised,
     ContactorOnlyInCharge
<1> QED BY <1>1, InductiveHolds, PTL

(* "Charging" is reported exactly while the controller charges.            *)
THEOREM ReportSafe == ASSUME ~AuthFailures PROVE Spec => []ChargingReported
<1>1. Inductive => ChargingReported BY DEF Inductive, Outputs, Agreed
<1> QED BY <1>1, InductiveHolds, PTL

(* Pin and ac_enable differ only after an emergency stop.                  *)
THEOREM PinSafe == ASSUME ~AuthFailures PROVE Spec => []PinAgrees
<1>1. Inductive => PinAgrees BY DEF Inductive, Outputs, Agreed
<1> QED BY <1>1, InductiveHolds, PTL

(* The gun is locked whenever the contactor is closed, in every build: a   *)
(* CARD_AUTH_FAIL at any moment unlocks no live gun.                       *)
THEOREM LockSafe == Spec => []LockedWhileLive
<1>1. Inductive => LockedWhileLive
  BY DEF Inductive, Outputs, Secured, LockHeld, LockedWhileLive
<1> QED BY <1>1, InductiveHolds, PTL

(* No current is advertised between charges, in every build.               *)
THEOREM PilotSafe == Spec => []NoCurrentAdvertisedIdle
<1>1. Inductive => NoCurrentAdvertisedIdle
  BY DEF Inductive, Outputs, Secured, Advertising, NoCurrentAdvertisedIdle
<1> QED BY <1>1, InductiveHolds, PTL

-----------------------------------------------------------------------------
(* Who enters the roles that charge: CHARGE_PIEL_START, told by the run    *)
(* that has closed the contactor, and an event that finds the ing role.    *)
LEMMA RoleStep ==
  ASSUME [Next]_vars
  PROVE  /\ (role' = "ing" /\ role # "ing") => pc = "start_go"
         /\ (role' = "err" /\ role # "err") => role = "ing"
<1>1. CASE Poll
  BY <1>1 DEF Poll, Polling, IdlePoll, AllowPoll, StartPoll, IngExit,
     IngCharge, IngDip, IngFull, ErrPoll, StopPoll
<1>2. CASE Tell
  BY <1>2 DEF Tell, IdleInsert, IdleManStart, IdleExtract, AllowWait, StartGo,
     StartUnready, TellExtract, TellFull, DipFull, TellStop, FullStop,
     ExitErr, ErrErr, Goto, EnterStop, EnterIdle, EnterStart, EnterIng,
     EnterAllow
<1>3. CASE Others
  BY <1>3 DEF Others, Detectors, Commands, SoftFault, HardFault, ScramPoll,
     ScramTell, ScramRelease, ManStart, AuthFail, EnterStop, StopCharge,
     EnterErr, EnterAllow, LedRead, LedTell, ScramButton, Car, Tick
<1>4. CASE UNCHANGED vars BY <1>4 DEF vars
<1> QED BY <1>1, <1>2, <1>3, <1>4 DEF Next, Others

(* A charge begins only from start, and only a charge is aborted: no event *)
(* that comes late, between two events of one run, restarts a charge.      *)
THEOREM BeginsFromStart ==
  ASSUME ~AuthFailures PROVE Spec => ChargeBeginsFromStart
<1>1. Inductive /\ [Next]_vars
        => [/\ (role' = "ing" /\ role # "ing") => role = "start"
            /\ (role' = "err" /\ role # "err") => role = "ing"]_vars
  BY RoleStep DEF Inductive, Outputs, Secured, RoleAtStep, AfterAuthFail
<1> QED BY <1>1, InductiveHolds, PTL DEF Spec, ChargeBeginsFromStart

-----------------------------------------------------------------------------
(* Each step keeps the lockout that follows an emergency stop.             *)
LEMMA LockoutStep ==
  ASSUME Inductive, [Next]_vars, LockedOut, ~AuthFailures
  PROVE  LockedOut'
<1> USE DEF Inductive, Outputs, Secured, LockedOut, RoleAtStep,
        AfterAuthFail, ScramKept,
        datVars, outVars, pileVars, otherVars, taskVars
<1>1. CASE Poll
  <2>1. UNCHANGED <<role, allowCharge, pileAlarm>>
    BY <1>1 DEF Poll, Polling, IdlePoll, AllowPoll, StartPoll, IngExit,
         IngCharge, IngDip, IngFull, ErrPoll, StopPoll
  <2> QED BY <2>1
<1>2. CASE Tell
  <2> USE DEF Goto, EnterStop, EnterIdle, EnterStart, EnterIng, EnterAllow,
          ManStartAccepted
  <2>1. CASE IdleInsert BY <1>2, <2>1 DEF IdleInsert
  <2>2. CASE IdleManStart BY <1>2, <2>2 DEF IdleManStart
  <2>3. CASE IdleExtract BY <1>2, <2>3 DEF IdleExtract
  <2>4. CASE AllowWait BY <1>2, <2>4 DEF AllowWait
  <2>5. CASE StartGo BY <1>2, <2>5 DEF StartGo
  <2>6. CASE StartUnready BY <1>2, <2>6 DEF StartUnready
  <2>7. CASE TellExtract BY <1>2, <2>7 DEF TellExtract
  <2>8. CASE TellFull BY <1>2, <2>8 DEF TellFull
  <2>9. CASE DipFull BY <1>2, <2>9 DEF DipFull
  <2>10. CASE TellStop BY <1>2, <2>10 DEF TellStop
  <2>11. CASE FullStop BY <1>2, <2>11 DEF FullStop
  <2>12. CASE ExitErr BY <1>2, <2>12 DEF ExitErr
  <2>13. CASE ErrErr BY <1>2, <2>13 DEF ErrErr
  <2> QED
    BY <1>2, <2>1, <2>2, <2>3, <2>4, <2>5, <2>6, <2>7, <2>8, <2>9, <2>10,
       <2>11, <2>12, <2>13 DEF Tell
<1>3. CASE Detectors
  BY <1>3 DEF Detectors, SoftFault, HardFault, EnterErr, ScramPoll, ScramTell,
       ScramRelease
<1>4. CASE Commands
  BY <1>4 DEF Commands, ManStart, ManStartAccepted, AuthFailures, StopCharge,
       EnterErr
<1>5. CASE LedRead BY <1>5 DEF LedRead
<1>6. CASE LedTell BY <1>6 DEF LedTell
<1>7. CASE ScramButton BY <1>7 DEF ScramButton
<1>8. CASE \E v \in Voltage : Car(v) BY <1>8 DEF Car
<1>9. CASE Tick BY <1>9 DEF Tick
<1>10. CASE UNCHANGED vars BY <1>10 DEF vars
<1> QED
  BY <1>1, <1>2, <1>3, <1>4, <1>5, <1>6, <1>7, <1>8, <1>9, <1>10 DEF Next

(* After an emergency stop the controller, once back to rest, takes no     *)
(* start again.                                                            *)
THEOREM Lockout == Spec => ScramLockout
<1>1. CASE AuthFailures
  <2>1. [Next]_vars => [(LockedOut /\ ~AuthFailures) => LockedOut']_vars
    BY <1>1
  <2> QED BY <2>1, PTL DEF Spec, ScramLockout
<1>2. CASE ~AuthFailures
  <2>1. Inductive /\ [Next]_vars
          => [(LockedOut /\ ~AuthFailures) => LockedOut']_vars
    BY LockoutStep
  <2> QED BY <2>1, <1>2, InductiveHolds, PTL DEF Spec, ScramLockout
<1> QED BY <1>1, <1>2

=============================================================================
