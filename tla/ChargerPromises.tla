-------------------------- MODULE ChargerPromises --------------------------
(***************************************************************************)
(* What the others may rely on.  The controller implements ChargeSession   *)
(* where only it ends a charge: every step is one of its steps, or changes *)
(* neither the phase nor the contactor.  And in every build an abort and   *)
(* an emergency open the contactor in time, and the gun is not unlocked    *)
(* before its time.                                                        *)
(***************************************************************************)
EXTENDS ChargerRefinement, ChargerHistory, Charger_proofs

-----------------------------------------------------------------------------
LEMMA PollMaps ==
  ASSUME Inductive, ~AuthFailures, Poll
  PROVE  [Session!Next]_(Session!sessionVars)
<1> USE DEF Session!Next, Session!sessionVars, Session!Energise,
        Session!Cut, Session!Resume
<1>1. pc = "poll" /\ role' = role /\ charging' = charging
  BY DEF Poll, Polling, IdlePoll, AllowPoll, StartPoll, IngExit, IngCharge,
         IngDip, IngFull, ErrPoll, StopPoll, pileVars
<1>2. pin \in BOOLEAN /\ pin' \in BOOLEAN
  <2>1. TypeOK' BY PollTyped DEF Inductive
  <2> QED BY <2>1 DEF Inductive, TypeOK, OutTypes
<1>3. (charging <=> role \in {"ing", "err"}) /\ (pin => role \in {"ing", "err"})
  BY <1>1 DEF Inductive, Outputs, Agreed, ChargingReported, PinAgrees,
     Energised
<1>4. CASE IdlePoll \/ AllowPoll \/ StopPoll
  <2>1. /\ role \in {"idle", "allow", "stop"} /\ ~pin' /\ pc' # "start_go"
    BY <1>4, <1>1 DEF IdlePoll, AllowPoll, StopPoll, Polling
  <2>2. ~pin /\ ~charging BY <1>3, <2>1
  <2>3. pin' = pin BY <1>2, <2>1, <2>2
  <2>4. Phase' = Phase BY <1>1, <2>1, <2>2 DEF Phase
  <2> QED BY <2>3, <2>4
<1>5. CASE StartPoll
  <2>1. role = "start" BY <1>5 DEF StartPoll, Polling
  <2>2. ~pin /\ Phase = "off" BY <1>1, <1>3, <2>1 DEF Phase
  <2>3. CASE pc' = "start_go" /\ pin' = TRUE
    BY <1>2, <2>2, <2>3 DEF Phase
  <2>4. CASE pc' # "start_go" /\ pin' = FALSE
    BY <1>1, <1>2, <1>3, <2>1, <2>2, <2>4 DEF Phase
  <2> QED BY <1>1, <1>5, <2>3, <2>4 DEF StartPoll, AcOutput
<1>6. CASE IngExit \/ IngDip \/ IngFull
  <2>1. role = "ing" /\ pin' = FALSE /\ pc' # "start_go"
    BY <1>6, <1>1 DEF IngExit, IngDip, IngFull, Polling, AcOutput
  <2>2. Phase = "charging" /\ Phase' = "charging"
    BY <1>1, <1>3, <2>1 DEF Phase
  <2> QED BY <1>2, <2>1, <2>2
<1>7. CASE IngCharge
  <2>1. role = "ing" /\ pc' = pc /\ pin' \in {pin, TRUE}
    BY <1>7 DEF IngCharge, Polling, AcOutput
  <2>2. Phase = "charging" /\ Phase' = "charging"
    BY <1>1, <1>3, <2>1 DEF Phase
  <2> QED BY <1>2, <2>1, <2>2
<1>8. CASE ErrPoll
  <2>1. role = "err" /\ pin' \in {pin, FALSE} /\ pc' # "start_go"
    BY <1>1, <1>8 DEF ErrPoll, Polling, AcOutput
  <2>2. Phase = "aborting" /\ Phase' = "aborting"
    BY <1>1, <1>3, <2>1 DEF Phase
  <2> QED BY <1>2, <2>1, <2>2
<1> QED BY <1>4, <1>5, <1>6, <1>7, <1>8 DEF Poll

LEMMA TellMaps ==
  ASSUME Inductive, ~AuthFailures, Tell
  PROVE  [Session!Next]_(Session!sessionVars)
<1> USE DEF Goto, EnterStop, EnterIdle, EnterStart, EnterIng, EnterAllow,
        ManStartAccepted, PileGunInsert, PileGunExtract, PileStart, PileStop,
        Inductive, Outputs, Secured, Agreed, AfterAuthFail, RoleAtStep,
        ChargingReported, Energised, PinAgrees, Phase, outVars, pileVars,
        Session!Next, Session!sessionVars, Session!Energise, Session!Begin,
        Session!Cut, Session!Resume, Session!Abort, Session!End
<1>1. CASE IdleInsert BY <1>1 DEF IdleInsert
<1>2. CASE IdleManStart BY <1>2 DEF IdleManStart
<1>3. CASE IdleExtract BY <1>3 DEF IdleExtract
<1>4. CASE AllowWait BY <1>4 DEF AllowWait
<1>5. CASE StartGo BY <1>5 DEF StartGo
<1>6. CASE StartUnready BY <1>6 DEF StartUnready
<1>7. CASE TellExtract BY <1>7 DEF TellExtract
<1>8. CASE TellFull BY <1>8 DEF TellFull
<1>9. CASE DipFull BY <1>9 DEF DipFull
<1>10. CASE TellStop BY <1>10 DEF TellStop
<1>11. CASE FullStop BY <1>11 DEF FullStop
<1>12. CASE ExitErr BY <1>12 DEF ExitErr
<1>13. CASE ErrErr BY <1>13 DEF ErrErr
<1> QED
  BY <1>1, <1>2, <1>3, <1>4, <1>5, <1>6, <1>7, <1>8, <1>9, <1>10, <1>11,
     <1>12, <1>13 DEF Tell

LEMMA OthersMap ==
  ASSUME Inductive, ~AuthFailures, Others
  PROVE  [Session!Next]_(Session!sessionVars)
<1> USE DEF PileFault, EnterErr, EnterAllow, ManStartAccepted,
        Inductive, Outputs, Agreed, ChargingReported, Energised, PinAgrees,
        Phase, taskVars, outVars, pileVars,
        Session!Next, Session!sessionVars, Session!Energise, Session!Begin,
        Session!Cut, Session!Resume, Session!Abort, Session!End
<1>1. ASSUME NEW e \in SoftFaults, NEW arg \in FaultLevels(e),
             SoftFault(e, arg)
      PROVE  [Session!Next]_(Session!sessionVars)
  BY <1>1 DEF SoftFault
<1>2. ASSUME NEW e \in HardFaults, NEW arg \in FaultLevels(e),
             HardFault(e, arg)
      PROVE  [Session!Next]_(Session!sessionVars)
  BY <1>2 DEF HardFault
<1>3. CASE ScramPoll
  <2>1. pin' = FALSE /\ Phase' = Phase BY <1>3 DEF ScramPoll
  <2>2. pin \in BOOLEAN BY DEF TypeOK, OutTypes
  <2> QED BY <2>1, <2>2
<1>4. CASE ScramTell BY <1>4 DEF ScramTell
<1>5. CASE ScramRelease BY <1>5 DEF ScramRelease
<1>6. CASE ManStart BY <1>6 DEF ManStart
<1>7. CASE \E t \in AuthTasks : AuthFail BY <1>7 DEF AuthFailures
<1>8. ASSUME NEW e \in Stops, StopCharge(e)
      PROVE  [Session!Next]_(Session!sessionVars)
  BY <1>8 DEF StopCharge
<1>9. CASE LedRead \/ LedTell BY <1>9 DEF LedRead, LedTell
<1>10. CASE ScramButton BY <1>10 DEF ScramButton
<1>11. ASSUME NEW v \in Voltage, Car(v)
       PROVE  [Session!Next]_(Session!sessionVars)
  BY <1>11 DEF Car
<1>12. CASE Tick BY <1>12 DEF Tick
<1> QED
  BY <1>1, <1>2, <1>3, <1>4, <1>5, <1>6, <1>7, <1>8, <1>9, <1>10, <1>11, <1>12
     DEF Others, Detectors, Commands

(* Charges are reported in order and over only with the contactor open,    *)
(* and an aborted charge stays open, for every setting of the delays.      *)
THEOREM SessionImplemented ==
  ASSUME ~AuthFailures PROVE Spec => ImplementsSession
<1>1. Init => Session!Init
  BY DEF Init, Session!Init, Phase
<1>2. Inductive /\ [Next]_vars => [Session!Next]_(Session!sessionVars)
  <2> SUFFICES ASSUME Inductive, [Next]_vars
               PROVE  [Session!Next]_(Session!sessionVars)
    OBVIOUS
  <2>1. CASE UNCHANGED vars
    BY <2>1 DEF vars, taskVars, outVars, pileVars, Session!sessionVars, Phase
  <2>2. CASE Next
    BY <2>2, PollMaps, TellMaps, OthersMap DEF Next, Others
  <2> QED BY <2>1, <2>2
<1> QED
  BY <1>1, <1>2, InductiveHolds, PTL DEF Spec, ImplementsSession, Session!Safe

-----------------------------------------------------------------------------
(* The deadlines.  A time unit has passed since the last run of the task,  *)
(* and the next one is due, or none.                                       *)
Passed == IF due THEN 1 ELSE 0

(* In the ing role, and in the err role before charger_err_do has run, the *)
(* next run decides; after that the age is that of start_ticks, which the  *)
(* first run has set, and the run that finds it too old opens the output.  *)
(* It may be older than the abort: charger_err_do starts the delay only if *)
(* its static state is 0, which a CARD_AUTH_FAIL in an abort leaves at 1.  *)
(* In the stop role, where it may come from anywhere, the next run opens.  *)
InFirstRun == abortAge <= Passed
InDelay    == /\ errState = 1 /\ startTicks # Unset
              /\ startTicks <= ErrT + Passed
              /\ abortAge <= startTicks + 1

AgeBounded == /\ abortAge \in Nat
              /\ abortAge <= ErrT + 1 + Passed
              /\ role = "ing" => InFirstRun
              /\ role = "err" => InFirstRun \/ InDelay

AbortInv == /\ Inductive
            /\ AbortDue => AgeBounded
            /\ ~AbortDue => abortAge = Unset

(* History variables add no behaviour: each step is one of the controller, *)
(* and keeps the record.                                                   *)
LEMMA HistoryStep ==
  ASSUME [HNext]_hvars
  PROVE  [Next]_vars /\ (Record \/ UNCHANGED hvars)
<1>1. CASE HNext
  BY <1>1 DEF HNext, Next, Commands
<1>2. CASE UNCHANGED hvars
  BY <1>2 DEF hvars
<1> QED BY <1>1, <1>2

(* An abort becomes due at age 0, and its age grows with time only.        *)
LEMMA AgeRecorded ==
  ASSUME AbortInv, Record
  PROVE  /\ ~AbortDue' => abortAge' = Unset
         /\ (AbortDue' /\ ~AbortDue) => abortAge' = 0
         /\ (AbortDue' /\ AbortDue)
              => /\ abortAge' \in Nat /\ abortAge' <= abortAge + 1
                 /\ (due' => due) => abortAge' = abortAge
<1>1. /\ ~AbortDue' => abortAge' = Unset
      /\ (AbortDue' /\ ~AbortDue) => abortAge' = 0
  BY DEF AbortInv, Record, Lasting
<1>2. ASSUME AbortDue', AbortDue
      PROVE  /\ abortAge' \in Nat /\ abortAge' <= abortAge + 1
             /\ (due' => due) => abortAge' = abortAge
  <2>1. abortAge \in Nat BY <1>2 DEF AbortInv, AgeBounded
  <2>2. abortAge # Unset BY <2>1 DEF Unset
  <2>3. abortAge' = Older(abortAge)
    BY <1>2, <2>2 DEF Record, Lasting
  <2> QED BY <2>1, <2>3 DEF Older, Ticked
<1> QED BY <1>1, <1>2

(* While an abort is due the task is between two runs; of these, only      *)
(* charger_err_do may leave the contactor closed, while the car is given   *)
(* its time.                                                               *)
Patience == /\ role = "err" /\ role' = "err" /\ due' = FALSE
            /\ errState' = 1
            /\ \/ errState = 0 /\ startTicks' = 0
               \/ errState = 1 /\ startTicks' = startTicks /\ ~ErrTimedOut

LEMMA OnlyPatience ==
  ASSUME Inductive, AbortDue, AbortDue', Poll
  PROVE  Patience
<1>1. pin /\ pin' /\ (role = "ing" => exitNow) /\ pc' # "start_go"
  BY DEF AbortDue
<1>2. CASE ErrPoll
  BY <1>1, <1>2 DEF ErrPoll, Polling, AcOutput, Patience
<1>3. ~(Poll /\ ~ErrPoll)
  BY <1>1 DEF Poll, IdlePoll, AllowPoll, StartPoll, IngExit, IngCharge,
     IngDip, IngFull, StopPoll, Polling, AcOutput
<1> QED BY <1>2, <1>3

LEMMA NothingTold == ASSUME Inductive, AbortDue PROVE ~Tell
<1>1. pc = "poll"
  BY DEF Inductive, Outputs, Secured, OpenWhenTold, AbortDue
<1> QED
  BY <1>1 DEF Tell, IdleInsert, IdleManStart, IdleExtract, AllowWait, StartGo,
     StartUnready, TellExtract, TellFull, DipFull, TellStop, FullStop,
     ExitErr, ErrErr, Goto

(* The others change the role only, and time the ages.                     *)
LEMMA OthersWait ==
  ASSUME Others, ~Tick
  PROVE  UNCHANGED <<due, errState, startTicks>>
BY DEF Others, Detectors, Commands, SoftFault, HardFault, ScramPoll, ScramTell,
   ScramRelease, ManStart, AuthFail, StopCharge, LedRead, LedTell,
   ScramButton, Car, taskVars

LEMMA WithinDelay ==
  ASSUME NEW age \in Nat, NEW started \in Nat, NEW delay \in Nat,
         age <= started + 1, started <= delay
  PROVE  age <= delay + 1
OBVIOUS

LEMMA AbortStep == ASSUME AbortInv, [HNext]_hvars PROVE AbortInv'
<1>1. [Next]_vars /\ (Record \/ UNCHANGED hvars)
  BY HistoryStep
<1>2. Inductive /\ Inductive'
  BY <1>1, InductiveStep DEF AbortInv
<1>3. /\ due \in BOOLEAN /\ due' \in BOOLEAN /\ startTicks \in Delay
      /\ ErrT \in Nat /\ Unset = -1 /\ ErrT < AgeMax /\ AgeMax \in Nat
  BY <1>2, ChargerAssumption
     DEF Inductive, TypeOK, TaskTypes, Unset, AgeMax
<1>4. CASE UNCHANGED hvars
  BY <1>2, <1>4 DEF AbortInv, AgeBounded, InFirstRun, InDelay, Passed,
     AbortDue, hvars, vars, taskVars, outVars, datVars
<1>5. CASE Record
  <2>1. ~AbortDue' => abortAge' = Unset
    BY <1>5, AgeRecorded
  <2>2. ASSUME AbortDue', ~AbortDue PROVE AgeBounded'
    <3>1. abortAge' = 0 BY <1>5, <2>2, AgeRecorded
    <3> QED BY <1>3, <3>1 DEF AgeBounded, InFirstRun, Passed
  <2>3. ASSUME AbortDue', AbortDue PROVE AgeBounded'
    <3>1. AgeBounded BY <2>3 DEF AbortInv
    <3>2. /\ abortAge \in Nat /\ abortAge' \in Nat /\ abortAge' <= abortAge + 1
          /\ (due' => due) => abortAge' = abortAge
      BY <1>5, <2>3, <3>1, AgeRecorded DEF AgeBounded
    <3>3. CASE Poll
      <4>1. Patience BY <1>2, <2>3, <3>3, OnlyPatience
      <4>2. abortAge' = abortAge /\ ~due' BY <3>2, <4>1 DEF Patience
      <4>3. abortAge <= 1 \/ (InDelay /\ errState = 1)
        BY <1>3, <3>1, <4>1 DEF Patience, AgeBounded, InFirstRun, InDelay,
           Passed
      <4>4. /\ startTicks' \in Nat /\ startTicks' <= ErrT
            /\ abortAge <= startTicks' + 1
        <5>1. CASE errState = 0 /\ startTicks' = 0
          BY <1>3, <4>3, <5>1
        <5>2. CASE startTicks' = startTicks /\ ~ErrTimedOut
          <6>1. startTicks \in Nat /\ startTicks <= ErrT
            BY <1>3, <5>2 DEF ErrTimedOut, Elapsed, Delay
          <6> QED BY <1>3, <3>2, <4>3, <5>2, <6>1 DEF InDelay
        <5> QED BY <4>1, <5>1, <5>2 DEF Patience
      <4>5. InDelay'
        BY <1>3, <4>1, <4>2, <4>4 DEF InDelay, Passed, Patience
      <4>6. abortAge' <= ErrT + 1
        BY <1>3, <3>2, <4>2, <4>4, WithinDelay
      <4> QED BY <1>3, <3>2, <4>1, <4>2, <4>5, <4>6
            DEF AgeBounded, Patience, Passed
    <3>4. CASE Tick
      <4>1. /\ ~due /\ due' /\ role' = role /\ errState' = errState
            /\ startTicks' = IF startTicks \in 0..(AgeMax - 1)
                               THEN startTicks + 1 ELSE startTicks
        BY <3>4 DEF Tick
      <4>2. InFirstRun => InFirstRun'
        BY <3>2, <4>1 DEF InFirstRun, Passed
      <4>3. InDelay => InDelay'
        <5> SUFFICES ASSUME InDelay PROVE InDelay'
          OBVIOUS
        <5>1. startTicks \in 0..(AgeMax - 1)
          BY <1>3, <4>1 DEF InDelay, Delay, Passed
        <5> QED BY <1>3, <3>2, <4>1, <5>1 DEF InDelay, Passed
      <4>4. abortAge' <= ErrT + 1 + Passed'
        BY <1>3, <3>1, <3>2, <4>1 DEF AgeBounded, Passed
      <4> QED BY <3>1, <3>2, <4>1, <4>2, <4>3, <4>4 DEF AgeBounded
    <3>5. CASE (Others /\ ~Tick) \/ UNCHANGED vars
      <4>1. UNCHANGED <<due, errState, startTicks>>
        BY <3>5, OthersWait DEF vars, taskVars
      <4>2. abortAge' = abortAge BY <3>2, <4>1
      <4>3. /\ role' = "ing" => role = "ing"
            /\ role' = "err" => role \in {"ing", "err"}
        BY <1>1, <1>2, <2>3, RoleStep
           DEF AbortDue
      <4> QED BY <3>1, <4>1, <4>2, <4>3
            DEF AgeBounded, InFirstRun, InDelay, Passed
    <3>6. ~Tell BY <1>2, <2>3, NothingTold
    <3> QED BY <1>1, <3>3, <3>4, <3>5, <3>6 DEF Next, Others
  <2> QED BY <1>2, <2>1, <2>2, <2>3 DEF AbortInv
<1> QED BY <1>1, <1>4, <1>5

THEOREM AbortInvHolds == HSpec => []AbortInv
<1>1. HInit => AbortInv
  <2> SUFFICES ASSUME HInit PROVE AbortInv
    OBVIOUS
  <2>1. Inductive
    BY InitInductive DEF HInit
  <2> QED BY <2>1 DEF HInit, Init, AbortInv, AbortDue
<1> QED BY <1>1, AbortStep, PTL DEF HSpec

(* Once a charge is to be aborted the contactor is open within             *)
(* CHARGER_ERR_TIMEOUT_MS and the two runs around it (charger_err_do),     *)
(* whatever the car does and whatever is told meanwhile, in every build.   *)
THEOREM AbortsInTime == HSpec => []AbortDeadline
<1>1. AbortInv => AbortDeadline
  <2> SUFFICES ASSUME AbortInv PROVE abortAge <= ErrT + 2
    BY DEF AbortDeadline
  <2>1. ErrT \in Nat /\ due \in BOOLEAN
    BY ChargerAssumption DEF AbortInv, Inductive, TypeOK, TaskTypes
  <2> QED BY <2>1 DEF AbortInv, AgeBounded, Passed, Unset
<1> QED BY <1>1, AbortInvHolds, PTL

(* An emergency in a charge opens it at the next run (charger_ing_do).     *)
THEOREM EmergenciesInTime == HSpec => []EmergencyDeadline
<1>1. AbortInv => EmergencyDeadline
  <2> SUFFICES ASSUME AbortInv, role = "ing" PROVE abortAge <= 1
    BY DEF EmergencyDeadline
  <2>1. due \in BOOLEAN
    BY DEF AbortInv, Inductive, TypeOK, TaskTypes
  <2> QED BY <2>1 DEF AbortInv, AgeBounded, InFirstRun, Passed, Unset
<1> QED BY <1>1, AbortInvHolds, PTL

-----------------------------------------------------------------------------
(* How long the gun stays locked.  Between two runs a charge is reported   *)
(* where the contactor is closed, or the role is one that closes it.       *)
Charged == (pc = "poll" /\ (pin \/ role \in {"ing", "err"})) => charging

(* In a charge the contactor is closed or has been opened, and while the   *)
(* end of a charge is told over a locked gun it has been.                  *)
Ending == {"exit_stop", "exit_err", "err_stop", "err_err", "full_full",
           "full_stop"}
OpenedOnce == /\ Energised => pin \/ openAge # Unset
              /\ pc \in Ending => openAge # Unset
OpenedIn   == (pin \/ openAge # Unset) =>
                \/ pc \in Ending \cup {"start_go"}
                \/ pc = "poll" /\ role \in {"ing", "err", "stop"}

(* Where a delay before unlocking runs, it is not older than the opening. *)
Ahead == /\ openAge # Unset
         /\ openAge >= startTicks \/ openAge > UnlockT
PauseTimed == (pc = "poll" /\ role = "ing" /\ startTicks # Unset) => Ahead
StopTimed  == (pc = "poll" /\ role = "stop" /\ ~charging /\ openAge # Unset)
                => startTicks # Unset /\ Ahead

HeldParts == Charged /\ OpenedOnce /\ OpenedIn /\ PauseTimed /\ StopTimed

HeldInv == /\ Inductive
           /\ openAge \in Nat \cup {Unset}
           /\ openAge # Unset => elock
           /\ HeldParts

(* What a step makes of the age. *)
LEMMA OpeningRecorded ==
  ASSUME HeldInv, Record
  PROVE  /\ openAge' \in Nat \cup {Unset}
         /\ openAge' # Unset => elock'
         /\ (elock' /\ pin /\ ~pin') => openAge' # Unset
         /\ openAge' # Unset => (openAge # Unset \/ (pin /\ ~pin'))
         /\ (elock' /\ openAge # Unset) => openAge' # Unset
         /\ (elock' /\ openAge # Unset /\ (due' => due))
              => openAge' = openAge
         /\ (elock' /\ openAge # Unset)
              => openAge' = openAge + 1 \/ openAge' = openAge
         /\ (elock' /\ openAge # Unset /\ openAge <= UnlockT /\ ~due /\ due')
              => openAge' = openAge + 1
<1>1. openAge' = SinceOpened BY DEF Record
<1>2. openAge \in Nat \cup {Unset} /\ Unset = -1 BY DEF HeldInv, Unset
<1> QED BY <1>1, <1>2 DEF SinceOpened, Ticked

(* A run of the task: the output is closed in roles that charge only, and  *)
(* opened over a locked gun but in the run that unlocks it.                *)
LEMMA PollHeld ==
  ASSUME HeldInv, Inductive', Record, Poll PROVE HeldParts'
<1> USE DEF Polling, AcOutput, LockGun, UnlockGun, HeldInv, HeldParts, Charged,
        OpenedOnce, OpenedIn, PauseTimed, StopTimed, Ahead, Energised, Ending,
        outVars, pileVars
<1>1. pc = "poll" /\ role' = role /\ charging' = charging /\ due' = FALSE
  BY DEF Poll, IdlePoll, AllowPoll, StartPoll, IngExit, IngCharge,
         IngDip, IngFull, ErrPoll, StopPoll
<1>2. /\ openAge \in Nat \cup {Unset} /\ Unset = -1
      /\ openAge' \in Nat \cup {Unset}
      /\ openAge' # Unset => elock'
      /\ (elock' /\ pin /\ ~pin') => openAge' # Unset
      /\ openAge' # Unset => (openAge # Unset \/ (pin /\ ~pin'))
      /\ (elock' /\ openAge # Unset) => openAge' = openAge
  BY <1>1, OpeningRecorded DEF Unset
<1>3. /\ role \in {"ing", "err"} => elock
      /\ pin \in BOOLEAN /\ pin' \in BOOLEAN /\ acEnable \in BOOLEAN
      /\ elock \in BOOLEAN
  BY <1>1 DEF Inductive, Outputs, Secured, LockHeld, TypeOK, OutTypes
<1>4. CASE IdlePoll BY <1>1, <1>2, <1>3, <1>4 DEF IdlePoll
<1>5. CASE AllowPoll BY <1>1, <1>2, <1>3, <1>5 DEF AllowPoll
<1>6. CASE StartPoll BY <1>1, <1>2, <1>3, <1>6 DEF StartPoll
<1>7. CASE IngExit BY <1>1, <1>2, <1>3, <1>7 DEF IngExit
<1>8. CASE IngCharge BY <1>1, <1>2, <1>3, <1>8 DEF IngCharge
<1>9. CASE IngDip
  <2>1. /\ role = "ing" /\ pin' = FALSE /\ charging
        /\ startTicks' = IF startTicks = Unset THEN 0 ELSE startTicks
        /\ \/ pc' = "dip_stop" /\ elock' = FALSE
           \/ pc' = "poll" /\ elock' = elock
    BY <1>1, <1>9 DEF IngDip
  <2>2. CASE pc' = "dip_stop" /\ elock' = FALSE
    BY <1>1, <1>2, <2>1, <2>2
  <2>3. CASE pc' = "poll" /\ elock' = elock
    <3>1. openAge' # Unset
      BY <1>1, <1>2, <1>3, <2>1, <2>3
    <3>2. openAge # Unset => openAge' = openAge
      BY <1>2, <1>3, <2>1, <2>3
    <3>3. Ahead'
      <4>1. CASE startTicks = Unset
        BY <1>2, <2>1, <3>1, <4>1
      <4>2. CASE startTicks # Unset
        BY <1>1, <1>2, <2>1, <3>1, <3>2, <4>2
      <4> QED BY <4>1, <4>2
    <3> QED BY <1>1, <2>1, <2>3, <3>1, <3>3
  <2> QED BY <2>1, <2>2, <2>3
<1>10. CASE IngFull BY <1>1, <1>2, <1>3, <1>10 DEF IngFull
<1>11. CASE ErrPoll BY <1>1, <1>2, <1>3, <1>11 DEF ErrPoll
<1>12. CASE StopPoll BY <1>1, <1>2, <1>3, <1>12 DEF StopPoll
<1> QED BY <1>4, <1>5, <1>6, <1>7, <1>8, <1>9, <1>10, <1>11, <1>12 DEF Poll

(* An event of the task: outputs are left alone, and the end of a charge   *)
(* starts the delay of the stop role.                                      *)
LEMMA TellHeld ==
  ASSUME HeldInv, Inductive', Record, Tell PROVE HeldParts'
<1> USE DEF Goto, EnterStop, EnterIdle, EnterStart, EnterIng, EnterAllow,
        PileGunInsert, PileGunExtract, PileStart, PileStop, AdvertiseMax,
        AdvertiseNone, HeldInv, HeldParts, Charged, OpenedOnce, OpenedIn,
        PauseTimed, StopTimed, Ahead, Energised, Ending, outVars, pileVars
<1>1. /\ pin' = pin /\ elock' = elock /\ due' = due /\ pc # "poll"
      /\ pin \in BOOLEAN /\ elock \in BOOLEAN
  BY DEF Tell, IdleInsert, IdleManStart, IdleExtract, AllowWait, StartGo,
     StartUnready, TellExtract, TellFull, DipFull, TellStop, FullStop,
     ExitErr, ErrErr, Inductive, TypeOK, OutTypes
<1>2. openAge \in Nat \cup {Unset} /\ Unset = -1 /\ openAge' = openAge
  BY <1>1, OpeningRecorded DEF Unset
<1>3. /\ pin => pc = "start_go"
      /\ pc \in {"idle_insert", "idle_man_start", "idle_extract"}
           => role \notin {"ing", "err"}
      /\ pc \in {"dip_full", "stop_extract"} => role = "stop"
  BY <1>1 DEF Inductive, Outputs, Secured, OpenWhenTold, RoleAtStep,
     AfterAuthFail
<1>4. CASE IdleInsert BY <1>1, <1>2, <1>3, <1>4 DEF IdleInsert
<1>5. CASE IdleManStart BY <1>1, <1>2, <1>3, <1>5 DEF IdleManStart
<1>6. CASE IdleExtract BY <1>1, <1>2, <1>3, <1>6 DEF IdleExtract
<1>7. CASE AllowWait BY <1>1, <1>2, <1>3, <1>7 DEF AllowWait
<1>8. CASE StartGo BY <1>1, <1>2, <1>3, <1>8 DEF StartGo
<1>9. CASE StartUnready BY <1>1, <1>2, <1>3, <1>9 DEF StartUnready
<1>10. CASE TellExtract BY <1>1, <1>2, <1>3, <1>10 DEF TellExtract
<1>11. CASE TellFull BY <1>1, <1>2, <1>3, <1>11 DEF TellFull
<1>12. CASE DipFull BY <1>1, <1>2, <1>3, <1>12 DEF DipFull
<1>13. CASE TellStop BY <1>1, <1>2, <1>3, <1>13 DEF TellStop
<1>14. CASE FullStop BY <1>1, <1>2, <1>3, <1>14 DEF FullStop
<1>15. CASE ExitErr BY <1>1, <1>2, <1>3, <1>15 DEF ExitErr
<1>16. CASE ErrErr BY <1>1, <1>2, <1>3, <1>16 DEF ErrErr
<1> QED
  BY <1>4, <1>5, <1>6, <1>7, <1>8, <1>9, <1>10, <1>11, <1>12, <1>13, <1>14,
     <1>15, <1>16 DEF Tell

(* The other tasks open the contactor, and change the role of a charge.    *)
LEMMA OthersHeld ==
  ASSUME HeldInv, Inductive', Record, Others PROVE HeldParts'
<1> USE DEF HeldInv, HeldParts, Charged, OpenedOnce, OpenedIn, Energised
<1>1. /\ pc' = pc /\ elock' = elock /\ charging' = charging
      /\ pin' = pin \/ pin' = FALSE
  BY DEF Others, Detectors, Commands, SoftFault, HardFault, PileFault,
     ScramPoll, ScramTell, ScramRelease, ManStart, AuthFail, StopCharge,
     LedRead, LedTell, ScramButton, Car, Tick, taskVars, outVars, pileVars
<1>2. /\ role' = role \/ (role' = "allow" /\ role = "idle")
      \/ (role' = "err" /\ role = "ing") \/ role' = "stop"
  BY DEF Others, Detectors, Commands, SoftFault, HardFault, EnterErr,
     ScramPoll, ScramTell, ScramRelease, ManStart, ManStartAccepted,
     EnterAllow, AuthFail, EnterStop, StopCharge, LedRead, LedTell,
     ScramButton, Car, Tick
<1>3. /\ openAge \in Nat \cup {Unset} /\ Unset = -1
      /\ openAge' \in Nat \cup {Unset}
      /\ (elock' /\ pin /\ ~pin') => openAge' # Unset
      /\ openAge' # Unset => (openAge # Unset \/ (pin /\ ~pin'))
      /\ (elock' /\ openAge # Unset) => openAge' # Unset
  BY OpeningRecorded DEF Unset
<1>4. /\ pin => elock /\ pc \in {"poll", "start_go"}
      /\ pin \in BOOLEAN /\ elock \in BOOLEAN
  BY DEF Inductive, Outputs, Secured, LockHeld, OpenWhenTold, TypeOK, OutTypes
<1>5. Charged' BY <1>1, <1>2, <1>4
<1>6. OpenedOnce' BY <1>1, <1>2, <1>3, <1>4 DEF Ending
<1>7. OpenedIn' BY <1>1, <1>2, <1>3, <1>4 DEF Ending
<1>8. (Ahead /\ startTicks # Unset /\ elock) => (Ahead /\ startTicks # Unset)'
  <2> SUFFICES ASSUME Ahead, startTicks # Unset, elock
               PROVE  Ahead' /\ startTicks' # Unset
    OBVIOUS
  <2>1. /\ openAge \in Nat /\ openAge' # Unset /\ startTicks \in Nat
        /\ openAge' = openAge + 1 \/ openAge' = openAge
        /\ (due' => due) => openAge' = openAge
        /\ (openAge <= UnlockT /\ ~due /\ due') => openAge' = openAge + 1
        /\ UnlockT \in Nat
    BY <1>1, <1>3, OpeningRecorded, ChargerAssumption
       DEF Ahead, Inductive, TypeOK, Delay
  <2>2. CASE Tick
    <3>1. startTicks' = startTicks + 1 \/ startTicks' = startTicks
      BY <2>2 DEF Tick
    <3>2. ~due /\ due' BY <2>2 DEF Tick
    <3> QED BY <1>3, <2>1, <3>1, <3>2 DEF Ahead
  <2>3. CASE ~Tick
    <3>1. UNCHANGED <<due, startTicks>> BY <2>3, OthersWait
    <3> QED BY <2>1, <3>1 DEF Ahead
  <2> QED BY <2>2, <2>3
<1>9. startTicks' # Unset => startTicks # Unset
  <2>1. CASE Tick BY <2>1 DEF Tick, Unset
  <2>2. CASE ~Tick BY <2>2, OthersWait
  <2> QED BY <2>1, <2>2
<1>10. PauseTimed'
  BY <1>1, <1>2, <1>4, <1>8, <1>9 DEF PauseTimed, Ahead
<1>11. StopTimed'
  <2> SUFFICES ASSUME pc = "poll", role' = "stop", ~charging, openAge' # Unset
               PROVE  (Ahead /\ startTicks # Unset)'
    BY <1>1 DEF StopTimed
  <2>1. ~pin /\ role \notin {"ing", "err"} /\ openAge # Unset
    BY <1>3, <1>4
  <2>2. role = "stop" BY <2>1 DEF Ending
  <2> QED BY <1>8, <2>1, <2>2 DEF StopTimed
<1> QED BY <1>5, <1>6, <1>7, <1>10, <1>11

LEMMA HeldStep == ASSUME HeldInv, [HNext]_hvars PROVE HeldInv'
<1>1. [Next]_vars /\ (Record \/ UNCHANGED hvars)
  BY HistoryStep
<1>2. Inductive'
  BY <1>1, InductiveStep DEF HeldInv
<1>3. CASE UNCHANGED hvars
  BY <1>2, <1>3 DEF HeldInv, HeldParts, Charged, OpenedOnce, OpenedIn,
     PauseTimed, StopTimed, Ahead, Energised, hvars, vars, taskVars, outVars,
     pileVars
<1>4. CASE Record
  <2>1. openAge' \in Nat \cup {Unset} /\ (openAge' # Unset => elock')
    BY <1>4, OpeningRecorded
  <2>2. HeldParts'
    <3>1. CASE Poll BY <1>2, <1>4, <3>1, PollHeld
    <3>2. CASE Tell BY <1>2, <1>4, <3>2, TellHeld
    <3>3. CASE Others BY <1>2, <1>4, <3>3, OthersHeld
    <3>4. CASE UNCHANGED vars
      <4>1. openAge' = openAge
        BY <1>4, <3>4, OpeningRecorded
           DEF HeldInv, Record, SinceOpened, Ticked, vars, taskVars, outVars
      <4> QED
        BY <3>4, <4>1
           DEF HeldInv, HeldParts, Charged, OpenedOnce, OpenedIn, PauseTimed,
               StopTimed, Ahead, Energised, vars, taskVars, outVars, pileVars
    <3> QED BY <1>1, <3>1, <3>2, <3>3, <3>4 DEF Next, Others
  <2> QED BY <1>2, <2>1, <2>2 DEF HeldInv, HeldParts
<1> QED BY <1>1, <1>3, <1>4

THEOREM HeldInvHolds == HSpec => []HeldInv
<1>1. HInit => HeldInv
  <2> SUFFICES ASSUME HInit PROVE HeldInv
    OBVIOUS
  <2>1. Inductive
    BY InitInductive DEF HInit
  <2> QED
    BY <2>1 DEF HInit, Init, HeldInv, HeldParts, Charged, OpenedOnce, OpenedIn,
       PauseTimed, StopTimed, Energised, Ending
<1> QED BY <1>1, HeldStep, PTL DEF HSpec

(* The gun is given free only when the contactor has stayed open, or was   *)
(* first opened at least CHARGER_UNLOCK_TIMEOUT_MS ago in this charge      *)
(* (charger_ing_do, charger_stop_do), in every build but for charges that  *)
(* CARD_AUTH_FAIL takes away: start_ticks is the time of its own delay.    *)
THEOREM UnlocksByOwnDelay == HSpec => UnlockByOwnDelay
<1>1. HeldInv /\ [HNext]_hvars
        => [(elock /\ ~elock' /\ (role = "ing" \/ ~charging)) =>
              \/ openAge = Unset /\ ~pin
              \/ openAge > UnlockT]_hvars
  <2> SUFFICES ASSUME HeldInv, [Next]_vars, elock, ~elock',
                      role = "ing" \/ ~charging
               PROVE  (openAge = Unset /\ ~pin) \/ openAge > UnlockT
    BY HistoryStep
  <2>1. /\ openAge \in Nat \cup {Unset} /\ Unset = -1 /\ UnlockT \in Nat
        /\ startTicks \in Int
    BY ChargerAssumption
       DEF HeldInv, Unset, Inductive, TypeOK, Delay, AgeMax
  <2>2. Poll
    <3>1. ~Tell
      BY DEF Tell, IdleInsert, IdleManStart, IdleExtract, AllowWait, StartGo,
         StartUnready, TellExtract, TellFull, DipFull, TellStop, FullStop,
         ExitErr, ErrErr, outVars
    <3>2. ~Others
      BY DEF Others, Detectors, Commands, SoftFault, HardFault, ScramPoll,
         ScramTell, ScramRelease, ManStart, AuthFail, StopCharge, LedRead,
         LedTell, ScramButton, Car, Tick, outVars
    <3>3. vars' # vars BY DEF vars, outVars
    <3> QED BY <3>1, <3>2, <3>3 DEF Next, Others
  <2>3. pc = "poll" /\ (IdlePoll \/ StartPoll \/ IngDip \/ StopPoll)
    BY <2>2 DEF Poll, Polling, IdlePoll, AllowPoll, StartPoll, IngExit,
       IngCharge, IngDip, IngFull, ErrPoll, StopPoll, AcOutput, LockGun,
       outVars
  <2>4. CASE IdlePoll \/ StartPoll
    <3>1. role \in {"idle", "start"}
      BY <2>4 DEF IdlePoll, StartPoll, Polling
    <3> QED BY <2>3, <3>1 DEF HeldInv, HeldParts, OpenedIn, Ending
  <2>5. CASE IngDip
    <3>1. role = "ing" /\ startTicks # Unset /\ startTicks > UnlockT
      <4>1. /\ role = "ing" /\ startTicks' > UnlockT
            /\ startTicks' = IF startTicks = Unset THEN 0 ELSE startTicks
        BY <2>5 DEF IngDip, Polling
      <4> QED BY <2>1, <4>1
    <3> QED BY <2>1, <2>3, <3>1 DEF HeldInv, HeldParts, PauseTimed, Ahead
  <2>6. CASE StopPoll
    <3>1. role = "stop" /\ ~charging /\ Elapsed(startTicks) > UnlockT
      BY <2>6 DEF StopPoll, Polling
    <3>2. ~pin
      BY <2>3, <3>1
         DEF HeldInv, HeldParts, Charged, Inductive, TypeOK, OutTypes
    <3>3. CASE openAge = Unset BY <3>2, <3>3
    <3>4. CASE openAge # Unset
      <4>1. startTicks # Unset /\ Ahead
        BY <2>3, <3>1, <3>4 DEF HeldInv, HeldParts, StopTimed
      <4> QED BY <2>1, <3>1, <4>1 DEF Ahead, Elapsed
    <3> QED BY <3>3, <3>4
  <2> QED BY <2>3, <2>4, <2>5, <2>6
<1> QED BY <1>1, HeldInvHolds, PTL DEF HSpec, UnlockByOwnDelay

=============
