-------------------------- MODULE Detectors_proofs --------------------------
(***************************************************************************)
(* Two detectors of faults tell the truth.  The check of the contactor, in *)
(* time: for every delay of the work and every period of the light task,   *)
(* however the controller, the delayed work, the light task and the        *)
(* contactor interleave.  The temperature task, of every table of          *)
(* resistances that falls and flattens: within its degree, and on the      *)
(* right side of the limits of work.                                       *)
(***************************************************************************)
EXTENDS Contactor, Temperature, TLAPS

-----------------------------------------------------------------------------
(* Of the work.  A second after the last switching at most it has told     *)
(* what the output should be and armed the check: while it waits, the time *)
(* left is no more than the delay less the quiet that has passed, and once *)
(* it has run, what it read is what the controller last set, though it may *)
(* have been under way when the controller switched.                       *)
WorkInTime ==
  /\ switch # "idle" => quiet = 0
  /\ switch = "idle" => \/ timer # Off /\ quiet + timer <= WorkT
                        \/ timer = Off /\ (quiet > WorkT => work = "idle")
WorkRight ==
  (switch = "idle" /\ timer = Off) =>
    /\ work = "tell" => wEnable = enable
    /\ work # "tell" => acState = enable
    /\ work = "idle" => need

(* Of the light task: the quiet there was when its last turn began.        *)
Begun   == quiet - ledAge
Right   == alarm = (closed # enable)
Excused == errCnt = 1 /\ enable /\ ~closed

(* A turn that begins when the work is done sees what is the case, and     *)
(* leaves the alarm right or one open contact counted; in the turn after   *)
(* that an open contact is told as well.                                   *)
FirstTurn ==
  Begun > WorkT =>
    /\ led # "idle" => ledState = enable
    /\ led = "judge" => ledClosed = closed
    /\ led = "tell" => verdict = (closed # enable)
    /\ led = "idle" => Right \/ Excused
SecondTurn ==
  Begun > WorkT + LedT =>
    /\ led = "idle" => Right
    /\ led \in {"pin", "judge"} => Right \/ errCnt = 1

AlarmInv == /\ TypeOK /\ WorkInTime /\ WorkRight
            /\ FirstTurn /\ SecondTurn /\ AlarmDeadline

-----------------------------------------------------------------------------
LEMMA InitTyped == Init => TypeOK
<1> SUFFICES ASSUME Init PROVE TypeOK
  OBVIOUS
<1> USE ContactorAssumption DEF Init
<1>1. CoilTypes BY DEF CoilTypes
<1>2. WorkerTypes BY DEF WorkerTypes
<1>3. LightTypes
  <2>1. errCnt \in 0..1 /\ ledAge \in 0..LedT OBVIOUS
  <2> QED BY <2>1 DEF LightTypes
<1>4. ContactTypes
  <2>1. moveAge \in 0..MoveT OBVIOUS
  <2> QED BY <2>1 DEF ContactTypes
<1>5. cutAge \in 0..CutT /\ quiet \in 0..QuietMax OBVIOUS
<1> QED BY <1>1, <1>2, <1>3, <1>4, <1>5 DEF TypeOK

(* What a step leaves alone keeps its types. *)
LEMMA Frame ==
  ASSUME TypeOK
  PROVE  /\ UNCHANGED coil => CoilTypes'
         /\ UNCHANGED worker => WorkerTypes'
         /\ UNCHANGED light => LightTypes'
         /\ UNCHANGED contact => ContactTypes'
         /\ UNCHANGED cutAge => (cutAge \in 0..CutT)'
         /\ UNCHANGED quiet => (quiet \in 0..QuietMax)'
<1>1. UNCHANGED coil => CoilTypes'
  BY DEF TypeOK, CoilTypes, coil
<1>2. UNCHANGED worker => WorkerTypes'
  BY DEF TypeOK, WorkerTypes, worker
<1>3. UNCHANGED light => LightTypes'
  BY DEF TypeOK, LightTypes, light
<1>4. UNCHANGED contact => ContactTypes'
  BY DEF TypeOK, ContactTypes, contact
<1> QED BY <1>1, <1>2, <1>3, <1>4 DEF TypeOK

(* An age that has reached its bound stays there.                          *)
LEMMA GrowBound ==
  ASSUME NEW max \in Nat, NEW age \in 0..max
  PROVE  Grow(age, max) \in 0..max /\ Grow(age, max) <= age + 1
BY DEF Grow

LEMMA StepTyped == ASSUME TypeOK, [Next]_vars PROVE TypeOK'
<1> USE ContactorAssumption
<1>1. ASSUME NEW on \in BOOLEAN, SwitchBegin(on) PROVE TypeOK'
  <2>1. CoilTypes' BY <1>1 DEF SwitchBegin, TypeOK, CoilTypes
  <2>2. ContactTypes' BY <1>1 DEF SwitchBegin, TypeOK, ContactTypes
  <2> QED BY <1>1, <2>1, <2>2, Frame DEF SwitchBegin, TypeOK
<1>2. CASE SwitchEnable
  <2>1. CoilTypes' BY <1>2 DEF SwitchEnable, TypeOK, CoilTypes
  <2> QED BY <1>2, <2>1, Frame DEF SwitchEnable, TypeOK
<1>3. CASE SwitchTimer
  <2>1. CoilTypes' BY <1>3 DEF SwitchTimer, TypeOK, CoilTypes
  <2> QED BY <1>3, <2>1, Frame DEF SwitchTimer, TypeOK
<1>4. CASE ScramPressed
  <2>1. CoilTypes' BY <1>4 DEF ScramPressed, TypeOK, CoilTypes
  <2>2. ContactTypes' BY <1>4 DEF ScramPressed, TypeOK, ContactTypes
  <2> QED BY <1>4, <2>1, <2>2, Frame DEF ScramPressed, TypeOK
<1>5. CASE WorkRead
  <2>1. CoilTypes' BY <1>5 DEF WorkRead, TypeOK, CoilTypes
  <2>2. WorkerTypes' BY <1>5 DEF WorkRead, TypeOK, CoilTypes, WorkerTypes
  <2> QED BY <1>5, <2>1, <2>2, Frame DEF WorkRead, TypeOK
<1>6. CASE WorkTell
  <2>1. WorkerTypes' BY <1>6 DEF WorkTell, TypeOK, WorkerTypes
  <2> QED BY <1>6, <2>1, Frame DEF WorkTell, TypeOK
<1>7. CASE WorkArm
  <2>1. CoilTypes' BY <1>7 DEF WorkArm, Arm, TypeOK, CoilTypes
  <2>2. WorkerTypes' BY <1>7 DEF WorkArm, TypeOK, WorkerTypes
  <2> QED BY <1>7, <2>1, <2>2, Frame DEF WorkArm, TypeOK
<1>8. CASE LedState
  <2>1. LightTypes' BY <1>8 DEF LedState, TypeOK, WorkerTypes, LightTypes
  <2> QED BY <1>8, <2>1, Frame DEF LedState, TypeOK
<1>9. CASE LedPin
  <2>1. LightTypes' BY <1>9 DEF LedPin, TypeOK, ContactTypes, LightTypes
  <2> QED BY <1>9, <2>1, Frame DEF LedPin, TypeOK
<1>10. CASE LedJudge
  <2>1. errCnt' \in 0..1 /\ led' \in {"idle", "tell"}
    BY <1>10 DEF LedJudge, CountOpen, TypeOK, LightTypes
  <2>2. verdict' \in BOOLEAN
    BY <1>10 DEF LedJudge, TypeOK, LightTypes
  <2>3. LightTypes'
    BY <1>10, <2>1, <2>2 DEF LedJudge, TypeOK, LightTypes
  <2> QED BY <1>10, <2>3, Frame DEF LedJudge, TypeOK
<1>11. CASE LedTell
  <2>1. LightTypes' BY <1>11 DEF LedTell, TypeOK, LightTypes
  <2> QED BY <1>11, <2>1, Frame DEF LedTell, TypeOK
<1>12. CASE Follow
  <2>1. ContactTypes' BY <1>12 DEF Follow, TypeOK, CoilTypes, ContactTypes
  <2> QED BY <1>12, <2>1, Frame DEF Follow, TypeOK
<1>13. CASE Recover
  <2>1. moveAge' \in 0..MoveT BY <1>13 DEF Recover
  <2>2. ContactTypes' BY <1>13, <2>1 DEF Recover, TypeOK, ContactTypes
  <2> QED BY <1>13, <2>2, Frame DEF Recover, TypeOK
<1>14. ASSUME NEW c \in BOOLEAN, Fail(c) PROVE TypeOK'
  <2>1. ContactTypes' BY <1>14 DEF Fail, TypeOK, ContactTypes
  <2> QED BY <1>14, <2>1, Frame DEF Fail, TypeOK
<1>15. CASE Tick
  <2>1. CoilTypes' BY <1>15 DEF Tick, TypeOK, CoilTypes, Off
  <2>2. LightTypes' BY <1>15 DEF Tick, TypeOK, LightTypes
  <2>3. ContactTypes'
    BY <1>15, GrowBound DEF Tick, TypeOK, ContactTypes
  <2>4. (cutAge \in 0..CutT)' BY <1>15 DEF Tick, TypeOK
  <2>5. (quiet \in 0..QuietMax)' BY <1>15, GrowBound DEF Tick, TypeOK
  <2> QED BY <1>15, <2>1, <2>2, <2>3, <2>4, <2>5, Frame DEF Tick, TypeOK
<1>16. CASE UNCHANGED vars
  BY <1>16, Frame DEF vars, TypeOK
<1> QED
  BY <1>1, <1>2, <1>3, <1>4, <1>5, <1>6, <1>7, <1>8, <1>9, <1>10, <1>11,
     <1>12, <1>13, <1>14, <1>15, <1>16 DEF Next

(* The variables keep their types: the count of open contacts stays 0 or   *)
(* 1, and no turn and no work is later than its period and its delay.      *)
THEOREM ContactorTypeCorrect == Spec => []TypeOK
BY InitTyped, StepTyped, PTL DEF Spec

-----------------------------------------------------------------------------
(* What changes the output or the contact begins a new quiet: nothing is   *)
(* claimed of the light task yet.                                          *)
Disturbed == \/ \E on \in BOOLEAN : SwitchBegin(on)
             \/ ScramPressed \/ Follow \/ Recover
             \/ \E c \in BOOLEAN : Fail(c)

LEMMA DisturbedKeeps == ASSUME AlarmInv, TypeOK', Disturbed PROVE AlarmInv'
<1> USE ContactorAssumption DEF AlarmInv
<1>1. quiet' = 0 /\ timer' = timer /\ enable' = enable
      /\ UNCHANGED worker /\ UNCHANGED light
  BY DEF Disturbed, SwitchBegin, ScramPressed, Follow, Recover, Fail, coil
<1>2. \/ switch' = "locked"
      \/ switch' = switch /\ need' = need
  BY DEF Disturbed, SwitchBegin, ScramPressed, Follow, Recover, Fail, coil
<1>3. WorkInTime'
  <2>1. timer \in 0..WorkT \/ timer = Off
    BY DEF TypeOK, CoilTypes
  <2> QED BY <1>1, <1>2, <2>1 DEF WorkInTime, worker
<1>4. WorkRight'
  BY <1>1, <1>2 DEF WorkRight, worker
<1>5. Begun' <= 0
  BY <1>1 DEF Begun, TypeOK, LightTypes, light
<1>6. Begun' \in Int
  BY <1>1 DEF Begun, TypeOK, LightTypes
<1>7. ~(Begun' > WorkT) /\ ~(Begun' > WorkT + LedT)
      /\ ~(quiet' > WorkT + 2 * LedT)
  BY <1>1, <1>5, <1>6
<1>8. FirstTurn' /\ SecondTurn' /\ AlarmDeadline'
  BY <1>7 DEF FirstTurn, SecondTurn, AlarmDeadline
<1> QED BY <1>3, <1>4, <1>8

(* The controller's other steps and the work do not touch what the light   *)
(* task and the contact have; ac_enable changes in the middle of switching *)
(* only.                                                                   *)
Worked == SwitchEnable \/ SwitchTimer \/ WorkRead \/ WorkTell \/ WorkArm

LEMMA WorkedKeeps == ASSUME AlarmInv, TypeOK', Worked PROVE AlarmInv'
<1> USE ContactorAssumption DEF AlarmInv
<1>1. WorkInTime'
  <2> USE DEF WorkInTime, TypeOK, CoilTypes, coil, Off
  <2>1. CASE SwitchEnable BY <2>1 DEF SwitchEnable
  <2>2. CASE SwitchTimer BY <2>2 DEF SwitchTimer, worker
  <2>3. CASE WorkRead
    <3>1. switch = "idle" => quiet <= WorkT BY <2>3 DEF WorkRead
    <3>2. timer' = Off /\ UNCHANGED <<switch, quiet>> BY <2>3 DEF WorkRead
    <3> QED BY <3>1, <3>2
  <2>4. CASE WorkTell BY <2>4 DEF WorkTell
  <2>5. CASE WorkArm BY <2>5 DEF WorkArm
  <2> QED BY <2>1, <2>2, <2>3, <2>4, <2>5 DEF Worked
<1>2. WorkRight'
  BY DEF Worked, SwitchEnable, SwitchTimer, WorkRead, WorkTell, WorkArm, Arm,
     WorkInTime, WorkRight, TypeOK, CoilTypes, WorkerTypes, coil, worker, Off
<1>3. UNCHANGED <<quiet, closed, light>>
  BY DEF Worked, SwitchEnable, SwitchTimer, WorkRead, WorkTell, WorkArm,
     contact
<1>4. enable' = enable \/ quiet = 0
  BY DEF Worked, SwitchEnable, SwitchTimer, WorkRead, WorkTell, WorkArm,
     WorkInTime, coil
<1>5. CASE enable' = enable
  BY <1>1, <1>2, <1>3, <1>5 DEF FirstTurn, SecondTurn, AlarmDeadline, Begun,
     Right, Excused, light
<1>6. CASE quiet = 0
  <2>1. ~(Begun' > WorkT) /\ ~(Begun' > WorkT + LedT)
        /\ ~(quiet' > WorkT + 2 * LedT)
    BY <1>3, <1>6 DEF Begun, TypeOK, LightTypes, light
  <2> QED BY <1>1, <1>2, <2>1 DEF FirstTurn, SecondTurn, AlarmDeadline
<1> QED BY <1>1, <1>2, <1>4, <1>5, <1>6

(* After the delay of the work the light task reads what is the case.      *)
LEMMA WorkDone ==
  ASSUME AlarmInv, quiet > WorkT
  PROVE  acState = enable /\ need
BY ContactorAssumption DEF AlarmInv, WorkInTime, WorkRight, TypeOK, CoilTypes

(* The steps of a turn of the light task.                                  *)
LedStep == LedState \/ LedPin \/ LedJudge \/ LedTell

LEMMA LedKeeps == ASSUME AlarmInv, TypeOK', LedStep PROVE AlarmInv'
<1> USE ContactorAssumption DEF AlarmInv
<1>1. UNCHANGED <<coil, worker, closed, quiet>>
  BY DEF LedStep, LedState, LedPin, LedJudge, LedTell, contact
<1>2. WorkInTime' /\ WorkRight'
  BY <1>1 DEF WorkInTime, WorkRight, coil, worker
<1>3. Begun \in Int /\ Begun' \in Int /\ quiet \in Nat
      /\ Begun <= quiet /\ quiet <= Begun + LedT
  BY DEF Begun, TypeOK, LightTypes
<1>4. CASE LedState
  <2>1. Begun' = quiet /\ Begun = quiet - LedT
    BY <1>1, <1>4 DEF LedState, Begun, TypeOK
  <2>2. FirstTurn'
    <3>1. SUFFICES ASSUME quiet > WorkT PROVE acState = enable
      BY <1>1, <1>4, <2>1 DEF FirstTurn, LedState, coil
    <3> QED BY <3>1, WorkDone
  <2>3. SecondTurn'
    <3>1. SUFFICES ASSUME Begun > WorkT PROVE Right \/ errCnt = 1
      BY <1>1, <1>3, <1>4, <2>1
         DEF SecondTurn, LedState, Right, coil
    <3> QED BY <1>4, <3>1 DEF FirstTurn, Excused, LedState
  <2>4. AlarmDeadline'
    BY <1>1, <1>4 DEF AlarmDeadline, LedState, coil
  <2> QED BY <1>2, <2>2, <2>3, <2>4
<1>5. CASE LedPin
  <2>1. Begun' = Begun BY <1>1, <1>5 DEF LedPin, Begun
  <2>2. FirstTurn'
    BY <1>1, <1>5, <2>1 DEF FirstTurn, LedPin, coil
  <2>3. SecondTurn'
    BY <1>1, <1>5, <2>1 DEF SecondTurn, LedPin, Right, coil
  <2>4. AlarmDeadline'
    BY <1>1, <1>5 DEF AlarmDeadline, LedPin, coil
  <2> QED BY <1>2, <2>2, <2>3, <2>4
<1>6. CASE LedJudge
  <2>1. Begun' = Begun BY <1>1, <1>6 DEF LedJudge, Begun
  <2>2. ASSUME Begun > WorkT
        PROVE  need /\ ledState = enable /\ ledClosed = closed
    BY <1>3, <1>6, <2>2, WorkDone DEF LedJudge, FirstTurn
  <2>3. FirstTurn'
    <3> SUFFICES ASSUME Begun > WorkT
                 PROVE  /\ led' = "tell" => verdict' = (closed # enable)
                        /\ led' = "idle" => Excused'
      BY <1>1, <1>6, <2>1 DEF FirstTurn, LedJudge, coil
    <3>1. CASE Tolerated /\ CountOpen /\ led' = "idle"
      <4>1. ledState /\ ~ledClosed /\ errCnt' = 1
        BY <3>1 DEF Tolerated, CountOpen
      <4>2. enable /\ ~closed
        BY <2>2, <4>1 DEF TypeOK, CoilTypes, LightTypes, ContactTypes
      <4> QED BY <1>1, <3>1, <4>1, <4>2 DEF Excused, coil
    <3>2. CASE led' = "tell" /\ verdict' = (ledState # ledClosed)
      BY <2>2, <3>2
    <3> QED BY <1>6, <2>2, <3>1, <3>2 DEF LedJudge
  <2>4. SecondTurn'
    <3> SUFFICES ASSUME Begun > WorkT + LedT PROVE led' = "idle" => Right'
      BY <1>6, <2>1 DEF SecondTurn, LedJudge
    <3>1. Begun > WorkT BY <1>3
    <3>2. need BY <2>2, <3>1
    <3>3. led' = "idle" => errCnt # 1
      BY <1>6, <3>2 DEF LedJudge, Tolerated, OpenTolerance
    <3>4. Right \/ errCnt = 1
      BY <1>6 DEF SecondTurn, LedJudge
    <3> QED BY <1>1, <1>6, <3>3, <3>4 DEF LedJudge, Right, coil
  <2>5. AlarmDeadline'
    BY <1>1, <1>6 DEF AlarmDeadline, LedJudge, coil
  <2> QED BY <1>2, <2>3, <2>4, <2>5
<1>7. CASE LedTell
  <2>1. Begun' = Begun BY <1>1, <1>7 DEF LedTell, Begun
  <2>2. Begun > WorkT => Right'
    BY <1>1, <1>7 DEF FirstTurn, LedTell, Right, coil
  <2>3. FirstTurn'
    BY <1>7, <2>1, <2>2 DEF FirstTurn, LedTell
  <2>4. SecondTurn'
    BY <1>3, <1>7, <2>1, <2>2 DEF SecondTurn, LedTell
  <2>5. AlarmDeadline'
    <3>1. quiet > WorkT + 2 * LedT => Right'
      BY <1>3, <2>2
    <3> QED BY <1>1, <3>1 DEF AlarmDeadline, Right, TypeOK, LightTypes,
         CoilTypes, ContactTypes
  <2> QED BY <1>2, <2>3, <2>4, <2>5
<1> QED BY <1>4, <1>5, <1>6, <1>7 DEF LedStep

(* Time passes only while all three tasks wait, and no turn is put off.    *)
LEMMA TickKeeps == ASSUME AlarmInv, TypeOK', Tick PROVE AlarmInv'
<1> USE ContactorAssumption DEF AlarmInv
<1>1. UNCHANGED <<enable, need, switch, worker, led, ledState, ledClosed,
                  verdict, errCnt, alarm, closed>>
      /\ switch = "idle" /\ work = "idle" /\ led = "idle"
      /\ ledAge' = ledAge + 1
  BY DEF Tick
<1>2. quiet' <= quiet + 1 /\ quiet \in Nat /\ quiet' \in Nat
  BY GrowBound DEF Tick, TypeOK
<1>3. WorkInTime'
  <2>1. \/ timer = Off /\ timer' = Off
        \/ /\ timer # Off /\ timer \in Nat
           /\ timer' = timer - 1 /\ timer' # Off
    <3>1. timer = Off \/ timer \in Nat
      BY DEF TypeOK, CoilTypes
    <3>2. timer # 0 /\ timer' = IF timer = Off THEN Off ELSE timer - 1
      BY DEF Tick
    <3> QED BY <3>1, <3>2 DEF Off
  <2>2. CASE timer = Off
    BY <1>1, <2>1, <2>2 DEF WorkInTime, worker
  <2>3. CASE timer # Off
    <3>1. quiet + timer <= WorkT BY <1>1, <2>3 DEF WorkInTime
    <3>2. quiet' + timer' <= WorkT BY <1>2, <2>1, <2>3, <3>1
    <3> QED BY <1>1, <2>1, <2>3, <3>2 DEF WorkInTime
  <2> QED BY <2>2, <2>3
<1>4. WorkRight'
  <2>1. timer' = Off => timer = Off
    BY DEF Tick, TypeOK, CoilTypes, Off
  <2> QED BY <1>1, <2>1 DEF WorkRight, worker
<1>5. Begun' <= Begun /\ Begun \in Int /\ Begun' \in Int
      /\ quiet' <= Begun + 1 + (LedT - 1)
  BY <1>1, <1>2 DEF Tick, Begun, TypeOK, LightTypes
<1>6. FirstTurn'
  BY <1>1, <1>5 DEF FirstTurn, Right, Excused
<1>7. SecondTurn'
  BY <1>1, <1>5 DEF SecondTurn, Right
<1>8. AlarmDeadline'
  <2>1. quiet' > WorkT + 2 * LedT => Begun > WorkT + LedT
    BY <1>2, <1>5
  <2>2. quiet' > WorkT + 2 * LedT => Right
    BY <1>1, <2>1 DEF SecondTurn
  <2> QED BY <1>1, <2>2 DEF AlarmDeadline, Right, TypeOK, LightTypes,
       CoilTypes, ContactTypes
<1> QED BY <1>3, <1>4, <1>6, <1>7, <1>8

LEMMA AlarmStep == ASSUME AlarmInv, [Next]_vars PROVE AlarmInv'
<1>1. TypeOK' BY StepTyped DEF AlarmInv
<1>2. CASE UNCHANGED vars
  BY <1>1, <1>2 DEF AlarmInv, vars, coil, worker, light, contact, WorkInTime,
     WorkRight, FirstTurn, SecondTurn, AlarmDeadline, Begun, Right, Excused
<1> QED
  BY <1>1, <1>2, DisturbedKeeps, WorkedKeeps, LedKeeps, TickKeeps
     DEF Next, Disturbed, Worked, LedStep

(* A contactor that is where the output should not have it is reported,    *)
(* and a sound one is not, once output and contact have been quiet for the *)
(* delay of the work and two turns of the light task.                      *)
THEOREM AlarmInTime == Spec => []AlarmDeadline
<1>1. Init => AlarmInv
  <2> SUFFICES ASSUME Init PROVE AlarmInv
    OBVIOUS
  <2>1. quiet = 0 /\ Begun = -LedT BY ContactorAssumption DEF Init, Begun
  <2>2. ~(Begun > WorkT) /\ ~(Begun > WorkT + LedT)
        /\ ~(quiet > WorkT + 2 * LedT)
    BY <2>1, ContactorAssumption
  <2>3. WorkInTime BY <2>1, ContactorAssumption DEF Init, WorkInTime
  <2>4. WorkRight BY DEF Init, WorkRight
  <2> QED BY <2>2, <2>3, <2>4, InitTyped DEF AlarmInv, FirstTurn, SecondTurn,
       AlarmDeadline
<1>2. AlarmInv => AlarmDeadline
  BY DEF AlarmInv
<1> QED BY <1>1, <1>2, AlarmStep, PTL DEF Spec

-----------------------------------------------------------------------------
(* Whole quotients: what the divisor goes into, and what it does not. *)
LEMMA WholeQuotient ==
  ASSUME NEW a \in Nat, NEW b \in Nat \ {0}
  PROVE  /\ a \div b \in Nat
         /\ b * (a \div b) <= a
         /\ a < b * (a \div b) + b
OBVIOUS

LEMMA QuotientAtLeast ==
  ASSUME NEW a \in Nat, NEW b \in Nat \ {0}, NEW k \in Int, k * b <= a
  PROVE  k <= a \div b
<1> DEFINE q == a \div b
<1>1. q \in Nat /\ a < b * q + b
  BY WholeQuotient
<1> HIDE DEF q
<1>2. k * b < (q + 1) * b
  BY <1>1
<1>3. k < q + 1
  BY <1>1, <1>2
<1> QED BY <1>1, <1>3 DEF q

LEMMA QuotientBelow ==
  ASSUME NEW a \in Nat, NEW b \in Nat \ {0}, NEW k \in Int, a < k * b
  PROVE  a \div b < k
<1> DEFINE q == a \div b
<1>1. q \in Nat /\ b * q <= a
  BY WholeQuotient
<1> HIDE DEF q
<1>2. q * b < k * b
  BY <1>1
<1>3. q < k
  BY <1>1, <1>2
<1> QED BY <1>3 DEF q

LEMMA QuotientAtMost ==
  ASSUME NEW a \in Nat, NEW b \in Nat \ {0}, NEW k \in Int, a <= k * b
  PROVE  a \div b <= k
<1>1. a < (k + 1) * b
  OBVIOUS
<1>2. a \div b < k + 1
  BY <1>1, QuotientBelow
<1> QED BY <1>2, WholeQuotient

(* Of two entries the one with the larger resistance is the colder one. *)
LEMMA TableFalls ==
  /\ Last \in Nat /\ Hot < Last /\ Hot = 116 /\ Cold = 9
  /\ \A i \in 0..Last : ResVal[i] \in Nat
  /\ \A i, j \in 0..Last : i < j <=> ResVal[i] > ResVal[j]
  /\ \A i, j \in 0..Last : i <= j <=> ResVal[i] >= ResVal[j]
<1>1. /\ Last \in Nat /\ Hot < Last /\ Hot = 116 /\ Cold = 9
      /\ \A i \in 0..Last : ResVal[i] \in Nat
  <2>1. Last \in Nat /\ Hot < Last /\ ResVal \in [0..Last -> Nat]
    BY TableAssumption
  <2>2. Hot = 116 /\ Cold = 9
    BY DEF Hot, Cold, Entry, TEMP_MAX, TEMP_MIN
  <2> QED BY <2>1, <2>2
<1>2. \A i, j \in 0..Last : i < j => ResVal[i] > ResVal[j]
  BY TableAssumption
<1>3. \A i, j \in 0..Last : ResVal[i] > ResVal[j] => i < j
  <2> TAKE i, j \in 0..Last
  <2>1. i = j \/ i < j \/ j < i
    OBVIOUS
  <2> QED BY <1>1, <1>2, <2>1
<1>4. \A i, j \in 0..Last : i <= j <=> ResVal[i] >= ResVal[j]
  <2> TAKE i, j \in 0..Last
  <2>1. j < i <=> ResVal[j] > ResVal[i]
    BY <1>2, <1>3
  <2> QED BY <1>1, <2>1
<1> QED BY <1>1, <1>2, <1>3, <1>4

-----------------------------------------------------------------------------
(* A line from the entry before i to the one after it, beyond i: it is at  *)
(* most half way up at i, since the table flattens, and at its end at      *)
(* i + 1.                                                                  *)
LEMMA ChordValue ==
  ASSUME NEW i \in 1..(Last - 1), NEW r \in Nat, r < ResVal[i]
  PROVE  Chord(i - 1, i + 1, r)
           = (512 * (ResVal[i - 1] - r)) \div (ResVal[i - 1] - ResVal[i + 1])
               + Celsius(i - 1) * 256
<1> DEFINE a == ResVal[i - 1]
           b == ResVal[i + 1]
<1>1. a \in Nat /\ b \in Nat /\ b < a /\ r < a
  BY TableFalls
<1> HIDE DEF a, b
<1>2. ((i + 1) - (i - 1)) * (r - a) * 256 = -(512 * (a - r))
  BY <1>1
<1>3. Quot(-(512 * (a - r)), b - a) = (512 * (a - r)) \div (a - b)
  <2>1. -(512 * (a - r)) < 0 /\ b - a < 0
    BY <1>1
  <2>2. /\ Magnitude(-(512 * (a - r))) = 512 * (a - r)
        /\ Magnitude(b - a) = a - b
    BY <1>1, <2>1 DEF Magnitude
  <2> QED BY <2>1, <2>2 DEF Quot
<1>4. Chord(i - 1, i + 1, r)
        = Quot(((i + 1) - (i - 1)) * (r - a) * 256, b - a)
            + Celsius(i - 1) * 256
  BY DEF Chord, a, b
<1> QED BY <1>2, <1>3, <1>4 DEF a, b

LEMMA ChordBounds ==
  ASSUME NEW i \in 1..(Last - 1), NEW r \in Nat, r < ResVal[i]
  PROVE  /\ Chord(i - 1, i + 1, r) \in Int
         /\ Celsius(i) * 256 <= Chord(i - 1, i + 1, r)
         /\ r <= ResVal[i + 1] =>
              Celsius(i + 1) * 256 <= Chord(i - 1, i + 1, r)
         /\ r >= ResVal[i + 1] =>
              Chord(i - 1, i + 1, r) <= Celsius(i + 1) * 256
         /\ r > ResVal[i + 1] =>
              Chord(i - 1, i + 1, r) < Celsius(i + 1) * 256
<1> DEFINE a == 512 * (ResVal[i - 1] - r)
           b == ResVal[i - 1] - ResVal[i + 1]
           q == a \div b
<1>1. /\ ResVal[i - 1] \in Nat /\ ResVal[i] \in Nat /\ ResVal[i + 1] \in Nat
      /\ ResVal[i - 1] > ResVal[i] /\ ResVal[i] > ResVal[i + 1]
      /\ ResVal[i - 1] - ResVal[i] >= ResVal[i] - ResVal[i + 1]
  BY TableFalls, TableAssumption
<1>2. a \in Nat /\ b \in Nat \ {0}
  BY <1>1
<1>3. Chord(i - 1, i + 1, r) = q + (i - 41) * 256
  BY ChordValue DEF Celsius
<1>4. q \in Nat /\ 256 <= q
  <2>1. 256 * b <= a BY <1>1
  <2> HIDE DEF a, b
  <2> QED BY <1>2, <2>1, WholeQuotient, QuotientAtLeast
<1>5. r <= ResVal[i + 1] => 512 <= q
  <2>1. r <= ResVal[i + 1] => 512 * b <= a BY <1>1
  <2> HIDE DEF a, b
  <2> QED BY <1>2, <2>1, QuotientAtLeast
<1>6. r >= ResVal[i + 1] => q <= 512
  <2>1. r >= ResVal[i + 1] => a <= 512 * b BY <1>1
  <2> HIDE DEF a, b
  <2> QED BY <1>2, <2>1, QuotientAtMost
<1>7. r > ResVal[i + 1] => q < 512
  <2>1. r > ResVal[i + 1] => a < 512 * b BY <1>1
  <2> HIDE DEF a, b
  <2> QED BY <1>2, <2>1, QuotientBelow
<1> HIDE DEF q
<1> QED BY <1>1, <1>3, <1>4, <1>5, <1>6, <1>7 DEF Celsius

(* Beyond the cold limit the line is above it by a 256th at least. *)
LEMMA ChordWarm ==
  ASSUME NEW r \in Nat, r < ResVal[Cold]
  PROVE  Celsius(Cold) * 256 < Chord(Cold - 1, Cold + 1, r)
<1> DEFINE a == 512 * (ResVal[Cold - 1] - r)
           b == ResVal[Cold - 1] - ResVal[Cold + 1]
           q == a \div b
<1>1. Cold \in 1..(Last - 1) /\ Cold = 9
  BY TableFalls
<1>2. /\ ResVal[Cold - 1] \in Nat /\ ResVal[Cold] \in Nat
      /\ ResVal[Cold + 1] \in Nat
      /\ ResVal[Cold - 1] > ResVal[Cold] /\ ResVal[Cold] > ResVal[Cold + 1]
  BY <1>1, TableFalls
<1>3. 257 * b <= 512 * (ResVal[Cold - 1] - ResVal[Cold] + 1)
  BY TableAssumption
<1>4. a \in Nat /\ b \in Nat \ {0} /\ 257 * b <= a
  BY <1>2, <1>3
<1>5. Chord(Cold - 1, Cold + 1, r) = q + Celsius(Cold - 1) * 256
  BY <1>1, ChordValue
<1>6. q \in Nat /\ 257 <= q
  <2> HIDE DEF a, b
  <2> QED BY <1>4, WholeQuotient, QuotientAtLeast
<1> HIDE DEF q
<1> QED BY <1>1, <1>5, <1>6 DEF Celsius

(* Temperatures fit their int16_t. *)
LEMMA EndFits ==
  /\ Celsius(Last) * 256 <= 32767
  /\ \A r \in Nat : r < ResVal[Last - 1] => Chord(Last - 2, Last, r) <= 32767
<1> DEFINE b == ResVal[Last - 2] - ResVal[Last]
           k == 32767 - 256 * Celsius(Last - 2)
<1>1. Last \in Nat /\ Last > 116 /\ Last - 1 \in 1..(Last - 1)
  BY TableFalls
<1>2. /\ ResVal[Last - 2] \in Nat /\ ResVal[Last - 1] \in Nat
      /\ ResVal[Last] \in Nat
      /\ ResVal[Last - 2] > ResVal[Last - 1]
      /\ ResVal[Last - 1] > ResVal[Last]
  BY <1>1, TableFalls
<1>3. b \in Nat \ {0} /\ k \in Int /\ b <= ResVal[Last - 2]
  BY <1>1, <1>2 DEF Celsius
<1>4. 512 * ResVal[Last - 2] <= k * b
  BY TableAssumption
<1>5. Celsius(Last) * 256 <= 32767
  <2>1. 512 <= k
    <3> HIDE DEF b, k
    <3>1. 512 * b <= k * b BY <1>2, <1>3, <1>4
    <3> QED BY <1>3, <3>1
  <2> QED BY <1>1, <2>1 DEF Celsius
<1>6. ASSUME NEW r \in Nat, r < ResVal[Last - 1]
      PROVE  Chord(Last - 2, Last, r) <= 32767
  <2> DEFINE a == 512 * (ResVal[Last - 2] - r)
             q == a \div b
  <2>1. a \in Nat /\ a <= 512 * ResVal[Last - 2]
    BY <1>2, <1>6
  <2>2. q \in Nat /\ q <= k
    <3> HIDE DEF a, b, k
    <3>1. a <= k * b
      <4>1. k * b \in Int BY <1>3
      <4> QED BY <1>2, <1>4, <2>1, <4>1
    <3> QED BY <1>3, <2>1, <3>1, WholeQuotient, QuotientAtMost
  <2>3. Chord(Last - 2, Last, r) = q + Celsius(Last - 2) * 256
    <3> DEFINE i == Last - 1
    <3>1. /\ i \in 1..(Last - 1) /\ r < ResVal[i]
          /\ i - 1 = Last - 2 /\ i + 1 = Last
      BY <1>1, <1>6
    <3> HIDE DEF i
    <3> QED BY <3>1, ChordValue
  <2> HIDE DEF q
  <2> QED BY <1>1, <2>2, <2>3 DEF Celsius
<1> QED BY <1>5, <1>6

-----------------------------------------------------------------------------
(* What ntc_res_to_temp returns for a resistance: a temperature that fits, *)
(* within its degree, and on the right side of both limits.                *)
Fits(t) == t \in Int /\ -32768 <= t /\ t <= 32767   \* int16_t

Judged(t, r) ==
  /\ Fits(t)
  /\ \A i \in 0..(Last - 1) :
       (ResVal[i] >= r /\ r >= ResVal[i + 1]) =>
         (Celsius(i) * 256 <= t /\ t <= Celsius(i + 1) * 256)
  /\ (TEMP_MAX + 1) * 256 <= t <=> r <= ResVal[Hot]
  /\ t <= (TEMP_MIN - 1) * 256 <=> r >= ResVal[Cold]

LEMMA EntryRight ==
  ASSUME NEW m \in 0..Last PROVE Judged(Celsius(m) * 256, ResVal[m])
<1> DEFINE t == Celsius(m) * 256
<1>1. Fits(t)
  <2>1. t <= Celsius(Last) * 256 BY TableFalls DEF Celsius
  <2>2. t \in Int /\ -10240 <= t BY DEF Celsius
  <2> HIDE DEF t
  <2> QED BY <2>1, <2>2, EndFits, TableFalls DEF Fits, Celsius
<1>2. \A i \in 0..(Last - 1) :
        (ResVal[i] >= ResVal[m] /\ ResVal[m] >= ResVal[i + 1]) =>
          (Celsius(i) * 256 <= t /\ t <= Celsius(i + 1) * 256)
  <2> TAKE i \in 0..(Last - 1)
  <2> HAVE ResVal[i] >= ResVal[m] /\ ResVal[m] >= ResVal[i + 1]
  <2>1. i <= m /\ m <= i + 1
    BY TableFalls
  <2> QED BY <2>1, TableFalls DEF Celsius
<1>3. (TEMP_MAX + 1) * 256 <= t <=> ResVal[m] <= ResVal[Hot]
  <2>1. ResVal[m] <= ResVal[Hot] <=> 116 <= m
    BY TableFalls
  <2> QED BY <2>1 DEF TEMP_MAX, Celsius
<1>4. t <= (TEMP_MIN - 1) * 256 <=> ResVal[m] >= ResVal[Cold]
  <2>1. ResVal[m] >= ResVal[Cold] <=> m <= 9
    BY TableFalls
  <2> QED BY <2>1 DEF TEMP_MIN, Celsius
<1> QED BY <1>1, <1>2, <1>3, <1>4 DEF Judged

(* Between lo and the entry after it, or beyond the last entry. *)
LEMMA LineRight ==
  ASSUME NEW r \in Nat, NEW lo \in 1..(Last - 1), r < ResVal[lo],
         lo + 1 # Last => ResVal[lo + 1] < r
  PROVE  Judged(Chord(lo - 1, lo + 1, r), r)
<1> DEFINE t == Chord(lo - 1, lo + 1, r)
<1>1. /\ t \in Int /\ Celsius(lo) * 256 <= t
      /\ r <= ResVal[lo + 1] => Celsius(lo + 1) * 256 <= t
      /\ r >= ResVal[lo + 1] => t <= Celsius(lo + 1) * 256
      /\ r > ResVal[lo + 1] => t < Celsius(lo + 1) * 256
  BY ChordBounds
<1>2. lo = Cold => Celsius(Cold) * 256 < t
  BY ChordWarm
<1>3. lo + 1 = Last => t <= 32767
  <2> SUFFICES ASSUME lo + 1 = Last PROVE t <= 32767
    OBVIOUS
  <2>1. lo - 1 = Last - 2 /\ lo = Last - 1
    BY TableFalls
  <2> QED BY <2>1, EndFits
<1> HIDE DEF t
<1>4. Fits(t)
  <2>1. Celsius(Last) * 256 <= 32767 BY EndFits
  <2>2. CASE lo + 1 = Last
    BY <1>1, <1>3, <2>2, TableFalls DEF Celsius, Fits
  <2>3. CASE lo + 1 # Last
    BY <1>1, <2>1, <2>3, TableFalls DEF Celsius, Fits
  <2> QED BY <2>2, <2>3
<1>5. \A i \in 0..(Last - 1) :
        (ResVal[i] >= r /\ r >= ResVal[i + 1]) =>
          (Celsius(i) * 256 <= t /\ t <= Celsius(i + 1) * 256)
  <2> TAKE i \in 0..(Last - 1)
  <2> HAVE ResVal[i] >= r /\ r >= ResVal[i + 1]
  <2>1. i + 1 \in 0..Last /\ lo + 1 \in 0..Last /\ Last \in Nat
    BY TableFalls
  <2>2. ResVal[lo] > ResVal[i + 1]
    BY <2>1, TableFalls
  <2>3. lo <= i
    BY <2>1, <2>2, TableFalls
  <2>4. lo + 1 # Last => i < lo + 1
    <3> SUFFICES ASSUME lo + 1 # Last PROVE i < lo + 1
      OBVIOUS
    <3>1. ResVal[i] > ResVal[lo + 1]
      BY <2>1, TableFalls
    <3> QED BY <2>1, <3>1, TableFalls
  <2>5. i = lo
    BY <2>1, <2>3, <2>4
  <2> QED BY <1>1, <2>5
<1>6. (TEMP_MAX + 1) * 256 <= t <=> r <= ResVal[Hot]
  <2>1. Hot = 116 /\ Hot \in 0..Last /\ Last \in Nat /\ lo + 1 \in 0..Last
        /\ ResVal[Hot] \in Nat /\ ResVal[lo] \in Nat /\ ResVal[lo + 1] \in Nat
    BY TableFalls
  <2>2. CASE Hot <= lo
    <3>1. ResVal[lo] <= ResVal[Hot] BY <2>1, <2>2, TableFalls
    <3> QED BY <1>1, <2>1, <2>2, <3>1 DEF TEMP_MAX, Celsius
  <2>3. CASE lo + 1 <= Hot
    <3>1. ResVal[Hot] <= ResVal[lo + 1] /\ lo + 1 # Last
      BY <2>1, <2>3, TableFalls
    <3> QED BY <1>1, <2>1, <2>3, <3>1 DEF TEMP_MAX, Celsius
  <2> QED BY <2>1, <2>2, <2>3
<1>7. t <= (TEMP_MIN - 1) * 256 <=> r >= ResVal[Cold]
  <2>1. Cold = 9 /\ Cold \in 0..Last /\ Last \in Nat /\ lo + 1 \in 0..Last
        /\ ResVal[Cold] \in Nat /\ ResVal[lo] \in Nat
        /\ ResVal[lo + 1] \in Nat
    BY TableFalls
  <2>2. CASE Cold < lo
    <3>1. ResVal[lo] < ResVal[Cold] BY <2>1, <2>2, TableFalls
    <3> QED BY <1>1, <2>1, <2>2, <3>1 DEF TEMP_MIN, Celsius
  <2>3. CASE Cold = lo
    BY <1>1, <1>2, <2>1, <2>3 DEF TEMP_MIN, Celsius
  <2>4. CASE lo < Cold
    <3>1. ResVal[Cold] <= ResVal[lo + 1] /\ lo + 1 # Last
      <4>1. Hot < Last /\ Hot = 116 BY TableFalls
      <4> QED BY <2>1, <2>4, <4>1, TableFalls
    <3> QED BY <1>1, <2>1, <2>4, <3>1 DEF TEMP_MIN, Celsius
  <2> QED BY <2>1, <2>2, <2>3, <2>4
<1> QED BY <1>4, <1>5, <1>6, <1>7 DEF Judged, t

-----------------------------------------------------------------------------
(* The invariant of the temperature.  While the search goes on, there is   *)
(* an entry between its ends, and the resistance is between theirs, where  *)
(* they have moved; what it has found is right, and so are the degrees.    *)
TempTypes ==
  /\ at \in {"read", "search", "found", "told"}
  /\ res \in Nat /\ low \in 0..Last /\ high \in 0..Last
  /\ temp \in Int /\ tempAlarm \in BOOLEAN

Bracketed ==
  /\ high - low > 1
  /\ low # 0 => res < ResVal[low]
  /\ high # Last => ResVal[high] < res

DegreesRight ==
  /\ temp > TEMP_MAX <=> res <= ResVal[Hot]
  /\ temp < TEMP_MIN <=> res >= ResVal[Cold]

TempInv ==
  /\ TempTypes
  /\ at = "search" => Bracketed
  /\ (at = "found" /\ InTable) => Judged(temp, res)
  /\ (at = "told" /\ InTable) => DegreesRight

LEMMA ResistanceTyped == \A mv \in Millivolts : NtcRes(mv) \in Nat
<1> TAKE mv \in Millivolts
<1>1. CASE mv = 0 BY <1>1 DEF NtcRes
<1>2. CASE mv # 0
  <2>0. mv \in Int /\ 0 <= mv /\ mv <= 3300 BY DEF Millivolts
  <2> DEFINE a == (3300 - mv) * 10000
  <2>1. a \in Nat /\ mv \in Nat \ {0} BY <1>2, <2>0
  <2> HIDE DEF a
  <2>2. a \div mv \in Nat BY <2>1, WholeQuotient
  <2> QED BY <1>2, <2>2 DEF NtcRes, a
<1> QED BY <1>1, <1>2

(* Half of a range with an entry between its ends. *)
LEMMA MidBetween ==
  ASSUME TempTypes, Bracketed
  PROVE  Mid \in 1..(Last - 1) /\ low < Mid /\ Mid < high
BY TableFalls DEF TempTypes, Bracketed, Mid

(* What is left of a range: two neighbours, or some between the ends. *)
LEMMA Neighbours ==
  ASSUME NEW lo \in 0..Last, NEW hi \in 0..Last
  PROVE  /\ (hi - lo = 1 /\ lo # 0) => lo \in 1..(Last - 1) /\ hi = lo + 1
         /\ (hi - lo >= 1 /\ hi - lo # 1) => hi - lo > 1
<1>1. Last \in Nat BY TableFalls
<1> QED BY <1>1

(* A turn of the search keeps the resistance between the ends. *)
LEMMA HalveNarrows ==
  ASSUME TempTypes, Bracketed, Halve
  PROVE  /\ low' \in 0..Last /\ high' \in 0..Last
         /\ high' - low' < high - low /\ high' - low' >= 1
         /\ low' # 0 => res' < ResVal[low']
         /\ high' # Last => ResVal[high'] < res'
<1>1. Mid \in 1..(Last - 1) /\ low < Mid /\ Mid < high
  BY MidBetween
<1>2. /\ res' = res
      /\ \/ res > ResVal[Mid] /\ low' = low /\ high' = Mid
         \/ res < ResVal[Mid] /\ low' = Mid /\ high' = high
  BY DEF Halve
<1> QED BY <1>1, <1>2, TableFalls DEF TempTypes, Bracketed

LEMMA DegreesOf ==
  ASSUME NEW t \in Int
  PROVE  /\ Degrees(t) \in Int
         /\ Degrees(t) > TEMP_MAX <=> (TEMP_MAX + 1) * 256 <= t
         /\ Degrees(t) < TEMP_MIN <=> t <= (TEMP_MIN - 1) * 256
BY DEF Degrees, Quot, Magnitude, TEMP_MAX, TEMP_MIN

LEMMA TempStep == ASSUME TempInv, [TempNext]_tempVars PROVE TempInv'
<1>1. CASE \E mv \in Millivolts : Sample(mv)
  <2>1. PICK mv \in Millivolts : Sample(mv) BY <1>1
  <2>2. /\ res' \in Nat /\ at' = "search" /\ low' = 0 /\ high' = Last
        /\ UNCHANGED <<temp, tempAlarm>>
    BY <2>1, ResistanceTyped DEF Sample
  <2>3. TempTypes' BY <2>2, TableFalls DEF TempInv, TempTypes
  <2>4. Bracketed' BY <2>2, TableFalls DEF Bracketed
  <2> QED BY <2>2, <2>3, <2>4 DEF TempInv
<1>2. CASE Meet
  <2>1. Mid \in 1..(Last - 1)
    BY <1>2, MidBetween DEF TempInv, Meet
  <2>2. temp' = Celsius(Mid) * 256 /\ res' = ResVal[Mid] /\ at' = "found"
    BY <1>2 DEF Meet
  <2>3. Judged(temp', res')
    BY <2>1, <2>2, EntryRight, TableFalls
  <2>4. TempTypes'
    BY <1>2, <2>3 DEF TempInv, TempTypes, Meet, Judged, Fits
  <2> QED BY <2>2, <2>3, <2>4 DEF TempInv
<1>3. CASE Halve
  <2>1. TempTypes /\ Bracketed BY <1>3 DEF TempInv, Halve
  <2>2. /\ low' \in 0..Last /\ high' \in 0..Last /\ high' - low' >= 1
        /\ low' # 0 => res' < ResVal[low']
        /\ high' # Last => ResVal[high'] < res'
    BY <1>3, <2>1, HalveNarrows
  <2>3. res' = res /\ res \in Nat /\ tempAlarm' = tempAlarm
    BY <1>3, <2>1 DEF Halve, TempTypes
  <2>4. CASE at' = "search" /\ high' - low' # 1 /\ temp' = temp
    <3>1. Bracketed'
      <4>1. /\ low' \in 0..Last /\ high' \in 0..Last
            /\ high' - low' >= 1 /\ high' - low' # 1
        BY <2>2, <2>4
      <4>2. high' - low' > 1 BY <4>1, Neighbours
      <4> QED BY <2>2, <4>2 DEF Bracketed
    <3>2. TempTypes' BY <2>1, <2>2, <2>3, <2>4 DEF TempTypes
    <3> QED BY <2>4, <3>1, <3>2 DEF TempInv
  <2>5. CASE /\ at' = "found" /\ high' - low' = 1
             /\ temp' \in Interpolated(low', high', res)
    <3>1. CASE low' = 0
      <4>1. high' = 1 /\ high' # Last BY <2>2, <2>5, <3>1, TableFalls
      <4>2. ~InTable'
        <5>1. ResVal[1] < res' /\ ResVal[1] \in Nat
          BY <2>2, <4>1, TableFalls
        <5> QED BY <2>3, <5>1 DEF InTable
      <4>3. temp' \in Int
        BY <2>5, <3>1 DEF Interpolated, TEMP_MIN, TEMP_MAX
      <4>4. TempTypes' BY <2>1, <2>2, <2>3, <2>5, <4>3 DEF TempTypes
      <4> QED BY <2>5, <4>2, <4>4 DEF TempInv
    <3>2. CASE low' # 0
      <4>1. /\ low' \in 1..(Last - 1) /\ high' = low' + 1
        <5>1. /\ Last \in Nat /\ low' \in 0..Last /\ high' \in 0..Last
              /\ high' - low' = 1 /\ low' # 0
          BY <2>2, <2>5, <3>2, TableFalls
        <5> QED BY <5>1, Neighbours
      <4>2. temp' = Chord(low' - 1, low' + 1, res)
        BY <2>5, <3>2, <4>1 DEF Interpolated
      <4>3. Judged(temp', res')
        BY <2>2, <2>3, <3>2, <4>1, <4>2, LineRight
      <4>4. TempTypes'
        BY <2>1, <2>2, <2>3, <2>5, <4>3 DEF TempTypes, Judged, Fits
      <4> QED BY <2>5, <4>3, <4>4 DEF TempInv
    <3> QED BY <3>1, <3>2
  <2> QED BY <1>3, <2>4, <2>5 DEF Halve, Wide
<1>4. CASE TellTemp
  <2>1. /\ at = "found" /\ at' = "told" /\ temp' = Degrees(temp)
        /\ UNCHANGED <<res, low, high, tempAlarm>>
    BY <1>4 DEF TellTemp
  <2>2. TempTypes'
    BY <2>1, DegreesOf DEF TempInv, TempTypes
  <2>3. InTable' => DegreesRight'
    BY <2>1, DegreesOf DEF TempInv, TempTypes, InTable, DegreesRight, Judged
  <2> QED BY <2>1, <2>2, <2>3 DEF TempInv
<1>5. CASE TellErrTemp
  BY <1>5, TableFalls DEF TellErrTemp, TempInv, TempTypes
<1>6. CASE UNCHANGED tempVars
  BY <1>6 DEF tempVars, TempInv, TempTypes, Bracketed, InTable, DegreesRight
<1> QED BY <1>1, <1>2, <1>3, <1>4, <1>5, <1>6 DEF TempNext

THEOREM TempInvHolds == TempSpec => []TempInv
<1>1. TempInit => TempInv
  <2> SUFFICES ASSUME TempInit PROVE TempInv
    OBVIOUS
  <2>1. Last \in Nat BY TableFalls
  <2>2. 0 \in 0..Last /\ Last \in 0..Last BY <2>1
  <2>3. TempTypes
    <3>1. low \in 0..Last /\ high \in 0..Last
      BY <2>2, Zenon DEF TempInit
    <3>2. res \in Nat /\ temp \in Int
      BY DEF TempInit
    <3>3. at \in {"read", "search", "found", "told"} /\ tempAlarm \in BOOLEAN
      BY DEF TempInit
    <3> QED BY <3>1, <3>2, <3>3 DEF TempTypes
  <2>4. at = "read" BY DEF TempInit
  <2> QED BY <2>3, <2>4 DEF TempInv
<1> QED BY <1>1, TempStep, PTL DEF TempSpec

(* For every table that falls and flattens, a resistance between two of    *)
(* its entries is given a temperature between theirs (ntc_res_to_temp).    *)
THEOREM DegreeKept == TempSpec => []WithinDegree
<1>1. TempInv => WithinDegree
  BY DEF TempInv, Judged, WithinDegree
<1> QED BY <1>1, TempInvHolds, PTL

(* The while (1) of ntc_res_to_temp narrows its range at every turn, and   *)
(* goes on only with a range that can be halved.                           *)
THEOREM SearchEnds == TempSpec => SearchNarrows
<1>1. TempInv /\ TempInv' /\ [TempNext]_tempVars
        => [(at = "search" /\ at' = "search") =>
              (high' - low' < high - low /\ high' - low' > 1)]_tempVars
  <2> SUFFICES ASSUME TempInv, TempInv', TempNext,
                      at = "search", at' = "search"
               PROVE  high' - low' < high - low /\ high' - low' > 1
    OBVIOUS
  <2>1. Halve
    BY DEF TempNext, Sample, Meet, TellTemp, TellErrTemp
  <2>2. high' - low' < high - low
    BY <2>1, HalveNarrows DEF TempInv
  <2> QED BY <2>2 DEF TempInv, Bracketed
<1> QED BY <1>1, TempInvHolds, PTL DEF TempSpec, SearchNarrows

(* For every such table the alarm of the temperature is raised exactly on  *)
(* the wrong side of its two limits (temp_task_entry).                     *)
THEOREM LimitsKept == TempSpec => LimitsRight
<1>1. TempInv
        => [(TellErrTemp /\ InTable) =>
              tempAlarm' = (\/ res <= AtCelsius(TEMP_MAX + 1)
                            \/ res >= AtCelsius(TEMP_MIN - 1))]_tempVars
  <2> SUFFICES ASSUME TempInv, TellErrTemp, InTable
               PROVE  tempAlarm' = (\/ res <= AtCelsius(TEMP_MAX + 1)
                                    \/ res >= AtCelsius(TEMP_MIN - 1))
    OBVIOUS
  <2>1. tempAlarm' = (temp > TEMP_MAX \/ temp < TEMP_MIN)
    BY DEF TellErrTemp
  <2>2. DegreesRight
    BY DEF TempInv, TellErrTemp
  <2> QED BY <2>1, <2>2 DEF DegreesRight, AtCelsius, Hot, Cold
<1> QED BY <1>1, TempInvHolds, PTL DEF TempSpec, LimitsRight
=============================================================================
