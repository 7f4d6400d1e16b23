----------------------------- MODULE Contactor -----------------------------
(***************************************************************************)
(* The check of the contactor: three tasks and one flag.  The controller   *)
(* switches the output (charger.c, charger_ac_output_enable) and disarms   *)
(* the check; delayed work told to run a second later (ac_detect_work_     *)
(* entry) tells the pile record what the output should be and arms the     *)
(* check; the light task (led_task.c) compares that with the contact once  *)
(* a second.  One unit of time is half a second.                           *)
(***************************************************************************)
EXTENDS Integers

CONSTANTS
  WorkT,     \* delay of the work, 1000 ms
  LedT,      \* PILE_TASK_PERIOD, 1000 ms
  MoveT,     \* the contactor's own time, 0.3 to 0.5 s
  CutT,      \* how long the controller may let the output stand after an
             \* emergency stop: CHARGER_ERR_TIMEOUT_MS in role err
  QuietMax,  \* bound of the history variable quiet
  Scram      \* the emergency stop may be pressed

ASSUME ContactorAssumption ==
  /\ WorkT \in Nat \ {0} /\ LedT \in Nat \ {0} /\ MoveT \in Nat \ {0}
  /\ CutT \in Nat /\ QuietMax \in Nat
  /\ Scram \in BOOLEAN

Off == -1      \* the work is not waiting to run

VARIABLES
  pin,       \* ACP1000_DOUT_AC
  enable,    \* dat.ac_enable
  need,      \* g_need_ac_check
  switch,    \* where charger_ac_output_enable is, and what it switches to
  target,
  timer,     \* until the work runs, or Off
  work,      \* where ac_detect_work_entry is, and its copy of ac_enable
  wEnable,
  acState,   \* pile_dat.charge_ac_state
  led,       \* where the light task is in its turn
  ledState,  \* its copy of charge_ac_state, of the contact, its verdict
  ledClosed,
  verdict,
  errCnt,    \* ac_err_cnt
  ledAge,    \* since its last turn began
  alarm,     \* PILE_ALARM_ACLOCK
  closed,    \* the contact (ACP1000_DIN_AC1 = 0)
  stuck,     \* the contact does not follow the pin
  moveAge,   \* for how long it has been free to follow
  cutAge,    \* for how long the output is to be cut after an emergency stop
  quiet      \* history: since the last change of output or contact

coil    == <<pin, enable, need, switch, target, timer>>
worker  == <<work, wEnable, acState>>
light   == <<led, ledState, ledClosed, verdict, errCnt, ledAge, alarm>>
contact == <<closed, stuck, moveAge>>
vars == <<coil, worker, light, contact, cutAge, quiet>>

CoilTypes ==
  /\ pin \in BOOLEAN /\ enable \in BOOLEAN /\ need \in BOOLEAN
  /\ switch \in {"idle", "locked", "timer"} /\ target \in BOOLEAN
  /\ timer \in 0..WorkT \cup {Off}
WorkerTypes ==
  /\ work \in {"idle", "tell", "arm"} /\ wEnable \in BOOLEAN
  /\ acState \in BOOLEAN
LightTypes ==
  /\ led \in {"idle", "pin", "judge", "tell"}
  /\ ledState \in BOOLEAN /\ ledClosed \in BOOLEAN /\ verdict \in BOOLEAN
  /\ errCnt \in 0..1 /\ ledAge \in 0..LedT /\ alarm \in BOOLEAN
ContactTypes ==
  closed \in BOOLEAN /\ stuck \in BOOLEAN /\ moveAge \in 0..MoveT

(* The variables have their types. *)
TypeOK == /\ CoilTypes /\ WorkerTypes /\ LightTypes /\ ContactTypes
          /\ cutAge \in 0..CutT /\ quiet \in 0..QuietMax

Init ==
  /\ pin = FALSE /\ enable = FALSE /\ need = TRUE
  /\ switch = "idle" /\ target = FALSE /\ timer = Off
  /\ work = "idle" /\ wEnable = FALSE /\ acState = FALSE
  /\ led = "idle" /\ ledState = FALSE /\ ledClosed = FALSE /\ verdict = FALSE
  /\ errCnt = 0 /\ ledAge = LedT /\ alarm = FALSE
  /\ closed = FALSE /\ stuck = FALSE /\ moveAge = 0
  /\ cutAge = 0 /\ quiet = 0

-----------------------------------------------------------------------------
(* charger_ac_output_enable: the pin and the flag at once, ac_enable under *)
(* the lock of the device, then the work is put off to a second from now.  *)
SwitchBegin(on) ==
  /\ switch = "idle"
  /\ pin' = on /\ target' = on /\ switch' = "locked"
  /\ need' = FALSE
  /\ moveAge' = 0 /\ cutAge' = 0 /\ quiet' = 0
  /\ UNCHANGED <<enable, timer, worker, light, closed, stuck>>

SwitchEnable ==
  /\ switch = "locked"
  /\ enable' = target /\ switch' = "timer"
  /\ UNCHANGED <<pin, need, target, timer, worker, light, contact, cutAge,
                 quiet>>

SwitchTimer ==
  /\ switch = "timer"
  /\ timer' = WorkT /\ switch' = "idle"
  /\ UNCHANGED <<pin, enable, need, target, worker, light, contact, cutAge,
                 quiet>>

(* pile.c: the emergency stop takes the pin low behind the controller's    *)
(* back; the controller switches off at its next poll, or, in role err, at *)
(* the latest when its patience with the car ends.                         *)
ScramPressed ==
  /\ Scram /\ pin /\ switch = "idle"
  /\ pin' = FALSE
  /\ moveAge' = 0 /\ cutAge' = 0 /\ quiet' = 0
  /\ UNCHANGED <<enable, need, switch, target, timer, worker, light, closed,
                 stuck>>

-----------------------------------------------------------------------------
(* ac_detect_work_entry. *)
WorkRead ==
  /\ timer = 0 /\ work = "idle"
  /\ wEnable' = enable /\ work' = "tell" /\ timer' = Off
  /\ UNCHANGED <<pin, enable, need, switch, target, acState, light, contact,
                 cutAge, quiet>>

(* CHARGE_AC_STATE, once the event mutex is free. *)
WorkTell ==
  /\ work = "tell"
  /\ acState' = wEnable /\ work' = "arm"
  /\ UNCHANGED <<coil, wEnable, light, contact, cutAge, quiet>>

ArmLost == UNCHANGED need            \* a deliberately wrong variant
Arm == need' = TRUE

WorkArm ==
  /\ work = "arm"
  /\ Arm /\ work' = "idle"
  /\ UNCHANGED <<pin, enable, switch, target, timer, wEnable, acState, light,
                 contact, cutAge, quiet>>

-----------------------------------------------------------------------------
(* The turn of the light task: it copies charge_ac_state under the lock,   *)
(* reads the contact, and judges if the check is armed.                    *)
LedState ==
  /\ led = "idle" /\ ledAge = LedT
  /\ ledState' = acState /\ led' = "pin" /\ ledAge' = 0
  /\ UNCHANGED <<coil, worker, ledClosed, verdict, errCnt, alarm, contact,
                 cutAge, quiet>>

LedPin ==
  /\ led = "pin"
  /\ ledClosed' = closed /\ led' = "judge"
  /\ UNCHANGED <<coil, worker, ledState, verdict, errCnt, ledAge, alarm,
                 contact, cutAge, quiet>>

(* An open contact that should be closed is told at every second turn, a   *)
(* closed one that should be open at once.                                 *)
OpenTolerance == errCnt = 0

Tolerated == ledState /\ ~ledClosed /\ OpenTolerance

CountOpenMore == errCnt' = errCnt + 2   \* a deliberately wrong variant
CountOpen == errCnt' = 1

LedJudge ==
  /\ led = "judge"
  /\ \/ ~need /\ led' = "idle" /\ UNCHANGED <<verdict, errCnt>>
     \/ need /\ Tolerated /\ CountOpen /\ led' = "idle" /\ UNCHANGED verdict
     \/ /\ need /\ ~Tolerated
        /\ errCnt' = 0 /\ led' = "tell"
        /\ verdict' = (ledState # ledClosed)
  /\ UNCHANGED <<coil, worker, ledState, ledClosed, ledAge, alarm, contact,
                 cutAge, quiet>>

(* ERR_AC, once the event mutex is free; the pile record keeps the bit. *)
LedTell ==
  /\ led = "tell"
  /\ alarm' = verdict /\ led' = "idle"
  /\ UNCHANGED <<coil, worker, ledState, ledClosed, verdict, errCnt, ledAge,
                 contact, cutAge, quiet>>

-----------------------------------------------------------------------------
(* The contactor: it follows the pin within its own time, or it fails      *)
(* (welded, mains lost) and recovers.                                      *)
Follow ==
  /\ ~stuck /\ closed # pin
  /\ closed' = pin /\ quiet' = 0
  /\ UNCHANGED <<coil, worker, light, stuck, moveAge, cutAge>>

Fail(c) ==
  /\ ~stuck
  /\ stuck' = TRUE /\ closed' = c /\ quiet' = 0
  /\ UNCHANGED <<coil, worker, light, moveAge, cutAge>>

Recover ==
  /\ stuck
  /\ stuck' = FALSE /\ moveAge' = 0 /\ quiet' = 0
  /\ UNCHANGED <<coil, worker, light, closed, cutAge>>

Grow(age, max) == IF age < max THEN age + 1 ELSE max

(* Half a second passes: no task has anything to do. *)
Tick ==
  /\ switch = "idle" /\ work = "idle" /\ led = "idle"
  /\ timer # 0 /\ ledAge < LedT
  /\ (~stuck /\ closed # pin) => moveAge < MoveT
  /\ (enable # pin) => cutAge < CutT
  /\ timer' = IF timer = Off THEN Off ELSE timer - 1
  /\ ledAge' = ledAge + 1
  /\ moveAge' = Grow(moveAge, MoveT)
  /\ cutAge' = IF enable # pin THEN cutAge + 1 ELSE 0
  /\ quiet' = Grow(quiet, QuietMax)
  /\ UNCHANGED <<pin, enable, need, switch, target, worker, led, ledState,
                 ledClosed, verdict, errCnt, alarm, closed, stuck>>

Next ==
  \/ \E on \in BOOLEAN : SwitchBegin(on)
  \/ SwitchEnable \/ SwitchTimer \/ ScramPressed
  \/ WorkRead \/ WorkTell \/ WorkArm
  \/ LedState \/ LedPin \/ LedJudge \/ LedTell
  \/ Follow \/ Recover \/ \E c \in BOOLEAN : Fail(c)
  \/ Tick

Spec == Init /\ [][Next]_vars

-----------------------------------------------------------------------------
(* However the three tasks interleave, the alarm says whether the contact  *)
(* is where the output should have it once neither has changed for the     *)
(* delay of the work and two turns of the light task.                      *)
AlarmDeadline ==
  (quiet > WorkT + 2 * LedT) => (alarm <=> (closed # enable))
=============================================================================
