------------------------------ MODULE Charger ------------------------------
(***************************************************************************)
(* The charging controller (acp1000/charger.c), with what the same events  *)
(* change in the pile record (acp1000/pile.c) and the two other tasks that *)
(* reach it directly: the emergency-stop poll of pile.c, which opens the   *)
(* contactor by writing the output pin, and the LED task of led_task.c,    *)
(* which copies the pile's alarm mask to the controller once a second.     *)
(*                                                                         *)
(* The controller task runs every 30 ms.  One run ("poll") plays the       *)
(* current role; a role speaks to the other components by                  *)
(* event_node_tell_all, which delivers one event to all of them under the  *)
(* mutex of the event manager.  Another task may own that mutex, so every  *)
(* tell_all of the controller is a step of its own: pc names the next one, *)
(* and the deliveries of other tasks interleave between them.              *)
(***************************************************************************)
EXTENDS Integers

CONSTANTS
  InsertPolls,   \* polls at 6V/9V before a gun counts as inserted (20)
  UnlockT,       \* CHARGER_UNLOCK_TIMEOUT_MS, in time units
  ErrT,          \* CHARGER_ERR_TIMEOUT_MS, in time units
  ReadyT,        \* CHARGER_9V_TIMEOUT_MS, in time units
  SkipAuth,      \* ACP1000_SKIP_AUTH: an inserted gun starts the charge
  AuthTasks,     \* the tasks of the build that tell CARD_AUTH_FAIL
  SoftFaults,    \* detectors whose fault leads to the err role
  HardFaults,    \* detectors whose fault sets exit_now
  Stops          \* the events that ask for the end of a charge

SoftFaultEvents == {"ERR_AMMETER", "ERR_CARD_READER", "ERR_LIGHT", "ERR_AC",
                    "ERR_TEMP", "ERR_DUGS", "ERR_HUB4G_COMM"}
HardFaultEvents == {"ERR_AMMETER_CURR", "ERR_AMMETER_VOL", "ERR_SCRAM"}
StopEvents      == {"CHARGE_BG_STOP", "CHARGE_MAN_STOP", "BILLING_STOP"}

AuthFailures == AuthTasks # {}

(* The delays of charger.c are ordered 200 ms < 3000 ms < 10000 ms. *)
ASSUME ChargerAssumption ==
  /\ InsertPolls \in Nat
  /\ UnlockT \in Nat /\ ErrT \in Nat /\ ReadyT \in Nat
  /\ UnlockT < ErrT /\ ErrT < ReadyT
  /\ SkipAuth \in BOOLEAN
  /\ AuthTasks \subseteq {"card_reader", "overtime_check"}
  /\ SoftFaults \subseteq SoftFaultEvents
  /\ HardFaults \subseteq HardFaultEvents
  /\ Stops \subseteq StopEvents

Voltage == {0, 6, 9, 12}              \* tp1_vol; 0 is a pilot read error
Plugged == {6, 9}
Role    == {"idle", "allow", "start", "ing", "stop", "err"}

(* "poll": between two runs of the task; the others name the tell_all the  *)
(* task is about to make.                                                  *)
Step == {"poll",
         "idle_insert", "idle_man_start", "idle_extract",
         "allow_wait",
         "start_go", "start_unready",
         "start_extract", "start_full", "start_stop",
         "exit_stop", "exit_err",
         "dip_stop", "dip_full",
         "full_full", "full_stop",
         "err_stop", "err_err",
         "stop_extract"}

AlarmBits == {"CARDREADER", "AMMETER", "LCD", "ACLOCK", "SCRAM", "CURR",
              "OVERVOL", "UNDERVOL", "LIGHT", "TEMP", "HUB4G_COM"}
StopReason == {"NONE", "MAN_EXIT", "BG_EXIT", "AMOUNT_RUNOUT", "CARDREADER",
               "AMETETER", "CURR", "OVERVOL", "UNDERVOL", "LIGHT", "SCRAM",
               "TEMP", "AC"}

(* start_ticks holds the time a delay began.  Its age is all the code      *)
(* looks at, and ages above the longest delay are alike.  Unset is the     *)
(* value 0 it is cleared to; read as a time, 0 is the start of the         *)
(* program, longer ago than every delay.                                   *)
AgeMax == ReadyT + 1
Unset  == -1
Elapsed(t) == IF t = Unset THEN AgeMax ELSE t

VARIABLES
  vol,          \* dat.tp1_vol, written by the CP voltage task
  role,         \* the one p_charge_* pointer that is not NULL
  pc,           \* where the controller task is
  due,          \* the task has still to run in this time unit
  insertCnt,    \* static cnt of charger_idle_do
  errState,     \* static state of charger_err_do
  startTicks,   \* age of dat.start_ticks, or Unset
  allowCharge,  \* dat.allow_charge
  exitNow,      \* dat.exit_now
  exitCode,     \* dat.exit_code
  pileAlarm,    \* dat.pile_alarm, the controller's copy of the mask
  acEnable,     \* dat.ac_enable
  pin,          \* level of the contactor output ACP1000_DOUT_AC
  elock,        \* last command to the electronic lock of the gun
  pwm,          \* the CP line advertises a current (duty below 100%)
  alarm,        \* pile_alarm.alarm_mask
  charging,     \* pile_dat.charge_state
  gun,          \* pile_dat.gun_state
  scramDown,    \* the emergency-stop input reads 0
  scramState,   \* pile_dat.scram_state
  scramTell,    \* pile task is about to tell ERR_SCRAM
  ledMask       \* the mask the LED task is about to tell, a set; or {Idle}

taskVars  == <<pc, due, insertCnt, errState>>
datVars   == <<allowCharge, exitNow, exitCode, pileAlarm>>
outVars   == <<acEnable, pin, elock, pwm>>
pileVars  == <<alarm, charging, gun>>
otherVars == <<scramDown, scramState, scramTell, ledMask>>
vars == <<vol, role, startTicks, taskVars, datVars, outVars, pileVars,
          otherVars>>

LedIdle == {"led_idle"}

Delay == {Unset} \cup 0..AgeMax

TaskTypes  == /\ pc \in Step
              /\ due \in BOOLEAN
              /\ insertCnt \in 0..InsertPolls
              /\ errState \in {0, 1}
DatTypes   == /\ allowCharge \in BOOLEAN
              /\ exitNow \in BOOLEAN
              /\ exitCode \in StopReason
              /\ pileAlarm \in SUBSET AlarmBits
OutTypes   == /\ acEnable \in BOOLEAN
              /\ pin \in BOOLEAN
              /\ elock \in BOOLEAN
              /\ pwm \in BOOLEAN
PileTypes  == /\ alarm \in SUBSET AlarmBits
              /\ charging \in BOOLEAN
              /\ gun \in BOOLEAN
OtherTypes == /\ scramDown \in BOOLEAN
              /\ scramState \in BOOLEAN
              /\ scramTell \in BOOLEAN
              /\ ledMask \in (SUBSET AlarmBits) \cup {LedIdle}

(* The variables have their types: in particular the insertion count stays *)
(* within its limit and a delay within the ages that matter.               *)
TypeOK ==
  /\ vol \in Voltage /\ role \in Role /\ startTicks \in Delay
  /\ TaskTypes /\ DatTypes /\ OutTypes /\ PileTypes /\ OtherTypes

Init ==
  /\ vol = 0
  /\ role = "idle"
  /\ pc = "poll"
  /\ due = TRUE
  /\ insertCnt = 0
  /\ errState = 0
  /\ startTicks = Unset
  /\ allowCharge = FALSE
  /\ exitNow = FALSE
  /\ exitCode = "NONE"
  /\ pileAlarm = {}
  /\ acEnable = FALSE
  /\ pin = FALSE
  /\ elock = FALSE
  /\ pwm = FALSE
  /\ alarm = {}
  /\ charging = FALSE
  /\ gun = FALSE
  /\ scramDown = FALSE
  /\ scramState = FALSE
  /\ scramTell = FALSE
  /\ ledMask = LedIdle

-----------------------------------------------------------------------------
(* What each event changes: in the pile record and in the controller.      *)

PileGunInsert  == gun' = TRUE /\ UNCHANGED <<alarm, charging>>
PileGunExtract == gun' = FALSE /\ charging' = FALSE /\ UNCHANGED alarm
PileStartLost  == UNCHANGED <<alarm, charging, gun>>
PileStart      == charging' = TRUE /\ UNCHANGED <<alarm, gun>>
PileStopLost   == UNCHANGED <<alarm, charging, gun>>
PileStop       == charging' = FALSE /\ UNCHANGED <<alarm, gun>>

BitsOf(e) ==
  CASE e = "ERR_AMMETER_VOL"  -> {"UNDERVOL", "OVERVOL"}
    [] e = "ERR_AMMETER_CURR" -> {"CURR"}
    [] e = "ERR_CARD_READER"  -> {"CARDREADER"}
    [] e = "ERR_AMMETER"      -> {"AMMETER"}
    [] e = "ERR_SCRAM"        -> {"SCRAM"}
    [] e = "ERR_LIGHT"        -> {"LIGHT"}
    [] e = "ERR_AC"           -> {"ACLOCK"}
    [] e = "ERR_TEMP"         -> {"TEMP"}
    [] e = "ERR_DUGS"         -> {"LCD"}
    [] e = "ERR_HUB4G_COMM"   -> {"HUB4G_COM"}

(* A detector reports 0 for "normal"; ERR_AMMETER_VOL 1 for under- and 2   *)
(* for overvoltage, the others 1.                                          *)
Raised(e, arg) ==
  IF arg = 0 THEN {}
  ELSE IF e = "ERR_AMMETER_VOL"
       THEN IF arg = 1 THEN {"UNDERVOL"} ELSE {"OVERVOL"}
       ELSE BitsOf(e)

PileFaultOverwrites(e, arg) ==
  /\ alarm' = Raised(e, arg)
  /\ UNCHANGED <<charging, gun>>
PileFault(e, arg) ==
  /\ alarm' = (alarm \ BitsOf(e)) \cup Raised(e, arg)
  /\ UNCHANGED <<charging, gun>>

(* CARD_AUTH_FAIL, CHARGE_PILE_STOP, ERR_CAR_READY and ERR_CHAGER. *)
EnterStop ==
  /\ role' = "stop"
  /\ allowCharge' = FALSE

EnterIdleLost == UNCHANGED role
EnterIdle == role' = "idle"          \* GUN_EXTRACT
EnterStart == role' = "start"        \* CHARGE_PIEL_WAIT
EnterIng == role' = "ing"            \* CHARGE_PIEL_START

ManStartAccepted == role = "idle" /\ allowCharge
EnterAllow == role' = IF ManStartAccepted THEN "allow" ELSE role

(* A stop, or a soft fault, counts only in the ing role. *)
EnterErrAlways(code) == role' = "err" /\ exitCode' = code
EnterErr(code) ==
  \/ /\ role = "ing"
     /\ role' = "err"
     /\ exitCode' = code
  \/ /\ role # "ing"
     /\ UNCHANGED <<role, exitCode>>

SoftReason(e) ==
  CASE e = "ERR_AMMETER"     -> "AMETETER"
    [] e = "ERR_CARD_READER" -> "CARDREADER"
    [] e = "ERR_LIGHT"       -> "LIGHT"
    [] e = "ERR_AC"          -> "AC"
    [] e = "ERR_TEMP"        -> "TEMP"
    [] e \in {"ERR_DUGS", "ERR_HUB4G_COMM"} -> "NONE"

HardReason(e, arg) ==
  CASE e = "ERR_AMMETER_CURR" -> "CURR"
    [] e = "ERR_AMMETER_VOL"  -> IF arg = 1 THEN "UNDERVOL" ELSE "OVERVOL"
    [] e = "ERR_SCRAM"        -> "SCRAM"

(* A hard fault is latched whatever the role is. *)
LatchExit(e, arg) ==
  \/ /\ arg # 0
     /\ exitCode' = HardReason(e, arg)
     /\ exitNow' = TRUE
  \/ /\ arg = 0
     /\ UNCHANGED <<exitCode, exitNow>>

-----------------------------------------------------------------------------
(* The outputs.                                                            *)

(* charger_ac_output_enable.  It also restarts the delayed contactor check *)
(* whose verdict, ERR_AC, may come at any time here.                       *)
AcOutputPin(on) == pin' = on /\ UNCHANGED acEnable
AcOutput(on) == pin' = on /\ acEnable' = on

(* charger_elock_lock, the command to the lock of the gun. *)
LockGunLost == UNCHANGED elock
LockGun     == elock' = TRUE
UnlockGun   == elock' = FALSE

(* charger_current_limit: 0 is 100% duty, no current advertised. *)
AdvertiseMax == pwm' = TRUE
AdvertiseNoneLost == UNCHANGED pwm
AdvertiseNone == pwm' = FALSE

-----------------------------------------------------------------------------
(* The controller task: the part of a role's run up to its first tell_all. *)

Polling(r) == pc = "poll" /\ role = r /\ due' = FALSE

(* The insertion is believed at the run after InsertPolls others. *)
Bouncing == insertCnt < InsertPolls

IdlePoll ==
  /\ Polling("idle")
  /\ pin' = FALSE
  /\ \/ /\ vol \in Plugged
        /\ Bouncing
        /\ insertCnt' = insertCnt + 1
        /\ UNCHANGED <<pc, elock>>
     \/ /\ vol \in Plugged
        /\ insertCnt >= InsertPolls
        /\ insertCnt' = 0
        /\ LockGun
        /\ pc' = "idle_insert"
     \/ /\ vol \notin Plugged
        /\ insertCnt' = 0
        /\ UnlockGun
        /\ pc' = "idle_extract"
  /\ UNCHANGED <<vol, role, startTicks, errState, datVars, acEnable, pwm,
                 pileVars, otherVars>>

AllowPoll ==
  /\ Polling("allow")
  /\ pin' = FALSE
  /\ \/ /\ vol \in Plugged
        /\ LockGun
        /\ pc' = "allow_wait"
     \/ /\ vol \notin Plugged
        /\ UNCHANGED <<pc, elock>>
  /\ UNCHANGED <<vol, role, startTicks, insertCnt, errState, datVars,
                 acEnable, pwm, pileVars, otherVars>>

StartPoll ==
  /\ Polling("start")
  /\ \/ /\ vol = 6
        /\ AcOutput(TRUE)
        /\ pc' = "start_go"
        /\ UNCHANGED <<elock, pwm>>
     \/ /\ vol = 9
        /\ Elapsed(startTicks) <= ReadyT
        /\ pin' = FALSE
        /\ UNCHANGED <<pc, acEnable, elock, pwm>>
     \/ /\ vol = 9
        /\ Elapsed(startTicks) > ReadyT
        /\ pin' = FALSE
        /\ AdvertiseNone
        /\ UnlockGun
        /\ pc' = "start_unready"
        /\ UNCHANGED acEnable
     \/ /\ vol = 12
        /\ pin' = FALSE
        /\ UnlockGun
        /\ pc' = "start_extract"
        /\ UNCHANGED <<acEnable, pwm>>
     \/ /\ vol = 0
        /\ pin' = FALSE
        /\ UNCHANGED <<pc, acEnable, elock, pwm>>
  /\ UNCHANGED <<vol, role, startTicks, insertCnt, errState, datVars,
                 pileVars, otherVars>>

(* charger_ing_do when an emergency is latched: off at once. *)
IngExitPolite ==
  /\ Polling("ing")
  /\ exitNow
  /\ IF vol = 6 THEN UNCHANGED <<pin, acEnable, pc>>
                ELSE AcOutput(FALSE) /\ pc' = "exit_stop"
  /\ UNCHANGED <<vol, role, startTicks, insertCnt, errState, datVars, elock,
                 pwm, pileVars, otherVars>>
IngExit ==
  /\ Polling("ing")
  /\ exitNow
  /\ AcOutput(FALSE)
  /\ pc' = "exit_stop"
  /\ UNCHANGED <<vol, role, startTicks, insertCnt, errState, datVars, elock,
                 pwm, pileVars, otherVars>>

IngCharge ==
  /\ Polling("ing")
  /\ ~exitNow
  /\ vol = 6
  /\ IF acEnable THEN UNCHANGED <<pin, acEnable>> ELSE AcOutput(TRUE)
  /\ UNCHANGED <<vol, role, startTicks, pc, insertCnt, errState, datVars,
                 elock, pwm, pileVars, otherVars>>

(* 9V: the car asks for no current.  The output is opened; the charge ends *)
(* when start_ticks, set by the first such run, is old enough.             *)
IngDip ==
  /\ Polling("ing")
  /\ ~exitNow
  /\ vol = 9
  /\ AcOutput(FALSE)
  /\ startTicks' = IF startTicks = Unset THEN 0 ELSE startTicks
  /\ \/ /\ startTicks' > UnlockT
        /\ UnlockGun
        /\ pc' = "dip_stop"
     \/ /\ startTicks' <= UnlockT
        /\ UNCHANGED <<elock, pc>>
  /\ UNCHANGED <<vol, role, insertCnt, errState, datVars, pwm, pileVars,
                 otherVars>>

IngFullLive ==
  /\ Polling("ing")
  /\ ~exitNow
  /\ vol \in {0, 12}
  /\ pc' = "full_full"
  /\ UNCHANGED <<vol, role, startTicks, insertCnt, errState, datVars, outVars,
                 pileVars, otherVars>>
IngFull ==
  /\ Polling("ing")
  /\ ~exitNow
  /\ vol \in {0, 12}
  /\ AcOutput(FALSE)
  /\ pc' = "full_full"
  /\ UNCHANGED <<vol, role, startTicks, insertCnt, errState, datVars, elock,
                 pwm, pileVars, otherVars>>

ErrTimedOutLate  == Elapsed(startTicks) > ReadyT
ErrTimedOutNever == Elapsed(startTicks) > AgeMax
ErrTimedOut      == Elapsed(startTicks) > ErrT

(* charger_err_do.  At 6V the car is given ErrT to stop drawing current;   *)
(* at any other voltage the output is opened in the same run.              *)
ErrPoll ==
  /\ Polling("err")
  /\ \/ /\ vol = 6
        /\ errState = 0
        /\ errState' = 1
        /\ startTicks' = 0
        /\ AdvertiseNone
        /\ UNCHANGED <<pc, acEnable, pin>>
     \/ /\ vol = 6
        /\ errState = 1
        /\ ~ErrTimedOut
        /\ UNCHANGED <<pc, errState, startTicks, pwm, acEnable, pin>>
     \/ /\ vol = 6
        /\ errState = 1
        /\ ErrTimedOut
        /\ AcOutput(FALSE)
        /\ pc' = "err_stop"
        /\ UNCHANGED <<errState, startTicks, pwm>>
     \/ /\ vol # 6
        /\ errState' = 1
        /\ IF errState = 0
             THEN startTicks' = 0 /\ AdvertiseNone
             ELSE UNCHANGED <<startTicks, pwm>>
        /\ AcOutput(FALSE)
        /\ pc' = "err_stop"
  /\ UNCHANGED <<vol, role, insertCnt, datVars, elock, pileVars, otherVars>>

StopPoll ==
  /\ Polling("stop")
  /\ pin' = FALSE
  /\ \/ /\ vol = 12
        /\ Elapsed(startTicks) > UnlockT
        /\ AdvertiseNone
        /\ UnlockGun
        /\ pc' = "stop_extract"
     \/ /\ vol = 12
        /\ Elapsed(startTicks) <= UnlockT
        /\ AdvertiseNone
        /\ UNCHANGED <<elock, pc>>
     \/ /\ vol # 12
        /\ UNCHANGED <<elock, pc, pwm>>
  /\ UNCHANGED <<vol, role, startTicks, insertCnt, errState, datVars,
                 acEnable, pileVars, otherVars>>

Poll == \/ IdlePoll \/ AllowPoll \/ StartPoll
        \/ IngExit \/ IngCharge \/ IngDip \/ IngFull
        \/ ErrPoll \/ StopPoll

-----------------------------------------------------------------------------
(* The controller task: one tell_all, and the run up to the next one.      *)

Goto(from, to) == pc = from /\ pc' = to

IdleInsert ==
  /\ Goto("idle_insert", IF SkipAuth THEN "idle_man_start" ELSE "poll")
  /\ PileGunInsert
  /\ allowCharge' = (pileAlarm = {})
  /\ UNCHANGED <<vol, role, startTicks, due, insertCnt, errState, exitNow,
                 exitCode, pileAlarm, outVars, otherVars>>

IdleManStart ==
  /\ Goto("idle_man_start", "poll")
  /\ EnterAllow
  /\ UNCHANGED <<vol, startTicks, due, insertCnt, errState, datVars, outVars,
                 pileVars, otherVars>>

IdleExtract ==
  /\ Goto("idle_extract", "poll")
  /\ EnterIdle
  /\ PileGunExtract
  /\ allowCharge' = FALSE
  /\ UNCHANGED <<vol, startTicks, due, insertCnt, errState, exitNow, exitCode,
                 pileAlarm, outVars, otherVars>>

AllowWait ==
  /\ Goto("allow_wait", "poll")
  /\ EnterStart
  /\ AdvertiseMax
  /\ startTicks' = 0
  /\ UNCHANGED <<vol, due, insertCnt, errState, datVars, acEnable, pin, elock,
                 pileVars, otherVars>>

StartGoTimed ==                  \* a deliberately wrong variant
  /\ Goto("start_go", "poll")
  /\ EnterIng
  /\ PileStart
  /\ UNCHANGED <<vol, startTicks, due, insertCnt, errState, datVars, outVars,
                 otherVars>>
StartGo ==
  /\ Goto("start_go", "poll")
  /\ EnterIng
  /\ PileStart
  /\ startTicks' = Unset
  /\ UNCHANGED <<vol, due, insertCnt, errState, datVars, outVars, otherVars>>

StartUnready ==
  /\ Goto("start_unready", "poll")
  /\ EnterStop
  /\ startTicks' = 0
  /\ UNCHANGED <<vol, due, insertCnt, errState, exitNow, exitCode, pileAlarm,
                 outVars, pileVars, otherVars>>

(* GUN_EXTRACT, first of the three events told when the gun is pulled      *)
(* before the car was ready; and the one told by the stop role.            *)
TellExtract ==
  /\ \/ Goto("start_extract", "start_full")
     \/ Goto("stop_extract", "poll")
  /\ EnterIdle
  /\ PileGunExtract
  /\ UNCHANGED <<vol, startTicks, due, insertCnt, errState, datVars, outVars,
                 otherVars>>

(* CHARGE_FULL changes neither the pile record nor the controller. *)
TellFull ==
  /\ \/ Goto("start_full", "start_stop")
     \/ Goto("full_full", "full_stop")
  /\ UNCHANGED <<vol, role, startTicks, due, insertCnt, errState, datVars,
                 outVars, pileVars, otherVars>>

(* CHARGE_FULL as the last event of a charge ended at 9V. *)
DipFull ==
  /\ Goto("dip_full", "poll")
  /\ AdvertiseNone
  /\ startTicks' = 0
  /\ UNCHANGED <<vol, role, due, insertCnt, errState, datVars, acEnable, pin,
                 elock, pileVars, otherVars>>

(* CHARGE_PILE_STOP, followed by another event in the same run... *)
TellStop ==
  /\ \/ Goto("start_stop", "poll")
     \/ Goto("exit_stop", "exit_err")
     \/ Goto("dip_stop", "dip_full")
     \/ Goto("err_stop", "err_err")
  /\ EnterStop
  /\ PileStop
  /\ UNCHANGED <<vol, startTicks, due, insertCnt, errState, exitNow, exitCode,
                 pileAlarm, outVars, otherVars>>

(* ...or as the last one of a charge ended by the car. *)
FullStop ==
  /\ Goto("full_stop", "poll")
  /\ EnterStop
  /\ PileStop
  /\ AdvertiseNone
  /\ startTicks' = 0
  /\ UNCHANGED <<vol, due, insertCnt, errState, exitNow, exitCode, pileAlarm,
                 acEnable, pin, elock, otherVars>>

(* ERR_CHAGER with exit_code. *)
ExitErr ==
  /\ Goto("exit_err", "poll")
  /\ EnterStop
  /\ AdvertiseNone
  /\ exitNow' = FALSE
  /\ startTicks' = 0
  /\ UNCHANGED <<vol, due, insertCnt, errState, exitCode, pileAlarm, acEnable,
                 pin, elock, pileVars, otherVars>>

ErrErr ==
  /\ Goto("err_err", "poll")
  /\ EnterStop
  /\ startTicks' = 0
  /\ errState' = 0
  /\ UNCHANGED <<vol, due, insertCnt, exitNow, exitCode, pileAlarm, outVars,
                 pileVars, otherVars>>

Tell == \/ IdleInsert \/ IdleManStart \/ IdleExtract \/ AllowWait
        \/ StartGo \/ StartUnready \/ TellExtract \/ TellFull \/ DipFull
        \/ TellStop \/ FullStop \/ ExitErr \/ ErrErr

-----------------------------------------------------------------------------
(* The other tasks.                                                        *)

SoftFault(e, arg) ==
  /\ PileFault(e, arg)
  /\ IF arg # 0 THEN EnterErr(SoftReason(e)) ELSE UNCHANGED <<role, exitCode>>
  /\ UNCHANGED <<vol, startTicks, taskVars, allowCharge, exitNow, pileAlarm,
                 outVars, otherVars>>

(* The ammeter task; the emergency stop has actions of its own. *)
HardFault(e, arg) ==
  /\ PileFault(e, arg)
  /\ LatchExit(e, arg)
  /\ UNCHANGED <<vol, role, startTicks, taskVars, allowCharge, pileAlarm,
                 outVars, otherVars>>

StopCode(e) == CASE e = "CHARGE_BG_STOP"  -> "BG_EXIT"
                 [] e = "CHARGE_MAN_STOP" -> "MAN_EXIT"
                 [] e = "BILLING_STOP"    -> "AMOUNT_RUNOUT"

StopCharge(e) ==
  /\ EnterErr(StopCode(e))
  /\ UNCHANGED <<vol, startTicks, taskVars, allowCharge, exitNow, pileAlarm,
                 outVars, pileVars, otherVars>>

(* CHARGE_MAN_START from the screen or the concentrator. *)
ManStart ==
  /\ ManStartAccepted
  /\ EnterAllow
  /\ UNCHANGED <<vol, startTicks, taskVars, datVars, outVars, pileVars,
                 otherVars>>

(* CARD_AUTH_FAIL from the card reader or the overtime check. *)
AuthFail ==
  /\ EnterStop
  /\ UNCHANGED <<vol, startTicks, taskVars, exitNow, exitCode, pileAlarm,
                 outVars, pileVars, otherVars>>

(* The LED task reads the mask, then waits for the event manager. *)
LedRead ==
  /\ ledMask = LedIdle
  /\ ledMask' = alarm
  /\ UNCHANGED <<vol, role, startTicks, taskVars, datVars, outVars, pileVars,
                 scramDown, scramState, scramTell>>

LedTell ==
  /\ ledMask # LedIdle
  /\ pileAlarm' = ledMask
  /\ ledMask' = LedIdle
  /\ UNCHANGED <<vol, role, startTicks, taskVars, allowCharge, exitNow,
                 exitCode, outVars, pileVars, scramDown, scramState, scramTell>>

(* The pile task with the emergency stop pressed: the pin is opened in     *)
(* every run, the event is told on the first one.                          *)
ScramPoll ==
  /\ scramDown
  /\ ~scramTell
  /\ pin' = FALSE
  /\ scramState' = TRUE
  /\ scramTell' = ~scramState
  /\ UNCHANGED <<vol, role, startTicks, taskVars, datVars, acEnable, elock,
                 pwm, pileVars, scramDown, ledMask>>

ScramTell ==
  /\ scramTell
  /\ scramTell' = FALSE
  /\ PileFault("ERR_SCRAM", 1)
  /\ LatchExit("ERR_SCRAM", 1)
  /\ UNCHANGED <<vol, role, startTicks, taskVars, allowCharge, pileAlarm,
                 outVars, scramDown, scramState, ledMask>>

(* Released for 30 s: armed again, and nobody is told. *)
ScramRelease ==
  /\ ~scramDown
  /\ ~scramTell
  /\ scramState
  /\ scramState' = FALSE
  /\ UNCHANGED <<vol, role, startTicks, taskVars, datVars, outVars, pileVars,
                 scramDown, scramTell, ledMask>>

-----------------------------------------------------------------------------
(* The environment: the car, the button, time.                             *)

Car(v) ==
  /\ v # vol
  /\ vol' = v
  /\ UNCHANGED <<role, startTicks, taskVars, datVars, outVars, pileVars,
                 otherVars>>

ScramButton ==
  /\ "ERR_SCRAM" \in HardFaults
  /\ scramDown' = ~scramDown
  /\ UNCHANGED <<vol, role, startTicks, taskVars, datVars, outVars, pileVars,
                 scramState, scramTell, ledMask>>

(* A time unit is longer than the period of the controller task, so the    *)
(* task runs at least once in each.                                        *)
Tick ==
  /\ pc = "poll"
  /\ ~due
  /\ due' = TRUE
  /\ startTicks' = IF startTicks \in 0..(AgeMax - 1) THEN startTicks + 1
                                                    ELSE startTicks
  /\ UNCHANGED <<vol, role, pc, insertCnt, errState, datVars, outVars,
                 pileVars, otherVars>>

-----------------------------------------------------------------------------
FaultLevels(e) == IF e = "ERR_AMMETER_VOL" THEN {0, 1, 2} ELSE {0, 1}

Detectors ==
  \/ \E e \in SoftFaults : \E arg \in FaultLevels(e) : SoftFault(e, arg)
  \/ \E e \in HardFaults \ {"ERR_SCRAM"} :
       \E arg \in FaultLevels(e) : HardFault(e, arg)
  \/ ScramPoll \/ ScramTell \/ ScramRelease

Commands == \/ ManStart
            \/ \E t \in AuthTasks : AuthFail
            \/ \E e \in Stops : StopCharge(e)

Next == \/ Poll \/ Tell
        \/ Detectors \/ Commands
        \/ LedRead \/ LedTell
        \/ ScramButton \/ \E v \in Voltage : Car(v)
        \/ Tick

Spec == Init /\ [][Next]_vars

(* The tasks of the program run and time passes; nothing is assumed of the *)
(* car, of the detectors or of the users.                                  *)
Fairness == /\ WF_vars(Poll) /\ WF_vars(Tell) /\ WF_vars(Tick)
            /\ WF_vars(LedRead) /\ WF_vars(LedTell)
FairSpec == Spec /\ Fairness

-----------------------------------------------------------------------------
(* Properties.                                                             *)

(* The contactor is commanded closed only in the roles that charge, or in  *)
(* the one step between closing it and telling CHARGE_PIEL_START, and it   *)
(* is open whenever the end of a charge is being told.  Roles change by    *)
(* events of any task, the pin by two tasks: no path through an abort, a   *)
(* pulled gun or a 9V pause may leave the output closed behind.            *)
ContactorOnlyInCharge ==
  pin => \/ pc = "start_go"
         \/ pc = "poll" /\ role \in {"ing", "err"}

(* What the pile reports (LED bar, concentrator, screen) as "charging" is  *)
(* what the controller does.  Builds with AuthFailures do not have this.   *)
ChargingReported == charging <=> role \in {"ing", "err"}

(* The gun is locked whenever the contactor is closed: every path that     *)
(* unlocks has opened the output first and none closes it again unlocked.  *)
LockedWhileLive == pin => elock

(* The output pin agrees with ac_enable, the value the contactor check and *)
(* the re-close in ing_do go by, until an emergency stop has forced the    *)
(* pin behind the controller's back.                                       *)
PinAgrees ==
  /\ pin => acEnable
  /\ (acEnable /\ ~pin) => ("SCRAM" \in alarm \/ scramTell)

(* Between charges the CP line advertises no current. *)
NoCurrentAdvertisedIdle == (role \in {"idle", "allow"} /\ pc = "poll") => ~pwm

(* A charge begins only from start, and the err role is entered only from  *)
(* a charge: no late event restarts a charge that was stopped.             *)
ChargeBeginsFromStart ==
  [][/\ (role' = "ing" /\ role # "ing") => role = "start"
     /\ (role' = "err" /\ role # "err") => role = "ing"]_vars

(* After an emergency stop the controller is locked out once its copy of   *)
(* the mask has the alarm: idle, or on the way there, it never takes a     *)
(* start again, whatever is plugged, told or released ("only a manual      *)
(* hardware reset", pile.c:337).  The mask is copied through the LED task, *)
(* so a stale copy could undo it.                                          *)
LockedOut == /\ "SCRAM" \in pileAlarm
             /\ role \in {"idle", "stop"}
             /\ ~allowCharge
ScramLockout == [][(LockedOut /\ ~AuthFailures) => LockedOut']_vars

-----------------------------------------------------------------------------
(* The inductive invariant behind these properties: which roles each step  *)
(* of the task can be in, and what is on, off or locked there.             *)

(* With AuthFailures any step may find the stop role.                      *)
AfterAuthFail == AuthFailures /\ role = "stop"

(* Events of other tasks turn idle into allow and ing into err, nothing    *)
(* else: at each tell_all the role is the one the run was started in, or   *)
(* the one such an event has made of it.                                   *)
RoleAtStep == ~AfterAuthFail =>
  /\ pc \in {"idle_insert", "idle_man_start", "idle_extract", "start_full",
             "start_stop"} => role \in {"idle", "allow"}
  /\ pc = "allow_wait" => role = "allow"
  /\ pc \in {"start_go", "start_unready", "start_extract"} => role = "start"
  /\ pc \in {"exit_stop", "dip_stop", "full_full", "full_stop"}
       => role \in {"ing", "err"}
  /\ pc \in {"exit_err", "dip_full", "err_err", "stop_extract"}
       => role = "stop"
  /\ pc = "err_stop" => role = "err"

Energised == pc = "start_go" \/ (pc = "poll" /\ role \in {"ing", "err"})

(* The output is open while anything but CHARGE_PIEL_START is told.        *)
OpenWhenTold == pin => pc \in {"poll", "start_go"}

(* Where the gun is locked, and where a current may be advertised. *)
LockHeld == \/ pc = "allow_wait" \/ Energised
            \/ (pc = "poll" /\ role = "start")
            \/ pin
Advertising == /\ role \in {"idle", "allow"} => pc \in {"start_full",
                                                       "start_stop"}
               /\ pc \notin {"stop_extract", "idle_extract"}

(* The alarm of an emergency stop is never lost on its way to pileAlarm. *)
ScramKept ==
  /\ scramState => ("SCRAM" \in alarm \/ scramTell)
  /\ "SCRAM" \in pileAlarm
       => "SCRAM" \in alarm /\ (ledMask = LedIdle \/ "SCRAM" \in ledMask)
  /\ (ledMask # LedIdle /\ "SCRAM" \in ledMask) => "SCRAM" \in alarm

(* In every build... *)
Secured ==
  /\ RoleAtStep
  /\ OpenWhenTold
  /\ LockHeld => elock
  /\ pwm => Advertising
  /\ ScramKept

(* ...and in those without AuthFailures, where only the controller ends a  *)
(* charge. *)
Agreed ==
  /\ ChargingReported
  /\ acEnable => Energised
  /\ PinAgrees

Outputs == Secured /\ (~AuthFailures => Agreed)

Inductive == TypeOK /\ Outputs

=============================================================================
