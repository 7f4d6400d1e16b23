------------------------------ MODULE Ammeter ------------------------------
(***************************************************************************)
(* The ammeter task (acp1000/ammeter.c): it reads the meter about once a   *)
(* second, judges the voltage always and the current during a charge, and  *)
(* tells the others what it thinks (ERR_AMMETER, ERR_AMMETER_VOL and       *)
(* ERR_AMMETER_CURR).                                                      *)
(*                                                                         *)
(* The controller's CHARGE_PIEL_START and CHARGE_PILE_STOP put the current *)
(* monitor in and take it out, from the controller's task: between any two *)
(* steps of this one, and also while it waits for the event manager with   *)
(* the argument of its event already fetched.                              *)
(***************************************************************************)
EXTENDS Integers

CONSTANTS
  UnderT,    \* PILE_CURR_MIN_TIMEOUT (60 s), in time units
  OverT,     \* PILE_CURR_TIMEOUT (5 s), in time units
  MaxPause   \* the most time units between two runs of the task

ASSUME AmmeterAssumption ==
  /\ OverT \in Nat /\ UnderT \in Nat /\ OverT < UnderT
  /\ MaxPause \in Nat \ {0}

Level == {"under", "ok", "over"}      \* a voltage, a current, or a verdict
AgeMax == UnderT + 1
Unset  == -1
Min2(a, b) == IF a < b THEN a ELSE b

VARIABLES
  pc,          \* the step the task is at
  failures,    \* cnt, reads of the energy that failed in a row, up to 2
  abnormal,    \* abnormal_state, told by ERR_AMMETER
  vol, curr,   \* the last values read, kept when a read fails
  volStep,     \* vol_step
  volState,    \* vol_state
  monitor,     \* p_ammeter_curr is not NULL
  started,     \* age of start_ticks, or Unset
  currState,   \* curr_state
  arg,         \* the argument of the ERR_AMMETER_CURR being told
  heard        \* what the other components were last told

meterVars == <<failures, abnormal>>
volVars   == <<volStep, volState>>
currVars  == <<monitor, started, currState, arg>>
ammeterVars == <<pc, meterVars, vol, curr, volVars, currVars, heard>>

AmmeterStep == {"energy", "tell_meter", "sample", "vol", "tell_vol", "curr",
                "play", "tell_curr", "tell_normal", "fault"}

MeterTypes  == failures \in 0..2 /\ abnormal \in BOOLEAN
SampleTypes == vol \in Level /\ curr \in Level
VolTypes    == volStep \in {"idle", "under", "over"} /\ volState \in Level
CurrTypes   == /\ monitor \in BOOLEAN /\ started \in {Unset} \cup 0..AgeMax
               /\ currState \in Level /\ arg \in Level
HeardType   == heard \in [meter : BOOLEAN, vol : Level, curr : Level]

(* The variables have their types. *)
AmmeterTypeOK == /\ pc \in AmmeterStep
          /\ MeterTypes /\ SampleTypes /\ VolTypes /\ CurrTypes /\ HeardType

(* Nothing read yet is 0 V and 0 A. *)
AmmeterInit ==
  /\ pc = "energy"
  /\ failures = 0 /\ abnormal = FALSE
  /\ vol = "under" /\ curr = "under"
  /\ volStep = "idle" /\ volState = "ok"
  /\ monitor = FALSE /\ started = Unset /\ currState = "ok" /\ arg = "ok"
  /\ heard = [meter |-> FALSE, vol |-> "ok", curr |-> "ok"]

-----------------------------------------------------------------------------
FailureLimit == 2

(* The energy read opens a run, d time units after the last one. *)
Later(d) == IF started = Unset THEN Unset ELSE Min2(started + d, AgeMax)

ReadEnergy(ok, d) ==
  /\ pc = "energy"
  /\ started' = Later(d)
  /\ failures' = IF ok THEN 0 ELSE Min2(failures + 1, 2)
  /\ abnormal' = IF ok THEN FALSE ELSE (abnormal \/ failures' >= FailureLimit)
  /\ pc' = IF abnormal' # abnormal THEN "tell_meter" ELSE "sample"
  /\ UNCHANGED <<vol, curr, volVars, monitor, currState, arg, heard>>

TellMeter ==
  /\ pc = "tell_meter" /\ pc' = "sample"
  /\ heard' = [heard EXCEPT !.meter = abnormal]
  /\ UNCHANGED <<meterVars, vol, curr, volVars, currVars>>

(* The voltage and the current are read; a read that fails leaves the old  *)
(* value, which is judged again.                                           *)
SampleMeter(v, c) ==
  /\ pc = "sample" /\ pc' = "vol"
  /\ vol' = v /\ curr' = c
  /\ UNCHANGED <<meterVars, volVars, currVars, heard>>

(* ammeter_vol_do: what is out of range is confirmed by the next judgement.*)
VolJudgedAtOnce ==
  \/ vol # "ok" /\ volStep' = vol /\ volState' = vol
  \/ vol = "ok" /\ volStep' = "idle" /\ volState' = "ok"
VolJudgedStuck ==
  \/ volStep = "idle" /\ vol # "ok" /\ volStep' = vol /\ UNCHANGED volState
  \/ volStep = "idle" /\ vol = "ok" /\ volState' = "ok" /\ UNCHANGED volStep
  \/ volStep # "idle" /\ vol # "ok" /\ volState' = volStep
                     /\ UNCHANGED volStep
  \/ volStep # "idle" /\ vol = "ok" /\ volStep' = "idle"
                     /\ UNCHANGED volState
VolJudged ==
  \/ /\ volStep = "idle" /\ vol # "ok"
     /\ volStep' = vol
     /\ UNCHANGED volState
  \/ /\ volStep = "idle" /\ vol = "ok"
     /\ volState' = "ok"
     /\ UNCHANGED volStep
  \/ /\ volStep # "idle" /\ vol = volStep
     /\ volState' = vol
     /\ UNCHANGED volStep
  \/ /\ volStep # "idle" /\ vol # volStep
     /\ volStep' = "idle"
     /\ UNCHANGED volState

VolDo ==
  /\ pc = "vol"
  /\ VolJudged
  /\ pc' = IF volState' # volState THEN "tell_vol" ELSE "curr"
  /\ UNCHANGED <<meterVars, vol, curr, currVars, heard>>

TellVolLost ==
  /\ pc = "tell_vol" /\ pc' = "curr"
  /\ UNCHANGED <<meterVars, vol, curr, volVars, currVars, heard>>
TellVol ==
  /\ pc = "tell_vol" /\ pc' = "curr"
  /\ heard' = [heard EXCEPT !.vol = volState]
  /\ UNCHANGED <<meterVars, vol, curr, volVars, currVars>>

(* The role is read under its lock: the monitor is to be played, or there  *)
(* is none and the current counts as normal.                               *)
CurrRole ==
  /\ pc = "curr"
  /\ \/ /\ monitor
        /\ pc' = "play"
        /\ UNCHANGED <<currState, arg>>
     \/ /\ ~monitor
        /\ currState' = "ok" /\ arg' = "ok"
        /\ pc' = IF currState = "ok" THEN "energy" ELSE "tell_curr"
  /\ UNCHANGED <<meterVars, vol, curr, volVars, monitor, started, heard>>

(* It is played through the pointer itself, read again: if a stop has      *)
(* cleared it meanwhile, a function pointer is fetched from address 0 and  *)
(* the processor stops in its fault handler.                               *)
PlayNothing ==
  /\ pc = "play" /\ ~monitor
  /\ pc' = "fault"
  /\ UNCHANGED <<meterVars, vol, curr, volVars, currVars, heard>>

Overdue(c) == started > IF c = "under" THEN UnderT ELSE OverT

(* ammeter_curr_do with a current out of range... *)
CurrAbnormal ==
  /\ pc = "play" /\ monitor /\ curr # "ok"
  /\ started' = IF started = Unset THEN 0 ELSE started
  /\ \/ /\ Overdue(curr) /\ currState # curr
        /\ currState' = curr /\ arg' = curr
        /\ pc' = "tell_curr"
     \/ /\ ~(Overdue(curr) /\ currState # curr)
        /\ pc' = "energy"
        /\ UNCHANGED <<currState, arg>>
  /\ UNCHANGED <<meterVars, vol, curr, volVars, monitor, heard>>

(* ...and back in range: the state is told before it is set to normal. *)
CurrNormalLate ==
  /\ pc = "play" /\ monitor /\ curr = "ok"
  /\ arg' = currState
  /\ pc' = IF currState = "ok" THEN "energy" ELSE "tell_normal"
  /\ UNCHANGED <<meterVars, vol, curr, volVars, monitor, started, currState,
                 heard>>
CurrNormal ==
  /\ pc = "play" /\ monitor /\ curr = "ok"
  /\ started' = Unset
  /\ arg' = currState
  /\ pc' = IF currState = "ok" THEN "energy" ELSE "tell_normal"
  /\ UNCHANGED <<meterVars, vol, curr, volVars, monitor, currState, heard>>

TellCurr ==
  /\ \/ pc = "tell_curr" /\ UNCHANGED currState
     \/ pc = "tell_normal" /\ currState' = "ok"
  /\ pc' = "energy"
  /\ heard' = [heard EXCEPT !.curr = arg]
  /\ UNCHANGED <<meterVars, vol, curr, volVars, monitor, started, arg>>

(* The controller's events.  Charges do not overlap (ChargeSession); a     *)
(* stop is also told when a gun is pulled before its charge began.         *)
ChargeStart ==
  /\ pc # "fault" /\ ~monitor
  /\ monitor' = TRUE /\ currState' = "ok" /\ started' = Unset
  /\ UNCHANGED <<pc, meterVars, vol, curr, volVars, arg, heard>>

ChargeStop ==
  /\ pc # "fault"
  /\ monitor' = FALSE
  /\ UNCHANGED <<pc, meterVars, vol, curr, volVars, started, currState, arg,
                 heard>>

AmmeterNext ==
  \/ \E ok \in BOOLEAN, d \in 1..MaxPause : ReadEnergy(ok, d)
  \/ TellMeter
  \/ \E v, c \in Level : SampleMeter(v, c)
  \/ VolDo \/ TellVol
  \/ CurrRole \/ PlayNothing \/ CurrAbnormal \/ CurrNormal \/ TellCurr
  \/ ChargeStart \/ ChargeStop

AmmeterSpec == AmmeterInit /\ [][AmmeterNext]_ammeterVars
=============================================================================
