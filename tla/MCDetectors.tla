---------------------------- MODULE MCDetectors ----------------------------
(* Model-checking instance of four tasks that watch the inputs: the check  *)
(* of the contactor, the thermistor, the control pilot and the meter.      *)
(* They share no state, so each is run through while the other three are   *)
(* where they began.                                                       *)
EXTENDS Contactor, Temperature, Pilot, AmmeterHistory

(* g_temp_res_val, from -40 to 85 degrees. *)
NtcTable == <<
  248277, 233136, 219036, 205897, 193648, 182221, 171556, 161596, 152290,
  143590, 135452, 127837, 120707, 114028, 107768, 101898, 96391, 91222,
  86369, 81809, 77523, 73492, 69701, 66132, 62771, 59606, 56623, 53810,
  51157, 48654, 46290, 44058, 41950, 39957, 38072, 36290, 34603, 33006,
  31494, 30062, 28704, 27417, 26197, 25039, 23940, 22897, 21906, 20964,
  20070, 19219, 18410, 17641, 16909, 16212, 15548, 14916, 14313, 13739,
  13192, 12669, 12171, 11696, 11242, 10809, 10395, 10000, 9622, 9261, 8916,
  8585, 8269, 7967, 7678, 7400, 7135, 6881, 6637, 6403, 6179, 5965, 5759,
  5561, 5372, 5189, 5015, 4847, 4686, 4531, 4382, 4239, 4101, 3969, 3842,
  3719, 3601, 3488, 3379, 3274, 3172, 3075, 2981, 2890, 2803, 2719, 2638,
  2559, 2484, 2411, 2341, 2273, 2207, 2144, 2083, 2024, 1967, 1912, 1858,
  1807, 1757, 1709, 1662, 1617, 1574, 1532, 1491, 1451 >>
NtcResVal == [i \in 0..125 |-> NtcTable[i + 1]]   \* C counts from 0

ContactorRests == Init /\ UNCHANGED vars
TempRests      == TempInit /\ UNCHANGED tempVars
PilotRests     == PilotInit /\ input = Invalid /\ UNCHANGED pilotVars
AmmeterRests   == HInit /\ UNCHANGED hvars

InputsRest     == PilotRests /\ AmmeterRests
OnlyContactor  == TempRests /\ InputsRest
OnlyTemp       == ContactorRests /\ InputsRest
OnlyPilot      == ContactorRests /\ TempRests /\ AmmeterRests
OnlyAmmeter    == ContactorRests /\ TempRests /\ PilotRests

PilotReads == Read /\ OnlyPilot

AllInit == Init /\ TempInit /\ PilotInit /\ HInit
AllNext ==
  \/ \E on \in BOOLEAN : SwitchBegin(on) /\ OnlyContactor
  \/ SwitchEnable /\ OnlyContactor
  \/ SwitchTimer /\ OnlyContactor
  \/ ScramPressed /\ OnlyContactor
  \/ WorkRead /\ OnlyContactor
  \/ WorkTell /\ OnlyContactor
  \/ WorkArm /\ OnlyContactor
  \/ LedState /\ OnlyContactor
  \/ LedPin /\ OnlyContactor
  \/ LedJudge /\ OnlyContactor
  \/ LedTell /\ OnlyContactor
  \/ Follow /\ OnlyContactor
  \/ Recover /\ OnlyContactor
  \/ \E c \in BOOLEAN : Fail(c) /\ OnlyContactor
  \/ Tick /\ OnlyContactor
  \/ OnlyTemp /\ \E mv \in Millivolts : Sample(mv)
  \/ OnlyTemp /\ Meet
  \/ OnlyTemp /\ Halve
  \/ OnlyTemp /\ TellTemp
  \/ OnlyTemp /\ TellErrTemp
  \/ PilotReads
  \/ \E v \in Reading : Input(v) /\ OnlyPilot
  \/ HNext /\ OnlyAmmeter

allVars == <<vars, tempVars, pilotVars, hvars>>

(* The fairness is that of PilotFairSpec, in the behaviours of the pilot.  *)
AllSpec == AllInit /\ [][AllNext]_allVars /\ WF_allVars(PilotReads)
=============================================================================
