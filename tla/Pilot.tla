------------------------------- MODULE Pilot -------------------------------
(***************************************************************************)
(* The task that reads the control pilot (acp1000/acp1000_din.c): two      *)
(* filters between the three comparator inputs and dat.tp1_vol, by which   *)
(* the controller lives.  The inner one (acp1000_tp1_raw_vol_get) lets an  *)
(* invalid input pass only after skip_time others; the outer one reads     *)
(* again before it publishes a change.                                     *)
(***************************************************************************)
EXTENDS Integers

CONSTANT SkipTime   \* skip_time (4)

ASSUME PilotAssumption == SkipTime \in Nat

Invalid == 0                    \* the inputs show no level, and its voltage
Valid   == {6, 9, 12}
Reading == Valid \cup {Invalid}

VARIABLES
  input,     \* the level the comparators show
  err_cnt,   \* static err_cnt, counted up to SkipTime + 1
  rawVol,    \* static last_vol of the inner filter
  state,     \* "get" or "sure"
  tp1_vol,   \* last_vol of the task, published as dat.tp1_vol
  wrong,     \* history: invalid inputs read in a row, up to SkipTime + 1
  alike      \* history: how often in a row the inner filter has returned
             \* rawVol, up to 2

taskVars == <<err_cnt, rawVol, state, tp1_vol>>
history  == <<wrong, alike>>
pilotVars == <<input, taskVars, history>>

(* The variables have their types. *)
PilotTypeOK ==
  /\ input \in Reading /\ rawVol \in Reading /\ tp1_vol \in Reading
  /\ err_cnt \in 0..(SkipTime + 1) /\ wrong \in 0..(SkipTime + 1)
  /\ state \in {"get", "sure"}
  /\ alike \in 0..2

PilotInit ==
  /\ input \in Reading
  /\ err_cnt = 0 /\ rawVol = 0 /\ state = "get" /\ tp1_vol = 0
  /\ wrong = 0 /\ alike = 0

Upto(n, max) == IF n < max THEN n ELSE max

-----------------------------------------------------------------------------
(* acp1000_tp1_raw_vol_get: an invalid input is passed over while err_cnt  *)
(* has not exceeded SkipTime.                                              *)
ErrCntKept == UNCHANGED err_cnt    \* a deliberately wrong variant
ErrCntReset == err_cnt' = 0

ErrCntRestarted == err_cnt' = 1             \* a deliberately wrong variant
ErrCntMore == err_cnt' = Upto(err_cnt + 1, SkipTime + 1)

RawPassed ==
  \/ /\ input # Invalid
     /\ ErrCntReset
     /\ rawVol' = input
  \/ /\ input = Invalid
     /\ ErrCntMore
     /\ rawVol' = IF err_cnt' > SkipTime THEN Invalid ELSE rawVol

RawRead ==
  /\ RawPassed
  /\ wrong' = IF input = Invalid THEN Upto(wrong + 1, SkipTime + 1) ELSE 0
  /\ alike' = IF rawVol' = rawVol THEN Upto(alike + 1, 2) ELSE 1
  /\ UNCHANGED input

(* A change is seen: it is looked at again after TP1_DETECT_SKIP_MS. *)
Get ==
  /\ state = "get"
  /\ RawRead
  /\ state' = IF rawVol' # tp1_vol THEN "sure" ELSE "get"
  /\ UNCHANGED tp1_vol

(* The second look publishes what it finds; when it finds the old voltage  *)
(* the task stays in this state.                                           *)
SurePublishesOld ==      \* a deliberately wrong variant
  /\ tp1_vol' = rawVol
  /\ state' = "get"
SurePublishes ==
  \/ rawVol' # tp1_vol /\ tp1_vol' = rawVol' /\ state' = "get"
  \/ rawVol' = tp1_vol /\ UNCHANGED <<tp1_vol, state>>

Sure ==
  /\ state = "sure"
  /\ RawRead
  /\ SurePublishes

Read == Get \/ Sure

(* The line, the car and the noise. *)
Input(v) ==
  /\ v # input /\ input' = v
  /\ UNCHANGED <<taskVars, history>>

PilotNext == Read \/ \E v \in Reading : Input(v)

PilotSpec == PilotInit /\ [][PilotNext]_pilotVars
PilotFairSpec == PilotSpec /\ WF_pilotVars(Read)

-----------------------------------------------------------------------------
(* A pilot error is published, and with it a charge ended as "full", only  *)
(* while more than SkipTime invalid inputs have been read in a row: noise  *)
(* between valid readings never adds up to an error.                       *)
ErrorConfirmed ==
  [][(tp1_vol' = Invalid /\ tp1_vol # Invalid)
       => wrong' > SkipTime]_pilotVars

(* Two readings alike are published, whatever the filters were in the      *)
(* middle of: the controller does not live by an old voltage for longer.   *)
FollowsInTwo == alike = 2 => tp1_vol = rawVol

(* A line that is steady at last is published at last, an invalid one as   *)
(* the error.                                                              *)
Settles == \A v \in Reading : <>[](input = v) => <>[](tp1_vol = v)
=============================================================================
