---------------------------- MODULE Pilot_proofs ----------------------------
(***************************************************************************)
(* What the two filters of the pilot task promise, for every skip time.    *)
(***************************************************************************)
EXTENDS Pilot, TLAPS

(* The counter counts the invalid inputs, and an inner filter that returns *)
(* "invalid" before it has counted enough of them still holds its initial  *)
(* value, as the published voltage does.                                   *)
Counted  == err_cnt = wrong
Startup  == rawVol = Invalid /\ err_cnt <= SkipTime => tp1_vol = Invalid

(* At rest the published voltage is the one last returned.                 *)
AtRest   == state = "get" => tp1_vol = rawVol

PilotInv == PilotTypeOK /\ Counted /\ Startup /\ AtRest /\ FollowsInTwo

LEMMA UptoInRange ==
  ASSUME NEW n \in Nat, NEW max \in Nat
  PROVE  Upto(n, max) \in 0..max
BY DEF Upto

(* One run of the inner filter keeps its types and counts as it should.    *)
LEMMA RawReadKeeps ==
  ASSUME PilotTypeOK, Counted, Startup, RawRead
  PROVE  /\ rawVol' \in Reading /\ err_cnt' \in 0..(SkipTime + 1)
         /\ wrong' \in 0..(SkipTime + 1) /\ alike' \in 0..2
         /\ err_cnt' = wrong'
         /\ rawVol' = Invalid /\ err_cnt' <= SkipTime => tp1_vol = Invalid
         /\ alike' = 2 => rawVol' = rawVol
<1>1. SkipTime \in Nat /\ err_cnt \in Nat /\ wrong \in Nat /\ alike \in Nat
  BY PilotAssumption DEF PilotTypeOK
<1>2. /\ Upto(err_cnt + 1, SkipTime + 1) \in 0..(SkipTime + 1)
      /\ Upto(wrong + 1, SkipTime + 1) \in 0..(SkipTime + 1)
      /\ Upto(alike + 1, 2) \in 0..2
  <2>1. /\ err_cnt + 1 \in Nat /\ wrong + 1 \in Nat /\ alike + 1 \in Nat
        /\ SkipTime + 1 \in Nat /\ 2 \in Nat
    BY <1>1
  <2> QED BY <2>1, UptoInRange
<1>3. err_cnt' = wrong' /\ err_cnt' \in 0..(SkipTime + 1)
  BY <1>1, <1>2 DEF RawRead, RawPassed, Counted, ErrCntReset, ErrCntMore
<1>4. rawVol' \in Reading
  BY DEF RawRead, RawPassed, PilotTypeOK, Reading, Invalid
<1>5. alike' \in 0..2
  BY <1>2 DEF RawRead
<1>6. alike' = 2 => rawVol' = rawVol
  BY DEF RawRead
<1>7. rawVol' = Invalid /\ err_cnt' <= SkipTime => tp1_vol = Invalid
  <2>1. CASE input # Invalid
    BY <2>1 DEF RawRead, RawPassed
  <2>2. CASE input = Invalid
    <3>1. err_cnt' <= SkipTime => err_cnt <= SkipTime /\ rawVol' = rawVol
      BY <1>1, <2>2 DEF RawRead, RawPassed, ErrCntMore, Upto
    <3> QED BY <3>1 DEF Startup
  <2> QED BY <2>1, <2>2
<1> QED BY <1>3, <1>4, <1>5, <1>6, <1>7

LEMMA PilotStarts == PilotInit => PilotInv
<1> SUFFICES ASSUME PilotInit PROVE PilotInv
  OBVIOUS
<1>1. 0 \in Reading /\ Invalid = 0
  BY DEF Reading, Invalid
<1>2. PilotTypeOK
  <2>1. 0 \in 0..(SkipTime + 1) /\ 0 \in 0..2
    BY PilotAssumption
  <2>2. err_cnt \in 0..(SkipTime + 1) /\ wrong \in 0..(SkipTime + 1) /\ alike \in 0..2
    BY <2>1 DEF PilotInit
  <2>3. /\ input \in Reading /\ rawVol \in Reading /\ tp1_vol \in Reading
        /\ state \in {"get", "sure"}
    BY <1>1 DEF PilotInit
  <2> QED BY <2>2, <2>3 DEF PilotTypeOK
<1>3. Counted /\ Startup /\ AtRest /\ FollowsInTwo
  BY <1>1 DEF PilotInit, Counted, Startup, AtRest, FollowsInTwo
<1> QED BY <1>2, <1>3 DEF PilotInv

LEMMA PilotStep == PilotInv /\ [PilotNext]_pilotVars => PilotInv'
<1> SUFFICES ASSUME PilotInv, [PilotNext]_pilotVars PROVE PilotInv'
  OBVIOUS
<1> USE DEF PilotInv
<1>1. CASE Get
  <2>1. RawRead
    BY <1>1 DEF Get
  <2>2. tp1_vol' = tp1_vol /\ input' = input /\ tp1_vol = rawVol
    BY <1>1, <2>1 DEF Get, AtRest, RawRead
  <2>3. PilotTypeOK' /\ Counted' /\ Startup'
    BY <1>1, <2>1, <2>2, RawReadKeeps DEF Get, PilotTypeOK, Counted, Startup
  <2>4. AtRest' /\ FollowsInTwo'
    BY <1>1, <2>1, <2>2, RawReadKeeps DEF Get, AtRest, FollowsInTwo
  <2> QED BY <2>3, <2>4
<1>2. CASE Sure
  <2>1. RawRead /\ tp1_vol' = rawVol' /\ state' \in {"get", "sure"}
    BY <1>2 DEF Sure, SurePublishes
  <2>2. input' = input
    BY <2>1 DEF RawRead
  <2>3. PilotTypeOK' /\ Counted'
    BY <2>1, <2>2, RawReadKeeps DEF PilotTypeOK, Counted
  <2>4. Startup' /\ AtRest' /\ FollowsInTwo'
    BY <2>1 DEF Startup, AtRest, FollowsInTwo
  <2> QED BY <2>3, <2>4
<1>3. CASE \E v \in Reading : Input(v)
  BY <1>3 DEF Input, taskVars, history, PilotTypeOK, Counted, Startup, AtRest,
              FollowsInTwo
<1>4. CASE UNCHANGED pilotVars
  BY <1>4 DEF pilotVars, taskVars, history, PilotTypeOK, Counted, Startup, AtRest,
              FollowsInTwo
<1> QED BY <1>1, <1>2, <1>3, <1>4 DEF PilotNext, Read

THEOREM PilotHolds == PilotSpec => []PilotInv
BY PilotStarts, PilotStep, PTL DEF PilotSpec

(* Two readings alike are published, for every skip time                   *)
(* (acp1000_din.c, charger_tp1_vol_detect_task).                           *)
THEOREM Follows == PilotSpec => []FollowsInTwo
<1>1. PilotInv => FollowsInTwo
  BY DEF PilotInv
<1> QED BY <1>1, PilotHolds, PTL

(* Whatever the noise, a pilot error is published only after more than     *)
(* SkipTime invalid inputs in a row (acp1000_tp1_raw_vol_get).             *)
THEOREM ErrorsConfirmed == PilotSpec => ErrorConfirmed
<1>1. PilotInv /\ [PilotNext]_pilotVars
        => [(tp1_vol' = Invalid /\ tp1_vol # Invalid) => wrong' > SkipTime]_pilotVars
  <2> SUFFICES ASSUME PilotInv, PilotNext, tp1_vol' = Invalid, tp1_vol # Invalid
               PROVE  wrong' > SkipTime
    OBVIOUS
  <2>1. RawRead /\ rawVol' = Invalid
    BY DEF PilotNext, Read, Get, Sure, SurePublishes, Input, taskVars
  <2>2. err_cnt' = wrong' /\ err_cnt' \in 0..(SkipTime + 1)
        /\ ~ (err_cnt' <= SkipTime)
    BY <2>1, RawReadKeeps DEF PilotInv
  <2> QED BY <2>2, PilotAssumption
<1> QED BY <1>1, PilotHolds, PTL DEF PilotSpec, ErrorConfirmed
=============================================================================
