--------------------------- MODULE Billing_proofs ---------------------------
(***************************************************************************)
(* In every build, with any number of charges, stops at any step of the    *)
(* task and card events at any time: each stop is recorded once at most;   *)
(* a charge stopped while billing followed it is recorded with its own     *)
(* data, once; what billing follows is the last charge that began; and a   *)
(* settlement is taken only if it came since the semaphore was drained.    *)
(***************************************************************************)
EXTENDS Billing, SequenceTheorems, TLAPS

(* No record has the data of the charge that began last. *)
Unrecorded == \A i \in DOMAIN saved : saved[i].charge < charge

(* The task is in the end of a charge, after the record. *)
Closing == pc \in {"end_ending", "hub_wait", "gun_wait", "end_end"}

(* The start of a charge is being measured... *)
Starting ==
  /\ role = "start" \/ pc \in {"start_mode", "start_begin"} => Unrecorded
  /\ pc = "start_begin" => dat.charge = charge

(* ...or billing follows it, or it was following when the stop came that   *)
(* is still to be recorded.                                                *)
ToRecord == role = "ing" \/ (role = "end" /\ followed /\ ~Closing)

Following ==
  ToRecord => /\ Unrecorded /\ dat.charge = charge
              /\ pc \notin {"start_mode", "start_begin"}

(* The reason of a charge that is followed is not the fault of another. *)
Reasoned ==
  /\ ctl = "on" /\ pc = "start_begin" => dat.reason # "fault"
  /\ ctl = "on" /\ role = "ing" => dat.reason # "fault"

BillingInv ==
  /\ TypeOK
  /\ dat.charge <= charge /\ \A i \in DOMAIN saved : saved[i].charge <= charge
  /\ Starting /\ Following /\ Reasoned

(* A stop whose role is still to be found is still to be recorded; one     *)
(* that is told while the task ends the charge before is lost.             *)
StopsInv == /\ TypeOK /\ Len(saved) <= stops
            /\ (role = "end" /\ ~Closing) => Len(saved) < stops

-----------------------------------------------------------------------------
LEMMA TypeInit == Init => TypeOK
<1> SUFFICES ASSUME Init PROVE TypeOK
  OBVIOUS
<1>1. dat \in Record /\ charge \in 0..MaxCharges /\ stops \in 0..MaxStops
  BY BillingAssumption DEF Init, Record, Reason
<1>2. saved \in Seq(Record)
  BY DEF Init
<1>3. TaskTypes
  BY <1>1, <1>2 DEF Init, TaskTypes, Role
<1>4. HubTypes /\ CtlTypes
  BY <1>1 DEF Init, HubTypes, CtlTypes
<1> QED BY <1>3, <1>4 DEF Init, TypeOK, Role

(* What a step leaves alone keeps its types. *)
LEMMA Frame ==
  ASSUME TypeOK
  PROVE  /\ UNCHANGED build => (build \in Builds)'
         /\ UNCHANGED role => (role \in Role)'
         /\ UNCHANGED hubVars => HubTypes'
         /\ UNCHANGED ctlVars => CtlTypes'
         /\ UNCHANGED fresh => (fresh \in BOOLEAN)'
         /\ UNCHANGED hist => (followed \in BOOLEAN /\ answered \in BOOLEAN)'
BY DEF TypeOK, HubTypes, CtlTypes, hubVars, ctlVars, hist

LEMMA TaskTyped == ASSUME TypeOK, Task PROVE TypeOK'
<1> USE DEF Goto, Plays
<1>1. CASE Poll
  <2>1. TaskTypes'
    BY <1>1 DEF Poll, TypeOK, TaskTypes
  <2> QED BY <1>1, <2>1, Frame DEF Poll, TypeOK
<1>2. CASE PlayNothing
  <2>1. TaskTypes'
    BY <1>2 DEF PlayNothing, TypeOK, TaskTypes
  <2> QED BY <1>2, <2>1, Frame DEF PlayNothing, TypeOK
<1>3. CASE AskMode
  <2>1. TaskTypes'
    BY <1>3 DEF AskMode, TypeOK, TaskTypes
  <2> QED BY <1>3, <2>1, Frame DEF AskMode, TypeOK
<1>4. CASE IdleDone
  <2>1. TaskTypes'
    BY <1>4 DEF IdleDone, TypeOK, TaskTypes
  <2> QED BY <1>4, <2>1, Frame DEF IdleDone, TypeOK
<1>5. CASE StartMeasured
  <2>1. TaskTypes'
    BY <1>5 DEF StartMeasured, TypeOK, TaskTypes, StartData, Record, Reason, CtlTypes
  <2> QED BY <1>5, <2>1, Frame DEF StartMeasured, TypeOK
<1>6. CASE StartBegun
  <2>1. TaskTypes'
    BY <1>6 DEF StartBegun, TypeOK, TaskTypes
  <2>2. (role \in Role)'
    BY <1>6 DEF StartBegun, TypeOK, Role
  <2> QED BY <1>6, <2>1, <2>2, Frame DEF StartBegun, TypeOK
<1>7. CASE StartSem
  <2>1. TaskTypes'
    BY <1>7 DEF StartSem, TypeOK, TaskTypes
  <2>2. HubTypes'
    BY <1>7 DEF StartSem, TypeOK, HubTypes
  <2> QED BY <1>7, <2>1, <2>2, Frame DEF StartSem, TypeOK
<1>8. CASE IngFollow
  <2>1. TaskTypes'
    BY <1>8 DEF IngFollow, TypeOK, TaskTypes, WatchedReasons, Record, Reason
  <2> QED BY <1>8, <2>1, Frame DEF IngFollow, TypeOK
<1>9. CASE IngTell
  <2>1. TaskTypes'
    BY <1>9 DEF IngTell, TypeOK, TaskTypes
  <2> QED BY <1>9, <2>1, Frame DEF IngTell, TypeOK
<1>10. CASE IngStop
  <2>1. TaskTypes'
    BY <1>10 DEF IngStop, TypeOK, TaskTypes
  <2> QED BY <1>10, <2>1, Frame DEF IngStop, TypeOK
<1>11. CASE EndSave
  <2>1. TaskTypes'
    BY <1>11 DEF EndSave, TypeOK, TaskTypes
  <2> QED BY <1>11, <2>1, Frame DEF EndSave, TypeOK
<1>12. CASE EndEnding
  <2>1. TaskTypes'
    BY <1>12 DEF EndEnding, TypeOK, TaskTypes
  <2> QED BY <1>12, <2>1, Frame DEF EndEnding, TypeOK
<1>13. CASE EndSettled
  <2>1. TaskTypes'
    BY <1>13 DEF EndSettled, TypeOK, TaskTypes, TakeHub
  <2>2. HubTypes'
    BY <1>13 DEF EndSettled, TypeOK, HubTypes, TakeHub
  <2> QED BY <1>13, <2>1, <2>2, Frame DEF EndSettled, TypeOK
<1>14. CASE EndGun
  <2>1. TaskTypes'
    BY <1>14 DEF EndGun, TypeOK, TaskTypes
  <2>2. HubTypes'
    BY <1>14 DEF EndGun, TypeOK, HubTypes
  <2> QED BY <1>14, <2>1, <2>2, Frame DEF EndGun, TypeOK
<1>15. CASE EndEnd
  <2>1. TaskTypes'
    BY <1>15 DEF EndEnd, TypeOK, TaskTypes
  <2>2. HubTypes'
    BY <1>15 DEF EndEnd, TypeOK, HubTypes
  <2>3. (role \in Role)'
    BY <1>15 DEF EndEnd, TypeOK, Role, EndRole
  <2> QED BY <1>15, <2>1, <2>2, <2>3, Frame DEF EndEnd, TypeOK
<1> QED BY <1>1, <1>2, <1>3, <1>4, <1>5, <1>6, <1>7, <1>8, <1>9, <1>10, <1>11, <1>12, <1>13, <1>14, <1>15 DEF Task

LEMMA EventsTyped == ASSUME TypeOK, Events PROVE TypeOK'
<1>1. UNCHANGED taskVars => TaskTypes'
  BY DEF TypeOK, TaskTypes, taskVars
<1>2. CASE ChargeStart
  <2>1. CtlTypes'
    BY <1>2, BillingAssumption DEF ChargeStart, TypeOK, CtlTypes
  <2>2. HubTypes'
    BY <1>2 DEF ChargeStart, AwaitHub, TypeOK, HubTypes, HubSemNew
  <2>3. (role \in Role)'
    BY <1>2 DEF ChargeStart, TypeOK, Role
  <2> QED BY <1>2, <2>1, <2>2, <2>3, <1>1, Frame
          DEF ChargeStart, AwaitHub, TypeOK
<1>8. CASE ManStart
  <2>1. HubTypes'
    BY <1>8 DEF ManStart, AwaitHub, TypeOK, HubTypes, HubSemNew
  <2> QED BY <1>8, <2>1, <1>1, Frame DEF ManStart, AwaitHub, TypeOK
<1>3. ASSUME NEW fault \in BOOLEAN, ChargeStop(fault)
      PROVE  TypeOK'
  <2>1. CtlTypes'
    BY <1>3, BillingAssumption DEF ChargeStop, TypeOK, CtlTypes
  <2>2. (role \in Role)'
    BY <1>3 DEF ChargeStop, TypeOK, Role, StopRole
  <2> QED BY <1>3, <2>1, <2>2, <1>1, Frame DEF ChargeStop, TypeOK
<1>4. CASE ErrChager
  <2>1. CtlTypes'
    BY <1>4 DEF ErrChager, TypeOK, CtlTypes
  <2>2. TaskTypes'
    BY <1>4 DEF ErrChager, TypeOK, TaskTypes, Record, Reason
  <2> QED BY <1>4, <2>1, <2>2, <1>1, Frame DEF ErrChager, TypeOK
<1>5. CASE GunPulled
  <2>1. CtlTypes'
    BY <1>5 DEF GunPulled, TypeOK, CtlTypes
  <2>2. HubTypes'
    BY <1>5 DEF GunPulled, TypeOK, HubTypes
  <2> QED BY <1>5, <2>1, <2>2, <1>1, Frame DEF GunPulled, TypeOK
<1>6. CASE Settlement
  <2>1. HubTypes'
    BY <1>6 DEF Settlement, TypeOK, HubTypes
  <2> QED BY <1>6, <2>1, <1>1, Frame DEF Settlement, TypeOK
<1>7. ASSUME NEW r \in {"none", "idle"}, CardAuth(r)
      PROVE  TypeOK'
  <2>1. (role \in Role)'
    BY <1>7 DEF CardAuth, TypeOK, Role
  <2>2. CtlTypes'
    BY <1>7 DEF CardAuth, TypeOK, CtlTypes
  <2> QED BY <1>7, <2>1, <2>2, <1>1, Frame DEF CardAuth, TypeOK
<1> QED BY <1>2, <1>3, <1>4, <1>5, <1>6, <1>7, <1>8 DEF Events

LEMMA TypeStep == ASSUME TypeOK, [Next]_vars PROVE TypeOK'
<1>1. CASE UNCHANGED vars
  BY <1>1 DEF TypeOK, TaskTypes, HubTypes, CtlTypes, vars, taskVars, hubVars,
     ctlVars, hist
<1> QED BY <1>1, TaskTyped, EventsTyped DEF Next

(* The variables of billing have their types, in every build. *)
THEOREM BillingTypeCorrect == Spec => []TypeOK
BY TypeInit, TypeStep, PTL DEF Spec

-----------------------------------------------------------------------------
LEMMA StopsStep == ASSUME StopsInv, [Next]_vars PROVE StopsInv'
<1>1. TypeOK /\ TypeOK'
  BY TypeStep DEF StopsInv
<1>2. CASE EndSave
  <2>1. Len(saved') = Len(saved) + 1
    BY <1>1, <1>2 DEF EndSave, TypeOK, TaskTypes
  <2>2. stops' = stops /\ Closing' /\ Len(saved) < stops
    BY <1>2 DEF EndSave, Plays, Closing, StopsInv, ctlVars
  <2> QED BY <1>1, <2>1, <2>2 DEF StopsInv, TypeOK, CtlTypes, TaskTypes
<1>3. CASE UNCHANGED saved /\ ~(EndSave \/ EndEnd)
  <2>1. CASE \E fault \in BOOLEAN : ChargeStop(fault)
    BY <1>1, <1>3, <2>1 DEF StopsInv, ChargeStop, TypeOK, CtlTypes, TaskTypes
  <2>2. CASE UNCHANGED stops /\ (role' = "end" => role = "end")
             /\ (Closing => Closing')
    BY <1>1, <1>3, <2>2 DEF StopsInv, Closing
  <2>3. CASE Task
    <3>1. UNCHANGED stops
      BY <2>3 DEF Task, Poll, PlayNothing, AskMode, IdleDone, StartMeasured,
         StartBegun, StartSem, IngFollow, IngTell, IngStop, EndSave,
         EndEnding, EndSettled, EndGun, EndEnd, ctlVars
    <3>2. UNCHANGED role \/ role' = "ing"
      BY <1>3, <2>3 DEF Task, Poll, PlayNothing, AskMode, IdleDone,
         StartMeasured, StartBegun, StartSem, IngFollow, IngTell, IngStop,
         EndEnding, EndSettled, EndGun
    <3>3. Closing => Closing'
      BY <1>3, <2>3 DEF Task, Poll, PlayNothing, AskMode, IdleDone,
         StartMeasured, StartBegun, StartSem, IngFollow, IngTell, IngStop,
         EndEnding, EndSettled, EndGun, Goto, Plays, Closing
    <3> QED BY <2>2, <3>1, <3>2, <3>3
  <2>4. CASE UNCHANGED vars
    BY <2>2, <2>4 DEF vars, taskVars, ctlVars, Closing
  <2>5. ASSUME Events, ~(\E fault \in BOOLEAN : ChargeStop(fault))
        PROVE  StopsInv'
    BY <2>2, <2>5 DEF Events, ChargeStart, ManStart, ErrChager, GunPulled, Settlement,
       CardAuth, taskVars, ctlVars, Closing
  <2> QED BY <2>1, <2>3, <2>4, <2>5 DEF Next
<1>4. CASE EndEnd
  BY <1>1, <1>4 DEF EndEnd, EndRole, StopsInv, ctlVars
<1> QED
  <2>1. UNCHANGED saved \/ EndSave
    BY DEF Next, vars, Task, Events, Poll, PlayNothing, AskMode, IdleDone,
        StartMeasured, StartBegun, StartSem, IngFollow, IngTell, IngStop,
        EndEnding, EndSettled, EndGun, EndEnd, ChargeStart, ManStart,
        ChargeStop, ErrChager, GunPulled, Settlement, CardAuth, taskVars
  <2> QED BY <1>2, <1>3, <1>4, <2>1

(* In every build, no more records are saved than stops were told: a stop  *)
(* whose role is found again, set again or cleared is recorded once at     *)
(* most (billing_end_do, the event driver).                                *)
THEOREM StopsRecordedOnce == Spec => []RecordsOfStops
<1>1. Init => StopsInv
  BY TypeInit DEF Init, StopsInv
<1>2. StopsInv => RecordsOfStops
  BY DEF StopsInv, RecordsOfStops
<1> QED BY <1>1, <1>2, StopsStep, PTL DEF Spec

-----------------------------------------------------------------------------
(* The task, measuring the start of a charge. *)
LEMMA InvAtStart ==
  ASSUME BillingInv, TypeOK', StartMeasured \/ StartBegun
  PROVE  BillingInv'
<1> USE DEF Goto, ctlVars, Unrecorded, Closing
<1>1. /\ TypeOK /\ Starting /\ Following /\ dat.charge <= charge
      /\ \A i \in DOMAIN saved : saved[i].charge <= charge
      /\ charge \in Nat
  BY BillingAssumption DEF BillingInv, TypeOK, CtlTypes
<1>2. CASE StartMeasured
  <2>1. dat'.charge = charge /\ dat'.reason = "none"
    BY <1>2 DEF StartMeasured, StartData
  <2>2. /\ UNCHANGED <<role, saved, ctl, charge, followed>>
        /\ pc = "start_mode" /\ pc' = "start_begin" /\ Unrecorded
    BY <1>1, <1>2 DEF StartMeasured, Starting, hist
  <2>3. ~ToRecord'
    BY <1>1, <2>2 DEF Following, ToRecord
  <2> QED BY <1>1, <2>1, <2>2, <2>3
          DEF BillingInv, Starting, Following, Reasoned, ToRecord
<1>3. CASE StartBegun
  <2>1. /\ UNCHANGED <<dat, saved, ctl, charge, followed>>
        /\ pc = "start_begin" /\ pc' = "start_sem" /\ role' = "ing"
        /\ Unrecorded /\ dat.charge = charge
        /\ ctl = "on" => dat.reason # "fault"
    BY <1>1, <1>3 DEF StartBegun, Starting, hist, BillingInv, Reasoned
  <2> QED BY <1>1, <2>1
          DEF BillingInv, Starting, Following, Reasoned, ToRecord
<1> QED BY <1>2, <1>3

(* A limit may stop the charge that is followed: the charge stays. *)
LEMMA InvAtLimit == ASSUME BillingInv, TypeOK', IngFollow PROVE BillingInv'
<1>1. PICK r \in WatchedReasons : dat' = [dat EXCEPT !.reason = r]
  BY DEF IngFollow
<1>2. dat \in [charge : 0..MaxCharges, reason : Reason]
  BY DEF BillingInv, TypeOK, TaskTypes, Record
<1>3. /\ dat'.charge = dat.charge /\ dat'.reason \in {dat.reason, "runout"}
      /\ UNCHANGED <<role, saved, ctl, charge, followed>>
      /\ pc = "play" /\ pc' = "ing_tell"
  BY <1>1, <1>2 DEF IngFollow, WatchedReasons, ctlVars, hist, Plays
<1> QED BY <1>3 DEF BillingInv, Starting, Following, Reasoned, ToRecord,
           Unrecorded, Closing

(* The record is saved: if it is to be that of the last charge, no record  *)
(* was before.                                                             *)
LEMMA InvAtSave == ASSUME BillingInv, TypeOK', EndSave PROVE BillingInv'
<1>1. /\ UNCHANGED <<role, dat, ctl, charge, followed>> /\ role = "end"
      /\ pc = "play" /\ Closing' /\ saved' = Append(saved, dat)
      /\ pc' \in {"end_ending", "end_end"}
  BY DEF EndSave, Plays, Closing, ctlVars, hist
<1>2. saved \in Seq(Record) /\ dat \in Record
  BY DEF BillingInv, TypeOK, TaskTypes
<1>3. \A i \in DOMAIN saved' : saved'[i] = dat \/
                              (i \in DOMAIN saved /\ saved'[i] = saved[i])
  BY <1>1, <1>2
<1>4. \A i \in DOMAIN saved' : saved'[i].charge <= charge
  BY <1>3 DEF BillingInv
<1> QED BY <1>1, <1>4 DEF BillingInv, Starting, Following, Reasoned, ToRecord

(* The other steps of the task change no data. *)
LEMMA InvAtRest ==
  ASSUME BillingInv, TypeOK', Task,
         ~StartMeasured, ~StartBegun, ~IngFollow, ~EndSave
  PROVE  BillingInv'
<1>1. /\ UNCHANGED <<dat, saved, ctl, charge, followed>>
      /\ UNCHANGED role \/ role' = "none"
  BY DEF Task, Poll, PlayNothing, AskMode, IdleDone, StartSem, IngTell,
     IngStop, EndEnding, EndSettled, EndGun, EndEnd, EndRole, ctlVars, hist
<1>2. /\ pc' # "start_begin"
      /\ pc' = "start_mode" => role = "start" /\ role' = "start"
      /\ Closing => Closing' \/ role' = "none"
  BY DEF Task, Poll, PlayNothing, AskMode, IdleDone, StartSem, IngTell,
     IngStop, EndEnding, EndSettled, EndGun, EndEnd, EndRole, Goto, Plays,
     Closing
<1> QED BY <1>1, <1>2 DEF BillingInv, Starting, Following, Reasoned,
           ToRecord, Unrecorded

LEMMA InvEvents == ASSUME BillingInv, TypeOK', Events PROVE BillingInv'
<1>0. /\ TypeOK /\ Starting /\ Following /\ Reasoned /\ dat.charge <= charge
      /\ \A i \in DOMAIN saved : saved[i].charge <= charge
  BY DEF BillingInv
<1>1. CASE ChargeStart
  <2>1. /\ UNCHANGED <<dat, saved, pc>> /\ charge' = charge + 1
        /\ role' = "start"
        /\ pc \notin {"start_mode", "start_begin"}
    BY <1>1 DEF ChargeStart, Rested, taskVars
  <2>2. charge \in Nat /\ dat.charge \in Nat
        /\ \A i \in DOMAIN saved : saved[i].charge \in Nat
    <3>1. dat \in Record /\ saved \in Seq(Record) /\ charge \in 0..MaxCharges
      BY <1>0 DEF TypeOK, TaskTypes, CtlTypes
    <3>2. \A i \in DOMAIN saved : saved[i] \in Record
      BY <3>1
    <3> QED BY <3>1, <3>2, BillingAssumption DEF Record
  <2>3. /\ dat'.charge <= charge'
        /\ \A i \in DOMAIN saved' : /\ saved'[i].charge <= charge'
                                   /\ saved'[i].charge < charge'
    BY <1>0, <2>1, <2>2
  <2> QED BY <2>1, <2>3 DEF BillingInv, Starting, Following, Reasoned,
             ToRecord, Unrecorded
<1>2. ASSUME NEW fault \in BOOLEAN, ChargeStop(fault)
      PROVE  BillingInv'
  <2>1. /\ UNCHANGED <<dat, saved, pc, charge>> /\ role' = "end"
        /\ followed' = (role = "ing") /\ ctl' # "on"
    BY <1>2 DEF ChargeStop, StopRole, taskVars
  <2> QED BY <1>0, <2>1 DEF BillingInv, Starting, Following, Reasoned,
             ToRecord, Unrecorded, Closing
<1>3. CASE ErrChager
  <2>1. dat'.charge = dat.charge
    BY <1>0, <1>3 DEF ErrChager, TypeOK, TaskTypes, Record
  <2>2. UNCHANGED <<saved, pc, role, charge, followed>> /\ ctl' = "plugged"
    BY <1>3 DEF ErrChager, hist
  <2> QED BY <1>0, <2>1, <2>2 DEF BillingInv, Starting, Following, Reasoned,
             ToRecord, Unrecorded, Closing
<1>4. ASSUME NEW r \in {"none", "idle"}, CardAuth(r)
      PROVE  BillingInv'
  <2>1. /\ UNCHANGED <<dat, saved, pc, charge, followed>>
        /\ role' \in {"none", "idle"} /\ ctl' \in {ctl, "plugged"}
    BY <1>4 DEF CardAuth, taskVars, hist
  <2> QED BY <1>0, <2>1 DEF BillingInv, Starting, Following, Reasoned,
             ToRecord, Unrecorded, Closing
<1>5. CASE ManStart \/ GunPulled \/ Settlement
  <2>1. /\ UNCHANGED <<dat, saved, pc, role, charge, followed>>
        /\ ctl' = "on" => ctl = "on"
    BY <1>5 DEF ManStart, GunPulled, Settlement, taskVars, ctlVars, hist
  <2> QED BY <1>0, <2>1 DEF BillingInv, Starting, Following, Reasoned,
             ToRecord, Unrecorded, Closing
<1> QED BY <1>1, <1>2, <1>3, <1>4, <1>5 DEF Events

LEMMA InvStep == ASSUME BillingInv, [Next]_vars PROVE BillingInv'
<1>1. TypeOK'
  BY TypeStep DEF BillingInv
<1>2. CASE UNCHANGED vars
  BY <1>1, <1>2 DEF BillingInv, Starting, Following, Reasoned, ToRecord,
     Unrecorded, Closing, vars, taskVars, ctlVars, hist
<1> QED BY <1>1, <1>2, InvAtStart, InvAtLimit, InvAtSave, InvAtRest, InvEvents
        DEF Next

THEOREM BillingHolds == Spec => []BillingInv
<1>1. Init => BillingInv
  BY TypeInit DEF Init, BillingInv, Starting, Following, Reasoned, ToRecord,
     Unrecorded
<1> QED BY <1>1, InvStep, PTL DEF Spec

(* A charge stopped while billing followed it is recorded with its own     *)
(* data and once, for any number of charges, with stops at any step of the *)
(* task and card events at any time (billing_start_do, billing_end_do and  *)
(* the event driver between them).                                         *)
THEOREM RecordsOwn == Spec => OwnRecord
<1>1. BillingInv /\ [Next]_vars =>
        [(EndSave /\ followed) =>
           /\ dat.charge = charge
           /\ \A i \in DOMAIN saved : saved[i].charge < charge]_vars
  BY DEF BillingInv, Following, ToRecord, Unrecorded, Closing, EndSave, Plays
<1> QED BY <1>1, BillingHolds, PTL DEF Spec, OwnRecord

(* What billing follows is the last charge that began, measured from its   *)
(* start and without the fault of the one before (billing_ing_do).         *)
THEOREM FollowsOwn == Spec => []BillsOwnCharge
<1>1. BillingInv => BillsOwnCharge
  BY DEF BillingInv, Following, ToRecord, Reasoned, BillsOwnCharge
<1> QED BY <1>1, BillingHolds, PTL
-----------------------------------------------------------------------------
(* The semaphore of the settlement is drained when a charge, or a start,   *)
(* is told, so what is left in it was told after that.                     *)
HubSemFresh == hubSem => answered

(* The task only takes the semaphore, and leaves the history alone.        *)
LEMMA TaskTakesHub ==
  ASSUME TypeOK, Task
  PROVE  (hubSem' => hubSem) /\ UNCHANGED answered
BY DEF Task, Poll, PlayNothing, AskMode, IdleDone, StartMeasured, StartBegun,
   StartSem, IngFollow, IngTell, IngStop, EndSave, EndEnding, EndSettled,
   TakeHub, EndGun, EndEnd, hubVars, hist, TypeOK, HubTypes

LEMMA HubSemStep ==
  ASSUME TypeOK, HubSemFresh, [Next]_vars
  PROVE  HubSemFresh'
<1>1. CASE Task
  BY <1>1, TaskTakesHub DEF HubSemFresh
<1>2. CASE ChargeStart \/ ManStart
  BY <1>2 DEF ChargeStart, ManStart, AwaitHub, HubSemNew, HubSemFresh
<1>3. CASE Settlement
  BY <1>3 DEF Settlement, HubSemFresh
<1>4. CASE UNCHANGED <<hubSem, answered>>
  BY <1>4 DEF HubSemFresh
<1>5. ASSUME Events, ~ChargeStart, ~ManStart, ~Settlement
      PROVE  UNCHANGED <<hubSem, answered>>
  BY <1>5 DEF Events, ChargeStop, ErrChager, GunPulled, CardAuth, hubVars,
     hist
<1>6. CASE UNCHANGED vars
  BY <1>4, <1>6 DEF vars, hubVars, hist
<1> QED BY <1>1, <1>2, <1>3, <1>4, <1>5, <1>6 DEF Next

(* A settlement that billing_end_do takes for good was told after the last *)
(* CHARGE_PIEL_START or CHARGE_MAN_START, in every build: one left in the  *)
(* semaphore before is never taken, one told later for an older charge is. *)
THEOREM SettlementsOwn == Spec => SettledByHub
<1>1. Init => HubSemFresh
  BY DEF Init, HubSemFresh
<1>2. TypeOK /\ HubSemFresh /\ [Next]_vars => HubSemFresh'
  BY HubSemStep
<1>3. TypeOK /\ HubSemFresh => [(EndSettled /\ settled') => answered]_vars
  BY DEF EndSettled, TakeHub, HubSemFresh
<1> QED
  BY <1>1, <1>2, <1>3, BillingTypeCorrect, PTL DEF Spec, SettledByHub
=============================================================================
