------------------------------ MODULE Billing ------------------------------
(***************************************************************************)
(* The billing task (acp1000/billing.c).  It plays one of four roles every *)
(* 100 ms; events of the controller and of the card reader change the role *)
(* from other tasks, between any two steps of this one.  A charge that     *)
(* begins is measured (start), followed (ing), and recorded and settled    *)
(* when it ends (end).                                                     *)
(*                                                                         *)
(* The controller appears by what it tells: ChargeSession says in which    *)
(* order.  The concentrator appears by the settlement it sends, the card   *)
(* reader and the screen by what they tell at any time.                    *)
(***************************************************************************)
EXTENDS Integers, Sequences

Build == [
  hub     : BOOLEAN,  \* ACP1000_HUB4G_BILLING: the concentrator settles
  monitor : BOOLEAN ] \* ACP1000_BILING_MONITOR: billing ends a charge at a
                      \* limit

CONSTANTS
  Builds,                \* the builds looked at
  MaxCharges, MaxStops   \* bounds on a run

ASSUME BillingAssumption ==
  /\ Builds \subseteq Build
  /\ MaxCharges \in Nat /\ MaxStops \in Nat

Role   == {"none", "idle", "start", "ing", "end"}
Reason == {"none", "runout", "fault"}
Record == [charge : 0..MaxCharges, reason : Reason]

VARIABLES
  build,     \* which of them this is; it stays
  role,      \* the p_billing_* pointer that is not NULL
  seen,      \* the role the task has found under the lock
  pc,        \* the step the task is at
  dat,       \* the charge whose start dat holds (0: none), and stop_reason
  saved,     \* the records saved, in order
  settled,   \* ret of the wait for hub4g_billing_sem
  gunSem,    \* charge_gun_sem
  hubSem,    \* hub4g_billing_sem
  hubRole,   \* p_hub4g_billing: a settlement is accepted
  ctl,       \* the controller: "off", "on", "err" (ERR_CHAGER is still to
             \* be told) or "plugged" (over, the gun not yet pulled)
  charge,    \* charges begun
  stops,     \* CHARGE_PILE_STOPs told
  fresh,     \* billing has found the role the last event gave it
  followed,  \* history: billing was following the charge when the last
             \* CHARGE_PILE_STOP came
  answered   \* history: the concentrator has settled since a charge, or a
             \* start, was last told

taskVars == <<seen, pc, dat, saved, settled>>
hubVars  == <<gunSem, hubSem, hubRole>>
ctlVars  == <<ctl, charge, stops>>
hist     == <<followed, answered>>
vars == <<build, role, taskVars, hubVars, ctlVars, fresh, hist>>

TaskTypes ==
  /\ seen \in Role
  /\ pc \in {"wait", "play", "idle_mode", "start_mode", "start_begin",
             "start_sem", "ing_tell", "ing_stop", "end_ending", "hub_wait",
             "gun_wait", "end_end", "fault"}
  /\ dat \in Record /\ saved \in Seq(Record) /\ settled \in BOOLEAN
HubTypes == gunSem \in BOOLEAN /\ hubSem \in BOOLEAN /\ hubRole \in BOOLEAN
CtlTypes == /\ ctl \in {"off", "on", "err", "plugged"}
            /\ charge \in 0..MaxCharges /\ stops \in 0..MaxStops

(* The variables have their types. *)
TypeOK == /\ build \in Builds /\ role \in Role
          /\ TaskTypes /\ HubTypes /\ CtlTypes
          /\ fresh \in BOOLEAN /\ followed \in BOOLEAN /\ answered \in BOOLEAN

Init ==
  /\ build \in Builds
  /\ role = "none" /\ seen = "none" /\ pc = "wait"
  /\ dat = [charge |-> 0, reason |-> "none"]
  /\ saved = <<>> /\ settled = TRUE
  /\ gunSem = FALSE /\ hubSem = FALSE /\ hubRole = FALSE
  /\ ctl = "off" /\ charge = 0 /\ stops = 0
  /\ fresh = TRUE /\ followed = FALSE /\ answered = FALSE

-----------------------------------------------------------------------------
(* The task.                                                               *)

Goto(from, to) == pc = from /\ pc' = to

(* The roles are copied under their lock... *)
Poll ==
  /\ pc = "wait"
  /\ seen' = role /\ fresh' = TRUE
  /\ pc' = IF role = "none" THEN "wait" ELSE "play"
  /\ UNCHANGED <<role, dat, saved, settled, hubVars, ctlVars, hist, build>>

(* ...and played through the pointer itself, which an event may have       *)
(* cleared: then a function pointer is fetched from address 0, and the     *)
(* processor stops in its fault handler.                                   *)
PlayNothing ==
  /\ Goto("play", "fault")
  /\ role # seen
  /\ UNCHANGED <<role, seen, dat, saved, settled, hubVars, ctlVars, fresh,
                 hist, build>>

Plays(r) == pc = "play" /\ seen = r /\ role = r

(* billing_idle_do and billing_start_do ask for the mode of charging. *)
AskMode ==
  /\ \/ Plays("idle") /\ pc' = "idle_mode"
     \/ Plays("start") /\ pc' = "start_mode"
  /\ UNCHANGED <<role, seen, dat, saved, settled, hubVars, ctlVars, fresh,
                 hist, build>>

IdleDone ==
  /\ Goto("idle_mode", "wait")
  /\ UNCHANGED <<role, seen, dat, saved, settled, hubVars, ctlVars, fresh,
                 hist, build>>

StartDataKept(c) == dat' = [dat EXCEPT !.charge = c]
StartData(c) == dat' = [charge |-> c, reason |-> "none"]

(* The mode is known: the start of the charge is measured. *)
StartMeasured ==
  /\ Goto("start_mode", "start_begin")
  /\ StartData(charge)
  /\ UNCHANGED <<role, seen, saved, settled, hubVars, ctlVars, fresh, hist,
                 build>>

(* BILLING_START, told to billing itself. *)
StartBegun ==
  /\ Goto("start_begin", "start_sem")
  /\ role' = "ing"
  /\ UNCHANGED <<seen, dat, saved, settled, hubVars, ctlVars, fresh, hist,
                 build>>

StartSem ==
  /\ Goto("start_sem", "wait")
  /\ gunSem' = FALSE
  /\ UNCHANGED <<role, seen, dat, saved, settled, hubSem, hubRole, ctlVars,
                 fresh, hist, build>>

(* billing_mode_monitor: a limit of the amount, the energy, the time or    *)
(* the balance may have been reached.                                      *)
WatchedReasons == {dat.reason} \cup (IF build.monitor THEN {"runout"} ELSE {})

(* billing_ing_do: the limits are watched, BILLING_ING is told... *)
IngFollow ==
  /\ Plays("ing") /\ pc' = "ing_tell"
  /\ \E r \in WatchedReasons : dat' = [dat EXCEPT !.reason = r]
  /\ UNCHANGED <<role, seen, saved, settled, hubVars, ctlVars, fresh, hist,
                 build>>

(* ...and then, when there is a reason, BILLING_STOP. *)
IngTell ==
  /\ pc = "ing_tell"
  /\ pc' = IF dat.reason = "none" THEN "wait" ELSE "ing_stop"
  /\ UNCHANGED <<role, seen, dat, saved, settled, hubVars, ctlVars, fresh,
                 hist, build>>

IngStop ==
  /\ Goto("ing_stop", "wait")
  /\ UNCHANGED <<role, seen, dat, saved, settled, hubVars, ctlVars, fresh,
                 hist, build>>

(* billing_end_do: the record is saved first. *)
EndSave ==
  /\ Plays("end")
  /\ saved' = Append(saved, dat)
  /\ pc' = IF build.hub THEN "end_ending" ELSE "end_end"
  /\ settled' = TRUE
  /\ UNCHANGED <<role, seen, dat, hubVars, ctlVars, fresh, hist, build>>

(* BILLING_ENDING is told, the settlement is waited for with a timeout... *)
EndEnding ==
  /\ Goto("end_ending", "hub_wait")
  /\ UNCHANGED <<role, seen, dat, saved, settled, hubVars, ctlVars, fresh,
                 hist, build>>

TakeHubForever == hubSem /\ hubSem' = FALSE /\ settled' = TRUE
TakeHub ==
  \/ hubSem /\ hubSem' = FALSE /\ settled' = TRUE
  \/ ~hubSem /\ settled' = FALSE /\ UNCHANGED hubSem   \* -ETIME

EndSettled ==
  /\ Goto("hub_wait", "gun_wait")
  /\ TakeHub
  /\ UNCHANGED <<role, seen, dat, saved, gunSem, hubRole, ctlVars, fresh,
                 hist, build>>

(* ...and the pulled gun without one. *)
EndGun ==
  /\ Goto("gun_wait", "end_end")
  /\ gunSem /\ gunSem' = FALSE
  /\ UNCHANGED <<role, seen, dat, saved, settled, hubSem, hubRole, ctlVars,
                 fresh, hist, build>>

(* BILLING_END clears whatever role there is. *)
EndRoleKept == UNCHANGED role
EndRole     == role' = "none"
EndEnd ==
  /\ Goto("end_end", "wait")
  /\ EndRole
  /\ hubRole' = FALSE
  /\ UNCHANGED <<seen, dat, saved, settled, gunSem, hubSem, ctlVars, fresh,
                 hist, build>>

Task == \/ Poll \/ PlayNothing \/ AskMode \/ IdleDone
        \/ StartMeasured \/ StartBegun \/ StartSem
        \/ IngFollow \/ IngTell \/ IngStop
        \/ EndSave \/ EndEnding \/ EndSettled \/ EndGun \/ EndEnd

-----------------------------------------------------------------------------
(* The controller, told to billing and to the concentrator's component.    *)
(* From the end of a charge to the next one the controller needs more than *)
(* half a second (20 polls to believe a gun), so billing, which runs every *)
(* 100 ms, has found the end and is at rest or in one of its long waits.   *)
Rested == fresh /\ pc \in {"wait", "hub_wait", "gun_wait"}

(* The semaphore of the settlement is drained. *)
HubSemKept == UNCHANGED hubSem
HubSemNew  == hubSem' = FALSE
AwaitHub   == HubSemNew /\ hubRole' = TRUE /\ answered' = FALSE

(* CHARGE_PIEL_START. *)
ChargeStart ==
  /\ ctl = "off" /\ charge < MaxCharges /\ stops < MaxStops
  /\ Rested
  /\ ctl' = "on" /\ charge' = charge + 1
  /\ role' = "start" /\ fresh' = FALSE
  /\ AwaitHub
  /\ UNCHANGED <<taskVars, gunSem, stops, followed, build>>

(* CHARGE_MAN_START, from the screen, the concentrator or the controller,  *)
(* also while a charge goes on: only the concentrator's component acts.    *)
ManStart ==
  /\ build.hub
  /\ AwaitHub
  /\ UNCHANGED <<role, taskVars, gunSem, ctlVars, fresh, followed, build>>

StopRole == role' = "end"

(* CHARGE_PILE_STOP: of the charge, however short it was, or of a gun      *)
(* pulled before its charge began.                                         *)
ChargeStop(fault) ==
  /\ ctl = "on" \/ (ctl = "off" /\ Rested /\ ~fault)
  /\ stops < MaxStops
  /\ ctl' = IF fault THEN "err" ELSE "plugged"
  /\ stops' = stops + 1
  /\ StopRole /\ fresh' = FALSE
  /\ followed' = (role = "ing")
  /\ UNCHANGED <<taskVars, hubVars, charge, answered, build>>

(* ERR_CHAGER, told after the stop. *)
ErrChager ==
  /\ ctl = "err" /\ ctl' = "plugged"
  /\ dat' = [dat EXCEPT !.reason = "fault"]
  /\ UNCHANGED <<role, seen, pc, saved, settled, hubVars, charge, stops, fresh,
                 hist, build>>

GunPulled ==
  /\ ctl = "plugged" /\ ctl' = "off"
  /\ gunSem' = TRUE
  /\ UNCHANGED <<role, taskVars, hubSem, hubRole, charge, stops, fresh, hist,
                 build>>

(* The concentrator's settlement, answered by its component while it has   *)
(* the role for it: at any time after the start of a charge.               *)
Settlement ==
  /\ build.hub /\ hubRole
  /\ hubSem' = TRUE /\ answered' = TRUE
  /\ UNCHANGED <<role, taskVars, gunSem, hubRole, ctlVars, fresh, followed,
                 build>>

(* CARD_AUTH_SUS ("idle") and CARD_AUTH_FAIL ("none") come at any time,    *)
(* and set and clear the roles whichever they are.  CARD_AUTH_FAIL takes   *)
(* the role of the controller too: unless the end of the charge is being   *)
(* told, it is over without a CHARGE_PILE_STOP.                            *)
CardAuth(r) ==
  /\ role' = r
  /\ \/ UNCHANGED ctl
     \/ r = "none" /\ ctl = "on" /\ ctl' = "plugged"
  /\ UNCHANGED <<taskVars, hubVars, charge, stops, fresh, hist, build>>

Events ==
  \/ ChargeStart \/ ManStart \/ (\E fault \in BOOLEAN : ChargeStop(fault))
  \/ ErrChager \/ GunPulled \/ Settlement
  \/ (\E r \in {"none", "idle"} : CardAuth(r))

Next == Task \/ (pc # "fault" /\ Events)

Spec == Init /\ [][Next]_vars
FairSpec == Spec /\ WF_vars(Task)

-----------------------------------------------------------------------------
(* A stop is recorded once at most, in every build, though its role is     *)
(* found by polling and cleared by an event of its own, and card events    *)
(* set and clear it in between.                                            *)
RecordsOfStops == Len(saved) <= stops

(* When a charge is stopped while billing follows it, the record saved for *)
(* the stop has the data of that very charge, which no record had before:  *)
(* also when cards, later stops or starts have moved the roles about.      *)
OwnRecord ==
  [][(EndSave /\ followed) =>
       /\ dat.charge = charge
       /\ \A i \in DOMAIN saved : saved[i].charge < charge]_vars

(* What billing follows ("billing in progress", billing.c:263) is the last *)
(* charge that began, measured from its start, and the fault that ended    *)
(* the charge before does not end this one (billing.c:253, :296).          *)
BillsOwnCharge ==
  role = "ing" => /\ dat.charge = charge
                  /\ ctl = "on" => dat.reason # "fault"

(* A stop whose role is not taken away again by a card or by the next      *)
(* charge is recorded, or billing waits for the gun to be pulled; it does  *)
(* not wait for the concentrator for ever.                                 *)
StopRecorded ==
  \A n \in 0..MaxStops :
    (role = "end" /\ Len(saved) = n)
      ~> (Len(saved) > n \/ role # "end" \/ pc \in {"gun_wait", "fault"})

(* A settlement reported good to the screen has been told by the           *)
(* concentrator since a charge, or a start, was last told: one left in the *)
(* semaphore before that is never taken.                                   *)
SettledByHub == [][(EndSettled /\ settled') => answered]_vars
=============================================================================
