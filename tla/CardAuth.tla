------------------------------ MODULE CardAuth ------------------------------
(***************************************************************************)
(* A swipe of a card: the card task (card_reader.c), the callbacks of the  *)
(* concentrator (hub4g.c, Modbus task) that answer it, the timer of the    *)
(* authentication (overtime_check_task.c) and the charge that comes of it. *)
(* The card task runs below the Modbus task, so a callback runs to its end *)
(* unless it waits: for the event mutex, or in a delay.  Which card it is  *)
(* does not matter here: recognition may say anything.                     *)
(***************************************************************************)

CONSTANTS
  HubAuth,    \* ACP1000_HUB4G_AUTH
  Overtime    \* ACP1000_OVERTIME_DETECT

ASSUME CardAssumption ==
  /\ HubAuth \in BOOLEAN /\ Overtime \in BOOLEAN

VARIABLES
  mode,       \* the roles of the reader, set together: free (authenticate),
              \* accepted (recognise, authenticate, lock), charging
              \* (recognise, lock)
  keyValid, allowed,             \* dat.key_vaild, dat.allow_charge
  armed,      \* the delayed work of the overtime is waiting
  firing,     \* it runs, and waits for the event mutex
  keyRole, usrRole, allowRole, unlockRole,    \* roles of the concentrator
  keySem, authSem, ctrlSem,      \* hub4g_key_sem, .._auth_sem, .._cctrl_sem
  pc,         \* the card task: where it is
  found,      \* the roles it saw when the card was swiped
  reco,       \* what recognition said
  mb,         \* the Modbus task
  press,      \* a start whose role has been looked at
  ctl,        \* the controller: off, wanted (MAN_START taken), on
  billing,    \* a charge has ended and BILLING_END is to come
  usrTold, told     \* history: answers told in this swipe, from its
                    \* CARD_SWING_OK to its end

reader == <<mode, keyValid, allowed>>
clock  == <<armed, firing>>
roles  == <<keyRole, usrRole, allowRole, unlockRole>>
sems   == <<keySem, authSem, ctrlSem>>
card   == <<found, reco>>
charge == <<press, ctl, billing>>
hist   == <<usrTold, told>>
vars   == <<reader, clock, roles, sems, pc, card, mb, charge, hist>>

Answers == {"none", "no", "yes"}

CardSteps == {"poll", "found", "known", "auth", "known_key",
              "no_key", "wait_key", "read", "wait_usr", "wait_allow",
              "decide", "sus", "fail", "fault"}

MbSteps == {"idle", "key", "usr", "allow_yes", "allow_no", "unlock", "accept"}

ReaderTypes == /\ mode \in {"free", "accepted", "charging"}
               /\ keyValid \in BOOLEAN /\ allowed \in BOOLEAN
ClockTypes  == armed \in BOOLEAN /\ firing \in BOOLEAN
RoleTypes   == /\ keyRole \in BOOLEAN /\ usrRole \in BOOLEAN
               /\ allowRole \in BOOLEAN /\ unlockRole \in BOOLEAN
SemTypes    == keySem \in BOOLEAN /\ authSem \in BOOLEAN /\ ctrlSem \in BOOLEAN
CardTypes   == /\ found \in {"free", "accepted", "charging"}
               /\ reco \in {"same", "diff", "invalid"}
ChargeTypes == /\ press \in BOOLEAN /\ ctl \in {"off", "wanted", "on"}
               /\ billing \in BOOLEAN
HistTypes   == usrTold \in BOOLEAN /\ told \in Answers

(* The variables have their types. *)
TypeOK == /\ ReaderTypes /\ ClockTypes /\ RoleTypes /\ SemTypes
          /\ pc \in CardSteps /\ CardTypes /\ mb \in MbSteps
          /\ ChargeTypes /\ HistTypes

(* After start-up; the key may come from the EEPROM, and the timer runs.   *)
Init ==
  /\ mode = "free" /\ keyValid \in BOOLEAN
  /\ allowed = FALSE
  /\ armed = Overtime /\ firing = FALSE
  /\ keyRole = FALSE /\ usrRole = FALSE /\ allowRole = FALSE
  /\ unlockRole = FALSE
  /\ keySem = FALSE /\ authSem = FALSE /\ ctrlSem = FALSE
  /\ pc = "poll" /\ found = "free" /\ reco = "diff"
  /\ mb = "idle" /\ press = FALSE /\ ctl = "off" /\ billing = FALSE
  /\ usrTold = FALSE /\ told = "none"

(* A role is played through its pointer: nothing runs after a NULL.        *)
Running == pc # "fault"
Goto(from, to) == pc = from /\ pc' = to

-----------------------------------------------------------------------------
(* Events, at every node that listens.                                     *)

SusUnarmed == mode' = "accepted" /\ UNCHANGED <<armed, unlockRole, ctl>>
                                      \* a deliberately wrong variant
CARD_AUTH_SUS ==
  /\ mode' = "accepted" /\ armed' = Overtime
  /\ UNCHANGED <<unlockRole, ctl>>

CARD_AUTH_FAIL ==
  /\ mode' = "free" /\ unlockRole' = FALSE /\ ctl' = "off"
  /\ UNCHANGED armed

(* What neither of them changes. *)
EventFrame == <<keyValid, allowed, firing, keyRole, usrRole,
                allowRole, sems, press, billing>>

-----------------------------------------------------------------------------
(* The card task. *)

Asking == pc \in {"wait_usr", "wait_allow", "decide", "sus"}
Forgotten == usrTold' = FALSE /\ told' = "none"

(* card_swing_event copies the roles under the lock. *)
Swipe ==
  /\ Goto("poll", "found")
  /\ found' = mode
  /\ UNCHANGED <<reader, clock, roles, sems, reco, mb, charge, hist>>

(* No card had been accepted: authenticate at once. *)
SwipedFree ==
  /\ pc = "found" /\ found = "free"
  /\ pc' = IF mode = "charging" THEN "fault" ELSE "auth"
  /\ UNCHANGED <<reader, clock, roles, sems, card, mb, charge, hist>>

(* card_reco_do: the card is compared and, if its id is known, read again. *)
Recognise(r) ==
  /\ pc = "found" /\ found # "free"
  /\ reco' = r
  /\ pc' = IF mode = "free" THEN "fault" ELSE "known"
  /\ UNCHANGED <<reader, clock, roles, sems, found, mb, charge, hist>>

(* The locals of card_swing_event end with it. *)
Forget == found' = "free" /\ reco' = "diff"

(* 200 ms later for the same card.  Another one is authenticated if no     *)
(* charge had begun when the roles were copied.                            *)
OtherCard ==
  /\ pc = "known" /\ reco = "diff" /\ found = "accepted"
  /\ pc' = IF mode = "charging" THEN "fault" ELSE "auth"
  /\ Forget
  /\ UNCHANGED <<reader, clock, roles, sems, mb, charge, hist>>

(* card_lock_do; it tells SCREEN_UNLOCK for the card that was accepted,    *)
(* and the timer starts again.                                             *)
LockPlayed ==
  /\ pc = "known" /\ ~(reco = "diff" /\ found = "accepted")
  /\ pc' = IF mode = "free" THEN "fault" ELSE "poll"
  /\ armed' = IF mode # "free" /\ reco = "same" THEN Overtime ELSE armed
  /\ Forget
  /\ UNCHANGED <<reader, firing, roles, sems, mb, charge, hist>>

(* card_auth_do looks for a key; the build without the concentrator's      *)
(* authentication has one of its own.                                      *)
LookForKey ==
  /\ pc = "auth"
  /\ pc' = IF ~HubAuth THEN "read"
           ELSE IF keyValid THEN "known_key" ELSE "no_key"
  /\ UNCHANGED <<reader, clock, roles, sems, card, mb, charge, hist>>

(* CARD_AUTH_ID or CARD_WAIT_KEY, once the event mutex is free. *)
TellId ==
  /\ Goto("known_key", "read")
  /\ keyRole' = FALSE
  /\ UNCHANGED <<reader, clock, usrRole, allowRole, unlockRole, sems, card,
                 mb, charge, hist>>

TellWaitKey ==
  /\ Goto("no_key", "wait_key")
  /\ keyRole' = TRUE /\ keySem' = FALSE
  /\ UNCHANGED <<reader, clock, usrRole, allowRole, unlockRole, authSem,
                 ctrlSem, card, mb, charge, hist>>

TakeKey ==
  /\ Goto("wait_key", "read") /\ keySem
  /\ keySem' = FALSE
  /\ UNCHANGED <<reader, clock, roles, authSem, ctrlSem, card, mb, charge,
                 hist>>

TakeUsr ==
  /\ Goto("wait_usr", "wait_allow") /\ authSem
  /\ authSem' = FALSE
  /\ UNCHANGED <<reader, clock, roles, keySem, ctrlSem, card, mb, charge,
                 hist>>

TakeAllow ==
  /\ Goto("wait_allow", "decide") /\ ctrlSem
  /\ ctrlSem' = FALSE
  /\ UNCHANGED <<reader, clock, roles, keySem, authSem, card, mb, charge,
                 hist>>

(* ACP1000_WAIT_KEY_TIMEOUT, in each of the three waits. *)
TimeOutOfKey ==                  \* a deliberately wrong variant
  /\ Goto("wait_key", "fail")
  /\ UNCHANGED <<reader, clock, roles, sems, card, mb, charge, hist>>
TimeOut ==
  /\ pc \in {"wait_key", "wait_usr", "wait_allow"} /\ pc' = "fail"
  /\ Forgotten
  /\ UNCHANGED <<reader, clock, roles, sems, card, mb, charge>>

(* card_data_read fails. *)
ReadFails ==
  /\ Goto("read", "fail")
  /\ UNCHANGED <<reader, clock, roles, sems, card, mb, charge, hist>>

SemsKept == UNCHANGED <<authSem, ctrlSem>>
SemsNew  == authSem' = FALSE /\ ctrlSem' = FALSE

(* It has read the card; CARD_SWING_OK: the semaphores are made anew, the  *)
(* two roles set.                                                          *)
TellSwing ==
  /\ Goto("read", IF HubAuth THEN "wait_usr" ELSE "decide")
  /\ SemsNew
  /\ usrRole' = TRUE /\ allowRole' = TRUE
  /\ UNCHANGED <<reader, clock, keyRole, unlockRole, keySem, card, mb,
                 charge, hist>>

(* The verdict, then a reservation of the pile, which the concentrator     *)
(* makes and takes back as it likes (HUB4G_PILE_ORDER): the screen shows   *)
(* CARD_AUTH_SUS_ORDER.  Without one the card is remembered.               *)
Decide(order) ==
  /\ pc = "decide"
  /\ pc' = IF HubAuth /\ ~allowed THEN "fail"
           ELSE IF order THEN "poll" ELSE "sus"
  /\ IF allowed /\ ~order THEN UNCHANGED hist ELSE Forgotten
  /\ UNCHANGED <<reader, clock, roles, sems, card, mb, charge>>

(* acp1000_overtime_check_restart follows the event; the screen has just   *)
(* done the same in it.                                                    *)
TellSus ==
  /\ Goto("sus", "poll")
  /\ CARD_AUTH_SUS /\ Forgotten
  /\ UNCHANGED <<EventFrame, card, mb>>

TellFail ==
  /\ Goto("fail", "poll")
  /\ CARD_AUTH_FAIL
  /\ UNCHANGED <<EventFrame, card, mb, hist>>

CardTask ==
  \/ SwipedFree \/ OtherCard \/ LockPlayed
  \/ \E r \in {"same", "diff", "invalid"} : Recognise(r)
  \/ LookForKey \/ TellId \/ TellWaitKey \/ TakeKey \/ TakeUsr \/ TakeAllow \/ TimeOut
  \/ ReadFails \/ TellSwing \/ TellSus \/ TellFail
  \/ \E order \in BOOLEAN : Decide(order)

-----------------------------------------------------------------------------
(* The callbacks of the concentrator, in the Modbus task.                  *)

Callback(from, to) == Running /\ mb = from /\ mb' = to

(* hub4g_card_key_recevied tells HUB4G_AUTH_KEY, then looks at its role.   *)
KeyReceived ==
  /\ HubAuth /\ Callback("idle", "key")
  /\ keyValid' = TRUE /\ keyRole' = FALSE
  /\ UNCHANGED <<mode, allowed, clock, usrRole, allowRole,
                 unlockRole, sems, pc, card, charge, hist>>

KeyPlayed ==
  /\ Callback("key", "idle")
  /\ keySem' = (keySem \/ keyRole)
  /\ UNCHANGED <<reader, clock, roles, authSem, ctrlSem, pc, card, charge,
                 hist>>

(* hub4g_usr_balance_recevied looks at the role, tells HUB4G_USR_INFO and  *)
(* plays: the role is cleared and the semaphore given.                     *)
UsrReceived ==
  /\ usrRole /\ Callback("idle", "usr")
  /\ UNCHANGED <<reader, clock, roles, sems, pc, card, charge, hist>>

UsrPlayed ==
  /\ Callback("usr", "idle")
  /\ usrRole' = FALSE /\ authSem' = TRUE /\ usrTold' = Asking
  /\ UNCHANGED <<reader, clock, keyRole, allowRole, unlockRole, keySem,
                 ctrlSem, pc, card, charge, told>>

(* hub4g_rm_ctrl_charge_allow; its event waits for the event mutex.        *)
AllowReceived(yes) ==
  /\ HubAuth /\ allowRole
  /\ Callback("idle", IF yes THEN "allow_yes" ELSE "allow_no")
  /\ UNCHANGED <<reader, clock, roles, sems, pc, card, charge, hist>>

AllowPlayed ==
  /\ \E a \in {"allow_yes", "allow_no"} :
       /\ Callback(a, "idle")
       /\ allowed' = (a = "allow_yes")
       /\ told' = IF ~Asking THEN "none"
                  ELSE IF a = "allow_yes" THEN "yes" ELSE "no"
  /\ allowRole' = FALSE /\ ctrlSem' = TRUE
  /\ UNCHANGED <<mode, keyValid, clock, keyRole, usrRole, unlockRole,
                  keySem, authSem, pc, card, charge, usrTold>>

(* hub4g_rm_ctrl_scren_lock: the role says whether there is a charge to    *)
(* unlock; 200 ms later it is played, or the card is as good as accepted.  *)
UnlockReceived ==
  /\ Callback("idle", IF unlockRole THEN "unlock" ELSE "accept")
  /\ UNCHANGED <<reader, clock, roles, sems, pc, card, charge, hist>>

UnlockPlayed ==
  /\ Callback("unlock", "idle")
  /\ pc' = IF unlockRole THEN pc ELSE "fault"
  /\ armed' = IF unlockRole THEN Overtime ELSE armed
  /\ UNCHANGED <<reader, firing, roles, sems, card, charge, hist>>

UnlockAccepts ==
  /\ Callback("accept", "idle")
  /\ CARD_AUTH_SUS
  /\ UNCHANGED <<EventFrame, pc, card, hist>>

Answered == \/ KeyPlayed \/ UsrPlayed \/ AllowPlayed
            \/ UnlockPlayed \/ UnlockAccepts

Concentrator ==
  \/ KeyReceived \/ UsrReceived \/ UnlockReceived
  \/ \E yes \in BOOLEAN : AllowReceived(yes)

-----------------------------------------------------------------------------
(* The timer. *)

OvertimeFires ==
  /\ Running /\ armed /\ ~firing
  /\ armed' = FALSE /\ firing' = TRUE
  /\ UNCHANGED <<reader, roles, sems, pc, card, mb, charge, hist>>

OvertimeTells ==
  /\ Running /\ firing
  /\ firing' = FALSE
  /\ CARD_AUTH_FAIL
  /\ UNCHANGED <<keyValid, allowed, keyRole, usrRole,
                 allowRole, sems, press, billing, hist, pc, card, mb>>

-----------------------------------------------------------------------------
(* The charge.                                                             *)

(* The role of the start, at the screen or the concentrator, is there      *)
(* whenever the reader is not free.                                        *)
PressStart ==
  /\ Running /\ ~press /\ mode # "free"
  /\ press' = TRUE
  /\ UNCHANGED <<reader, clock, roles, sems, pc, card, mb, ctl, billing, hist>>

(* CHARGE_MAN_START; the controller takes it when it is idle with a car.   *)
ManStart(taken) ==
  /\ Running /\ press /\ (taken => ctl = "off")
  /\ press' = FALSE
  /\ mode' = "charging" /\ armed' = FALSE /\ unlockRole' = TRUE
  /\ ctl' = IF taken THEN "wanted" ELSE ctl
  /\ UNCHANGED <<keyValid, allowed, firing, keyRole, usrRole,
                 allowRole, sems, pc, card, mb, billing, hist>>

(* CHARGE_PIEL_START. *)
PileStart ==
  /\ Running /\ ctl = "wanted"
  /\ ctl' = "on" /\ mode' = "charging" /\ unlockRole' = TRUE
  /\ UNCHANGED <<keyValid, allowed, clock, keyRole, usrRole,
                 allowRole, sems, pc, card, mb, press, billing, hist>>

(* ERR_CAR_READY, to which no other node listens. *)
CarNotReady ==
  /\ Running /\ ctl = "wanted"
  /\ ctl' = "off"
  /\ UNCHANGED <<reader, clock, roles, sems, pc, card, mb, press, billing,
                 hist>>

(* CHARGE_PILE_STOP. *)
PileStop ==
  /\ Running /\ ctl # "off"
  /\ billing' = (ctl = "on" \/ billing)
  /\ ctl' = "off" /\ mode' = "free" /\ unlockRole' = FALSE
  /\ UNCHANGED <<keyValid, allowed, clock, keyRole, usrRole,
                 allowRole, sems, pc, card, mb, press, hist>>

(* BILLING_END, from the billing task. *)
BillingEnd ==
  /\ Running /\ billing
  /\ billing' = FALSE /\ unlockRole' = FALSE
  /\ UNCHANGED <<reader, clock, keyRole, usrRole, allowRole, sems, pc, card,
                 mb, press, ctl, hist>>

Charge == \/ PressStart \/ (\E b \in BOOLEAN : ManStart(b))
          \/ PileStart \/ CarNotReady \/ PileStop \/ BillingEnd

-----------------------------------------------------------------------------
Next == \/ Swipe
        \/ CardTask
        \/ Concentrator \/ Answered
        \/ OvertimeFires \/ OvertimeTells
        \/ Charge

Spec == Init /\ [][Next]_vars

(* The card task runs and the timer ends; nothing is assumed of the cards, *)
(* the concentrator, the driver who presses start, or the charge.          *)
FairSpec == /\ Spec
            /\ WF_vars(CardTask) /\ WF_vars(OvertimeFires \/ OvertimeTells)

-----------------------------------------------------------------------------
(* Properties.                                                             *)

(* card_auth_do accepts a card on answers told since its own swipe: the    *)
(* user and a yes have both come after its CARD_SWING_OK, whatever was     *)
(* late, given up or answered twice before.                                *)
OwnAnswer == (HubAuth /\ pc = "sus") => (usrTold /\ told = "yes")

(* A swipe comes to its end (or the program is lost on a NULL role): no    *)
(* silence of the concentrator keeps the card task in card_auth_do.        *)
SwipeEnds == (pc # "poll") ~> (pc \in {"poll", "fault"})

(* While cards and concentrator keep quiet, an acceptance for which no     *)
(* start is pressed does not last: the timer that the reader, the screen   *)
(* and the concentrator stop and start again is never left off under it.   *)
Quiet == pc = "poll" /\ mb = "idle"
UnusedExpires == Overtime => []<>(~Quiet \/ mode # "accepted")

(* "No charge begun for 3 minutes after the card (it will be authenticated *)
(* again)" (overtime_check_task.c:27): while cards and concentrator keep   *)
(* quiet and there is no charge, the reader comes back to asking for a     *)
(* card.                                                                   *)
AcceptanceExpires == Overtime => []<>(~Quiet \/ mode = "free" \/ ctl # "off")

(* "Send the semaphore of the key" (hub4g.c:91), for which the reader      *)
(* waits at most ACP1000_WAIT_KEY_TIMEOUT (ac_charge_prj_cfg.h:58): when   *)
(* the concentrator's key has come, a reader that waits for it is woken.   *)
KeyAnswered == (pc = "wait_key" /\ keyValid /\ mb = "idle") => keySem
=============================================================================
