--------------------------- MODULE CardAuth_proofs ---------------------------
(***************************************************************************)
(* A card is accepted on answers told since its own swipe, in the builds   *)
(* with the concentrator's authentication.                                 *)
(***************************************************************************)
EXTENDS CardAuth, TLAPS

Answering == mb \in {"allow_yes", "allow_no"}

(* Outside of a swipe's questions there is no answer to it. *)
Rest == (~Asking /\ Running) => (told = "none" /\ usrTold = FALSE)

(* The verdict is told once: its role is gone, and it is the one kept.     *)
Heard == told # "none" => /\ allowRole = FALSE /\ ~Answering
                          /\ allowed = (told = "yes")

(* A semaphore that is waited for was given by an answer to this swipe.    *)
Given == /\ (pc = "wait_usr" /\ authSem = TRUE) => usrTold = TRUE
         /\ (pc \in {"wait_usr", "wait_allow"} /\ ctrlSem = TRUE)
              => told # "none"

(* What the card task has waited for it has. *)
Past == /\ pc \in {"wait_allow", "decide", "sus"} => usrTold = TRUE
        /\ pc \in {"decide", "sus"} => told # "none"
        /\ pc = "sus" => told = "yes"

AnswerInv == TypeOK /\ (HubAuth => Rest /\ Heard /\ Given /\ Past)

-----------------------------------------------------------------------------
LEMMA TypeInit == Init => TypeOK
BY CardAssumption DEF Init, TypeOK, CardSteps, MbSteps, Answers, ReaderTypes,
   ClockTypes, RoleTypes, SemTypes, CardTypes, ChargeTypes, HistTypes

(* What a step leaves alone keeps its types. *)
LEMMA Frame ==
  ASSUME TypeOK
  PROVE  /\ UNCHANGED reader => ReaderTypes'
         /\ UNCHANGED clock  => ClockTypes'
         /\ UNCHANGED roles  => RoleTypes'
         /\ UNCHANGED sems   => SemTypes'
         /\ UNCHANGED card   => CardTypes'
         /\ UNCHANGED charge => ChargeTypes'
         /\ UNCHANGED hist   => HistTypes'
<1>1. UNCHANGED reader => ReaderTypes'
  BY DEF TypeOK, ReaderTypes, reader
<1>2. UNCHANGED clock => ClockTypes'
  BY DEF TypeOK, ClockTypes, clock
<1>3. UNCHANGED roles => RoleTypes'
  BY DEF TypeOK, RoleTypes, roles
<1>4. UNCHANGED sems => SemTypes'
  BY DEF TypeOK, SemTypes, sems
<1>5. UNCHANGED card => CardTypes'
  BY DEF TypeOK, CardTypes, card
<1>6. UNCHANGED charge => ChargeTypes'
  BY DEF TypeOK, ChargeTypes, charge
<1>7. UNCHANGED hist => HistTypes'
  BY DEF TypeOK, HistTypes, hist
<1> QED
  BY <1>1, <1>2, <1>3, <1>4, <1>5, <1>6, <1>7

LEMMA TaskTyped == ASSUME TypeOK, Swipe \/ CardTask PROVE TypeOK'
<1> USE DEF Goto, Callback, Running
<1>1. CASE Swipe
  <2>1. CardTypes'
    BY <1>1 DEF Swipe, CardTypes, ReaderTypes, TypeOK
  <2>2. pc' \in CardSteps
    BY <1>1 DEF Swipe, CardSteps, TypeOK
  <2> QED BY <1>1, <2>1, <2>2, Frame DEF Swipe, TypeOK
<1>2. CASE SwipedFree
  <2>1. pc' \in CardSteps
    BY <1>2 DEF SwipedFree, CardSteps, TypeOK
  <2> QED BY <1>2, <2>1, Frame DEF SwipedFree, TypeOK
<1>3. CASE OtherCard
  <2>1. pc' \in CardSteps
    BY <1>3 DEF OtherCard, CardSteps, TypeOK
  <2>2. CardTypes'
    BY <1>3 DEF OtherCard, CardTypes, TypeOK, Forget
  <2> QED BY <1>3, <2>1, <2>2, Frame DEF OtherCard, TypeOK
<1>4. CASE LockPlayed
  <2>1. pc' \in CardSteps
    BY <1>4 DEF LockPlayed, CardSteps, TypeOK
  <2>2. ClockTypes'
    BY <1>4, CardAssumption DEF LockPlayed, ClockTypes, TypeOK
  <2>3. CardTypes'
    BY <1>4 DEF LockPlayed, CardTypes, TypeOK, Forget
  <2> QED BY <1>4, <2>1, <2>2, <2>3, Frame DEF LockPlayed, TypeOK
<1>5. ASSUME NEW r \in {"same", "diff", "invalid"}, Recognise(r)
      PROVE  TypeOK'
  <2>1. pc' \in CardSteps
    BY <1>5 DEF Recognise, CardSteps, TypeOK
  <2>2. CardTypes'
    BY <1>5 DEF Recognise, CardTypes, TypeOK
  <2> QED BY <1>5, <2>1, <2>2, Frame DEF Recognise, TypeOK
<1>6. CASE LookForKey
  <2>1. pc' \in CardSteps
    BY <1>6 DEF LookForKey, CardSteps, TypeOK
  <2> QED BY <1>6, <2>1, Frame DEF LookForKey, TypeOK
<1>7. CASE TellId
  <2>1. pc' \in CardSteps
    BY <1>7 DEF TellId, CardSteps, TypeOK
  <2>2. RoleTypes'
    BY <1>7 DEF TellId, RoleTypes, TypeOK
  <2> QED BY <1>7, <2>1, <2>2, Frame DEF TellId, TypeOK
<1>8. CASE TellWaitKey
  <2>1. pc' \in CardSteps
    BY <1>8 DEF TellWaitKey, CardSteps, TypeOK
  <2>2. RoleTypes'
    BY <1>8 DEF TellWaitKey, RoleTypes, TypeOK
  <2>3. SemTypes'
    BY <1>8 DEF TellWaitKey, SemTypes, TypeOK
  <2> QED BY <1>8, <2>1, <2>2, <2>3, Frame DEF TellWaitKey, TypeOK
<1>9. CASE TakeKey
  <2>1. pc' \in CardSteps
    BY <1>9 DEF TakeKey, CardSteps, TypeOK
  <2>2. SemTypes'
    BY <1>9 DEF TakeKey, SemTypes, TypeOK
  <2> QED BY <1>9, <2>1, <2>2, Frame DEF TakeKey, TypeOK
<1>10. CASE TakeUsr
  <2>1. pc' \in CardSteps
    BY <1>10 DEF TakeUsr, CardSteps, TypeOK
  <2>2. SemTypes'
    BY <1>10 DEF TakeUsr, SemTypes, TypeOK
  <2> QED BY <1>10, <2>1, <2>2, Frame DEF TakeUsr, TypeOK
<1>11. CASE TakeAllow
  <2>1. pc' \in CardSteps
    BY <1>11 DEF TakeAllow, CardSteps, TypeOK
  <2>2. SemTypes'
    BY <1>11 DEF TakeAllow, SemTypes, TypeOK
  <2> QED BY <1>11, <2>1, <2>2, Frame DEF TakeAllow, TypeOK
<1>12. CASE TimeOut
  <2>1. pc' \in CardSteps
    BY <1>12 DEF TimeOut, CardSteps, TypeOK
  <2>2. HistTypes'
    BY <1>12 DEF TimeOut, HistTypes, TypeOK, Answers, Forgotten, hist
  <2> QED BY <1>12, <2>1, <2>2, Frame DEF TimeOut, TypeOK
<1>13. CASE ReadFails
  <2>1. pc' \in CardSteps
    BY <1>13 DEF ReadFails, CardSteps, TypeOK
  <2> QED BY <1>13, <2>1, Frame DEF ReadFails, TypeOK
<1>14. CASE TellSwing
  <2>1. pc' \in CardSteps
    BY <1>14 DEF TellSwing, CardSteps, TypeOK
  <2>2. RoleTypes'
    BY <1>14 DEF TellSwing, RoleTypes, TypeOK
  <2>3. SemTypes'
    BY <1>14 DEF TellSwing, SemTypes, TypeOK, SemsNew
  <2> QED BY <1>14, <2>1, <2>2, <2>3, Frame DEF TellSwing, TypeOK
<1>15. CASE TellSus
  <2>1. pc' \in CardSteps
    BY <1>15 DEF TellSus, CardSteps, TypeOK
  <2>2. ReaderTypes'
    BY <1>15 DEF TellSus, ReaderTypes, TypeOK, CARD_AUTH_SUS, EventFrame
  <2>3. ClockTypes'
    BY <1>15, CardAssumption
    DEF TellSus, ClockTypes, TypeOK, CARD_AUTH_SUS, EventFrame
  <2>4. RoleTypes'
    BY <1>15 DEF TellSus, RoleTypes, TypeOK, CARD_AUTH_SUS, EventFrame
  <2>5. ChargeTypes'
    BY <1>15 DEF TellSus, ChargeTypes, TypeOK, CARD_AUTH_SUS, EventFrame
  <2>6. HistTypes'
    BY <1>15
    DEF TellSus, HistTypes, TypeOK, Answers, Forgotten
  <2> QED
    BY <1>15, <2>1, <2>2, <2>3, <2>4, <2>5, <2>6, Frame
    DEF TellSus, TypeOK, CARD_AUTH_SUS, EventFrame
<1>16. CASE TellFail
  <2>1. pc' \in CardSteps
    BY <1>16 DEF TellFail, CardSteps, TypeOK
  <2>2. ReaderTypes'
    BY <1>16 DEF TellFail, ReaderTypes, TypeOK, CARD_AUTH_FAIL, EventFrame
  <2>3. ClockTypes'
    BY <1>16, CardAssumption
    DEF TellFail, ClockTypes, TypeOK, CARD_AUTH_FAIL, EventFrame
  <2>4. RoleTypes'
    BY <1>16 DEF TellFail, RoleTypes, TypeOK, CARD_AUTH_FAIL, EventFrame
  <2>5. ChargeTypes'
    BY <1>16 DEF TellFail, ChargeTypes, TypeOK, CARD_AUTH_FAIL, EventFrame
  <2> QED
    BY <1>16, <2>1, <2>2, <2>3, <2>4, <2>5, Frame
    DEF TellFail, TypeOK, CARD_AUTH_FAIL, EventFrame
<1>17. ASSUME NEW order \in BOOLEAN, Decide(order)
      PROVE  TypeOK'
  <2>1. pc' \in CardSteps
    BY <1>17 DEF Decide, CardSteps, TypeOK
  <2>2. HistTypes'
    BY <1>17 DEF Decide, HistTypes, TypeOK, Answers, Forgotten, hist
  <2> QED BY <1>17, <2>1, <2>2, Frame DEF Decide, TypeOK
<1> QED
  BY <1>1, <1>2, <1>3, <1>4, <1>5, <1>6, <1>7, <1>8, <1>9, <1>10, <1>11,
     <1>12, <1>13, <1>14, <1>15, <1>16, <1>17
  DEF CardTask

LEMMA HubTyped == ASSUME TypeOK, Concentrator \/ Answered PROVE TypeOK'
<1> USE DEF Goto, Callback, Running
<1>1. CASE KeyReceived
  <2>1. mb' \in MbSteps
    BY <1>1 DEF KeyReceived, MbSteps, TypeOK
  <2>2. ReaderTypes'
    BY <1>1 DEF KeyReceived, ReaderTypes, TypeOK
  <2>3. RoleTypes'
    BY <1>1 DEF KeyReceived, RoleTypes, TypeOK
  <2> QED BY <1>1, <2>1, <2>2, <2>3, Frame DEF KeyReceived, TypeOK
<1>2. CASE UsrReceived
  <2>1. mb' \in MbSteps
    BY <1>2 DEF UsrReceived, MbSteps, TypeOK
  <2> QED BY <1>2, <2>1, Frame DEF UsrReceived, TypeOK
<1>3. CASE UnlockReceived
  <2>1. mb' \in MbSteps
    BY <1>3 DEF UnlockReceived, MbSteps, TypeOK
  <2> QED BY <1>3, <2>1, Frame DEF UnlockReceived, TypeOK
<1>4. ASSUME NEW yes \in BOOLEAN, AllowReceived(yes)
      PROVE  TypeOK'
  <2>1. mb' \in MbSteps
    BY <1>4 DEF AllowReceived, MbSteps, TypeOK
  <2> QED BY <1>4, <2>1, Frame DEF AllowReceived, TypeOK
<1>5. CASE KeyPlayed
  <2>1. mb' \in MbSteps
    BY <1>5 DEF KeyPlayed, MbSteps, TypeOK
  <2>2. SemTypes'
    BY <1>5 DEF KeyPlayed, SemTypes, TypeOK
  <2> QED BY <1>5, <2>1, <2>2, Frame DEF KeyPlayed, TypeOK
<1>6. CASE UsrPlayed
  <2>1. mb' \in MbSteps
    BY <1>6 DEF UsrPlayed, MbSteps, TypeOK
  <2>2. RoleTypes'
    BY <1>6 DEF UsrPlayed, RoleTypes, TypeOK
  <2>3. SemTypes'
    BY <1>6 DEF UsrPlayed, SemTypes, TypeOK
  <2>4. HistTypes'
    BY <1>6 DEF UsrPlayed, HistTypes, TypeOK, Answers, Asking
  <2> QED BY <1>6, <2>1, <2>2, <2>3, <2>4, Frame DEF UsrPlayed, TypeOK
<1>7. CASE AllowPlayed
  <2>1. mb' \in MbSteps
    BY <1>7 DEF AllowPlayed, MbSteps, TypeOK
  <2>2. ReaderTypes'
    BY <1>7 DEF AllowPlayed, ReaderTypes, TypeOK
  <2>3. RoleTypes'
    BY <1>7 DEF AllowPlayed, RoleTypes, TypeOK
  <2>4. SemTypes'
    BY <1>7 DEF AllowPlayed, SemTypes, TypeOK
  <2>5. HistTypes'
    BY <1>7 DEF AllowPlayed, HistTypes, TypeOK, Answers, Asking
  <2> QED BY <1>7, <2>1, <2>2, <2>3, <2>4, <2>5, Frame DEF AllowPlayed, TypeOK
<1>8. CASE UnlockPlayed
  <2>1. mb' \in MbSteps
    BY <1>8 DEF UnlockPlayed, MbSteps, TypeOK
  <2>2. pc' \in CardSteps
    BY <1>8 DEF UnlockPlayed, CardSteps, TypeOK
  <2>3. ClockTypes'
    BY <1>8, CardAssumption DEF UnlockPlayed, ClockTypes, TypeOK
  <2> QED BY <1>8, <2>1, <2>2, <2>3, Frame DEF UnlockPlayed, TypeOK
<1>9. CASE UnlockAccepts
  <2>1. mb' \in MbSteps
    BY <1>9 DEF UnlockAccepts, MbSteps, TypeOK
  <2>2. ReaderTypes'
    BY <1>9 DEF UnlockAccepts, ReaderTypes, TypeOK, CARD_AUTH_SUS, EventFrame
  <2>3. ClockTypes'
    BY <1>9, CardAssumption
    DEF UnlockAccepts, ClockTypes, TypeOK, CARD_AUTH_SUS, EventFrame
  <2>4. RoleTypes'
    BY <1>9 DEF UnlockAccepts, RoleTypes, TypeOK, CARD_AUTH_SUS, EventFrame
  <2>5. ChargeTypes'
    BY <1>9 DEF UnlockAccepts, ChargeTypes, TypeOK, CARD_AUTH_SUS, EventFrame
  <2> QED
    BY <1>9, <2>1, <2>2, <2>3, <2>4, <2>5, Frame
    DEF UnlockAccepts, TypeOK, CARD_AUTH_SUS, EventFrame
<1> QED
  BY <1>1, <1>2, <1>3, <1>4, <1>5, <1>6, <1>7, <1>8, <1>9
  DEF Concentrator, Answered

LEMMA ChargeTyped ==
  ASSUME TypeOK, OvertimeFires \/ OvertimeTells \/ Charge
  PROVE  TypeOK'
<1> USE DEF Goto, Callback, Running
<1>1. CASE OvertimeFires
  <2>1. ClockTypes'
    BY <1>1, CardAssumption DEF OvertimeFires, ClockTypes, TypeOK
  <2> QED BY <1>1, <2>1, Frame DEF OvertimeFires, TypeOK
<1>2. CASE OvertimeTells
  <2>1. ReaderTypes'
    BY <1>2 DEF OvertimeTells, ReaderTypes, TypeOK, CARD_AUTH_FAIL
  <2>2. ClockTypes'
    BY <1>2, CardAssumption
    DEF OvertimeTells, ClockTypes, TypeOK, CARD_AUTH_FAIL
  <2>3. RoleTypes'
    BY <1>2 DEF OvertimeTells, RoleTypes, TypeOK, CARD_AUTH_FAIL
  <2>4. ChargeTypes'
    BY <1>2 DEF OvertimeTells, ChargeTypes, TypeOK, CARD_AUTH_FAIL
  <2> QED
    BY <1>2, <2>1, <2>2, <2>3, <2>4, Frame
    DEF OvertimeTells, TypeOK, CARD_AUTH_FAIL
<1>3. CASE PressStart
  <2>1. ChargeTypes'
    BY <1>3 DEF PressStart, ChargeTypes, TypeOK
  <2> QED BY <1>3, <2>1, Frame DEF PressStart, TypeOK
<1>4. ASSUME NEW b \in BOOLEAN, ManStart(b)
      PROVE  TypeOK'
  <2>1. ReaderTypes'
    BY <1>4 DEF ManStart, ReaderTypes, TypeOK
  <2>2. ClockTypes'
    BY <1>4, CardAssumption DEF ManStart, ClockTypes, TypeOK
  <2>3. RoleTypes'
    BY <1>4 DEF ManStart, RoleTypes, TypeOK
  <2>4. ChargeTypes'
    BY <1>4 DEF ManStart, ChargeTypes, TypeOK
  <2> QED BY <1>4, <2>1, <2>2, <2>3, <2>4, Frame DEF ManStart, TypeOK
<1>5. CASE PileStart
  <2>1. ReaderTypes'
    BY <1>5 DEF PileStart, ReaderTypes, TypeOK
  <2>2. RoleTypes'
    BY <1>5 DEF PileStart, RoleTypes, TypeOK
  <2>3. ChargeTypes'
    BY <1>5 DEF PileStart, ChargeTypes, TypeOK
  <2> QED BY <1>5, <2>1, <2>2, <2>3, Frame DEF PileStart, TypeOK
<1>6. CASE CarNotReady
  <2>1. ChargeTypes'
    BY <1>6 DEF CarNotReady, ChargeTypes, TypeOK
  <2> QED BY <1>6, <2>1, Frame DEF CarNotReady, TypeOK
<1>7. CASE PileStop
  <2>1. ReaderTypes'
    BY <1>7 DEF PileStop, ReaderTypes, TypeOK
  <2>2. RoleTypes'
    BY <1>7 DEF PileStop, RoleTypes, TypeOK
  <2>3. ChargeTypes'
    BY <1>7 DEF PileStop, ChargeTypes, TypeOK
  <2> QED BY <1>7, <2>1, <2>2, <2>3, Frame DEF PileStop, TypeOK
<1>8. CASE BillingEnd
  <2>1. RoleTypes'
    BY <1>8 DEF BillingEnd, RoleTypes, TypeOK
  <2>2. ChargeTypes'
    BY <1>8 DEF BillingEnd, ChargeTypes, TypeOK
  <2> QED BY <1>8, <2>1, <2>2, Frame DEF BillingEnd, TypeOK
<1> QED
  BY <1>1, <1>2, <1>3, <1>4, <1>5, <1>6, <1>7, <1>8
  DEF Charge

LEMMA TypeStep == TypeOK /\ [Next]_vars => TypeOK'
<1> SUFFICES ASSUME TypeOK, [Next]_vars PROVE TypeOK'
  OBVIOUS
<1>1. CASE Swipe \/ CardTask
  BY <1>1, TaskTyped
<1>2. CASE Concentrator \/ Answered
  BY <1>2, HubTyped
<1>3. CASE OvertimeFires \/ OvertimeTells \/ Charge
  BY <1>3, ChargeTyped
<1>4. CASE UNCHANGED vars
  BY <1>4, Frame DEF vars, TypeOK
<1> QED
  BY <1>1, <1>2, <1>3, <1>4 DEF Next

(* The variables keep their types, in every build. *)
THEOREM CardTypeCorrect == Spec => []TypeOK
<1> QED BY TypeInit, TypeStep, PTL DEF Spec

-----------------------------------------------------------------------------
(* The answers. *)

LEMMA AnswerInit == Init => AnswerInv
BY TypeInit DEF Init, AnswerInv, Rest, Heard, Given, Past, Asking

(* A step that touches none of this. *)
LEMMA AnswerFrame ==
  ASSUME HubAuth, AnswerInv, pc' = pc \/ pc' = "fault",
         UNCHANGED <<allowed, allowRole, authSem, ctrlSem, hist>>,
         mb' = mb \/ mb' \notin {"allow_yes", "allow_no"}
  PROVE  (Rest /\ Heard /\ Given /\ Past)'
BY DEF AnswerInv, Rest, Heard, Given, Past, Asking, Running, Answering, hist

LEMMA AnswerStep == AnswerInv /\ [Next]_vars => AnswerInv'
<1> SUFFICES ASSUME AnswerInv, [Next]_vars, HubAuth
             PROVE  (Rest /\ Heard /\ Given /\ Past)'
  BY TypeStep DEF AnswerInv
<1> USE DEF Goto, Callback
<1>1. CASE Swipe
  BY <1>1
  DEF Swipe, AnswerInv, Rest, Heard, Given, Past, Asking, Running,
      Answering, reader, roles, sems, hist
<1>2. CASE SwipedFree
  BY <1>2
  DEF SwipedFree, AnswerInv, Rest, Heard, Given, Past, Asking, Running,
      Answering, reader, roles, sems, hist
<1>3. ASSUME NEW r \in {"same", "diff", "invalid"}, Recognise(r)
      PROVE  (Rest /\ Heard /\ Given /\ Past)'
  BY <1>3
  DEF Recognise, AnswerInv, Rest, Heard, Given, Past, Asking, Running,
      Answering, reader, roles, sems, hist
<1>4. CASE OtherCard
  BY <1>4
  DEF OtherCard, AnswerInv, Rest, Heard, Given, Past, Asking, Running,
      Answering, reader, roles, sems, hist
<1>5. CASE LockPlayed
  BY <1>5
  DEF LockPlayed, AnswerInv, Rest, Heard, Given, Past, Asking, Running,
      Answering, reader, roles, sems, hist
<1>6. CASE LookForKey
  BY <1>6
  DEF LookForKey, AnswerInv, Rest, Heard, Given, Past, Asking, Running,
      Answering, reader, roles, sems, hist
<1>7. CASE TellId
  BY <1>7
  DEF TellId, AnswerInv, Rest, Heard, Given, Past, Asking, Running,
      Answering, reader, roles, sems, hist
<1>8. CASE TellWaitKey
  BY <1>8
  DEF TellWaitKey, AnswerInv, Rest, Heard, Given, Past, Asking, Running,
      Answering, reader, roles, sems, hist
<1>9. CASE TakeKey
  BY <1>9
  DEF TakeKey, AnswerInv, Rest, Heard, Given, Past, Asking, Running,
      Answering, reader, roles, sems, hist
<1>10. CASE TakeUsr
  BY <1>10
  DEF TakeUsr, AnswerInv, Rest, Heard, Given, Past, Asking, Running,
      Answering, reader, roles, sems, hist
<1>11. CASE TakeAllow
  BY <1>11
  DEF TakeAllow, AnswerInv, Rest, Heard, Given, Past, Asking, Running,
      Answering, reader, roles, sems, hist
<1>12. CASE TimeOut
  BY <1>12
  DEF TimeOut, AnswerInv, Rest, Heard, Given, Past, Asking, Running,
      Answering, reader, roles, sems, hist, Forgotten
<1>13. CASE ReadFails
  BY <1>13
  DEF ReadFails, AnswerInv, Rest, Heard, Given, Past, Asking, Running,
      Answering, reader, roles, sems, hist
<1>14. CASE TellSwing
  BY <1>14
  DEF TellSwing, AnswerInv, Rest, Heard, Given, Past, Asking, Running,
      Answering, reader, roles, sems, hist, SemsNew
<1>15. ASSUME NEW order \in BOOLEAN, Decide(order)
      PROVE  (Rest /\ Heard /\ Given /\ Past)'
  BY <1>15
  DEF Decide, AnswerInv, Rest, Heard, Given, Past, Asking, Running,
      Answering, reader, roles, sems, hist, Forgotten
<1>16. CASE TellSus
  BY <1>16
  DEF TellSus, AnswerInv, Rest, Heard, Given, Past, Asking, Running,
      Answering, reader, roles, sems, hist, EventFrame, CARD_AUTH_SUS, Forgotten
<1>17. CASE TellFail
  BY <1>17
  DEF TellFail, AnswerInv, Rest, Heard, Given, Past, Asking, Running,
      Answering, reader, roles, sems, hist, EventFrame, CARD_AUTH_FAIL
<1>18. CASE KeyReceived
  BY <1>18, AnswerFrame DEF KeyReceived, reader, roles, sems
<1>19. CASE UsrReceived
  BY <1>19, AnswerFrame DEF UsrReceived, reader, roles, sems
<1>20. ASSUME NEW yes \in BOOLEAN, AllowReceived(yes)
      PROVE  (Rest /\ Heard /\ Given /\ Past)'
  BY <1>20
  DEF AllowReceived, AnswerInv, Rest, Heard, Given, Past, Asking, Running,
      Answering, reader, roles, sems, hist
<1>21. CASE UnlockReceived
  BY <1>21, AnswerFrame DEF UnlockReceived, reader, roles, sems
<1>22. CASE KeyPlayed
  BY <1>22, AnswerFrame DEF KeyPlayed, reader, roles, sems
<1>23. CASE UsrPlayed
  <2>1. CASE Asking
    <3>1. usrTold' = TRUE
      BY <1>23, <2>1 DEF UsrPlayed, Asking
    <3> QED
      BY <1>23, <2>1, <3>1
      DEF UsrPlayed, AnswerInv, Rest, Heard, Given, Past, Asking, Running,
          Answering, reader
  <2>2. CASE ~Asking
    <3>1. usrTold' = FALSE
      <4>1. usrTold' = Asking
        BY <1>23 DEF UsrPlayed
      <4>2. Asking = FALSE
        BY <2>2 DEF Asking
      <4> QED BY <4>1, <4>2
    <3>2. told' = "none" /\ pc' = pc
      BY <1>23, <2>2 DEF UsrPlayed, AnswerInv, Rest
    <3> QED
      BY <2>2, <3>1, <3>2 DEF Rest, Heard, Given, Past, Asking
  <2> QED BY <2>1, <2>2
<1>24. CASE AllowPlayed
  BY <1>24
  DEF AllowPlayed, AnswerInv, Rest, Heard, Given, Past, Asking, Running,
      Answering, reader, roles, sems, hist
<1>25. CASE UnlockPlayed
  BY <1>25, AnswerFrame DEF UnlockPlayed, reader, roles, sems
<1>26. CASE UnlockAccepts
  BY <1>26, AnswerFrame DEF UnlockAccepts, EventFrame, sems, CARD_AUTH_SUS
<1>27. CASE OvertimeFires
  BY <1>27, AnswerFrame DEF OvertimeFires, reader, roles, sems
<1>28. CASE OvertimeTells
  BY <1>28, AnswerFrame DEF OvertimeTells, sems
<1>29. CASE PressStart
  BY <1>29, AnswerFrame DEF PressStart, reader, roles, sems
<1>30. ASSUME NEW b \in BOOLEAN, ManStart(b)
      PROVE  (Rest /\ Heard /\ Given /\ Past)'
  BY <1>30, AnswerFrame DEF ManStart, sems
<1>31. CASE PileStart
  BY <1>31, AnswerFrame DEF PileStart, sems
<1>32. CASE CarNotReady
  BY <1>32, AnswerFrame DEF CarNotReady, reader, roles, sems
<1>33. CASE PileStop
  BY <1>33, AnswerFrame DEF PileStop, sems
<1>34. CASE BillingEnd
  BY <1>34, AnswerFrame DEF BillingEnd, reader, sems
<1>35. CASE UNCHANGED vars
  BY <1>35, AnswerFrame DEF vars, reader, roles, sems
<1> QED
  BY <1>1, <1>2, <1>3, <1>4, <1>5, <1>6, <1>7, <1>8, <1>9, <1>10, <1>11,
     <1>12, <1>13, <1>14, <1>15, <1>16, <1>17, <1>18, <1>19, <1>20, <1>21,
     <1>22, <1>23, <1>24, <1>25, <1>26, <1>27, <1>28, <1>29, <1>30, <1>31,
     <1>32, <1>33, <1>34, <1>35
  DEF Next, CardTask, Concentrator, Answered, Charge

(* An accepted card has been answered for since its own CARD_SWING_OK.     *)
THEOREM AnswersOwn == Spec => []OwnAnswer
<1>1. AnswerInv => OwnAnswer
  BY DEF AnswerInv, Past, OwnAnswer
<1> QED BY AnswerInit, AnswerStep, <1>1, PTL DEF Spec
==============================================================================
