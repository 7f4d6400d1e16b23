# AC_Charger: models and proofs

The program is the firmware of a single-phase AC charging pile (LPC17xx, the
aworks real-time system). Its own code is
`src/project_eclipse/ac_charger_main_board/user_code`; paths below are relative
to it, mostly to `acp1000/`. `src/apollo` is the vendored SDK.

This directory holds TLA+ models of the parts that decide when the contactor
closes, what is billed and what is recorded, the TLC configurations that check
them, and TLAPS proofs of the properties that matter most.

## 1. Inventory

A component is a C struct with an *event node* and *roles*. A role is a pointer
to a function; a component's task copies the role pointers under `role_lock` and
*plays* the one that is not NULL. `event_node_tell_all` takes the event
manager's mutex and runs the handler of every component, in the caller's task.
Handlers set and clear roles. So a component is changed by every task, at any
point where its own task waits or is preempted: this is where the program is
hard.

| component | state | operations | told to / told by |
|---|---|---|---|
| charging controller, `charger.c` | six roles, `start_ticks`, `exit_now`, `exit_code`, `pile_alarm`, `ac_enable`, pin, gun lock, CP duty | 30 ms poll of idle, allow, start, ing, err, stop; events | tells GUN_INSERT, CHARGE_PIEL_START, CHARGE_PILE_STOP, CHARGE_FULL, ERR_CHAGER, GUN_EXTRACT; hears stops, faults, authorisation |
| pile record, `pile.c` | alarm mask, charge and gun state, display values | handlers; emergency stop and lightning switch polled every 15 ms | tells ERR_SCRAM, ERR_LIGHT; writes the contactor pin |
| light task, `led_task.c` | `ac_err_cnt`, copies of the pile record | 1 s: lights, contactor check, PILE_ALARM, PILE_TIME | tells ERR_AC |
| contactor check | `g_need_ac_check`, delayed work, `charge_ac_state` | `charger_ac_output_enable`, `ac_detect_work_entry` | controller, work queue and light task share it |
| control pilot task, `acp1000_din.c` | two filters | 15 ms + 25 ms debounce | writes `dat.tp1_vol` |
| ammeter task, `ammeter.c` | voltage step and state, current state, `start_ticks`, failure count, role of the current monitor | read about once a second; CHARGE_PIEL_START/CHARGE_PILE_STOP | tells ERR_AMMETER, ERR_AMMETER_VOL, ERR_AMMETER_CURR, AMETER_MEASURE |
| billing, `billing.c` | four roles, `dat`, two semaphores | 100 ms poll of idle, start, ing, end; events | tells BILLING_ING, BILLING_STOP, BILLING_ENDING, BILLING_END |
| record ring, `billing.c:141`, `dubug_shell.c` | index and records in the EEPROM, the card key behind them | save (billing, and the shell's history_add), read back, clean | billing and shell, with no lock between them |
| concentrator, `hub4g.c` | register mirror, five roles, three semaphores of the card, one of the settlement | Modbus callbacks: key, user, verdict, remote unlocking, start, settlement | tells HUB4G_AUTH_KEY, HUB4G_USR_INFO, CHARGE_MAN_START, CARD_AUTH_SUS |
| card reader, `card_reader.c` | roles reco, lock, auth; key | a swipe: recognition (200 ms), then key, user and verdict of the concentrator, each waited for with a timeout | tells CARD_AUTH_SUS, CARD_AUTH_FAIL, CARD_SWING_OK |
| authentication timeout, `overtime_check_task.c` | delayed work of 3 minutes | started by reader, screen and concentrator, cancelled by CHARGE_MAN_START | tells CARD_AUTH_FAIL |
| temperature task, `pile_temp_task.c` | none of its own | voltage, resistance, binary search, line between entries, limits | tells PILE_TEMP, ERR_TEMP |
| screen, `dugs.c`, `mb/aw_mb_dgus.c` | register mirror | callbacks | start and stop button, restart of the timeout |
| Modbus handlers, `mb/ac_modbus_hdl.c` | register map | read/write of ranges | concentrator |
| buzzer, outputs, shell, start-up, drivers, `des`, boot flag | - | - | see PROJECT.json |

The shipped configuration (`ac_charge_prj_cfg.h`): authentication skipped,
emergency stop, lightning, contactor, voltage, current, meter and temperature
detection on; concentrator authentication and settlement, screen, card and
billing tasks and their communication faults off. The models take the
switches that change behaviour as constants.

What makes each component correct: the controller keeps contactor, lock,
pilot line and reports in agreement in every interleaving, reports each charge
begun and ended once, cuts the output in time after an abort or an emergency,
and comes to rest; the monitors judge a fault twice before they tell it, tell each
change and never get stuck; billing records each stop once, with its own data;
the ring survives a power failure in any write; the contactor check neither
misses a welded contactor nor invents one; a card is accepted on answers to its
own swipe, a swipe comes to an end, and an acceptance that nobody uses expires;
the temperature is within its degree and its alarm where the table puts it.

## 2. Modules

| module | models | correspondence |
|---|---|---|
| `ChargeSession` | abstract: what the other components may rely on (plug, charge, abort, end) | specification refined by `Charger` |
| `Charger` | `charger.c`, the handlers of `pile.c` that the same events run, the emergency-stop poll, PILE_ALARM of the light task | one action per run of the task up to its next `tell_all`, one per `tell_all`, one per event of another task, one per tick |
| `ChargerHistory` | `Charger` with history variables | for deadlines and for what an event meant when it was told |
| `ChargerRefinement` | the refinement mapping from the pile record to `ChargeSession` | `Phase` reads what `pile.c` has heard |
| `Contactor` | the check that the contactor follows: controller, delayed work, light task | one action per read or write of the shared data |
| `Pilot` | `acp1000_din.c` | one action per turn of the task |
| `Ammeter`, `AmmeterHistory` | `ammeter.c` | one action per read, judgement and `tell_all` |
| `Billing` | `billing.c`, the settlement of `hub4g.c` | one action per look at the roles, per role step between waits, per event, which may come at any step; `Builds` are the configurations looked at (settlement by the concentrator, limits watched by billing), `build` the one of a behaviour |
| `RecordRing` | `billing_info_eeprom_save`, the three history commands of the shell, the EEPROM segments | one action per cell written, of either task that saves; the power may fail before each |
| `CardAuth` | the swipe of `card_reader.c`, the callbacks of `hub4g.c` that answer it, `overtime_check_task.c`, and the charge as far as it changes their roles | one action per stretch between waits, per callback up to and after its `tell_all` or delay, per event |
| `Temperature` | `pile_temp_task.c` | one action per sample, per turn of the binary search and per event; the arithmetic in C's integers as operators; the table is a constant, and `MCDetectors` has the real one |
| `MC*` | instances for TLC; `MCDetectors` has `Contactor`, `Temperature`, `Pilot` and `AmmeterHistory` in one run: they share nothing, so a behaviour moves one of them and leaves the others at their start | |
| `*_proofs`, `ChargerPromises` | proofs | `ChargerPromises` has those of the refinement and of the deadlines |

Some operators whose comment or name says so (`...Lost`, `...Late`, `...Kept`,
`...Never`, `...Unarmed` and the like) are deliberately wrong variants of the
definition that follows them. No action uses them; they show, put in that definition's place,
that a property fails.

Reading conventions:

* A poll of the controller is one step up to its next `tell_all`. The task has
  priority 2 and waits nowhere else; tasks of higher priority (the pilot task)
  appear by their writes. Each `tell_all` waits for the event mutex, which
  another task may own, so it is a step of its own and other tasks' deliveries
  come in between.
* The role pointers are one variable, since every handler that sets one clears
  the others.
* Time is a counter of units. In `Charger` a unit is longer than a poll and the
  delays keep their order (200 ms < 3 s < 10 s), in `Contactor` a unit is half
  a second and the delays have their real ratio. `start_ticks = 0` is both "no
  delay running" and the time of the start of the program; read as a time it is
  longer ago than every delay.
* `elock` is the last command; the output itself is commented out in
  `acp1000_dout.h`.
* The 30 s for which `pile.c:326` holds the emergency-stop state is left to
  chance: the state may be released at any time after the button.
* CARD_AUTH_FAIL is told by the tasks in `AuthTasks` (card reader, overtime
  check); the shipped build has none, its `AuthTasks` is empty.
* In `CardAuth` the card is a result of recognition (same, different, invalid),
  the three roles of the reader are one variable `mode`, since handlers set them
  together, and the card's task runs below the Modbus task, so a callback is
  only cut where it waits. `usrTold` and `told` are history: what was answered
  since the CARD_SWING_OK of the swipe in progress.
* ERR_AC may come at any time in `Charger`; how it arises is `Contactor`.
* A pointer cleared between look and play (`Ammeter`, `Billing`) is a call
  through address 0: the state "fault", in which the processor stays
  (`CardAuth` too). The runs `detectors`, `billing` and `card` say
  CHECK_DEADLOCK FALSE for that reason.
* Left out: statistics (`err_cnt`, `charge_cnt`), display values, prices,
  amounts, the rest of the register mirrors.

## 3. Runs

| run | question | bounds and why they are enough |
|---|---|---|
| `charger` | agreement of contactor, lock, pilot line and reports; refinement of `ChargeSession`; lock-out after an emergency stop | one soft detector, the emergency stop, one stop event: detectors of a kind are alike to the controller; delays 1 < 2 < 3 keep every order of expiries |
| `session` | liveness: aborts are cut and ended, emergencies open the contactor, a pulled gun leads to rest | delays 0 < 1 < 2 |
| `deadlines` | in the builds with authentication (CARD_AUTH_FAIL at any moment, starts by hand): time from abort or emergency to the open contactor, that the unlocking waits out a delay begun after the charge was first cut, gun lock, no current advertised between charges | delays 0 < 1 < 2, the emergency stop, one stop event, one teller of CARD_AUTH_FAIL: a second one tells the same. The reports are not checked here, since CARD_AUTH_FAIL ends a charge with no report of its own, nor the coming to rest, which an endless train of CARD_AUTH_FAIL prevents |
| `billing` | no more records than stops; a stop of a charge that billing follows is recorded with that charge's own data; what is followed is the last charge begun; a stop is not lost in a wait for the concentrator; no settlement older than the last start is taken | two builds: without the concentrator and with its settlement, the first one watching the limits. Two charges and three stops: a stop with and without a charge, and a charge begun and ended while the one before is still being settled. Stops come at any step of the task, CARD_AUTH_FAIL and CARD_AUTH_SUS at any time, starts by hand in a charge too |
| `ring` | power failure in any write, two saves at once, wrap-around, clean | four records of two cells, six saves by two tasks: the ring wraps, with a save of the other task in progress |
| `detectors` | `Contactor`: within the delay of the work and two turns of the light task the alarm says what is the case; the bound is tight, one unit less fails. `Temperature`: the search comes to an end, the temperature is between the two entries its resistance is between, the alarm is the table's. `Pilot`: noise adds up to no error, a voltage is published on two like readings, a steady line is followed. `Ammeter`: faults judged twice and timed, verdicts settled | real delays in half seconds; the real table, every millivolt from 0 to 3300; the real skip time, 4; 1 and 3 units for the 5 s and 60 s of the current, pauses of 1 or 2: expiry at, before and after the limit |
| `card` | a card is accepted on its own answers; a swipe ends; an acceptance for which no start is pressed expires | nothing is bounded: any number of swipes, answers, unlockings and charges |

What is assumed of the environment. In `Billing`, `Rested`: a charge starts
when billing has found the end of the one before. The controller needs 20 polls
of 30 ms to believe a new gun, six periods of billing. Nothing is assumed about
the length of a charge, nor about the time at which cards, starts by hand or
settlements come. In `RecordRing`, a save by the shell and one by billing may
overlap at any cell; what the overlapping spoils is said in the properties
(`shared`, the slots either of them was begun for), not ruled out.

Fairness. `Charger` assumes weak fairness of the controller's task, of the
pending deliveries of the pile and light tasks and of time, never of the car,
the user or a detector; `Pilot` (in `MCDetectors`, on its own) and `Billing`
assume it of their own task, `CardAuth` of the card's task and of the timer,
never of cards, concentrator or driver: the tasks above the card's all wait once
a turn. All tasks are periodic loops under a priority scheduler, with mutexes of priority
order, so a task that stays ready runs.

Violations: each shows a disagreement between the code and what a comment or
the configuration says; PROJECT.json quotes the line.

| run | what TLC shows |
|---|---|
| `fault_in_start` | a fault told while the controller is idle, where its copy of the alarm mask is already out of date, is dropped; the start goes on, the contactor closes and stays closed |
| `unlock` | the gun is unlocked in the step that cuts the output (second 9 V pause of a charge), where a comment gives 200 ms |
| `acceptance` | a start that the controller refuses cancels the timeout of the acceptance, which then lasts for ever |
| `ring_real_size` | the 8-bit offset makes the 90 records of 44 bytes overwrite each other from the seventh save on |
| `card_key` | the concentrator's key, told to its own node too, clears the role that gives the semaphore before that role is looked at (`hub4g.c:82`): a reader without a key sleeps through its timeout and refuses the card |

## 4. Proofs

* `Charger_proofs`: the inductive invariant `Inductive` (`Charger.tla`) relates
  role and step of the task to the outputs, the reports and the copies of the
  alarm mask. The single properties are not inductive: that the gun is locked
  while the contactor is closed, for instance, needs to know in which roles the
  lock is held and that the pin is on only where the output is enabled. Its
  first part, `Secured`, holds in every build: a CARD_AUTH_FAIL puts the stop
  role under a step of another role (`AfterAuthFail`), but no such step
  unlocks the gun under a closed contactor or advertises a current again. From
  it follow `LockSafe` and `PilotSafe`. Its second part, `Agreed`, says what is
  reported, and holds where no task tells CARD_AUTH_FAIL, as in the shipped
  build; there `ContactorSafe`, `ReportSafe`, `PinSafe`, `BeginsFromStart` and
  `Lockout` follow. With CARD_AUTH_FAIL the reports do go wrong: it ends a
  charge that nobody is told about.
* `ChargerPromises`: `SessionImplemented`, every step of the controller is a
  step of `ChargeSession` or a stutter, where no task tells CARD_AUTH_FAIL;
  `AbortsInTime`, `EmergenciesInTime` and `UnlocksByOwnDelay`, in every build.
  `AbortInv` splits the age of an abort in three: before the first run after it
  (`InFirstRun`), the delay of `charger_err_do` (`InDelay`), where the age is at
  most one more than `start_ticks`, and the unit that has passed since the last
  poll (`Passed`). It has to allow for an `err_state` left over from an abort
  that CARD_AUTH_FAIL cut short: the timer is then older than the abort, never
  younger. The lemma `OnlyPatience` says that a poll which leaves an abort
  closed is one that has started the timer or found it not yet over;
  `NothingTold`, that no report of the controller is pending then. `HeldInv`,
  behind `UnlocksByOwnDelay`, says where `start_ticks` is the time of a delay before
  unlocking, and that it is not older than the first opening of the contactor
  there (`PauseTimed`, `StopTimed`); for that it has to know in which roles an
  opening can be remembered at all (`OpenedIn`), that it is whenever an end is
  told (`OpenedOnce`), and that a closed contactor is a reported charge
  (`Charged`), which holds with CARD_AUTH_FAIL too.
* `Detectors_proofs`: `AlarmInTime`, for every delay of the work and period of
  the light task. `AlarmInv` follows the quiet time through the three tasks:
  the work is done within its delay (`WorkInTime`) and what it read is then
  right (`WorkRight`); a turn of the light task begun after that judges the
  state as it is or excuses one open contact (`FirstTurn`); the turn after tells
  it right (`SecondTurn`). Since a turn may be cut by the others between any two
  of its steps, both are said of the time at which the turn began.
  `DegreeKept`, `SearchEnds` and `LimitsKept`, of the thermistor, for every
  voltage and every table that satisfies `TableAssumption`. `TempInv` says that
  the resistance lies between the two ends of the range searched, or beyond an
  end of the table where the range still is at that end (`Bracketed`), that
  what is found is the entry itself or on the line (`Judged`), and on which side
  of the limits it is after the rounding to degrees (`DegreesRight`). The
  line is drawn over two degrees, so that it stays within the right one
  is a property of the table: since the table falls less and less, the entry in
  the middle lies under the line, and the line can only err towards the other
  end of the degree. At the cold limit the last rounding goes towards zero, that
  is, to the warmer degree, and the assumption asks the table to bend by enough
  to make up for it. The lemmas before them are about whole quotients; `Judged` says
  too that the result fits `int16_t`.
* `RecordRing_proofs`: `RecordsReadable`, `NewestRead`, `KeySafe`,
  `NothingLost`, with two tasks saving at once, for every number and size of
  records. The first two speak of rings whose saves the byte has held so far
  (`InReach`: no save was begun for a slot beyond it), which is each ring until
  its offset wraps, the real one of 90 records for its first six saves;
  `ring_real_size` shows what the seventh does. They leave out the oldest
  record of a full ring and the slots two saves met in (`Steady`). `KeySafe`
  and `NothingLost` need no `InReach`, so they hold of the real ring throughout:
  `KeySafe` asks that the wrapped offsets end before the key (`KeyOutOfReach`),
  as they do there. The invariant (`RingInv`) says that each save in progress has
  written its first cells and that all other records counted are whole; for the
  order, that the saves in the slots are no newer than the last one and that
  the records a save is about to count follow one another but for the shared
  ones and its own, which has to be said of the save and not of the index,
  since history_clean or the other save may set the index under it.
* `Pilot_proofs`: `Follows`, `ErrorsConfirmed`, for every skip time; the
  invariant ties the counter to the invalid inputs read and allows for the
  initial voltage.

* `Ammeter_proofs`: `VerdictsTold`, `VerdictFollows`, `FaultJudgedTwice` and
  `FaultTimed`, for all delays and pauses. They are about judgements: a read that
  fails is judged again with the value before it (section 5). `VolInv` says that the monitor's step
  is the voltage judged last and how much of the verdict a second and a third
  like one settle; `CurrInv`, that `start_ticks` is never older than the present
  stretch out of range, though it serves two timers and outlives charges.
* `Billing_proofs`: `StopsRecordedOnce`, `RecordsOwn`, `FollowsOwn` and
  `SettlementsOwn`, in every build, for any number of charges and with card
  events at any step. `BillingInv` says which charge `dat` can hold in which
  step of the task and which records there can be then; the properties alone do
  not say that the start has been measured when the role is the one that bills,
  nor that a record of the last charge exists only once that charge has been
  stopped. `SettlementsOwn` rests on the draining of the semaphore when a start
  is told: what is in it was sent since.
* `CardAuth_proofs`: `AnswersOwn`. The invariant says that outside of a swipe's
  questions there is no answer to it (`Rest`), that a verdict has been told
  once (`Heard`), that a semaphore waited for was given by an answer to this
  swipe (`Given`), and what the card's task has waited for (`Past`).
* Type correctness of `Charger`, `Contactor`, `Ammeter`, `Billing`, `CardAuth` and, with
  their invariants, of `RecordRing` and `Pilot`.

The assumptions are the named ASSUMEs of the modules, which TLC evaluates in
the runs, and, where said above, that no task tells CARD_AUTH_FAIL. Only
model-checked:

* liveness under fairness, which this prover does not reach: the fair refinement
  of `ChargeSession`, `EmergencyOpens`, `UnpluggedComesToRest`,
  `StopRecorded`, `Settles`, `SwipeEnds`, `UnusedExpires`.

## 5. Observations

The models show these too. Where no run is named, none keeps them.

* `charger.c:392`: the timer of a 9 V pause is not cleared when the car returns
  to 6 V, so pauses add up and a second, short one ends the charge as full. The
  run that opens the contactor then also unlocks the gun, although `charger.c:65`
  gives 200 ms between the two (run `unlock`). `UnlockByOwnDelay` says what is
  left of it: the delay waited for began no earlier than the first opening.
* `charger.c:576`: CARD_AUTH_FAIL enters the stop role without starting its timer
  and tells no end, so with the car at 12 V the next run opens the contactor and
  unlocks the gun at once. `UnlockByOwnDelay` leaves out such charges.
* `charger.c:710`: `exit_now` is set in every role but read in one. An emergency
  that came and went between charges ends the next one.
* `charger.c:308`: an emergency stop between authorisation and start does not
  keep the contactor from closing once; the charge is then left at once.
* `led_task.c:74`, `99`: the light task copies `charge_ac_state` before it looks at
  `g_need_ac_check`. If the delayed work runs between the two, a sound contactor
  is reported until the next turn but one (`AlarmDeadline` bounds that).
* `acp1000_din.c:75`: the comment takes an error for 12 V; the code publishes 0, as
  `Pilot` does.
* `acp1000_din.c:124`: after a bounce the task stays in its second state, so the
  next change is published without the debounce delay.
* `ammeter.c:174`: one timer for two faults, so a current that jumps from too
  small to too large is told over at its first reading (`CurrFaultTimed` bounds
  the time out of range, not the time over).
* `ammeter.c:193`: the event that says the current is normal is told before the
  state is set, so it carries the fault.
* `ammeter.c:312`: after a failed read the previous values are judged again, 0 V
  at first, so one reading, or none, confirms itself: two judgements in a row are
  not two readings.
* `ammeter.c:301`: two failed reads make a meter fault; the comment says three.
* `ammeter.c:355`, `billing.c`: a role cleared between look and play is called
  through NULL (`PlayNothing`).
* `billing.c:377`: a gun pulled before its charge began is recorded with the
  data of the charge before; `OwnRecord` speaks of stops that come while billing
  follows the charge.
* `billing.c:257`: BILLING_START overwrites the role of a charge that ended
  while its start was measured: the stop is not recorded, and billing goes on
  following a charge that is over, until the next event.
* `billing.c:400`: CARD_AUTH_FAIL between a stop and billing's next look clears
  the role that would record it. In a charge it ends billing and the charge,
  and no record is kept.
* `billing.c:317`: a settlement carries no number. One that comes after the
  wait has timed out stays in the semaphore and is taken for the next stop, if no
  start drains it before; one sent for an older charge and told after the next
  start is taken for that one's. `SettledByHub` excludes those told before it.
* `dubug_shell.c:366`: history_add saves from the shell's task. Meeting a save of
  billing it writes to the same slot, so a record counted is of both; the index
  written last may take the other one's record away.
* `billing.c:312`: the record may be saved before ERR_CHAGER has told its reason.
* `billing.c:400`: with settlement, BILLING_END clears whatever role there is,
  also that of a charge begun while the older one waited for its gun.
* `card_reader.c:207`: the authentication is meant for the idle pile ("生命周期：
  充电空闲时"), but a second card whose handshake began before the charge is judged
  in it; its refusal tells CARD_AUTH_FAIL, which ends the first one's charge.
* `card_reader.c:216`: the answers carry no id, so one to an older swipe that comes
  after the next CARD_SWING_OK is taken for the new one's. `OwnAnswer` excludes
  those told before it only.
* `card_reader.c:485`: the roles are played through their pointers after up to
  200 ms of recognition; events in between clear them (step "fault").
* `charger.c:324`: ERR_CAR_READY ends an accepted start, but the reader and the
  timeout do not hear it. The timeout was cancelled by CHARGE_MAN_START, also when
  the controller refused it, so the next start needs no card, although
  `overtime_check_task.c:28` asks for a new authentication (run `acceptance`).
* `overtime_check_task.c:45`: SCREEN_UNLOCK and the remote unlocking start the
  timeout again, in a charge too; it then tells CARD_AUTH_FAIL and ends it.
* `hub4g.c:614`: what a remote unlocking means is decided 200 ms before it is
  done; it accepts without a card, and sets back the roles of a charge that
  began in between.
* `hub4g.c:823`: the communication error is told before its flag is set (detection
  is off).
* `card_reader.c:527`, `550`, `570`: `cnt` counts failures, retries and characters
  of a UID, so a card that is read resets the count of failures.
* `pile_temp_task.c:231`: the result of the converter's read is not looked at.
  `pile_temp_task.c:184`: at the cold end the entry before the table is read; a
  thermistor that is gone divides by 0 mV, which this processor answers with 0.
* `mb/ac_modbus_hdl.c:532`: a walk does not advance on an address outside of the
  map, and never ends.

## 6. Not modelled

Of the tree about 95 % is the vendored system: register headers, driver and
component interfaces, the boards' configuration. It has no behaviour of this
program, and its kernel is not among the sources; what the code uses of it
(mutexes, semaphores, delayed work, priorities) is modelled from its use. Of the
program's own code the models cover the components that decide something. Left
out, and why:

* Modbus walks (`mb/ac_modbus_hdl.c`) and the mirrors of the screen and the
  concentrator: each register is a copy of data, a walk keeps no state between
  two requests.
* Communication watchdogs of `hub4g.c` and `dugs.c`, failure detection of the
  card reader, prices, reservations, statistics, displayed values.
* Buzzer, lights, outputs, start-up (before any task runs), the shell but for its
  three commands on the ring, the ciphers and the device drivers.
* The boot loader, which only shares a flag, and the board's test programs.

What could still be added: `Charger` composed with `Ammeter` and `Billing` in
place of their environments (they are now checked against the events that
`ChargeSession` allows, which `Charger` is proved to implement).
