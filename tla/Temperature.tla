---------------------------- MODULE Temperature ----------------------------
(***************************************************************************)
(* From the voltage of the thermistor to ERR_TEMP (pile_temp_task.c): the  *)
(* resistance, a binary search of the table of resistances, one straight   *)
(* line between two entries, and the limits of work.  One action is one    *)
(* turn of the search, or one event told.  The table is a constant: what   *)
(* is asked of it is in TableAssumption.                                   *)
(***************************************************************************)
EXTENDS Integers

CONSTANTS
  Last,      \* g_res_val_num - 1
  ResVal     \* g_temp_res_val, ohms at -40, -39, ... degrees

TEMP_MAX == 75
TEMP_MIN == -30

Celsius(i) == i - 40              \* g_temp_start
Entry(t)   == t + 40
AtCelsius(t) == ResVal[Entry(t)]

Hot  == Entry(TEMP_MAX + 1)       \* the first entry too hot to work at,
Cold == Entry(TEMP_MIN - 1)       \* and the last one too cold

(* The table reaches over the limits, falls, and falls less and less.  At  *)
(* the cold limit it bends enough for the line over two entries not to     *)
(* meet the entry between them, and at its end it is steep enough for the  *)
(* temperature of a shorted thermistor to fit int16_t.                     *)
ASSUME TableAssumption ==
  /\ Last \in Nat /\ Hot < Last
  /\ ResVal \in [0..Last -> Nat]
  /\ \A i, j \in 0..Last : i < j => ResVal[i] > ResVal[j]
  /\ \A i \in 1..(Last - 1) :
       ResVal[i - 1] - ResVal[i] >= ResVal[i] - ResVal[i + 1]
  /\ 257 * (ResVal[Cold - 1] - ResVal[Cold + 1])
       <= 512 * (ResVal[Cold - 1] - ResVal[Cold] + 1)
  /\ 512 * ResVal[Last - 2]
       <= (32767 - 256 * Celsius(Last - 2)) * (ResVal[Last - 2] - ResVal[Last])

(* Division as in C, towards zero. *)
Magnitude(a) == IF a < 0 THEN -a ELSE a
Quot(a, b) == IF (a < 0) = (b < 0) THEN Magnitude(a) \div Magnitude(b)
              ELSE -(Magnitude(a) \div Magnitude(b))

(* ntc_res_get.  A voltage of 0 divides by zero, which gives 0 on this     *)
(* processor.                                                              *)
NtcRes(mv) == IF mv = 0 THEN 0 ELSE ((3300 - mv) * 10000) \div mv

(* __ntc_temp_get_from_range, of the entries i and j, in 256ths of a       *)
(* degree.                                                                 *)
ChordOfOne(i, j, r) ==           \* a deliberately wrong variant
  Quot((r - ResVal[i]) * 256, ResVal[j] - ResVal[i]) + Celsius(i) * 256
Chord(i, j, r) ==
  Quot((j - i) * (r - ResVal[i]) * 256, ResVal[j] - ResVal[i])
    + Celsius(i) * 256

(* The line is drawn from the entry before low.  Before the first entry    *)
(* there is none: what is read there is not known, so any temperature may  *)
(* come out; two stand for them all.                                       *)
Interpolated(lo, hi, r) ==
  IF lo = 0 THEN {(TEMP_MIN - 1) * 256, (TEMP_MAX + 1) * 256}
  ELSE {Chord(lo - 1, hi, r)}

-----------------------------------------------------------------------------
VARIABLES
  at,        \* where temp_task_entry is in its turn
  res,       \* the resistance
  low,       \* the range searched
  high,
  temp,      \* in 256ths of a degree, then in degrees
  tempAlarm  \* PILE_ALARM_TEMP

tempVars == <<at, res, low, high, temp, tempAlarm>>

TempInit == /\ at = "read" /\ res = 0 /\ low = 0 /\ high = Last
            /\ temp = 0 /\ tempAlarm = FALSE

Millivolts == 0..3300            \* up to the reference

Sample(mv) ==
  /\ at = "read" /\ at' = "search"
  /\ res' = NtcRes(mv) /\ low' = 0 /\ high' = Last
  /\ UNCHANGED <<temp, tempAlarm>>

(* ntc_res_to_temp: the entry itself, *)
Mid == (low + high) \div 2

Meet ==
  /\ at = "search" /\ res = ResVal[Mid]
  /\ temp' = Celsius(Mid) * 256 /\ at' = "found"
  /\ UNCHANGED <<res, low, high, tempAlarm>>

(* or half of the range, and the line when two entries are left. *)
WideLate(lo, hi) == hi - lo > 0  \* a deliberately wrong variant
Wide(lo, hi) == hi - lo # 1

Halve ==
  /\ at = "search"
  /\ \/ res > ResVal[Mid] /\ low' = low /\ high' = Mid
     \/ res < ResVal[Mid] /\ low' = Mid /\ high' = high
  /\ \/ Wide(low', high') /\ at' = "search" /\ UNCHANGED temp
     \/ /\ ~Wide(low', high') /\ at' = "found"
        /\ temp' \in Interpolated(low', high', res)
  /\ UNCHANGED <<res, tempAlarm>>

(* PILE_TEMP: in whole degrees, towards zero. *)
DegreesFloor(t) == t \div 256    \* a deliberately wrong variant
Degrees(t) == Quot(t, 256)

TellTemp ==
  /\ at = "found" /\ at' = "told"
  /\ temp' = Degrees(temp)
  /\ UNCHANGED <<res, low, high, tempAlarm>>

(* ERR_TEMP, of the same temperature.  What the turn has computed is not   *)
(* used in the next one.                                                   *)
TellErrTemp ==
  /\ at = "told" /\ at' = "read"
  /\ tempAlarm' = (temp > TEMP_MAX \/ temp < TEMP_MIN)
  /\ res' = 0 /\ low' = 0 /\ high' = Last /\ temp' = 0

TempNext == \/ \E mv \in Millivolts : Sample(mv)
            \/ Meet \/ Halve \/ TellTemp \/ TellErrTemp

TempSpec == TempInit /\ [][TempNext]_tempVars

-----------------------------------------------------------------------------
(* Not colder than the second entry, before which no line can be drawn. *)
InTable == res <= ResVal[1]

(* "The error is within 1 degree" (pile_temp_task.c:122), though the line  *)
(* is drawn over two degrees, the sum is made in integers and the last     *)
(* step rounds towards zero: a resistance between two neighbouring entries *)
(* gives a temperature between theirs.                                     *)
WithinDegree ==
  (at = "found" /\ InTable) =>
    \A i \in 0..(Last - 1) :
      (ResVal[i] >= res /\ res >= ResVal[i + 1]) =>
        (Celsius(i) * 256 <= temp /\ temp <= Celsius(i + 1) * 256)

(* The search comes to an end: each of its turns leaves fewer entries, and *)
(* it goes on only while there is one between the two ends, for with a     *)
(* range that cannot be halved the loop would have no way out.             *)
SearchNarrows ==
  [][(at = "search" /\ at' = "search") =>
       (high' - low' < high - low /\ high' - low' > 1)]_tempVars

(* The alarm is that of the table: too hot from 76 degrees on, also for a  *)
(* thermistor that is shorted or gone, too cold from -31 down, whatever    *)
(* the integers lose on the way.                                           *)
LimitsRight ==
  [][(TellErrTemp /\ InTable) =>
       tempAlarm' = (\/ res <= AtCelsius(TEMP_MAX + 1)
                     \/ res >= AtCelsius(TEMP_MIN - 1))]_tempVars
=============================================================================
