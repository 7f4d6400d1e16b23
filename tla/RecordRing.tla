----------------------------- MODULE RecordRing -----------------------------
(***************************************************************************)
(* The ring of charge records in the internal EEPROM:                      *)
(* billing_info_eeprom_save of acp1000/billing.c, the segments it writes   *)
(* to (awbl_hwconf_lpc17xx_eeprom.h), and the shell commands that add a    *)
(* record (history_add), read them back (charge_history) or forget them    *)
(* (history_clean).  The billing task and the shell both save, and no lock *)
(* is between them.                                                        *)
(*                                                                         *)
(* A record is RecordCells cells of 4 bytes and is written cell by cell;   *)
(* the index (number of records, slot of the last) is one write of two     *)
(* bytes in one EEPROM page.  The power may fail, and a write may be       *)
(* refused, between any two of these.  A cell holds the number of the save *)
(* that wrote it.                                                          *)
(***************************************************************************)
EXTENDS Integers

CONSTANTS
  Slots,         \* ACP1000_EEPROM_CHARGE_MAX_NUMS
  RecordCells,   \* ACP1000_EEPROM_CHARGE_SIZE, in cells
  OffsetSpan,    \* cells that offset, a uint8_t, can tell apart (64)
  MaxSaves       \* bound on the saves of a run

ASSUME RecordRingAssumption ==
  /\ Slots \in Nat \ {0} /\ RecordCells \in Nat \ {0}
  /\ OffsetSpan \in Nat \ {0} /\ MaxSaves \in Nat

Slot  == 0..(Slots - 1)
Cell  == 0..(RecordCells - 1)
KeyAt == Slots * RecordCells          \* the card key follows the records
Key   == -1
Blank == 0
Erased == Slots + 1                   \* 0xFF, a total that is not valid

Saver  == {"billing", "shell"}

VARIABLES
  total, last,   \* the index in the EEPROM
  mem,           \* the cells of the records, and the first of the key
  pc,            \* of a saver: "idle", "write" (the record) or "index"
  slot, count,   \* last and total of its save in progress
  cell,          \* the next cell of that
  name,          \* its number
  saves,         \* saves begun
  top,           \* history: the furthest slot a save has been begun for
  shared         \* history: the slots that were last begun while, or before,
                 \* two saves were in progress at once

ee    == <<total, last, mem>>
job   == <<slot, count, cell, name, saves>>
notes == <<top, shared>>
vars  == <<ee, pc, job, notes>>

(* The variables have their types: a save writes to a slot of the ring and *)
(* counts no more records than there are.                                  *)
TypeOK ==
  /\ total \in 0..Slots \cup {Erased}
  /\ last \in Slot
  /\ mem \in [0..KeyAt -> Int]
  /\ pc \in [Saver -> {"idle", "write", "index"}]
  /\ slot \in [Saver -> Slot] /\ count \in [Saver -> 1..Slots]
  /\ cell \in [Saver -> 0..RecordCells]
  /\ saves \in 0..MaxSaves /\ name \in [Saver -> 0..MaxSaves]
  /\ top \in Slot /\ shared \subseteq Slot

Init ==
  /\ total = Erased /\ last = 0
  /\ mem = [c \in 0..KeyAt |-> IF c = KeyAt THEN Key ELSE Blank]
  /\ pc = [p \in Saver |-> "idle"]
  /\ slot = [p \in Saver |-> 0] /\ count = [p \in Saver |-> 1]
  /\ cell = [p \in Saver |-> 0] /\ name = [p \in Saver |-> 0] /\ saves = 0
  /\ top = 0 /\ shared = {}

Valid == total \in 1..Slots
Busy  == {p \in Saver : pc[p] # "idle"}

WrappedLate(s) == IF s > Slots THEN 0 ELSE s
Wrapped(s)     == IF s >= Slots THEN 0 ELSE s
NextSlotBack   == IF last = 0 THEN Slots - 1 ELSE last - 1
NextSlot       == Wrapped(last + 1)

CountedAnew    == IF total + 1 > Slots THEN 1 ELSE total + 1
Counted        == IF total + 1 >= Slots THEN Slots ELSE total + 1

At(s) == (s * RecordCells) % OffsetSpan

FreeSlot == IF Valid THEN NextSlot ELSE 0

(* A save that begins while another is in progress shares its slot or runs *)
(* past it; one that begins alone has its slot for itself.                 *)
Noted(s) ==
  /\ top' = IF s > top THEN s ELSE top
  /\ shared' = IF Busy = {} THEN shared \ {s}
               ELSE shared \cup {s} \cup {slot[q] : q \in Busy}

(* The index is read. *)
Begin(p) ==
  /\ pc[p] = "idle" /\ saves < MaxSaves
  /\ pc' = [pc EXCEPT ![p] = "write"]
  /\ cell' = [cell EXCEPT ![p] = 0]
  /\ saves' = saves + 1 /\ name' = [name EXCEPT ![p] = saves + 1]
  /\ slot' = [slot EXCEPT ![p] = FreeSlot]
  /\ count' = [count EXCEPT ![p] = IF Valid THEN Counted ELSE 1]
  /\ Noted(FreeSlot)
  /\ UNCHANGED ee

WriteCell(p) ==
  /\ pc[p] = "write" /\ cell[p] < RecordCells
  /\ cell' = [cell EXCEPT ![p] = @ + 1]
  /\ mem' = [mem EXCEPT ![At(slot[p]) + cell[p]] = name[p]]
  /\ UNCHANGED <<total, last, pc, slot, count, name, saves, notes>>

(* aw_nvram_set has returned. *)
WrittenEarly(p) == cell[p] + 1 >= RecordCells
Written(p)      == cell[p] = RecordCells

RecordDone(p) ==
  /\ pc[p] = "write" /\ Written(p)
  /\ pc' = [pc EXCEPT ![p] = "index"]
  /\ UNCHANGED <<ee, job, notes>>

WriteIndex(p) ==
  /\ pc[p] = "index"
  /\ total' = count[p] /\ last' = slot[p]
  /\ pc' = [pc EXCEPT ![p] = "idle"]
  /\ UNCHANGED <<mem, job, notes>>

(* The power fails, or aw_nvram_set refuses a write: what was written      *)
(* stays, the save is forgotten.                                           *)
Abandon(p) ==
  /\ pc[p] # "idle"
  /\ pc' = [pc EXCEPT ![p] = "idle"]
  /\ UNCHANGED <<ee, job, notes>>

(* history_clean, from the shell task: also while billing saves. *)
Clean ==
  /\ pc["shell"] = "idle"
  /\ total' = 0 /\ last' = 0
  /\ UNCHANGED <<mem, pc, job, notes>>

Save(p) == Begin(p) \/ WriteCell(p) \/ RecordDone(p) \/ WriteIndex(p)
             \/ Abandon(p)

Next == Clean \/ \E p \in Saver : Save(p)

Spec == Init /\ [][Next]_vars

-----------------------------------------------------------------------------
(* charge_history reads from the last record backwards. *)
Before(s) == IF s = 0 THEN total - 1 ELSE s - 1

Whole(s) == /\ \A i \in Cell : mem[At(s) + i] = mem[At(s)]
            /\ mem[At(s)] # Blank

(* In a full ring the next save overwrites the oldest record in place, and *)
(* two saves at once spoil the slots that they write to, no others.        *)
Steady(s) == s # FreeSlot /\ s \notin shared

(* The records the index counts can be read back: each one is whole and    *)
(* from a single save, whichever write the power failed in, but for the    *)
(* oldest one of a full ring and the slots of saves that ran at once.      *)
Readable == Valid => \A s \in 0..(total - 1) : Steady(s) => Whole(s)

(* The reader meets the records newest first, without a gap or a repeat,   *)
(* but for the same ones.                                                  *)
NewestFirst ==
  Valid => \A s \in 0..(total - 1) :
             (Steady(s) /\ Steady(Before(s)) /\ Before(s) # last)
               => mem[At(Before(s))] < mem[At(s)]

(* The card key behind the last record is never written to. *)
KeyIntact == mem[KeyAt] = Key

(* Only history_clean and a save that ran at once with another one take    *)
(* records away: a save alone, finished, failed or cut off, never lowers   *)
(* the number of records that can be read.                                 *)
Overtaken == \E p \in Saver : WriteIndex(p) /\ slot[p] \in shared
NothingForgotten ==
  [][(Valid /\ ~Clean /\ ~Overtaken) => (Valid' /\ total' >= total)]_vars
=============================================================================
