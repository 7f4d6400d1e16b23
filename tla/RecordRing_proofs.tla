------------------------- MODULE RecordRing_proofs -------------------------
(***************************************************************************)
(* For a ring of any size, with the billing task and the shell saving at   *)
(* any time: as long as no save has been begun for a slot whose offset     *)
(* runs over its byte, the records the index counts can be read back,      *)
(* newest first, wherever a save fails or the power does.  In every ring   *)
(* whose offsets stay clear of it the card key is never written to, and    *)
(* only history_clean and saves that run at once take records away.        *)
(***************************************************************************)
EXTENDS RecordRing, TLAPS

(* No offset has run over: in the ring of the code, 90 records of 11 cells *)
(* and 64 offsets, this holds as long as the slots 0 to 5 are used.        *)
InReach == top * RecordCells < OffsetSpan

(* The ring lies within the offsets, or the offsets end before the key:    *)
(* the second holds for the ring of the code.                              *)
KeyOutOfReach == \/ KeyAt <= OffsetSpan
                 \/ OffsetSpan + RecordCells <= KeyAt + 1

(* The index, and each index about to be written, counts slots that saves  *)
(* have been begun for; a ring that is not full ends with its last record. *)
Packed ==
  /\ Valid => /\ total <= top + 1
              /\ total < Slots => last = total - 1
  /\ \A p \in Saver : pc[p] # "idle" =>
       /\ slot[p] <= top /\ count[p] <= top + 1
       /\ count[p] < Slots => slot[p] = count[p] - 1

(* A save that has its slot for itself... *)
Alone(p) == pc[p] # "idle" /\ slot[p] \notin shared

Cells(s) == At(s)..(At(s) + RecordCells - 1)

(* ...is the only one and the latest; it writes to the slot that is free,  *)
(* every cell written so far carries its number, and no cell outside its   *)
(* slot does.                                                              *)
Progress ==
  \A p \in Saver : Alone(p) =>
    /\ \A q \in Saver : q # p => pc[q] = "idle"
    /\ name[p] = saves /\ saves > 0
    /\ Valid => FreeSlot = slot[p]
    /\ pc[p] = "index" => cell[p] = RecordCells
    /\ \A i \in 0..(cell[p] - 1) : mem[At(slot[p]) + i] = name[p]
    /\ \A c \in 0..KeyAt : c \notin Cells(slot[p]) => mem[c] < name[p]

(* The records that a save is about to count are whole, but for its own. *)
Spared ==
  \A p \in Saver : pc[p] # "idle" =>
    \A s \in 0..(count[p] - 1) :
      (s # slot[p] /\ s \notin shared) => Whole(s)

(* The first cell of a slot names the save that wrote it.  Saves are       *)
(* numbered upwards, and the records that a save is about to count follow  *)
(* one another.                                                            *)
First(s) == mem[At(s)]

BeforeIn(n, s) == IF s = 0 THEN n - 1 ELSE s - 1

Bounded == /\ \A c \in 0..KeyAt : mem[c] <= saves
           /\ \A p \in Saver : name[p] <= saves

Chained ==
  \A p \in Saver : pc[p] # "idle" =>
    \A s \in 0..(count[p] - 1) :
      /\ slot[p] \notin {s, BeforeIn(count[p], s)}
      /\ s \notin shared /\ BeforeIn(count[p], s) \notin shared
      => First(BeforeIn(count[p], s)) < First(s)

RingInv ==
  /\ TypeOK
  /\ InReach => /\ Packed /\ Progress /\ Spared /\ Bounded /\ Chained
                /\ Readable /\ NewestFirst

-----------------------------------------------------------------------------
(* Multiplication is monotone: a slot starts where the one before it ends, *)
(* or later.                                                               *)
LEMMA Steps ==
  ASSUME NEW s \in Nat, NEW t \in Nat, NEW r \in Nat, s < t
  PROVE  s * r + r <= t * r
<1>1. PICK d \in Nat : t = s + 1 + d
  <2>1. t - s - 1 \in Nat /\ t = s + 1 + (t - s - 1)
    OBVIOUS
  <2> QED BY <2>1
<1>2. t * r = s * r + r + d * r
  BY <1>1, SMT
<1>3. d * r \in Nat
  BY SMT
<1>4. s * r \in Nat
  BY SMT
<1> QED BY <1>2, <1>3, <1>4, SMT

LEMMA Monotone ==
  ASSUME NEW s \in Nat, NEW t \in Nat, NEW r \in Nat, s <= t
  PROVE  s * r \in Nat /\ t * r \in Nat /\ s * r <= t * r
<1>1. s * r \in Nat /\ t * r \in Nat
  BY SMT
<1>2. CASE s = t
  BY <1>1, <1>2
<1>3. CASE s < t
  <2>1. s * r + r <= t * r
    BY <1>3, Steps
  <2> QED BY <1>1, <2>1
<1> QED BY <1>1, <1>2, <1>3

(* The sizes are numbers. *)
LEMMA Sizes ==
  ASSUME RecordRingAssumption
  PROVE  /\ Slots \in Nat /\ Slots > 0
         /\ RecordCells \in Nat /\ RecordCells > 0
         /\ OffsetSpan \in Nat /\ OffsetSpan > 0
         /\ MaxSaves \in Nat
         /\ KeyAt \in Nat
<1>1. Slots \in Nat /\ Slots > 0 /\ RecordCells \in Nat /\ RecordCells > 0
      /\ OffsetSpan \in Nat /\ OffsetSpan > 0 /\ MaxSaves \in Nat
  BY DEF RecordRingAssumption
<1>2. KeyAt \in Nat
  BY <1>1, SMT DEF KeyAt
<1> QED BY <1>1, <1>2

(* A slot whose offset has not run over lies within the ring, before the   *)
(* key.                                                                    *)
LEMMA Inside ==
  ASSUME RecordRingAssumption, TypeOK, InReach, NEW s \in Slot, s <= top
  PROVE  /\ At(s) = s * RecordCells
         /\ At(s) \in Nat
         /\ At(s) + RecordCells <= KeyAt
<1> DEFINE p == s * RecordCells
<1> USE Sizes
<1>1. s \in Nat /\ s < Slots /\ top \in Nat
  BY DEF Slot, TypeOK
<1>2. p \in Nat /\ top * RecordCells \in Nat
  BY <1>1, SMT
<1>3. p + RecordCells <= KeyAt
  BY <1>1, Steps, SMT DEF KeyAt
<1>4. p <= top * RecordCells
  BY <1>1, Monotone
<1>5. p < OffsetSpan
  BY <1>2, <1>4 DEF InReach
<1> HIDE DEF p
<1>6. p % OffsetSpan = p
  BY <1>2, <1>5, SMT
<1>7. At(s) = p
  BY <1>6 DEF At, p
<1> QED BY <1>2, <1>3, <1>7 DEF p

(* Two such slots share no cell. *)
LEMMA Apart ==
  ASSUME RecordRingAssumption, TypeOK, InReach,
         NEW s \in Slot, NEW t \in Slot, s # t, s <= top, t <= top,
         NEW i \in Cell, NEW j \in Cell
  PROVE  At(s) + i # At(t) + j
<1> USE Sizes
<1>1. s \in Nat /\ t \in Nat
  BY DEF Slot
<1>2. i \in Nat /\ j \in Nat /\ i < RecordCells /\ j < RecordCells
  BY DEF Cell
<1>3. At(s) = s * RecordCells /\ At(t) = t * RecordCells
      /\ At(s) \in Nat /\ At(t) \in Nat
  BY Inside
<1>4. At(s) + RecordCells <= At(t) \/ At(t) + RecordCells <= At(s)
  <2>1. CASE s < t
    BY <2>1, <1>1, <1>3, Steps
  <2>2. CASE t < s
    BY <2>2, <1>1, <1>3, Steps
  <2> QED BY <1>1, <2>1, <2>2
<1> QED BY <1>2, <1>3, <1>4

(* A record is whole as long as its cells are not written to. *)
LEMMA WholeKept ==
  ASSUME NEW s, Whole(s), \A i \in Cell : mem'[At(s) + i] = mem[At(s) + i],
         mem'[At(s)] = mem[At(s)]
  PROVE  Whole(s)'
BY DEF Whole, At, Cell, Blank

(* The variables keep their types, whatever the offsets do. *)
LEMMA TypeKept ==
  ASSUME RecordRingAssumption, TypeOK, [Next]_vars PROVE TypeOK'
<1> USE Sizes
<1>1. ASSUME NEW p \in Saver, Begin(p) PROVE TypeOK'
  <2>1. FreeSlot \in Slot
    BY DEF FreeSlot, NextSlot, Wrapped, TypeOK, Slot, Valid
  <2>2. (IF Valid THEN Counted ELSE 1) \in 1..Slots
    BY DEF Counted, Valid
  <2>3. saves + 1 \in 0..MaxSaves
    BY <1>1 DEF Begin, TypeOK
  <2>4. top' \in Slot /\ shared' \subseteq Slot
    BY <1>1, <2>1 DEF Begin, Noted, TypeOK, Busy
  <2>5. slot' \in [Saver -> Slot] /\ count' \in [Saver -> 1..Slots]
        /\ name' \in [Saver -> 0..MaxSaves] /\ saves' \in 0..MaxSaves
    BY <1>1, <2>1, <2>2, <2>3 DEF Begin, TypeOK
  <2>6. pc' \in [Saver -> {"idle", "write", "index"}]
        /\ cell' \in [Saver -> 0..RecordCells]
    BY <1>1 DEF Begin, TypeOK
  <2> QED BY <1>1, <2>4, <2>5, <2>6 DEF Begin, TypeOK, ee
<1>2. ASSUME NEW p \in Saver, WriteCell(p) PROVE TypeOK'
  <2>1. mem' \in [0..KeyAt -> Int]
    <3>1. name[p] \in Int
      BY DEF TypeOK
    <3>2. mem \in [0..KeyAt -> Int]
      BY DEF TypeOK
    <3>3. mem' = [mem EXCEPT ![At(slot[p]) + cell[p]] = name[p]]
      BY <1>2 DEF WriteCell
    <3> QED BY <3>1, <3>2, <3>3
  <2>2. cell' \in [Saver -> 0..RecordCells]
    BY <1>2 DEF WriteCell, TypeOK
  <2> QED BY <1>2, <2>1, <2>2 DEF WriteCell, TypeOK, notes
<1>3. ASSUME NEW p \in Saver, RecordDone(p) \/ WriteIndex(p) \/ Abandon(p)
      PROVE  TypeOK'
  <2>1. pc' \in [Saver -> {"idle", "write", "index"}]
    BY <1>3 DEF RecordDone, WriteIndex, Abandon, TypeOK
  <2>2. total' \in 0..Slots \cup {Erased} /\ last' \in Slot
    BY <1>3 DEF RecordDone, WriteIndex, Abandon, TypeOK, ee
  <2>3. UNCHANGED <<mem, slot, count, cell, name, saves, top, shared>>
    BY <1>3 DEF RecordDone, WriteIndex, Abandon, ee, job, notes
  <2> QED BY <2>1, <2>2, <2>3 DEF TypeOK
<1>4. CASE Clean
  BY <1>4 DEF Clean, TypeOK, job, notes, Slot
<1>5. CASE UNCHANGED vars
  BY <1>5 DEF TypeOK, vars, ee, job, notes
<1> QED BY <1>1, <1>2, <1>3, <1>4, <1>5 DEF Next, Save

-----------------------------------------------------------------------------
(* The initial EEPROM satisfies the invariant. *)
LEMMA RingInit ==
  ASSUME RecordRingAssumption, Init PROVE RingInv
<1> USE Sizes
<1>1. TypeOK
  BY DEF Init, TypeOK, Slot, Erased, Key, Blank
<1>2. ~Valid /\ \A p \in Saver : pc[p] = "idle"
  BY DEF Init, Valid, Erased
<1>3. Bounded
  BY DEF Init, Bounded, Key, Blank
<1> QED BY <1>1, <1>2, <1>3 DEF RingInv, Packed, Progress, Alone, Spared,
   Chained, Readable, NewestFirst

(* The slot the next save writes to follows the records counted. *)
LEMMA NextFree ==
  ASSUME RecordRingAssumption, TypeOK, Packed
  PROVE  /\ FreeSlot \in Slot
         /\ Valid => /\ total \in 1..Slots /\ last \in Slot
                     /\ total < Slots => FreeSlot = total
                     /\ FreeSlot = IF last + 1 = Slots THEN 0 ELSE last + 1
BY Sizes DEF FreeSlot, NextSlot, Wrapped, TypeOK, Slot, Packed, Valid

(* A save begins: the records to be counted, but for the one to be         *)
(* written, are those that can be read now.                                *)
LEMMA BeginKeeps ==
  ASSUME RecordRingAssumption, RingInv, NEW p \in Saver, Begin(p)
  PROVE  RingInv'
<1> USE Sizes
<1>1. TypeOK /\ TypeOK'
  BY TypeKept DEF RingInv, Next, Save
<1> SUFFICES ASSUME InReach'
             PROVE  (/\ Packed /\ Progress /\ Spared /\ Bounded /\ Chained
                     /\ Readable /\ NewestFirst)'
  BY <1>1 DEF RingInv
<1> DEFINE f == FreeSlot
           n == IF Valid THEN Counted ELSE 1
<1>2. /\ UNCHANGED <<total, last, mem>>
      /\ pc[p] = "idle" /\ pc' = [pc EXCEPT ![p] = "write"]
      /\ cell' = [cell EXCEPT ![p] = 0]
      /\ saves' = saves + 1 /\ name' = [name EXCEPT ![p] = saves + 1]
      /\ slot' = [slot EXCEPT ![p] = f]
      /\ count' = [count EXCEPT ![p] = n]
      /\ top' = (IF f > top THEN f ELSE top)
      /\ shared' = (IF Busy = {} THEN shared \ {f}
                    ELSE shared \cup {f} \cup {slot[q] : q \in Busy})
  BY DEF Begin, ee, Noted
<1>3. InReach
  <2>1. top \in Nat /\ top' \in Nat /\ top <= top'
    BY <1>1, <1>2 DEF TypeOK, Slot
  <2> DEFINE t == top'
  <2>2. top * RecordCells \in Nat /\ t * RecordCells \in Nat
        /\ top * RecordCells <= t * RecordCells
    BY <2>1, Monotone
  <2>3. t * RecordCells < OffsetSpan
    BY DEF InReach
  <2> HIDE DEF t
  <2> QED BY <2>2, <2>3 DEF InReach
<1>4. Packed /\ Progress /\ Spared /\ Bounded /\ Chained /\ Readable
      /\ NewestFirst
  BY <1>3 DEF RingInv
<1>5. /\ f \in Slot
      /\ Valid => /\ total \in 1..Slots /\ last \in Slot
                  /\ total < Slots => (f = total /\ last = total - 1)
                  /\ f = IF last + 1 = Slots THEN 0 ELSE last + 1
  BY <1>1, <1>4, NextFree DEF Packed
<1>6. /\ n \in 1..Slots
      /\ Valid => n = IF total = Slots THEN Slots ELSE total + 1
      /\ ~Valid => n = 1 /\ f = 0
  BY <1>5 DEF Counted, FreeSlot
<1>7. /\ (Valid)' = Valid /\ (FreeSlot)' = f
      /\ \A s : (Whole(s)' <=> Whole(s)) /\ First(s)' = First(s)
  BY <1>2 DEF Valid, FreeSlot, NextSlot, Wrapped, Whole, First, At
<1>8. /\ pc'[p] = "write" /\ cell'[p] = 0 /\ name'[p] = saves'
      /\ slot'[p] = f /\ count'[p] = n
      /\ \A q \in Saver : q # p =>
           /\ pc'[q] = pc[q] /\ slot'[q] = slot[q]
           /\ count'[q] = count[q]
  BY <1>1, <1>2 DEF TypeOK
<1>9. top \in Nat /\ top' \in Nat /\ top <= top' /\ f <= top' /\ saves \in Nat
  BY <1>1, <1>2, <1>5 DEF TypeOK, Slot
<1>10. /\ \A s : s \notin shared' /\ s # f => s \notin shared
       /\ Busy # {} => f \in shared'
       /\ \A q \in Saver : pc[q] # "idle" => slot[q] \in shared'
  <2>1. \A s : s \notin shared' /\ s # f => s \notin shared
    BY <1>2
  <2>2. Busy # {} => f \in shared'
    BY <1>2
  <2>3. ASSUME NEW q \in Saver, pc[q] # "idle" PROVE slot[q] \in shared'
    <3>1. q \in Busy
      BY <2>3 DEF Busy
    <3> QED BY <3>1, <1>2
  <2> QED BY <2>1, <2>2, <2>3
<1> HIDE DEF f, n
<1>11. Packed'
  <2>1. Valid' => total' <= top' + 1 /\ (total' < Slots => last' = total' - 1)
    BY <1>1, <1>2, <1>4, <1>7, <1>9 DEF Packed, Valid
  <2>2. n <= top' + 1
    <3>1. CASE ~Valid
      <4> DEFINE t == top'
      <4>1. n = 1 /\ t \in Nat
        BY <3>1, <1>6, <1>9
      <4> HIDE DEF t
      <4>2. n <= t + 1
        BY <4>1
      <4> QED BY <4>2 DEF t
    <3>2. CASE Valid /\ total = Slots
      BY <3>2, <1>4, <1>6, <1>9 DEF Packed
    <3>3. CASE Valid /\ total # Slots
      BY <3>3, <1>5, <1>6, <1>9
    <3> QED BY <3>1, <3>2, <3>3
  <2>3. n < Slots => f = n - 1
    BY <1>5, <1>6
  <2>4. ASSUME NEW q \in Saver, pc'[q] # "idle"
        PROVE  /\ slot'[q] <= top' /\ count'[q] <= top' + 1
               /\ count'[q] < Slots => slot'[q] = count'[q] - 1
    <3>1. CASE q = p
      BY <3>1, <1>8, <1>9, <2>2, <2>3
    <3>2. CASE q # p
      <4>1. /\ slot[q] <= top /\ count[q] <= top + 1
            /\ count[q] < Slots => slot[q] = count[q] - 1
        BY <3>2, <2>4, <1>4, <1>8 DEF Packed
      <4>2. slot[q] \in Int /\ count[q] \in Int
        BY <1>1 DEF TypeOK, Slot
      <4> QED BY <3>2, <4>1, <4>2, <1>8, <1>9
    <3> QED BY <3>1, <3>2
  <2> QED BY <2>1, <2>4 DEF Packed
<1>12. Progress'
  <2>1. ASSUME NEW q \in Saver, pc'[q] # "idle", slot'[q] \notin shared'
        PROVE  q = p /\ \A r \in Saver : r # p => pc[r] = "idle"
    <3>1. q = p
      BY <2>1, <1>8, <1>10
    <3>2. Busy = {}
      BY <2>1, <3>1, <1>8, <1>10
    <3> QED BY <3>1, <3>2 DEF Busy
  <2>2. \A c \in 0..KeyAt : mem'[c] < saves'
    <3>1. SUFFICES ASSUME NEW c \in 0..KeyAt PROVE mem[c] < saves + 1
      BY <1>2
    <3>2. mem[c] \in Int /\ mem[c] <= saves
      BY <1>1, <1>4 DEF Bounded, TypeOK
    <3> QED BY <3>2, <1>9
  <2>3. ASSUME NEW q \in Saver, (Alone(q))'
        PROVE  (/\ \A r \in Saver : r # q => pc[r] = "idle"
                /\ name[q] = saves /\ saves > 0
                /\ Valid => FreeSlot = slot[q]
                /\ pc[q] = "index" => cell[q] = RecordCells
                /\ \A i \in 0..(cell[q] - 1) : mem[At(slot[q]) + i] = name[q]
                /\ \A c \in 0..KeyAt : c \notin Cells(slot[q])
                                         => mem[c] < name[q])'
    <3>1. q = p /\ \A r \in Saver : r # p => pc[r] = "idle"
      BY <2>1, <2>3 DEF Alone
    <3>2. \A i \in 0..(cell'[q] - 1) : FALSE
      BY <3>1, <1>8
    <3>3. \A r \in Saver : r # q => pc'[r] = "idle"
      BY <3>1, <1>8
    <3>4. name'[q] = saves' /\ saves' > 0
      BY <3>1, <1>8, <1>2, <1>9
    <3>5. (FreeSlot)' = slot'[q] /\ pc'[q] # "index"
      BY <3>1, <1>7, <1>8
    <3>6. \A c \in 0..KeyAt : mem'[c] < name'[q]
      BY <2>2, <3>4
    <3> QED BY <3>2, <3>3, <3>4, <3>5, <3>6 DEF KeyAt
  <2> QED BY <2>3 DEF Progress
<1>13. Spared'
  <2>1. ASSUME NEW q \in Saver, pc'[q] # "idle",
               NEW s \in 0..(count'[q] - 1), s # slot'[q], s \notin shared'
        PROVE  Whole(s)
    <3>1. CASE q = p
      <4>1. s \in 0..(n - 1) /\ s # f /\ s \notin shared
        BY <2>1, <3>1, <1>8, <1>10
      <4>2. Valid /\ s \in 0..(total - 1)
        BY <4>1, <1>5, <1>6
      <4> QED BY <4>1, <4>2, <1>4 DEF Readable, Steady, f
    <3>2. CASE q # p
      <4>1. pc[q] # "idle" /\ s \in 0..(count[q] - 1) /\ s # slot[q]
        BY <2>1, <3>2, <1>8
      <4>2. s # f
        BY <4>1, <2>1, <1>10 DEF Busy
      <4>3. s \notin shared
        BY <4>2, <2>1, <1>10
      <4> QED BY <4>1, <4>3, <1>4 DEF Spared
    <3> QED BY <3>1, <3>2
  <2> QED BY <2>1, <1>7 DEF Spared
<1>14. Bounded'
  <2>1. ASSUME NEW c \in 0..KeyAt PROVE mem[c] <= saves + 1
    <3>1. mem[c] \in Int /\ mem[c] <= saves
      BY <1>1, <1>4 DEF Bounded, TypeOK
    <3> QED BY <3>1, <1>9
  <2>2. ASSUME NEW q \in Saver PROVE name'[q] <= saves + 1
    <3>1. name[q] <= saves /\ name[q] \in Nat
      BY <1>1, <1>4 DEF Bounded, TypeOK
    <3>2. name'[q] \in {name[q], saves + 1}
      BY <1>1, <1>2 DEF TypeOK
    <3> QED BY <3>1, <3>2, <1>9
  <2> QED BY <2>1, <2>2, <1>2 DEF Bounded, KeyAt
<1>15. Readable'
  <2>1. SUFFICES ASSUME Valid, NEW s \in 0..(total - 1), s # f,
                        s \notin shared'
                 PROVE  Whole(s)
    BY <1>2, <1>7 DEF Readable, Steady
  <2> QED BY <2>1, <1>4, <1>10 DEF Readable, Steady, f
<1>16. NewestFirst'
  <2>1. SUFFICES ASSUME Valid, NEW s \in 0..(total - 1),
                        s # f, Before(s) # f, Before(s) # last,
                        s \notin shared', Before(s) \notin shared'
                 PROVE  First(Before(s)) < First(s)
    BY <1>2, <1>7 DEF NewestFirst, Steady, Before, First, At
  <2> QED BY <2>1, <1>4, <1>10 DEF NewestFirst, Steady, First, f
<1>17. Chained'
  <2>1. ASSUME NEW q \in Saver, pc'[q] # "idle",
               NEW s \in 0..(count'[q] - 1),
               slot'[q] \notin {s, BeforeIn(count'[q], s)},
               s \notin shared', BeforeIn(count'[q], s) \notin shared'
        PROVE  First(BeforeIn(count'[q], s)) < First(s)
    <3>1. CASE q = p
      <4>1. s \in 0..(n - 1) /\ f # s /\ f # BeforeIn(n, s)
            /\ s \notin shared /\ BeforeIn(n, s) \notin shared
        BY <2>1, <3>1, <1>8, <1>10
      <4>2. Valid /\ s \in 0..(total - 1)
        BY <4>1, <1>5, <1>6
      <4>3. BeforeIn(n, s) = Before(s)
        BY <4>1, <4>2, <1>5, <1>6 DEF BeforeIn, Before
      <4>4. Before(s) # last
        <5>1. CASE s # 0
          BY <5>1, <4>1, <4>2, <4>3, <1>5, <1>6 DEF Before
        <5>2. CASE s = 0
          <6>1. Before(s) = total - 1 /\ BeforeIn(n, s) = n - 1
            BY <5>2 DEF Before, BeforeIn
          <6>2. total = n
            BY <6>1, <4>2, <4>3, <1>5, <1>6
          <6>3. total = Slots
            BY <6>2, <4>2, <1>5, <1>6
          <6> QED BY <6>1, <6>3, <5>2, <4>1, <4>2, <1>5
        <5> QED BY <5>1, <5>2
      <4> QED BY <3>1, <4>1, <4>2, <4>3, <4>4, <1>4, <1>8
              DEF NewestFirst, Steady, First, f
    <3>2. CASE q # p
      <4>1. /\ pc[q] # "idle" /\ s \in 0..(count[q] - 1)
            /\ slot[q] \notin {s, BeforeIn(count[q], s)}
            /\ s \notin shared' /\ BeforeIn(count[q], s) \notin shared'
            /\ count'[q] = count[q]
        BY <2>1, <3>2, <1>8
      <4>2. f \in shared'
        BY <4>1, <1>10 DEF Busy
      <4>3. s \notin shared /\ BeforeIn(count[q], s) \notin shared
        BY <4>1, <4>2, <1>10
      <4> QED BY <4>1, <4>3, <1>4 DEF Chained
    <3> QED BY <3>1, <3>2
  <2> QED BY <2>1, <1>7 DEF Chained, BeforeIn, First, At
<1> QED BY <1>11, <1>12, <1>13, <1>14, <1>15, <1>16, <1>17

(* A cell is written: it is inside its own slot, so the other records keep *)
(* theirs.                                                                 *)
LEMMA WriteKeeps ==
  ASSUME RecordRingAssumption, RingInv, NEW p \in Saver, WriteCell(p)
  PROVE  RingInv'
<1> USE Sizes
<1>1. TypeOK /\ TypeOK'
  BY TypeKept DEF RingInv, Next, Save
<1>2. /\ UNCHANGED <<total, last, pc, slot, count, name, saves, top, shared>>
      /\ pc[p] = "write" /\ cell' = [cell EXCEPT ![p] = @ + 1]
      /\ cell[p] \in Cell /\ slot[p] \in Slot
      /\ mem' = [mem EXCEPT ![At(slot[p]) + cell[p]] = name[p]]
  BY <1>1 DEF WriteCell, notes, TypeOK, Cell
<1> SUFFICES ASSUME InReach
             PROVE  (/\ Packed /\ Progress /\ Spared /\ Bounded /\ Chained
                     /\ Readable /\ NewestFirst)'
  BY <1>1, <1>2 DEF RingInv, InReach
<1> DEFINE a == At(slot[p]) + cell[p]
<1>3. Packed /\ Progress /\ Spared /\ Bounded /\ Chained /\ Readable
      /\ NewestFirst
  BY DEF RingInv
<1>4. /\ slot[p] <= top /\ name[p] <= saves
      /\ name[p] \in Nat /\ saves \in Nat /\ top \in Nat /\ top < Slots
  BY <1>1, <1>2, <1>3 DEF Packed, Bounded, TypeOK, Slot
<1>5. At(slot[p]) \in Nat /\ a \in 0..KeyAt /\ a \in Cells(slot[p])
  <2>1. At(slot[p]) \in Nat /\ At(slot[p]) + RecordCells <= KeyAt
    BY <1>1, <1>2, <1>4, Inside
  <2> QED BY <2>1, <1>2 DEF Cell, Cells
<1>6. ASSUME NEW s \in Slot, s # slot[p], s <= top
      PROVE  At(s) # a /\ \A i \in Cell : At(s) + i # a
  <2>1. \A i \in Cell : At(s) + i # a
    BY <1>1, <1>2, <1>4, <1>6, Apart
  <2>2. 0 \in Cell /\ At(s) \in Nat
    BY <1>1, <1>6, Inside DEF Cell
  <2>3. At(s) + 0 # a /\ At(s) + 0 = At(s)
    BY <2>1, <2>2
  <2> QED BY <2>1, <2>3
<1> HIDE DEF a
<1>7. /\ mem'[a] = name[p]
      /\ \A c : c # a => mem'[c] = mem[c]
      /\ \A c \in 0..KeyAt : mem[c] \in Int
  <2>1. mem \in [0..KeyAt -> Int]
    BY <1>1 DEF TypeOK
  <2>2. mem' = [mem EXCEPT ![a] = name[p]]
    BY <1>2 DEF a
  <2> QED BY <2>1, <2>2, <1>5
<1>8. ASSUME NEW s \in Slot, s # slot[p], s <= top
      PROVE  (Whole(s) => Whole(s)') /\ First(s)' = First(s)
  BY <1>6, <1>7, <1>8, WholeKept DEF First, At
<1>9. \A q \in Saver : pc[q] # "idle" /\ q # p => slot[p] \in shared
  BY <1>2, <1>3 DEF Progress, Alone
<1>10. slot[p] \in shared \/ (Valid => FreeSlot = slot[p])
  BY <1>2, <1>3 DEF Progress, Alone
<1>11. (Valid)' = Valid /\ (FreeSlot)' = FreeSlot
  BY <1>2 DEF Valid, FreeSlot, NextSlot, Wrapped
<1>12. Packed'
  BY <1>2, <1>3, <1>11 DEF Packed, Valid
<1>13. Bounded'
  BY <1>2, <1>3, <1>4, <1>7 DEF Bounded, KeyAt
<1>14. Progress'
  <2>1. SUFFICES ASSUME NEW q \in Saver, Alone(q)
        PROVE  (/\ \A r \in Saver : r # q => pc[r] = "idle"
                /\ name[q] = saves /\ saves > 0
                /\ Valid => FreeSlot = slot[q]
                /\ pc[q] = "index" => cell[q] = RecordCells
                /\ \A i \in 0..(cell[q] - 1) : mem[At(slot[q]) + i] = name[q]
                /\ \A c \in 0..KeyAt : c \notin Cells(slot[q])
                                         => mem[c] < name[q])'
    BY <1>2 DEF Progress, Alone
  <2>2. /\ \A r \in Saver : r # q => pc[r] = "idle"
        /\ name[q] = saves /\ saves > 0
        /\ Valid => FreeSlot = slot[q]
        /\ \A i \in 0..(cell[q] - 1) : mem[At(slot[q]) + i] = name[q]
        /\ \A c \in 0..KeyAt : c \notin Cells(slot[q]) => mem[c] < name[q]
    BY <2>1, <1>3 DEF Progress
  <2>3. q = p
    BY <2>2, <1>2
  <2>4. cell'[p] = cell[p] + 1 /\ pc[p] # "index"
    BY <1>1, <1>2 DEF TypeOK
  <2>5. ASSUME NEW i \in 0..(cell'[q] - 1)
        PROVE  mem'[At(slot[q]) + i] = name[q]
    <3>1. i \in 0..cell[p]
      BY <2>3, <2>4, <1>2 DEF Cell
    <3>2. CASE i = cell[p]
      BY <3>2, <2>3, <1>7 DEF a
    <3>3. CASE i # cell[p]
      <4>1. i \in 0..(cell[p] - 1)
        BY <3>1, <3>3, <1>2 DEF Cell
      <4>2. At(slot[p]) + i # a
        BY <3>1, <3>3, <1>2, <1>5 DEF a, Cell
      <4>3. mem[At(slot[q]) + i] = name[q]
        BY <4>1, <2>2, <2>3
      <4> QED BY <4>2, <4>3, <2>3, <1>7
    <3> QED BY <3>2, <3>3
  <2>6. ASSUME NEW c \in 0..KeyAt, c \notin Cells(slot[q])
        PROVE  mem'[c] < name[q]
    <3>1. c # a
      BY <2>3, <2>6, <1>5
    <3> QED BY <3>1, <2>2, <2>6, <1>7
  <2>7. \A i : (At(slot[q]) + i)' = At(slot[q]) + i
    BY <1>2 DEF At
  <2>8. (Cells(slot[q]))' = Cells(slot[q]) /\ (0..KeyAt)' = 0..KeyAt
    BY <1>2 DEF At, Cells, KeyAt
  <2> QED BY <2>2, <2>3, <2>4, <2>5, <2>6, <2>7, <2>8, <1>2, <1>11
<1>15. Spared'
  <2>1. ASSUME NEW q \in Saver, pc[q] # "idle", NEW s \in 0..(count[q] - 1),
               s # slot[q], s \notin shared
        PROVE  Whole(s)'
    <3>1. Whole(s)
      BY <2>1, <1>3 DEF Spared
    <3>2. s # slot[p]
      BY <2>1, <1>9
    <3>3. s \in Slot /\ s <= top
      <4>1. count[q] \in 1..Slots /\ count[q] <= top + 1
        BY <2>1, <1>1, <1>3 DEF TypeOK, Packed
      <4> QED BY <4>1, <2>1, <1>4 DEF Slot
    <3> QED BY <3>1, <3>2, <3>3, <1>8
  <2> QED BY <2>1, <1>2 DEF Spared, Whole, At
<1>16. Readable'
  <2>1. SUFFICES ASSUME Valid, NEW s \in 0..(total - 1), s # FreeSlot,
                        s \notin shared
                 PROVE  Whole(s)'
    BY <1>2, <1>11 DEF Readable, Steady
  <2>2. Whole(s)
    BY <2>1, <1>3 DEF Readable, Steady
  <2>3. s # slot[p] /\ s \in Slot /\ s <= top
    BY <2>1, <1>1, <1>3, <1>10 DEF Slot, Packed, Valid, TypeOK
  <2> QED BY <2>2, <2>3, <1>8
<1>17. NewestFirst'
  <2>1. SUFFICES ASSUME Valid, NEW s \in 0..(total - 1),
                        s # FreeSlot, Before(s) # FreeSlot, Before(s) # last,
                        s \notin shared, Before(s) \notin shared
                 PROVE  First(Before(s))' < First(s)'
    BY <1>2, <1>11 DEF NewestFirst, Steady, Before, First, At
  <2>2. First(Before(s)) < First(s)
    BY <2>1, <1>3 DEF NewestFirst, Steady, First
  <2>3. s # slot[p] /\ Before(s) # slot[p]
    BY <2>1, <1>10
  <2>4. s \in Slot /\ s <= top /\ Before(s) \in Slot /\ Before(s) <= top
    BY <2>1, <1>1, <1>3 DEF Slot, Packed, Valid, TypeOK, Before
  <2>5. First(s)' = First(s) /\ (Before(s))' = Before(s)
    BY <2>3, <2>4, <1>2, <1>8 DEF Before
  <2>6. First(Before(s))' = First(Before(s))
    BY <2>3, <2>4, <2>5, <1>8 DEF First, At
  <2> QED BY <2>2, <2>5, <2>6
<1>18. Chained'
  <2>1. ASSUME NEW q \in Saver, pc[q] # "idle", NEW s \in 0..(count[q] - 1),
               NEW b \in {BeforeIn(count[q], s)},
               slot[q] \notin {s, b}, s \notin shared, b \notin shared
        PROVE  First(b)' < First(s)'
    <3>1. First(b) < First(s)
      BY <2>1, <1>3 DEF Chained
    <3>2. s # slot[p] /\ b # slot[p]
      BY <2>1, <1>9
    <3>3. s \in Slot /\ s <= top /\ b \in Slot /\ b <= top
      <4>1. count[q] \in 1..Slots /\ count[q] <= top + 1
        BY <2>1, <1>1, <1>3 DEF TypeOK, Packed
      <4> QED BY <4>1, <2>1, <1>4 DEF Slot, BeforeIn
    <3> QED BY <3>1, <3>2, <3>3, <1>8
  <2> QED BY <2>1, <1>2 DEF Chained, BeforeIn, First, At
<1> QED BY <1>12, <1>13, <1>14, <1>15, <1>16, <1>17, <1>18

(* The index is written: the record it adds has all its cells, and is the  *)
(* newest.                                                                 *)
LEMMA IndexKeeps ==
  ASSUME RecordRingAssumption, RingInv, NEW p \in Saver, WriteIndex(p)
  PROVE  RingInv'
<1> USE Sizes
<1>1. TypeOK /\ TypeOK'
  BY TypeKept DEF RingInv, Next, Save
<1>2. /\ UNCHANGED <<mem, slot, count, cell, name, saves, top, shared>>
      /\ total' = count[p] /\ last' = slot[p]
      /\ pc[p] = "index" /\ pc' = [pc EXCEPT ![p] = "idle"]
      /\ count[p] \in 1..Slots /\ slot[p] \in Slot
  BY <1>1 DEF WriteIndex, job, notes, TypeOK
<1> SUFFICES ASSUME InReach
             PROVE  (/\ Packed /\ Progress /\ Spared /\ Bounded /\ Chained
                     /\ Readable /\ NewestFirst)'
  BY <1>1, <1>2 DEF RingInv, InReach
<1>3. Packed /\ Progress /\ Spared /\ Bounded /\ Chained
  BY DEF RingInv
<1>4. /\ pc'[p] = "idle"
      /\ \A q \in Saver : pc'[q] # "idle" => q # p /\ pc[q] # "idle"
  BY <1>1, <1>2 DEF TypeOK
<1>5. /\ \A s : (Whole(s)' <=> Whole(s)) /\ First(s)' = First(s)
      /\ \A s : BeforeIn(count[p], s) = (Before(s))'
  BY <1>2 DEF Whole, First, At, BeforeIn, Before
<1>6. slot[p] <= top /\ count[p] <= top + 1
      /\ (count[p] < Slots => slot[p] = count[p] - 1)
  BY <1>2, <1>3 DEF Packed
<1>7. Packed'
  BY <1>2, <1>3, <1>4, <1>6 DEF Packed
<1>8. \A q \in Saver : ~(Alone(q))'
  BY <1>2, <1>3, <1>4 DEF Progress, Alone
<1>9. Progress'
  BY <1>8 DEF Progress
<1>10. Bounded' /\ Spared' /\ Chained'
  BY <1>2, <1>3, <1>4, <1>5 DEF Bounded, KeyAt, Spared, Chained, BeforeIn,
     Whole, First, At
<1>11. ASSUME slot[p] \notin shared
       PROVE  /\ cell[p] = RecordCells /\ name[p] > 0
              /\ \A i \in Cell : mem[At(slot[p]) + i] = name[p]
              /\ \A c \in 0..KeyAt : c \notin Cells(slot[p])
                                       => mem[c] < name[p]
              /\ First(slot[p]) = name[p]
  <2>1. /\ cell[p] = RecordCells /\ name[p] > 0
        /\ \A i \in 0..(cell[p] - 1) : mem[At(slot[p]) + i] = name[p]
        /\ \A c \in 0..KeyAt : c \notin Cells(slot[p]) => mem[c] < name[p]
    BY <1>2, <1>3, <1>11 DEF Progress, Alone
  <2>2. \A i \in Cell : mem[At(slot[p]) + i] = name[p]
    BY <2>1 DEF Cell
  <2>3. 0 \in Cell /\ At(slot[p]) \in Nat
    BY <1>1, <1>2, <1>6, Inside DEF Cell
  <2>4. At(slot[p]) + 0 = At(slot[p]) /\ mem[At(slot[p]) + 0] = name[p]
    BY <2>2, <2>3
  <2> QED BY <2>1, <2>2, <2>4 DEF First
<1>12. Readable'
  <2>1. SUFFICES ASSUME NEW s \in 0..(count[p] - 1), s \notin shared
                 PROVE  Whole(s)
    BY <1>2, <1>5 DEF Readable, Steady
  <2>2. CASE s # slot[p]
    BY <2>1, <2>2, <1>2, <1>3 DEF Spared
  <2>3. CASE s = slot[p]
    BY <2>1, <2>3, <1>11 DEF Whole, First, Blank
  <2> QED BY <2>2, <2>3
<1>13. NewestFirst'
  <2>1. SUFFICES ASSUME NEW s \in 0..(count[p] - 1),
                        NEW b \in {BeforeIn(count[p], s)},
                        s \notin shared, b \notin shared, b # slot[p]
                 PROVE  First(b) < First(s)
    BY <1>2, <1>5 DEF NewestFirst, Steady, First, At
  <2>2. CASE s # slot[p]
    BY <2>1, <2>2, <1>2, <1>3 DEF Chained
  <2>3. CASE s = slot[p]
    <3>1. b \in Slot /\ b <= top
      BY <2>1, <1>1, <1>2, <1>6 DEF BeforeIn, Slot, TypeOK
    <3>2. At(b) \in 0..KeyAt
      BY <3>1, <1>1, Inside
    <3>3. At(b) \notin Cells(slot[p])
      <4>1. SUFFICES ASSUME At(b) \in Cells(slot[p]) PROVE FALSE
        OBVIOUS
      <4>2. At(slot[p]) \in Nat /\ At(b) \in Nat
        BY <3>1, <1>1, <1>2, <1>6, Inside
      <4>3. At(b) - At(slot[p]) \in Cell /\ 0 \in Cell
        BY <4>1, <4>2 DEF Cells, Cell
      <4>4. At(b) + 0 # At(slot[p]) + (At(b) - At(slot[p]))
        BY <4>3, <3>1, <2>1, <1>1, <1>2, <1>6, Apart
      <4> QED BY <4>2, <4>4
    <3> QED BY <3>2, <3>3, <2>1, <2>3, <1>11 DEF First
  <2> QED BY <2>2, <2>3
<1> QED BY <1>7, <1>9, <1>10, <1>12, <1>13

(* The other steps write nothing that is counted. *)
LEMMA RestKeeps ==
  ASSUME RecordRingAssumption, RingInv,
         \/ \E p \in Saver : RecordDone(p) \/ Abandon(p)
         \/ Clean \/ UNCHANGED vars
  PROVE  RingInv'
<1> USE Sizes
<1>1. TypeOK /\ TypeOK'
  BY TypeKept DEF RingInv, Next, Save
<1>2. UNCHANGED <<mem, slot, count, cell, name, saves, top, shared>>
  BY DEF RecordDone, Abandon, Clean, vars, ee, job, notes
<1> SUFFICES ASSUME InReach
             PROVE  (/\ Packed /\ Progress /\ Spared /\ Bounded /\ Chained
                     /\ Readable /\ NewestFirst)'
  BY <1>1, <1>2 DEF RingInv, InReach
<1>3. Packed /\ Progress /\ Spared /\ Bounded /\ Chained /\ Readable
      /\ NewestFirst
  BY DEF RingInv
<1>4. /\ \A s : (Whole(s)' <=> Whole(s)) /\ First(s)' = First(s)
      /\ \A q \in Saver : pc'[q] # "idle" => pc[q] # "idle"
      /\ \A q \in Saver : pc[q] = "idle" => pc'[q] = "idle"
      /\ \A q \in Saver : pc'[q] = "index" =>
                            (pc[q] = "index" \/ cell[q] = RecordCells)
  BY <1>1, <1>2 DEF Whole, First, At, RecordDone, Abandon, Clean, vars, ee,
     Written, TypeOK
<1>5. \/ UNCHANGED <<total, last>>
      \/ ~(Valid)'
  BY DEF RecordDone, Abandon, Clean, vars, ee, Valid
<1>6. (Valid)' => /\ Valid /\ UNCHANGED <<total, last>>
                  /\ (FreeSlot)' = FreeSlot
  BY <1>5 DEF Valid, FreeSlot, NextSlot, Wrapped
<1>7. Packed'
  BY <1>2, <1>3, <1>4, <1>6 DEF Packed
<1>8. Bounded' /\ Spared' /\ Chained'
  BY <1>2, <1>3, <1>4 DEF Bounded, KeyAt, Spared, Chained, BeforeIn,
     Whole, First, At
<1>9. Readable' /\ NewestFirst'
  BY <1>2, <1>3, <1>4, <1>6 DEF Readable, NewestFirst, Steady, Before,
     Whole, First, At
<1>10. Progress'
  <2>1. SUFFICES ASSUME NEW q \in Saver, (Alone(q))'
        PROVE  (/\ \A r \in Saver : r # q => pc[r] = "idle"
                /\ name[q] = saves /\ saves > 0
                /\ Valid => FreeSlot = slot[q]
                /\ pc[q] = "index" => cell[q] = RecordCells
                /\ \A i \in 0..(cell[q] - 1) : mem[At(slot[q]) + i] = name[q]
                /\ \A c \in 0..KeyAt : c \notin Cells(slot[q])
                                         => mem[c] < name[q])'
    BY DEF Progress
  <2>2. Alone(q)
    BY <2>1, <1>2, <1>4 DEF Alone
  <2>3. (Cells(slot[q]))' = Cells(slot[q]) /\ (At(slot[q]))' = At(slot[q])
    BY <1>2 DEF Cells, At
  <2> QED BY <2>2, <2>3, <1>2, <1>3, <1>4, <1>6 DEF Progress, KeyAt
<1> QED BY <1>7, <1>8, <1>9, <1>10

-----------------------------------------------------------------------------
(* The invariant holds in every state. *)
THEOREM RingHolds ==
  ASSUME RecordRingAssumption
  PROVE  Spec => []RingInv
<1>1. Init => RingInv
  BY RingInit
<1>2. RingInv /\ [Next]_vars => RingInv'
  BY BeginKeeps, WriteKeeps, IndexKeeps, RestKeeps DEF Next, Save
<1> QED BY <1>1, <1>2, PTL DEF Spec

(* What the index counts can be read back, in a ring of any size, as long  *)
(* as no offset has run over its byte; two saves at once spoil the slots   *)
(* that they write to and no others.                                       *)
THEOREM RecordsReadable ==
  ASSUME RecordRingAssumption
  PROVE  Spec => [](InReach => Readable)
<1>1. RingInv => (InReach => Readable)
  BY DEF RingInv
<1> QED BY <1>1, RingHolds, PTL

(* The reader meets the records newest first, wherever saves were cut off, *)
(* in a ring of any size, as long as no offset has run over its byte.      *)
THEOREM NewestRead ==
  ASSUME RecordRingAssumption
  PROVE  Spec => [](InReach => NewestFirst)
<1>1. RingInv => (InReach => NewestFirst)
  BY DEF RingInv
<1> QED BY <1>1, RingHolds, PTL

(* A record stays clear of the key, in every ring that keeps it out of     *)
(* reach.                                                                  *)
LEMMA ClearOfKey ==
  ASSUME RecordRingAssumption, KeyOutOfReach, NEW s \in Slot, NEW i \in Cell
  PROVE  At(s) + i \in 0..KeyAt /\ At(s) + i # KeyAt
<1> USE Sizes
<1> DEFINE p == s * RecordCells
<1>1. i \in Nat /\ i < RecordCells
  BY DEF Cell
<1>2. s \in Nat /\ s < Slots
  BY DEF Slot
<1>3. p \in Nat /\ p + RecordCells <= KeyAt
  BY <1>2, Steps, SMT DEF KeyAt
<1> HIDE DEF p
<1>4. p % OffsetSpan \in 0..(OffsetSpan - 1)
      /\ (p < OffsetSpan => p % OffsetSpan = p)
  BY <1>3, SMT
<1>5. At(s) = p % OffsetSpan
  BY DEF At, p
<1> QED BY <1>1, <1>3, <1>4, <1>5 DEF KeyOutOfReach

(* The card key behind the records is never written to, and a save keeps   *)
(* to the slots of the ring: also in the ring of 90 records, whose offsets *)
(* do not fit their byte, and with two saves at once.                      *)
THEOREM KeySafe ==
  ASSUME RecordRingAssumption, KeyOutOfReach
  PROVE  Spec => [](TypeOK /\ KeyIntact)
<1> USE Sizes
<1>1. Init => TypeOK /\ KeyIntact
  BY RingInit DEF RingInv, Init, KeyIntact, Key
<1>2. TypeOK /\ KeyIntact /\ [Next]_vars => (TypeOK /\ KeyIntact)'
  <2>1. SUFFICES ASSUME TypeOK, KeyIntact, [Next]_vars
                 PROVE  mem'[KeyAt] = mem[KeyAt]
    BY TypeKept DEF KeyIntact, KeyAt, Key
  <2>2. CASE \E p \in Saver : WriteCell(p)
    <3>1. PICK p \in Saver : WriteCell(p)
      BY <2>2
    <3>2. slot[p] \in Slot /\ cell[p] \in Cell
      BY <2>1, <3>1 DEF WriteCell, TypeOK, Cell
    <3>3. At(slot[p]) + cell[p] # KeyAt
      BY <3>2, ClearOfKey
    <3> QED BY <2>1, <3>1, <3>3 DEF WriteCell, TypeOK
  <2>3. CASE ~ \E p \in Saver : WriteCell(p)
    BY <2>1, <2>3 DEF Next, Save, Begin, RecordDone, WriteIndex, Abandon,
       Clean, vars, ee
  <2> QED BY <2>2, <2>3
<1> QED BY <1>1, <1>2, PTL DEF Spec

-----------------------------------------------------------------------------
(* A save that has its slot for itself is the only one, and counts no      *)
(* fewer records than the index does.                                      *)
Counting ==
  /\ TypeOK
  /\ \A p \in Saver : Alone(p) =>
       /\ \A q \in Saver : q # p => pc[q] = "idle"
       /\ Valid => count[p] >= total

LEMMA CountingStep ==
  ASSUME RecordRingAssumption, Counting, [Next]_vars
  PROVE  /\ Counting'
         /\ (Valid /\ ~Clean /\ ~Overtaken) => (Valid' /\ total' >= total)
<1> USE Sizes
<1>0. TypeOK /\ TypeOK'
  BY TypeKept DEF Counting
<1>1. ASSUME NEW p \in Saver, Begin(p)
      PROVE  Counting' /\ UNCHANGED total
  <2>1. UNCHANGED total /\ (Valid)' = Valid
    BY <1>1 DEF Begin, ee, Valid
  <2>2. ASSUME NEW q \in Saver, (Alone(q))'
        PROVE  q = p /\ \A r \in Saver : r # p => pc[r] = "idle"
    <3>1. /\ pc'[q] # "idle" /\ slot'[q] \notin shared'
          /\ shared' = (IF Busy = {} THEN shared \ {FreeSlot}
                    ELSE shared \cup {FreeSlot} \cup {slot[r] : r \in Busy})
          /\ slot'[p] = FreeSlot
          /\ q # p => (pc'[q] = pc[q] /\ slot'[q] = slot[q])
      BY <1>0, <1>1, <2>2 DEF Begin, Noted, Alone, TypeOK
    <3>2. q = p
      BY <3>1 DEF Busy
    <3>3. Busy = {}
      BY <3>1, <3>2
    <3> QED BY <3>2, <3>3 DEF Busy
  <2>3. \A r \in Saver : r # p => pc'[r] = pc[r]
    BY <1>0, <1>1 DEF Begin, TypeOK
  <2>4. Valid => count'[p] >= total'
    BY <1>0, <1>1, <2>1 DEF Begin, TypeOK, Counted, Valid
  <2> QED BY <1>0, <2>1, <2>2, <2>3, <2>4 DEF Counting
<1>2. ASSUME NEW p \in Saver, WriteIndex(p)
      PROVE  Counting' /\ (~Overtaken => (Valid => Valid' /\ total' >= total))
  <2>1. /\ pc[p] # "idle" /\ pc'[p] = "idle" /\ total' = count[p]
        /\ \A q \in Saver : q # p => pc'[q] = pc[q]
        /\ UNCHANGED <<slot, count, shared>>
    BY <1>0, <1>2 DEF WriteIndex, TypeOK, job, notes
  <2>2. \A q \in Saver : ~(Alone(q))'
    BY <2>1 DEF Counting, Alone
  <2>3. ~Overtaken => Alone(p)
    BY <1>2, <2>1 DEF Overtaken, Alone
  <2>4. (Alone(p) /\ Valid) => Valid' /\ total' >= total
    BY <1>0, <2>1 DEF Counting, Valid, TypeOK
  <2> QED BY <1>0, <2>2, <2>3, <2>4 DEF Counting
<1>3. ASSUME NEW p \in Saver, WriteCell(p) \/ RecordDone(p) \/ Abandon(p)
      PROVE  Counting' /\ UNCHANGED total
  <2>1. /\ UNCHANGED <<total, slot, count, shared>>
        /\ \A q \in Saver : (pc'[q] # "idle" => pc[q] # "idle")
                            /\ (pc[q] = "idle" => pc'[q] = "idle")
    BY <1>0, <1>3 DEF WriteCell, RecordDone, Abandon, ee, job, notes, TypeOK
  <2> QED BY <1>0, <2>1 DEF Counting, Alone, Valid
<1>4. CASE Clean
  <2>1. UNCHANGED <<pc, slot, count, shared>> /\ ~(Valid)'
    BY <1>4 DEF Clean, job, notes, Valid
  <2> QED BY <1>0, <1>4, <2>1 DEF Counting, Alone
<1>5. CASE UNCHANGED vars
  BY <1>0, <1>5 DEF vars, ee, job, notes, Counting, Alone, Valid, TypeOK
<1>6. (UNCHANGED total /\ Valid) => (Valid' /\ total' >= total)
  BY <1>0 DEF Valid
<1> QED BY <1>1, <1>2, <1>3, <1>4, <1>5, <1>6 DEF Next, Save

(* Only history_clean, and a save that ran at once with another one, take  *)
(* records away, in a ring of any size.                                    *)
THEOREM NothingLost ==
  ASSUME RecordRingAssumption
  PROVE  Spec => NothingForgotten
<1>1. Init => Counting
  BY RingInit DEF Init, Counting, RingInv, Alone
<1>2. Counting /\ [Next]_vars => Counting'
  BY CountingStep
<1>3. Counting /\ [Next]_vars
        => [(Valid /\ ~Clean /\ ~Overtaken)
              => (Valid' /\ total' >= total)]_vars
  BY CountingStep
<1> QED BY <1>1, <1>2, <1>3, PTL DEF Spec, NothingForgotten
=============================================================================
