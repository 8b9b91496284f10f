------------------------------ MODULE BootProofs ----------------------------
(***************************************************************************)
(* What the boot code promises for every input: the monitor of stage2 for  *)
(* any keys, names and buffer size, and the descriptor tables for any      *)
(* handler, base, limit and ring.                                          *)
(***************************************************************************)
EXTENDS Stage2Monitor, Descriptors, TLAPS

(* Storing a table of n entries keeps n * size - 1 exactly as long as it   *)
(* fits 16 bits, 8192 entries of the GDT and 4096 of the IDT.              *)
THEOREM LimitsFit ==
    ASSUME NEW count \in Nat \ {0}, NEW size \in {8, 16}
    PROVE  TableLimit(count, size) = count * size - 1 <=> count * size <= M16
<1>1. CASE size = 8
  BY <1>1 DEF TableLimit, M16
<1>2. CASE size = 16
  BY <1>2 DEF TableLimit, M16
<1> QED
  BY <1>1, <1>2

(* A number and its parts above and below a multiple of 16 bits.           *)
LEMMA Parts16 ==
    ASSUME NEW x \in Nat
    PROVE  /\ x = (x \div M16) * M16 + (x % M16)
           /\ x \div M16 \in Nat /\ x % M16 \in Nat
           /\ x % M16 < M16
  BY SMT DEF M16

LEMMA Nibbles ==
    ASSUME NEW h \in Nat, NEW l \in Nat, l < 16
    PROVE  (h * 16 + l) \div 16 = h /\ (h * 16 + l) % 16 = l
  BY SMT

(* The processor reads back the base, limit, access and flags that were    *)
(* stored.                                                                 *)
THEOREM EntryRoundTrip ==
    ASSUME NEW base \in Nat, base < M16 * M16, NEW limit \in Nat, limit < 16 * M16,
           NEW access, NEW flags \in Nat, flags < 16
    PROVE  LET e == GdtEntrySet(base, limit, access, flags) IN
           /\ EntryBase(e) = base /\ EntryLimit(e) = limit
           /\ e.access = access /\ EntryFlags(e) = flags
<1> DEFINE entry == GdtEntrySet(base, limit, access, flags)
<1>1. /\ entry.limitLow = limit % M16 /\ entry.baseLow = base % M16
      /\ entry.baseMid = (base \div M16) % M8
      /\ entry.baseHigh = ((base \div M16) \div M8) % M8
      /\ entry.limitHighFlags = ((limit \div M16) % 16) + (flags % 16) * 16
      /\ entry.access = access
  BY DEF GdtEntrySet
<1> HIDE DEF entry
<1>2. EntryBase(entry) = base
  <2>1. PICK high \in Nat : high = base \div M16
    BY Parts16
  <2>2. base = high * M16 + (base % M16) /\ high < M16
    BY <2>1, Parts16, SMT DEF M16
  <2>3. PICK top \in Nat : top = high \div M8
    BY SMT DEF M8
  <2>4. high = top * M8 + (high % M8) /\ top < M8
    BY <2>2, <2>3, SMT DEF M8, M16
  <2>5. top % M8 = top
    BY <2>4, SMT DEF M8
  <2>6. EntryBase(entry) = (base % M16) + (high % M8) * M16 + top * (M16 * M8)
    BY <1>1, <2>1, <2>3, <2>5 DEF EntryBase
  <2>7. base % M16 \in Nat /\ high % M8 \in Nat
    BY SMT DEF M16, M8
  <2> QED
    BY <2>2, <2>4, <2>6, <2>7, SMT DEF M8, M16
<1>3. PICK high \in Nat : high = limit \div M16
  BY Parts16
<1>4. limit = high * M16 + (limit % M16) /\ high < 16
  BY <1>3, Parts16, SMT DEF M16
<1>5. high % 16 = high /\ flags % 16 = flags
  BY <1>4, SMT
<1>6. entry.limitHighFlags = flags * 16 + high
  <2>1. entry.limitHighFlags = high + flags * 16
    BY <1>1, <1>3, <1>5
  <2> QED
    BY <2>1, SMT
<1>7. entry.limitHighFlags \div 16 = flags /\ entry.limitHighFlags % 16 = high
  BY <1>4, <1>6, Nibbles
<1>8. limit % M16 \in Nat
  BY Parts16
<1>9. EntryLimit(entry) = limit
  BY <1>1, <1>4, <1>7, <1>8, SMT DEF EntryLimit, M16
<1> QED
  BY <1>1, <1>2, <1>7, <1>9 DEF EntryFlags, entry

(* A gate leads to the handler it was made for, at any 64-bit address (its *)
(* high half is below 2^32), with the type, ring and selector asked for.   *)
THEOREM GateRoundTrip ==
    ASSUME NEW handler \in Nat, (handler \div M16) \div M16 < M16 * M16,
           NEW selector, NEW ist \in Nat,
           NEW type \in Nat, type < 16, NEW dpl \in Nat, dpl < 4
    PROVE  LET g == IdtGateSet(handler, selector, ist, type, dpl) IN
           /\ GateOffset(g) = handler
           /\ GatePresent(g) /\ GateRing(g) = dpl /\ GateType(g) = type
           /\ g.selector = selector
<1> DEFINE gate == IdtGateSet(handler, selector, ist, type, dpl)
<1>1. /\ gate.offsetLow = handler % M16
      /\ gate.offsetMid = (handler \div M16) % M16
      /\ gate.offsetHigh = ((handler \div M16) \div M16) % (M16 * M16)
      /\ gate.typeAttr = 128 + RingBits(dpl) + (type % 16)
      /\ gate.selector = selector
  BY DEF IdtGateSet
<1> HIDE DEF gate
<1>2. GateOffset(gate) = handler
  <2>1. PICK rest \in Nat : rest = handler \div M16
    BY Parts16
  <2>2. PICK high \in Nat : high = rest \div M16
    BY <2>1, Parts16
  <2>3. handler = rest * M16 + (handler % M16) /\ rest = high * M16 + (rest % M16)
    BY <2>1, <2>2, Parts16
  <2>4. high % (M16 * M16) = high
    BY <2>1, <2>2, SMT DEF M16
  <2>5. GateOffset(gate) = (handler % M16) + (rest % M16) * M16 + high * (M16 * M16)
    BY <1>1, <2>1, <2>2, <2>4 DEF GateOffset
  <2>6. handler % M16 \in Nat /\ rest % M16 \in Nat
    BY Parts16
  <2> QED
    BY <2>3, <2>5, <2>6, SMT DEF M16
<1>3. gate.typeAttr = 128 + dpl * 32 + type
  <2>1. dpl % 4 = dpl /\ type % 16 = type
    BY SMT
  <2> QED
    BY <1>1, <2>1 DEF RingBits
<1>4. GatePresent(gate) /\ GateRing(gate) = dpl /\ GateType(gate) = type
  <2>1. (gate.typeAttr \div 128) % 2 = 1
    BY <1>3, SMT
  <2>2. (gate.typeAttr \div 32) % 4 = dpl
    BY <1>3, SMT
  <2>3. gate.typeAttr % 16 = type
    BY <1>3, SMT
  <2> QED
    BY <2>1, <2>2, <2>3 DEF GatePresent, GateRing, GateType
<1> QED
  BY <1>1, <1>2, <1>4 DEF gate

-----------------------------------------------------------------------------
(* The inductive invariant of the monitor: the registers follow the line;  *)
(* nothing is behind the cursor; and the row follows the line, cell by     *)
(* cell, unless a Bell or a line feed was typed.                           *)
Screen ==
    /\ col <= Len(row)
    /\ \A i \in (col + 1)..Len(row) : row[i] = Blank
    /\ quiet /\ at = "reading" =>
          /\ col = Len(Prompt) + Len(line)
          /\ \A i \in 1..Len(Prompt) : row[i] = Prompt[i]
          /\ \A i \in 1..Len(line) : row[Len(Prompt) + i] = Shown(line[i])

MInv == TypeOK /\ LineInBuffer /\ Screen

(* One visible character: the cursor moves on; the other cells stay.       *)
LEMMA TeletypeShows ==
    ASSUME NEW r \in Seq(Glyph), NEW c \in Nat, c <= Len(r),
           NEW ch \in Char, ch \notin Unseen
    PROVE  LET t == Teletype(r, c, ch) IN
           /\ t.row \in Seq(Glyph) /\ t.col = c + 1 /\ t.col <= Len(t.row)
           /\ t.row[c + 1] = Shown(ch)
           /\ \A i \in 1..c : t.row[i] = r[i]
           /\ \A i \in (c + 2)..Len(t.row) : i \in 1..Len(r) /\ t.row[i] = r[i]
<1> DEFINE after == IF c < Len(r) THEN [r EXCEPT ![c + 1] = Shown(ch)]
                                  ELSE Append(r, Shown(ch))
<1>1. Teletype(r, c, ch) = [row |-> after, col |-> c + 1]
  BY MonitorAssumption DEF Teletype, Shown, Char, Unseen
<1>2. Shown(ch) \in Glyph
  BY MonitorAssumption DEF Shown, Char
<1>3. /\ after \in Seq(Glyph) /\ c + 1 <= Len(after)
      /\ after[c + 1] = Shown(ch) /\ \A i \in 1..c : after[i] = r[i]
      /\ \A i \in (c + 2)..Len(after) : i \in 1..Len(r) /\ after[i] = r[i]
  <2>1. CASE c < Len(r)
    BY <1>2, <2>1
  <2>2. CASE c = Len(r)
    BY <1>2, <2>2
  <2> QED
    BY <2>1, <2>2
<1> HIDE DEF after
<1> QED
  BY <1>1, <1>3

(* erase_char takes the last cell before the cursor off the screen.        *)
LEMMA RubOutEffect ==
    ASSUME row \in Seq(Glyph), col \in Nat, col <= Len(row), RubOut,
           \A i \in (col + 1)..Len(row) : row[i] = Blank
    PROVE  /\ row' \in Seq(Glyph) /\ col' \in Nat /\ col' <= Len(row')
           /\ col > 0 => col' = col - 1
           /\ \A i \in 1..(col - 1) : row'[i] = row[i]
           /\ \A i \in (col' + 1)..Len(row') : row'[i] = Blank
<1> DEFINE c       == IF col = 0 THEN 0 ELSE col - 1
           back    == Teletype(row, col, Erase)
           blanked == Teletype(back.row, back.col, Blank)
           done    == Teletype(blanked.row, blanked.col, Erase)
<1>1. Erase \notin Unseen /\ Blank \in Char /\ Blank \notin Unseen /\ Shown(Blank) = Blank
  BY MonitorAssumption DEF Char, Shown
<1>2. back = [row |-> row, col |-> c]
  BY <1>1 DEF Teletype, Unseen
<1>3. c \in Nat /\ c <= Len(row)
  OBVIOUS
<1>4. blanked = Teletype(row, c, Blank)
  BY <1>2
<1>5. /\ blanked.row \in Seq(Glyph) /\ blanked.col = c + 1
      /\ blanked.col <= Len(blanked.row)
      /\ blanked.row[c + 1] = Blank
      /\ \A i \in 1..c : blanked.row[i] = row[i]
      /\ \A i \in (c + 2)..Len(blanked.row) :
            i \in 1..Len(row) /\ blanked.row[i] = row[i]
  <2> HIDE DEF back, blanked, c
  <2>1. LET t == Teletype(row, c, Blank) IN
           /\ t.row \in Seq(Glyph) /\ t.col = c + 1 /\ t.col <= Len(t.row)
           /\ t.row[c + 1] = Shown(Blank)
           /\ \A i \in 1..c : t.row[i] = row[i]
           /\ \A i \in (c + 2)..Len(t.row) : i \in 1..Len(row) /\ t.row[i] = row[i]
    BY <1>1, <1>3, TeletypeShows, Zenon
  <2> QED
    BY <1>1, <1>4, <2>1
<1> HIDE DEF back, blanked, c
<1>6. done = [row |-> blanked.row, col |-> c]
  BY <1>1, <1>3, <1>5 DEF Teletype, Unseen
<1>7. row' = done.row /\ col' = done.col
  BY DEF RubOut, back, blanked
<1> HIDE DEF done
<1>8. row' = blanked.row /\ col' = c
  BY <1>6, <1>7
<1>9. (col > 0 => c = col - 1) /\ 1..(col - 1) \subseteq 1..c /\ c + 2 > col
  BY DEF c
<1>10. ASSUME NEW i \in (col' + 1)..Len(row') PROVE row'[i] = Blank
  <2>1. CASE i = c + 1
    BY <1>5, <1>8, <2>1
  <2>2. CASE i # c + 1
    <3>1. i \in (c + 2)..Len(blanked.row) /\ i > col
      BY <1>3, <1>5, <1>8, <1>9, <1>10, <2>2
    <3>2. i \in (col + 1)..Len(row)
      BY <1>5, <3>1
    <3> QED
      BY <1>5, <1>8, <3>1, <3>2
  <2> QED
    BY <2>1, <2>2
<1> QED
  BY <1>3, <1>5, <1>8, <1>9, <1>10

LEMMA StoreKeyKeeps ==
    ASSUME MInv, NEW key \in Char, StoreKey(key)
    PROVE  MInv'
<1> BufferSize \in Nat \ {0}
  BY MonitorAssumption
<1>1. /\ line \in Seq(Char) /\ buffer \in [Cells -> Char]
      /\ row \in Seq(Glyph) /\ col \in Nat /\ quiet \in BOOLEAN
      /\ di \in Nat /\ cx \in Nat
  BY DEF MInv, TypeOK, Cells
<1>2. /\ di = Len(line) /\ cx = Len(line) /\ cx + 1 < BufferSize
      /\ \A i \in 1..Len(line) : buffer[i - 1] = line[i]
  BY <1>1 DEF MInv, LineInBuffer, StoreKey
<1>3. /\ line' \in Seq(Char) /\ Len(line') = Len(line) + 1
      /\ line'[Len(line) + 1] = key
      /\ \A i \in 1..Len(line) : line'[i] = line[i]
  BY <1>1 DEF StoreKey
<1>4. /\ buffer' \in [Cells -> Char] /\ di' \in Cells /\ cx' \in Cells
      /\ di' = Len(line') /\ cx' = Len(line')
  BY <1>1, <1>2, <1>3 DEF StoreKey, Cells
<1>5. \A i \in 1..Len(line') : buffer'[i - 1] = line'[i]
  <2> SUFFICES ASSUME NEW i \in 1..Len(line') PROVE buffer'[i - 1] = line'[i]
    OBVIOUS
  <2>1. buffer' = [buffer EXCEPT ![di] = key] /\ di \in Cells /\ i - 1 \in Cells
    BY <1>1, <1>2, <1>3 DEF StoreKey, Cells
  <2>2. CASE i = Len(line) + 1
    BY <1>1, <1>2, <1>3, <2>1, <2>2
  <2>3. CASE i <= Len(line)
    BY <1>1, <1>2, <1>3, <2>1, <2>3
  <2> QED
    BY <1>1, <1>3, <2>2, <2>3
<1>6. LineInBuffer'
  BY <1>2, <1>3, <1>4, <1>5 DEF LineInBuffer
<1>7. row' = Teletype(row, col, key).row /\ col' = Teletype(row, col, key).col
  BY DEF StoreKey, Echo
<1>8. col <= Len(row) /\ \A i \in (col + 1)..Len(row) : row[i] = Blank
  BY DEF MInv, Screen
<1>9. row' \in Seq(Glyph) /\ col' \in Nat /\ Screen'
  <2>1. CASE key \in Unseen
    <3>1. /\ Bell # Erase /\ Feed # Erase /\ Feed # Bell /\ Blank \in Glyph
          /\ key = Bell \/ key = Feed
      BY <2>1, MonitorAssumption DEF Char, Unseen
    <3>2. /\ row' \in Seq(Glyph) /\ col' = col /\ col' <= Len(row')
          /\ \A i \in (col' + 1)..Len(row') : row'[i] = Blank
      <4>1. CASE key = Bell
        <5>1. row' = row /\ col' = col
          BY <1>7, <3>1, <4>1 DEF Teletype
        <5> QED
          BY <1>1, <1>8, <5>1
      <4>2. CASE key = Feed
        <5> DEFINE below == [i \in 1..col |-> Blank]
        <5>1. row' = below /\ col' = col
          BY <1>7, <3>1, <4>2 DEF Teletype
        <5>2. below \in Seq(Glyph) /\ Len(below) = col
          BY <1>1, <3>1
        <5> QED
          BY <1>1, <5>1, <5>2
      <4> QED
        BY <3>1, <4>1, <4>2
    <3>3. ~quiet'
      <4>1. quiet' = (quiet /\ key \notin Unseen)
        BY DEF StoreKey
      <4> QED
        BY <2>1, <4>1
    <3> QED
      BY <1>1, <3>2, <3>3 DEF Screen
  <2>2. CASE key \notin Unseen
    <3>1. /\ row' \in Seq(Glyph) /\ col' = col + 1 /\ col' <= Len(row')
          /\ row'[col + 1] = Shown(key) /\ \A i \in 1..col : row'[i] = row[i]
          /\ \A i \in (col + 2)..Len(row') : i \in 1..Len(row) /\ row'[i] = row[i]
      <4>1. LET t == Teletype(row, col, key) IN
               /\ t.row \in Seq(Glyph) /\ t.col = col + 1 /\ t.col <= Len(t.row)
               /\ t.row[col + 1] = Shown(key)
               /\ \A i \in 1..col : t.row[i] = row[i]
               /\ \A i \in (col + 2)..Len(t.row) : i \in 1..Len(row) /\ t.row[i] = row[i]
        BY <1>1, <1>8, <2>2, TeletypeShows, Zenon
      <4> QED
        BY <1>7, <4>1, Zenon
    <3>2. quiet' = quiet /\ at' = at /\ at = "reading"
      BY <1>1, <2>2 DEF StoreKey
    <3>3. ASSUME quiet
          PROVE  /\ col' = Len(Prompt) + Len(line')
                 /\ \A i \in 1..Len(Prompt) : row'[i] = Prompt[i]
                 /\ \A i \in 1..Len(line') : row'[Len(Prompt) + i] = Shown(line'[i])
      <4>1. /\ col = Len(Prompt) + Len(line) /\ Len(Prompt) \in Nat
            /\ \A i \in 1..Len(Prompt) : row[i] = Prompt[i]
            /\ \A i \in 1..Len(line) : row[Len(Prompt) + i] = Shown(line[i])
        BY <3>2, <3>3, MonitorAssumption DEF MInv, Screen
      <4>2. ASSUME NEW i \in 1..Len(line')
            PROVE  row'[Len(Prompt) + i] = Shown(line'[i])
        <5>1. CASE i = Len(line) + 1
          BY <1>1, <1>3, <3>1, <4>1, <5>1
        <5>2. CASE i <= Len(line)
          <6>1. Len(Prompt) + i \in 1..col /\ i \in 1..Len(line)
            BY <1>1, <4>1, <5>2
          <6> QED
            BY <1>3, <3>1, <4>1, <6>1
        <5> QED
          BY <1>1, <1>3, <5>1, <5>2
      <4>3. \A i \in 1..Len(Prompt) : i \in 1..col
        BY <1>1, <4>1
      <4>4. col' = Len(Prompt) + Len(line')
        BY <1>1, <1>3, <3>1, <4>1
      <4>5. \A i \in 1..Len(Prompt) : row'[i] = Prompt[i]
        BY <3>1, <4>1, <4>3, Zenon
      <4> QED
        BY <4>2, <4>4, <4>5
    <3>4. ASSUME NEW i \in (col' + 1)..Len(row') PROVE row'[i] = Blank
      <4>1. i \in (col + 2)..Len(row') /\ i \in (col + 1)..Len(row)
        BY <1>1, <3>1, <3>4
      <4> QED
        BY <1>8, <3>1, <4>1
    <3> QED
      BY <1>1, <3>1, <3>2, <3>3, <3>4 DEF Screen
  <2> QED
    BY <2>1, <2>2
<1> QED
  BY <1>1, <1>3, <1>4, <1>6, <1>9 DEF MInv, TypeOK, StoreKey

LEMMA BackspaceKeeps ==
    ASSUME MInv, Backspace
    PROVE  MInv'
<1> BufferSize \in Nat \ {0}
  BY MonitorAssumption
<1>1. CASE UNCHANGED vars
  BY <1>1 DEF MInv, TypeOK, LineInBuffer, Screen, vars
<1>2. CASE /\ at = "reading" /\ cx # 0
           /\ di' = di - 1 /\ cx' = cx - 1
           /\ RubOut
           /\ line' = SubSeq(line, 1, Len(line) - 1)
           /\ UNCHANGED <<at, buffer, ran, quiet>>
  <2>1. /\ line \in Seq(Char) /\ row \in Seq(Glyph) /\ col \in Nat
        /\ cx \in Nat /\ Prompt \in Seq(Glyph)
    BY MonitorAssumption DEF MInv, TypeOK, Cells
  <2>2. /\ di = Len(line) /\ cx = Len(line) /\ Len(line) > 0 /\ cx < BufferSize
        /\ \A i \in 1..Len(line) : buffer[i - 1] = line[i]
    BY <1>2, <2>1 DEF MInv, LineInBuffer
  <2>3. /\ line' \in Seq(Char) /\ Len(line') = Len(line) - 1
        /\ \A i \in 1..Len(line') : line'[i] = line[i]
    BY <1>2, <2>1, <2>2
  <2>4. /\ di' \in Cells /\ cx' \in Cells
        /\ di' = Len(line') /\ cx' = Len(line') /\ cx' < BufferSize
    BY <1>2, <2>1, <2>2, <2>3 DEF Cells
  <2>5. LineInBuffer'
    BY <1>2, <2>1, <2>2, <2>3, <2>4 DEF LineInBuffer
  <2>6. /\ row' \in Seq(Glyph) /\ col' \in Nat /\ col' <= Len(row')
        /\ col > 0 => col' = col - 1
        /\ \A i \in 1..(col - 1) : row'[i] = row[i]
        /\ \A i \in (col' + 1)..Len(row') : row'[i] = Blank
    BY <1>2, <2>1, RubOutEffect DEF MInv, Screen
  <2>7. ASSUME quiet
        PROVE  /\ col' = Len(Prompt) + Len(line')
               /\ \A i \in 1..Len(Prompt) : row'[i] = Prompt[i]
               /\ \A i \in 1..Len(line') : row'[Len(Prompt) + i] = Shown(line'[i])
    <3>1. /\ col = Len(Prompt) + Len(line) /\ Len(Prompt) \in Nat
          /\ \A i \in 1..Len(Prompt) : row[i] = Prompt[i]
          /\ \A i \in 1..Len(line) : row[Len(Prompt) + i] = Shown(line[i])
      BY <1>2, <2>7, MonitorAssumption DEF MInv, Screen
    <3>2. col > 0
      BY <2>1, <2>2, <3>1
    <3>3. \A i \in 1..Len(Prompt) : i \in 1..(col - 1)
      BY <2>1, <2>2, <3>1
    <3>4. \A i \in 1..Len(line') : Len(Prompt) + i \in 1..(col - 1) /\ i \in 1..Len(line)
      BY <2>1, <2>2, <2>3, <3>1
    <3>5. col' = Len(Prompt) + Len(line')
      BY <2>1, <2>3, <2>6, <3>1, <3>2
    <3> QED
      BY <2>3, <2>6, <3>1, <3>3, <3>4, <3>5
  <2>8. Screen'
    BY <1>2, <2>6, <2>7 DEF Screen
  <2> QED
    BY <1>2, <2>3, <2>4, <2>5, <2>6, <2>8 DEF MInv, TypeOK
<1> QED
  BY <1>1, <1>2 DEF Backspace

LEMMA NextLineEffect ==
    ASSUME NextLine, at' = "reading"
    PROVE  /\ di' \in Cells /\ cx' \in Cells
           /\ row' \in Seq(Glyph) /\ col' \in Nat
           /\ line' \in Seq(Char) /\ quiet' \in BOOLEAN
           /\ LineInBuffer' /\ Screen'
<1>1. BufferSize \in Nat \ {0} /\ Prompt \in Seq(Glyph)
  BY MonitorAssumption
<1> QED
  BY <1>1 DEF NextLine, Cells, LineInBuffer, Screen

LEMMA AnswerTyped == \A b : Answer(b) \in Answers
<1> TAKE b
<1>1. Matching(b) \subseteq 1..5
  BY DEF Matching, Commands
<1>2. CASE Matching(b) # {}
  <2>1. \E i \in Matching(b) : \A j \in Matching(b) : i <= j
    BY <1>1, <1>2
  <2>2. (CHOOSE i \in Matching(b) : \A j \in Matching(b) : i <= j) \in 1..5
    BY <1>1, <2>1
  <2>3. \A i \in 1..5 : Commands[i] \in Answers
    BY DEF Commands, Answers
  <2> QED
    BY <1>2, <2>2, <2>3 DEF Answer
<1>3. CASE Matching(b) = {}
  BY <1>3 DEF Answer, Answers
<1> QED
  BY <1>2, <1>3

LEMMA FinishCommandKeeps ==
    ASSUME MInv, FinishCommand
    PROVE  MInv'
<1>1. buffer' \in [Cells -> Char]
  BY DEF FinishCommand, Terminated, MInv, TypeOK, Char
<1>2. ran' \in Answers
  BY AnswerTyped DEF FinishCommand
<1>3. CASE NextLine /\ UNCHANGED at
  <2>1. at' = "reading"
    BY <1>3 DEF FinishCommand
  <2> QED
    BY <1>1, <1>2, <1>3, <2>1, NextLineEffect DEF MInv, TypeOK
<1>4. CASE /\ at' = IF ran' = "halt" THEN "halted" ELSE "rebooting"
           /\ UNCHANGED <<di, cx, row, col, line, quiet>>
  <2>1. at' \in {"halted", "rebooting"}
    BY <1>4
  <2> QED
    BY <1>1, <1>2, <1>4, <2>1 DEF MInv, TypeOK, LineInBuffer, Screen
<1> QED
  BY <1>3, <1>4 DEF FinishCommand

LEMMA RebootKeeps ==
    ASSUME MInv, Reboot
    PROVE  MInv'
<1>1. CASE /\ at' = "reading" /\ buffer' = [i \in Cells |-> Nul]
           /\ ran' = "nothing" /\ NextLine
  BY <1>1, NextLineEffect DEF MInv, TypeOK, Char, Answers
<1>2. CASE at' = "halted" /\ UNCHANGED <<buffer, di, cx, row, col, ran, line, quiet>>
  BY <1>2 DEF MInv, TypeOK, LineInBuffer, Screen
<1> QED
  BY <1>1, <1>2 DEF Reboot

LEMMA InitMInv == Init => MInv
<1>1. BufferSize \in Nat \ {0} /\ Prompt \in Seq(Glyph)
  BY MonitorAssumption
<1> QED
  BY <1>1 DEF Init, MInv, TypeOK, LineInBuffer, Screen, Cells, Char, Answers

LEMMA StepKeeps == MInv /\ [Next]_vars => MInv'
<1> SUFFICES ASSUME MInv, [Next]_vars PROVE MInv'
  OBVIOUS
<1>1. ASSUME NEW key \in Char, StoreKey(key) PROVE MInv'
  BY <1>1, StoreKeyKeeps
<1>2. CASE DropKey \/ UNCHANGED vars
  <2>1. UNCHANGED vars
    BY <1>2 DEF DropKey
  <2>2. TypeOK' /\ LineInBuffer'
    BY <2>1 DEF MInv, TypeOK, LineInBuffer, vars
  <2>3. Screen'
    BY <2>1 DEF MInv, Screen, vars
  <2> QED
    BY <2>2, <2>3 DEF MInv
<1>3. CASE Backspace
  BY <1>3, BackspaceKeeps
<1>4. CASE FinishCommand
  BY <1>4, FinishCommandKeeps
<1>5. CASE Reboot
  BY <1>5, RebootKeeps
<1> QED
  BY <1>1, <1>2, <1>3, <1>4, <1>5 DEF Next

LEMMA Invariant == Spec => []MInv
  BY InitMInv, StepKeeps, PTL DEF Spec

(* The monitor is well typed: no key and no erasure takes its index out of *)
(* the command buffer, whatever its size.                                  *)
THEOREM TypeCorrect == Spec => []TypeOK
<1>1. MInv => TypeOK
  BY DEF MInv
<1> QED
  BY <1>1, Invariant, PTL

(* The buffer holds the typed line and has room for its NUL, for any keys. *)
THEOREM LineKept == Spec => []LineInBuffer
<1>1. MInv => LineInBuffer
  BY DEF MInv
<1> QED
  BY <1>1, Invariant, PTL

LEMMA FunctionIsSeq ==
    ASSUME NEW S, NEW n \in Nat, NEW f \in [1..n -> S]
    PROVE  f \in Seq(S) /\ Len(f) = n
  OBVIOUS

LEMMA Joined ==
    ASSUME NEW S, NEW r \in Seq(S), NEW s \in Seq(S), NEW t \in Seq(S),
           NEW n \in Nat, n <= Len(r), n = Len(s) + Len(t),
           \A i \in 1..Len(s) : r[i] = s[i],
           \A i \in 1..Len(t) : r[Len(s) + i] = t[i]
    PROVE  SubSeq(r, 1, n) = s \o t
  OBVIOUS

(* The row shows the prompt, then the typed line, and then nothing, and    *)
(* erased keys leave nothing behind the cursor whatever was typed.         *)
THEOREM ScreenKept == Spec => []ScreenShowsLine
<1>1. MInv => ScreenShowsLine
  <2>0. MInv => \A i \in (col + 1)..Len(row) : row[i] = Blank
    BY DEF MInv, Screen
  <2> SUFFICES ASSUME MInv, at = "reading", quiet
               PROVE  /\ col = Len(Prompt) + Len(line)
                      /\ SubSeq(row, 1, col) =
                            Prompt \o [i \in 1..Len(line) |-> Shown(line[i])]
    BY <2>0 DEF ScreenShowsLine
  <2> DEFINE shown == [i \in 1..Len(line) |-> Shown(line[i])]
  <2>1. /\ line \in Seq(Char) /\ row \in Seq(Glyph) /\ col \in Nat
        /\ col <= Len(row) /\ Prompt \in Seq(Glyph)
    BY MonitorAssumption DEF MInv, TypeOK, Screen
  <2>2. /\ col = Len(Prompt) + Len(line)
        /\ \A i \in 1..Len(Prompt) : row[i] = Prompt[i]
        /\ \A i \in 1..Len(line) : row[Len(Prompt) + i] = Shown(line[i])
    BY DEF MInv, Screen
  <2> DEFINE seen == Glyph \cup Unseen
  <2>3. shown \in Seq(seen) /\ Len(shown) = Len(line)
    <3>1. \A i \in 1..Len(line) : Shown(line[i]) \in seen
      BY <2>1, MonitorAssumption DEF Shown, Char
    <3>2. shown \in [1..Len(line) -> seen] /\ Len(line) \in Nat
      BY <2>1, <3>1
    <3> HIDE DEF shown, seen
    <3> QED
      BY <3>2, FunctionIsSeq
  <2>4. row \in Seq(seen) /\ Prompt \in Seq(seen)
    BY <2>1
  <2>5. \A i \in 1..Len(shown) : shown[i] = Shown(line[i])
    BY <2>3
  <2> HIDE DEF shown, seen
  <2>6. SubSeq(row, 1, col) = Prompt \o shown
    <3>1. \A i \in 1..Len(shown) : row[Len(Prompt) + i] = shown[i]
      BY <2>2, <2>3, <2>5
    <3>2. col <= Len(row) /\ col = Len(Prompt) + Len(shown) /\ col \in Nat
      BY <2>1, <2>2, <2>3
    <3>3. \A i \in 1..Len(Prompt) : row[i] = Prompt[i]
      BY <2>2
    <3>4. shown \in Seq(seen)
      BY <2>3
    <3> QED
      BY <2>4, <3>1, <3>2, <3>3, <3>4, Joined
  <2> QED
    BY <2>2, <2>6 DEF shown
<1> QED
  BY <1>1, Invariant, PTL

-----------------------------------------------------------------------------
(* A text the monitor compares with: no NUL in it, and shorter than the    *)
(* buffer.                                                                 *)
Text == {t \in Seq(Glyph) : Len(t) < BufferSize}

(* The buffer b holds the line s and its NUL.                              *)
Holds(b, s) ==
    /\ b \in [Cells -> Char] /\ s \in Seq(Char) /\ Len(s) < BufferSize
    /\ \A i \in 1..Len(s) : b[i - 1] = s[i]
    /\ b[Len(s)] = Nul

LEMMA StreqIs ==
    ASSUME NEW b \in [Cells -> Char], NEW text \in Text
    PROVE  Streq(b, text) <=> /\ \A j \in 1..Len(text) : b[j - 1] = text[j]
                              /\ b[Len(text)] = Nul
<1> DEFINE Byte(j) == IF j = Len(text) THEN Nul ELSE text[j + 1]
<1>1. text \in Seq(Glyph) /\ Len(text) \in Nat
  BY DEF Text
<1>2. \A j \in 0..(Len(text) - 1) : Byte(j) \in Glyph
  BY <1>1
<1>3. Streq(b, text) <=> \E i \in 0..Len(text) :
                            /\ \A j \in 0..i : b[j] = Byte(j)
                            /\ b[i] = Nul
  BY DEF Streq
<1>4. ASSUME NEW i \in 0..Len(text), \A j \in 0..i : b[j] = Byte(j), b[i] = Nul
      PROVE  i = Len(text)
  <2>1. Byte(i) = Nul /\ Nul \notin Glyph
    BY <1>1, <1>4, MonitorAssumption
  <2> HIDE DEF Byte
  <2> QED
    BY <1>1, <1>2, <2>1
<1>5. ASSUME Streq(b, text)
      PROVE  (\A j \in 1..Len(text) : b[j - 1] = text[j]) /\ b[Len(text)] = Nul
  <2>1. \A j \in 0..Len(text) : b[j] = Byte(j)
    BY <1>3, <1>4, <1>5
  <2>2. ASSUME NEW j \in 1..Len(text) PROVE b[j - 1] = text[j]
    <3>1. j - 1 \in 0..Len(text) /\ j - 1 # Len(text) /\ (j - 1) + 1 = j
      BY <1>1
    <3> QED
      BY <2>1, <3>1
  <2> QED
    BY <1>1, <2>1, <2>2
<1>6. ASSUME \A j \in 1..Len(text) : b[j - 1] = text[j], b[Len(text)] = Nul
      PROVE  Streq(b, text)
  <2>1. ASSUME NEW j \in 0..Len(text) PROVE b[j] = Byte(j)
    <3>1. CASE j = Len(text)
      BY <1>6, <3>1
    <3>2. CASE j # Len(text)
      <4>1. j + 1 \in 1..Len(text) /\ (j + 1) - 1 = j
        BY <1>1, <3>2
      <4> QED
        BY <1>6, <3>2, <4>1
    <3> QED
      BY <3>1, <3>2
  <2> QED
    BY <1>1, <1>3, <1>6, <2>1
<1> QED
  BY <1>5, <1>6

(* The comparison finds exactly the texts the line names.                  *)
LEMMA StreqIsNames ==
    ASSUME NEW b, NEW s, Holds(b, s), NEW text \in Text
    PROVE  Streq(b, text) <=> Names(s, text)
<1>1. /\ b \in [Cells -> Char] /\ s \in Seq(Char) /\ Len(s) \in Nat
      /\ \A i \in 1..Len(s) : b[i - 1] = s[i]
      /\ b[Len(s)] = Nul
  BY DEF Holds
<1>2. text \in Seq(Glyph) /\ Len(text) \in Nat /\ \A i \in 1..Len(text) : text[i] # Nul
  BY MonitorAssumption DEF Text
<1>3. Streq(b, text) <=> /\ \A j \in 1..Len(text) : b[j - 1] = text[j]
                         /\ b[Len(text)] = Nul
  BY <1>1, StreqIs
<1>4. ASSUME \A j \in 1..Len(text) : b[j - 1] = text[j], b[Len(text)] = Nul
      PROVE  Names(s, text)
  <2>1. Len(s) >= Len(text)
    <3>1. SUFFICES ASSUME Len(s) < Len(text) PROVE FALSE
      BY <1>1, <1>2
    <3>2. Len(s) + 1 \in 1..Len(text) /\ (Len(s) + 1) - 1 = Len(s)
      BY <1>1, <1>2, <3>1
    <3>3. b[Len(s)] = text[Len(s) + 1]
      BY <1>4, <3>2
    <3> QED
      BY <1>1, <1>2, <3>2, <3>3
  <2>2. \A i \in 1..Len(text) : s[i] = text[i]
    BY <1>1, <1>2, <1>4, <2>1
  <2>3. ASSUME Len(s) > Len(text) PROVE s[Len(text) + 1] = Nul
    <3>1. Len(text) + 1 \in 1..Len(s) /\ (Len(text) + 1) - 1 = Len(text)
      BY <1>1, <1>2, <2>3
    <3> QED
      BY <1>1, <1>4, <3>1
  <2> QED
    BY <2>1, <2>2, <2>3 DEF Names
<1>5. ASSUME Names(s, text)
      PROVE  (\A j \in 1..Len(text) : b[j - 1] = text[j]) /\ b[Len(text)] = Nul
  <2>1. /\ Len(s) >= Len(text) /\ \A i \in 1..Len(text) : s[i] = text[i]
        /\ Len(s) > Len(text) => s[Len(text) + 1] = Nul
    BY <1>5 DEF Names
  <2>2. \A j \in 1..Len(text) : b[j - 1] = text[j]
    BY <1>1, <1>2, <2>1
  <2>3. CASE Len(s) = Len(text)
    BY <1>1, <2>2, <2>3
  <2>4. CASE Len(s) > Len(text)
    <3>1. Len(text) + 1 \in 1..Len(s) /\ (Len(text) + 1) - 1 = Len(text)
      BY <1>1, <1>2, <2>4
    <3> QED
      BY <1>1, <2>1, <2>2, <2>4, <3>1
  <2> QED
    BY <1>1, <1>2, <2>1, <2>3, <2>4
<1> QED
  BY <1>3, <1>4, <1>5

(* A line names one text at most.                                          *)
LEMMA OneName ==
    ASSUME NEW s \in Seq(Char), NEW x \in Text, NEW y \in Text,
           Names(s, x), Names(s, y)
    PROVE  x = y
<1>1. /\ x \in Seq(Glyph) /\ y \in Seq(Glyph)
      /\ \A i \in 1..Len(x) : x[i] # Nul
      /\ \A i \in 1..Len(y) : y[i] # Nul
  BY MonitorAssumption DEF Text
<1>2. ASSUME NEW u \in Seq(Glyph), NEW v \in Seq(Glyph), Names(s, u), Names(s, v),
             \A i \in 1..Len(v) : v[i] # Nul
      PROVE  Len(u) >= Len(v)
  <2>1. SUFFICES ASSUME Len(u) < Len(v) PROVE FALSE
    BY <1>2
  <2>2. Len(u) + 1 \in 1..Len(v) /\ Len(s) > Len(u)
    BY <1>2, <2>1 DEF Names
  <2>3. s[Len(u) + 1] = Nul /\ s[Len(u) + 1] = v[Len(u) + 1]
    BY <1>2, <2>2 DEF Names
  <2> QED
    BY <1>2, <2>2, <2>3
<1>3. Len(x) = Len(y)
  BY <1>1, <1>2
<1>4. \A i \in 1..Len(x) : x[i] = y[i]
  BY <1>1, <1>3 DEF Names
<1> QED
  BY <1>1, <1>3, <1>4

LEMMA AnswerIsNamed ==
    ASSUME NEW b, NEW s, Holds(b, s)
    PROVE  /\ \A c \in DOMAIN Name : Answer(b) = c <=> Names(s, Name[c])
           /\ Answer(b) = "nothing" <=> Names(s, << >>)
<1>1. /\ DOMAIN Name = {Commands[i] : i \in 1..5} /\ DOMAIN Commands = 1..5
      /\ \A i \in 1..5 : Commands[i] # "nothing" /\ Commands[i] # "unknown"
  BY MonitorAssumption DEF Commands
<1>2. /\ \A c \in DOMAIN Name : Name[c] \in Text /\ Len(Name[c]) > 0
      /\ \A c, d \in DOMAIN Name : Name[c] = Name[d] => c = d
  BY MonitorAssumption DEF Text
<1>3. s \in Seq(Char) /\ b \in [Cells -> Char]
  BY DEF Holds
<1>4. \A i \in 1..5 : i \in Matching(b) <=> Names(s, Name[Commands[i]])
  BY <1>1, <1>2, StreqIsNames DEF Matching
<1>5. Matching(b) \subseteq 1..5
  BY <1>1 DEF Matching
<1>6. \A i, j \in Matching(b) : Commands[i] = Commands[j]
  BY <1>1, <1>2, <1>3, <1>4, <1>5, OneName
<1>7. ASSUME NEW i \in Matching(b) PROVE Answer(b) = Commands[i]
  <2> DEFINE first == CHOOSE k \in Matching(b) : \A j \in Matching(b) : k <= j
  <2>1. \E k \in Matching(b) : \A j \in Matching(b) : k <= j
    BY <1>5, <1>7
  <2>2. first \in Matching(b)
    BY <2>1
  <2>3. Answer(b) = Commands[first]
    BY <1>7 DEF Answer
  <2> QED
    BY <1>6, <2>2, <2>3
<1>8. Matching(b) = {} => Answer(b) = IF b[0] = Nul THEN "nothing" ELSE "unknown"
  BY DEF Answer
<1>9. ASSUME NEW c \in DOMAIN Name PROVE Answer(b) = c <=> Names(s, Name[c])
  <2>1. PICK i \in 1..5 : c = Commands[i]
    BY <1>1
  <2>2. Names(s, Name[c]) => Answer(b) = c
    BY <1>4, <1>7, <2>1
  <2>3. ASSUME Answer(b) = c PROVE Names(s, Name[c])
    <3>1. Matching(b) # {}
      BY <1>1, <1>8, <2>1, <2>3
    <3>2. PICK j \in Matching(b) : TRUE
      BY <3>1
    <3>3. c = Commands[j]
      BY <1>7, <2>3, <3>2
    <3> QED
      BY <1>4, <1>5, <3>2, <3>3
  <2> QED
    BY <2>2, <2>3
<1>10. Names(s, << >>) <=> b[0] = Nul
  <2>1. Names(s, << >>) <=> (Len(s) > 0 => s[1] = Nul)
    BY <1>3 DEF Names
  <2>2. CASE Len(s) = 0
    BY <2>1, <2>2 DEF Holds
  <2>3. CASE Len(s) > 0
    <3>1. b[1 - 1] = s[1]
      BY <1>3, <2>3 DEF Holds
    <3> QED
      BY <2>1, <2>3, <3>1
  <2> QED
    BY <1>3, <2>2, <2>3
<1>11. b[0] = Nul => Matching(b) = {}
  <2> SUFFICES ASSUME b[0] = Nul, NEW i \in Matching(b) PROVE FALSE
    OBVIOUS
  <2>1. Names(s, << >>) /\ Names(s, Name[Commands[i]])
    BY <1>4, <1>5, <1>10
  <2>2. << >> \in Text /\ Name[Commands[i]] \in Text /\ Len(Name[Commands[i]]) > 0
    BY <1>1, <1>2, <1>5, MonitorAssumption DEF Text
  <2>3. Name[Commands[i]] = << >>
    BY <1>3, <2>1, <2>2, OneName
  <2> QED
    BY <2>2, <2>3
<1>12. Answer(b) = "nothing" <=> b[0] = Nul
  <2>1. b[0] = Nul => Answer(b) = "nothing"
    BY <1>8, <1>11
  <2>2. CASE Matching(b) = {}
    BY <1>8, <2>2
  <2>3. CASE Matching(b) # {}
    BY <1>1, <1>5, <1>7, <2>1, <2>3
  <2> QED
    BY <2>1, <2>2, <2>3
<1> QED
  BY <1>9, <1>10, <1>12

(* Enter runs the command the line names, whatever the buffer held before, *)
(* and for any names that are not the same.                                *)
THEOREM RunsTyped == Spec => RunsWhatWasTyped
<1>1. MInv /\ FinishCommand =>
         /\ \A c \in DOMAIN Name : ran' = c <=> Names(line, Name[c])
         /\ ran' = "nothing" <=> Names(line, << >>)
  <2> SUFFICES ASSUME MInv, FinishCommand
               PROVE  /\ \A c \in DOMAIN Name : ran' = c <=> Names(line, Name[c])
                      /\ ran' = "nothing" <=> Names(line, << >>)
    OBVIOUS
  <2>1. /\ line \in Seq(Char) /\ buffer \in [Cells -> Char] /\ BufferSize \in Nat \ {0}
        /\ Nul \in Char
    BY MonitorAssumption DEF MInv, TypeOK, Char
  <2>2. /\ di = Len(line) /\ Len(line) < BufferSize
        /\ \A i \in 1..Len(line) : buffer[i - 1] = line[i]
    BY DEF MInv, LineInBuffer, FinishCommand
  <2>3. Len(line) \in Cells /\ \A i \in 1..Len(line) : i - 1 \in Cells /\ i - 1 # Len(line)
    BY <2>1, <2>2 DEF Cells
  <2>4. Holds(Terminated, line)
    BY <2>1, <2>2, <2>3 DEF Holds, Terminated
  <2>5. ran' = Answer(Terminated)
    BY DEF FinishCommand
  <2> QED
    BY <2>4, <2>5, AnswerIsNamed
<1>2. MInv /\ [Next]_vars =>
         [FinishCommand =>
            /\ \A c \in DOMAIN Name : ran' = c <=> Names(line, Name[c])
            /\ ran' = "nothing" <=> Names(line, << >>)]_vars
  BY <1>1
<1> QED
  BY <1>2, Invariant, PTL DEF Spec, RunsWhatWasTyped
=============================================================================
