--------------------------- MODULE PciProbeProofs ---------------------------
(***************************************************************************)
(* Theorems about PciProbe, for every dword width, number of BARs, set of  *)
(* well-formed devices and set of calls that may fail.                     *)
(***************************************************************************)
EXTENDS PciProbe, NumberLemmas

-----------------------------------------------------------------------------
(* Registers *)

(* What a slot of a well-formed device is made of. *)
LEMMA SlotFacts ==
  ASSUME NEW d \in Devices, NEW r \in Regs, NEW s, s = d.slots[r]
  PROVE  /\ s.flags \in Nat /\ s.addr \in Nat
         /\ s.gran \in Nat \ {0} /\ s.lim \in Nat \ {0} /\ s.lim <= WORD
         /\ s.lim % s.gran = 0 /\ s.addr % s.gran = 0
         /\ s.flags < s.gran /\ s.addr + s.flags < s.lim
         /\ Reset(s) \in Word
<1>1. WellFormedSlot(s)
  BY DevicesAssumption DEF WellFormed
<1> QED
  BY <1>1, WordAssumption DEF WellFormedSlot, Slots, Word, Reset

(* The latch of a register yields a dword again. *)
LEMMA LatchType ==
  ASSUME NEW d \in Devices, NEW r \in Regs, NEW v \in Word
  PROVE  Latch(d.slots[r], v) \in Word
<1> DEFINE s == d.slots[r]
<1>1. (v % s.lim) - (v % s.gran) + s.flags \in 0 .. s.lim - 1
  <2>1. v \in Nat
    BY WordAssumption DEF Word
  <2>2. /\ s.gran \in Nat /\ s.lim \in Nat /\ s.flags \in Nat
        /\ s.gran > 0 /\ s.lim > 0 /\ s.lim % s.gran = 0 /\ s.flags < s.gran
    BY SlotFacts
  <2> QED
    BY <2>1, <2>2, ReplacedBitsBound
<1>2. s.lim \in Nat /\ s.lim <= WORD
  BY SlotFacts
<1> QED
  BY <1>1, <1>2, WordAssumption DEF Latch, Word

(* Writing the reset value back gives the reset value: this is what makes  *)
(* the restoring writes of the stub restore. *)
LEMMA LatchRestores ==
  ASSUME NEW d \in Devices, NEW r \in Regs
  PROVE  Latch(d.slots[r], Reset(d.slots[r])) = Reset(d.slots[r])
<1> DEFINE s == d.slots[r]
<1>0. /\ s.flags \in Nat /\ s.addr \in Nat /\ s.gran \in Nat /\ s.lim \in Nat
      /\ s.addr % s.gran = 0 /\ s.flags < s.gran /\ s.addr + s.flags < s.lim
  BY SlotFacts
<1> HIDE DEF s
<1>1. PICK a \in Nat, g \in Nat, l \in Nat, f \in Nat :
        a = s.addr /\ g = s.gran /\ l = s.lim /\ f = s.flags
  BY <1>0
<1>2. a % g = 0 /\ f < g /\ a + f < l
  BY <1>0, <1>1
<1>3. (a + f) % g = f
  BY <1>2, ModOfSum
<1>4. (a + f) % l = a + f
  BY <1>2, ModBelow
<1>5. ((a + f) % l) - ((a + f) % g) + f = a + f
  BY <1>3, <1>4
<1> QED
  BY <1>1, <1>5, Zenon DEF Latch, Reset, s
-----------------------------------------------------------------------------
(* Decoding *)

(* The lower bits cleared, a dword is still a dword. *)
LEMMA ClearType ==
  ASSUME NEW x \in Word, NEW m \in {4, 16}
  PROVE  Clear(x, m) \in Word
<1>1. x \in Nat
  BY WordAssumption DEF Word
<1>2. x % m \in 0 .. m - 1 /\ x = m * (x \div m) + (x % m) /\ x \div m \in Nat
  BY <1>1, DivModExists
<1>3. m * (x \div m) \in Nat
  BY <1>2
<1>4. Clear(x, m) \in Nat /\ Clear(x, m) <= x
  BY <1>1, <1>2, <1>3 DEF Clear
<1> QED
  BY <1>4, WordAssumption DEF Word

Entries == [memory : BOOLEAN, is_64bit : BOOLEAN, prefetchable : BOOLEAN,
            addr : Nat, size : Nat]

(* Whatever the two dwords are, decoding them yields an entry. *)
LEMMA DecodeType ==
  ASSUME NEW base \in Word, NEW mask \in Word
  PROVE  /\ IoEntry(base, mask) \in Entries
         /\ MemEntry(base, mask) \in Entries
         /\ \A e \in Entries : WithUpper(e, base, mask) \in Entries
<1>1. /\ Clear(base, 4) \in Word /\ Clear(mask, 4) \in Word
      /\ Clear(base, 16) \in Word /\ Clear(mask, 16) \in Word
  BY ClearType
<1>2. IoEntry(base, mask) \in Entries
  <2>1. WORD - Clear(mask, 4) \in Nat
    BY <1>1, WordAssumption DEF Word
  <2>2. (WORD - Clear(mask, 4)) % WORD \in Nat
    BY <2>1, WordAssumption, DivModExists
  <2>3. Clear(base, 4) \in Nat
    BY <1>1, WordAssumption DEF Word
  <2> QED
    BY <2>2, <2>3 DEF IoEntry, Entries
<1>3. MemEntry(base, mask) \in Entries
  <2>1. WORD - 1 - Clear(mask, 16) \in Nat /\ Clear(base, 16) \in Nat
    BY <1>1, WordAssumption DEF Word
  <2> QED
    BY <2>1 DEF MemEntry, Entries
<1>4. ASSUME NEW e \in Entries
      PROVE  WithUpper(e, base, mask) \in Entries
  <2>1. WORD \in Nat /\ base \in Nat /\ WORD - 1 - mask \in Nat
    BY WordAssumption DEF Word
  <2>2. WORD * base \in Nat /\ WORD * (WORD - 1 - mask) \in Nat
    BY <2>1
  <2>3. e.addr + WORD * base \in Nat /\ e.size + WORD * (WORD - 1 - mask) \in Nat
    BY <2>2 DEF Entries
  <2> QED
    BY <2>3 DEF WithUpper, Entries
<1> QED
  BY <1>2, <1>3, <1>4

(* The final increment of the size keeps the entry an entry. *)
LEMMA RoundedType ==
  ASSUME NEW e \in Entries
  PROVE  Rounded(e) \in Entries
<1>1. WORD * WORD \in Nat /\ WORD * WORD > 0
  BY WordAssumption
<1>2. (e.size + 1) % (WORD * WORD) \in Nat
  <2>1. e.size + 1 \in Nat
    BY DEF Entries
  <2> QED
    BY <1>1, <2>1, DivModExists
<1> QED
  BY <1>2 DEF Rounded, Entries

-----------------------------------------------------------------------------
(* What sizing finds out *)

(* After a write of all ones a register reads back its size mask. *)
LEMMA LatchOnes ==
  ASSUME NEW d \in Devices, NEW r \in Regs, NEW s, s = d.slots[r]
  PROVE  Latch(s, WORD - 1) = s.lim - s.gran + s.flags
<1>1. WellFormedSlot(s)
  BY DevicesAssumption DEF WellFormed
<1>2. /\ s.gran \in Nat /\ s.lim \in Nat /\ s.gran > 0 /\ s.lim > 0
      /\ WORD % s.lim = 0 /\ s.lim % s.gran = 0 /\ s.flags \in Nat
  BY <1>1, WordAssumption DEF WellFormedSlot, Slots, Word
<1>3. WORD % s.gran = 0
  BY <1>2, WordAssumption, ModTransitive
<1>4. (WORD - 1) % s.lim = s.lim - 1 /\ (WORD - 1) % s.gran = s.gran - 1
  BY <1>2, <1>3, WordAssumption, OnesMod
<1> QED
  BY <1>2, <1>4 DEF Latch

(* The sizes of the ranges, as numbers. *)
LEMMA RangeFacts ==
  ASSUME NEW d \in Devices, NEW r \in Regs, NEW s, s = d.slots[r]
  PROVE  /\ s.gran \in Nat /\ s.lim \in Nat /\ s.addr \in Nat /\ s.flags \in Nat
         /\ s.gran > 0 /\ s.gran <= s.lim /\ s.lim <= WORD
         /\ s.addr % s.gran = 0 /\ s.lim % s.gran = 0
         /\ s.kind \in Kinds
<1>1. /\ s.gran \in Nat \ {0} /\ s.lim \in Nat \ {0} /\ s.lim <= WORD /\ s.lim % s.gran = 0
      /\ s.addr \in Nat /\ s.flags \in Nat /\ s.addr % s.gran = 0
  BY SlotFacts
<1>2. s.gran > 0 /\ s.lim > 0
  BY <1>1
<1>3. s.gran <= s.lim
  BY <1>1, <1>2, DivisorBelow
<1>4. s.kind \in Kinds
  BY DevicesAssumption DEF WellFormed, WellFormedSlot, Slots
<1> QED
  BY <1>1, <1>2, <1>3, <1>4

(* Clearing takes the flags away and leaves a multiple. *)
LEMMA ClearFlags ==
  ASSUME NEW x \in Nat, NEW f \in Nat, NEW m \in Nat, m > 0, x % m = 0, f < m
  PROVE  Clear(x + f, m) = x
<1>1. (x + f) % m = f
  BY ModOfSum
<1> QED
  BY <1>1 DEF Clear

(* The arithmetic of an I/O BAR at a: g ports, address bits below l. *)
IoSums(w, l, g, a) ==
  /\ Clear(a + 1, 4) = a /\ Clear((l - g) + 1, 4) = l - g
  /\ (a + 1) % 2 = 1
  /\ (w - (l - g)) % w = IF g = l THEN 0 ELSE g + (w - l)

(* It is right for multiples of four that divide each other. *)
LEMMA IoArithmetic ==
  ASSUME NEW w \in Nat, NEW l \in Nat, NEW g \in Nat, NEW a \in Nat,
         g > 0, g <= l, l <= w, g % 4 = 0, a % g = 0, l % g = 0
  PROVE  IoSums(w, l, g, a)
<1>0. 4 \in Nat /\ 4 > 0
  OBVIOUS
<1>1. a % 4 = 0
  BY <1>0, ModTransitive, Zenon
<1>2. l % 4 = 0
  BY <1>0, ModTransitive, Zenon
<1>3. (l - g) % 4 = 0 /\ l - g \in Nat
  BY <1>2, ModOfDifference
<1>4. Clear(a + 1, 4) = a
  BY <1>1, ClearFlags
<1>5. Clear((l - g) + 1, 4) = l - g
  BY <1>3, ClearFlags
<1>6. (a + 1) % 2 = 1
  BY <1>1
<1>7. CASE g = l
  <2>1. w % w = 0
    <3>1. w * 1 + 0 = w
      OBVIOUS
    <3> QED
      BY <3>1, DivModUnique
  <2>2. w - (l - g) = w
    BY <1>7
  <2> QED
    BY <1>4, <1>5, <1>6, <1>7, <2>1, <2>2 DEF IoSums
<1>8. CASE g # l
  <2>1. w - (l - g) \in Nat /\ w - (l - g) < w /\ w - (l - g) = g + (w - l)
    BY <1>8
  <2>2. (w - (l - g)) % w = w - (l - g)
    BY <2>1, ModBelow
  <2> QED
    BY <1>4, <1>5, <1>6, <1>8, <2>1, <2>2 DEF IoSums
<1> QED
  BY <1>7, <1>8

(* An I/O BAR is told by its flag; its address and size are decoded right,  *)
(* except that a range that fills the space seems to be none. *)
LEMMA DecodeIo ==
  ASSUME NEW d \in Devices, NEW r \in Regs, NEW s, s = d.slots[r], s.kind = "io"
  PROVE  /\ IsIo(Reset(s)) /\ Reset(s) # 0
         /\ IoEntry(Reset(s), Latch(s, WORD - 1)) =
              [memory |-> FALSE, is_64bit |-> FALSE, prefetchable |-> FALSE, addr |-> s.addr,
               size |-> IF s.gran = s.lim THEN 0 ELSE s.gran + (WORD - s.lim)]
<1>1. WellFormedSlot(s)
  BY DevicesAssumption DEF WellFormed
<1>2. s.flags = 1 /\ s.gran % 4 = 0
  BY <1>1 DEF WellFormedSlot
<1>3. WORD \in Nat
  BY WordAssumption
<1>4. /\ Clear(s.addr + 1, 4) = s.addr /\ Clear((s.lim - s.gran) + 1, 4) = s.lim - s.gran
      /\ (s.addr + 1) % 2 = 1
      /\ (WORD - (s.lim - s.gran)) % WORD =
           IF s.gran = s.lim THEN 0 ELSE s.gran + (WORD - s.lim)
  <2>1. /\ s.lim \in Nat /\ s.gran \in Nat /\ s.addr \in Nat /\ s.gran > 0 /\ s.gran <= s.lim
        /\ s.lim <= WORD /\ s.addr % s.gran = 0 /\ s.lim % s.gran = 0
    BY RangeFacts
  <2>2. PICK g \in Nat, l \in Nat, a \in Nat, w \in Nat :
          g = s.gran /\ l = s.lim /\ a = s.addr /\ w = WORD
    BY <1>3, <2>1
  <2>3. g > 0 /\ g <= l /\ l <= w /\ g % 4 = 0 /\ a % g = 0 /\ l % g = 0
    BY <1>2, <2>1, <2>2
  <2>4. IoSums(w, l, g, a)
    BY <2>3, IoArithmetic, Zenon
  <2> QED
    BY <2>2, <2>4, Zenon DEF IoSums
<1>5. Latch(s, WORD - 1) = (s.lim - s.gran) + 1
  BY <1>2, LatchOnes
<1>6. Reset(s) = s.addr + 1 /\ s.addr \in Nat
  BY <1>2, RangeFacts DEF Reset
<1>7. IsIo(Reset(s)) /\ Reset(s) # 0
  BY <1>4, <1>6 DEF IsIo
<1> QED
  BY <1>4, <1>5, <1>6, <1>7, Zenon DEF IoEntry

(* The arithmetic of a memory BAR at a: g bytes, flags f. *)
MemSums(w, g, a, f) ==
  /\ Clear(a + f, 16) = a /\ w - 1 - Clear((w - g) + f, 16) = g - 1
  /\ (a + f) % 2 = 0
  /\ (((w - g) + f) \div 2) % 4 = 2 <=> f \in {4, 12}
  /\ (((w - g) + f) \div 8) % 2 = 1 <=> f \in {8, 10, 12}

(* It is right for multiples of sixteen that divide each other. *)
LEMMA MemArithmetic ==
  ASSUME NEW w \in Nat, NEW g \in Nat, NEW a \in Nat, NEW f \in {0, 2, 4, 8, 10, 12},
         g > 0, g <= w, w % 16 = 0, g % 16 = 0, a % g = 0
  PROVE  MemSums(w, g, a, f)
<1>0. 16 \in Nat /\ 16 > 0
  OBVIOUS
<1>1. a % 16 = 0
  BY <1>0, ModTransitive, Zenon
<1>2. (w - g) % 16 = 0 /\ w - g \in Nat
  BY ModOfDifference
<1>3. f \in Nat /\ f < 16
  OBVIOUS
<1>4. Clear(a + f, 16) = a
  BY <1>0, <1>1, <1>3, ClearFlags, Zenon
<1>5. Clear((w - g) + f, 16) = w - g
  BY <1>0, <1>2, <1>3, ClearFlags, Zenon
<1>6. (a + f) % 2 = 0
  BY <1>1
<1>7. PICK q \in Nat : w - g = 16 * q
  BY <1>2
<1>8. /\ ((16 * q + f) \div 2) % 4 = 2 <=> f \in {4, 12}
      /\ ((16 * q + f) \div 8) % 2 = 1 <=> f \in {8, 10, 12}
  OBVIOUS
<1> QED
  BY <1>4, <1>5, <1>6, <1>7, <1>8 DEF MemSums

(* The lower dword of a memory BAR tells its kind, address and size. *)
LEMMA DecodeMem ==
  ASSUME NEW d \in Devices, NEW r \in Regs, NEW s, s = d.slots[r], s.kind \in {"mem32", "mem64"}
  PROVE  /\ ~IsIo(Reset(s)) /\ (s.kind = "mem64" => Reset(s) # 0)
         /\ MemEntry(Reset(s), Latch(s, WORD - 1)) =
              [memory |-> TRUE, is_64bit |-> s.kind = "mem64",
               prefetchable |-> s.flags \in {8, 10, 12}, addr |-> s.addr, size |-> s.gran - 1]
<1>1. WellFormedSlot(s)
  BY DevicesAssumption DEF WellFormed
<1>2. /\ s.gran % 16 = 0 /\ s.lim = WORD
      /\ s.flags \in {0, 2, 4, 8, 10, 12}
      /\ s.flags \in {4, 12} <=> s.kind = "mem64"
  <2>1. CASE s.kind = "mem32"
    <3>1. s.flags \in {0, 2, 8, 10} /\ s.gran % 16 = 0 /\ s.lim = WORD
      BY <1>1, <2>1 DEF WellFormedSlot
    <3> QED
      BY <2>1, <3>1
  <2>2. CASE s.kind = "mem64"
    <3>1. s.flags \in {4, 12} /\ s.gran % 16 = 0 /\ s.lim = WORD
      BY <1>1, <2>2 DEF WellFormedSlot
    <3> QED
      BY <2>2, <3>1
  <2> QED
    BY <2>1, <2>2
<1>3. WORD \in Nat /\ WORD % 16 = 0 /\ s.gran <= WORD
  BY <1>2, RangeFacts, WordAssumption
<1>4. /\ Clear(s.addr + s.flags, 16) = s.addr
      /\ WORD - 1 - Clear((WORD - s.gran) + s.flags, 16) = s.gran - 1
      /\ (s.addr + s.flags) % 2 = 0
      /\ (((WORD - s.gran) + s.flags) \div 2) % 4 = 2 <=> s.flags \in {4, 12}
      /\ (((WORD - s.gran) + s.flags) \div 8) % 2 = 1 <=> s.flags \in {8, 10, 12}
  <2>1. s.gran \in Nat /\ s.addr \in Nat /\ s.gran > 0 /\ s.addr % s.gran = 0
    BY RangeFacts
  <2>2. PICK g \in Nat, a \in Nat, w \in Nat, f \in {0, 2, 4, 8, 10, 12} :
          g = s.gran /\ a = s.addr /\ w = WORD /\ f = s.flags
    BY <1>2, <1>3, <2>1
  <2>3. g > 0 /\ g <= w /\ w % 16 = 0 /\ g % 16 = 0 /\ a % g = 0
    BY <1>2, <1>3, <2>1, <2>2
  <2>4. MemSums(w, g, a, f)
    BY <2>3, MemArithmetic, Zenon
  <2> QED
    BY <2>2, <2>4, Zenon DEF MemSums
<1>5. Latch(s, WORD - 1) = (WORD - s.gran) + s.flags
  BY <1>2, LatchOnes
<1>6. Reset(s) = s.addr + s.flags
  BY DEF Reset
<1>7. s.kind = "mem64" => Reset(s) # 0
  <2>1. s.addr \in Nat
    BY RangeFacts
  <2> QED
    BY <1>2, <1>6, <2>1
<1>8. ~IsIo(Reset(s))
  BY <1>4, <1>6 DEF IsIo
<1>9. MemEntry(Reset(s), Latch(s, WORD - 1)) =
        [memory |-> TRUE, is_64bit |-> s.flags \in {4, 12},
         prefetchable |-> s.flags \in {8, 10, 12}, addr |-> s.addr, size |-> s.gran - 1]
  <2>1. /\ ((((WORD - s.gran) + s.flags) \div 2) % 4 = 2) = (s.flags \in {4, 12})
        /\ ((((WORD - s.gran) + s.flags) \div 8) % 2 = 1) = (s.flags \in {8, 10, 12})
    BY <1>4
  <2> QED
    BY <1>4, <1>5, <1>6, <2>1, Zenon DEF MemEntry
<1>10. (s.flags \in {4, 12}) = (s.kind = "mem64")
  BY <1>2
<1> QED
  BY <1>7, <1>8, <1>9, <1>10, Zenon

(* The upper dword is all address and all mask. *)
LEMMA DecodeUpper ==
  ASSUME NEW d \in Devices, NEW r \in Regs, NEW s, s = d.slots[r], s.kind = "upper"
  PROVE  Reset(s) = s.addr /\ Latch(s, WORD - 1) = WORD - s.gran
<1>1. s.lim = WORD /\ s.flags = 0
  <2>1. WellFormedSlot(s)
    BY DevicesAssumption DEF WellFormed
  <2> QED
    BY <2>1 DEF WellFormedSlot
<1>2. s.addr \in Nat /\ s.gran \in Nat /\ WORD \in Nat
  BY RangeFacts, WordAssumption
<1> QED
  BY <1>1, <1>2, LatchOnes DEF Reset

(* The size of a range of g bytes in the lower, u in the upper dword, of   *)
(* which one is everything or nothing: 2^64 bytes wrap to none. *)
Size64(w, g, u) ==
  /\ (g - 1) + w * (w - 1 - (w - u)) \in Nat \ {0}
  /\ ((g - 1) + w * (w - 1 - (w - u)) + 1) % (w * w) = IF g = w /\ u = w THEN 0 ELSE g * u
  /\ g * u # 0 /\ g % (w * w) = g

(* It is the product of the two. *)
LEMMA SizeOf64 ==
  ASSUME NEW w \in Nat, NEW g \in Nat, NEW u \in Nat, w >= 16, g >= 16, g <= w,
         u >= 1, u <= w, g = w \/ u = 1
  PROVE  Size64(w, g, u)
<1>1. w * 1 + w <= w * w
  BY TimesMonotone
<1>2. w * w \in Nat /\ w < w * w
  BY <1>1
<1>3. PICK v \in Nat : u = v + 1
  OBVIOUS
<1>4. w - 1 - (w - u) = v
  BY <1>3
<1>5. w * v \in Nat
  BY <1>3
<1>6. (g - 1) + w * v \in Nat \ {0}
  BY <1>5
<1>7. g % (w * w) = g
  BY <1>2, ModBelow
<1>8. CASE u = 1
  <2>1. v = 0 /\ w * v = 0 /\ g * u = g /\ u # w
    BY <1>3, <1>8
  <2>2. (g - 1) + w * v + 1 = g
    BY <2>1
  <2> QED
    BY <1>4, <1>6, <1>7, <2>1, <2>2 DEF Size64
<1>9. CASE g = w
  <2>1. (g - 1) + w * v + 1 = w * u
    BY <1>3, <1>9
  <2>2. CASE u = w
    <3>1. (w * w) % (w * w) = 0
      <4>1. (w * w) * 1 + 0 = w * w /\ w * w > 0
        BY <1>2
      <4> QED
        BY <1>2, <4>1, DivModUnique
    <3> QED
      BY <1>2, <1>4, <1>6, <1>7, <1>9, <2>1, <2>2, <3>1 DEF Size64
  <2>3. CASE u # w
    <3>1. w * u + w <= w * w
      BY <2>3, TimesMonotone
    <3>2. w * u \in Nat /\ w * u < w * w /\ w * u # 0
      BY <1>3, <1>5, <3>1
    <3>3. (w * u) % (w * w) = w * u
      BY <1>2, <3>2, ModBelow
    <3> QED
      BY <1>4, <1>6, <1>7, <1>9, <2>1, <2>3, <3>2, <3>3 DEF Size64
  <2> QED
    BY <2>2, <2>3
<1> QED
  BY <1>8, <1>9

(* What the stub makes of the two dwords of BAR b of device d, untouched by *)
(* failures. *)
LowerOf(d, b) ==
  IF IsIo(Reset(d.slots[b])) THEN IoEntry(Reset(d.slots[b]), Latch(d.slots[b], WORD - 1))
  ELSE MemEntry(Reset(d.slots[b]), Latch(d.slots[b], WORD - 1))

WholeOf(d, b) ==
  IF LowerOf(d, b).is_64bit
  THEN WithUpper(LowerOf(d, b), Reset(d.slots[b + 1]), Latch(d.slots[b + 1], WORD - 1))
  ELSE LowerOf(d, b)

(* The same as a line of the inventory. *)
EntryOf(k, b, d) ==
  [memory |-> Promise!Line(k, b, d).memory, is_64bit |-> Promise!Line(k, b, d).is_64bit,
   prefetchable |-> Promise!Line(k, b, d).prefetchable,
   addr |-> Promise!Line(k, b, d).addr, size |-> Promise!Line(k, b, d).size]

(* The entry of a memory BAR, written out. *)
MemRecord(wide, p, a, n) ==
  [memory |-> TRUE, is_64bit |-> wide, prefetchable |-> p, addr |-> a, size |-> n]

(* It is known by its parts. *)
LEMMA MemRecordOf ==
  ASSUME NEW wide, NEW p, NEW a, NEW n,
         NEW e \in [memory : {TRUE}, is_64bit : {wide}, prefetchable : {p}, addr : {a}, size : {n}]
  PROVE  e = MemRecord(wide, p, a, n)
BY DEF MemRecord

(* Its parts can be replaced. *)
LEMMA MemReplace ==
  ASSUME NEW wide, NEW p, NEW a, NEW n, NEW x, NEW y, NEW e,
         e = [MemRecord(wide, p, a, n) EXCEPT !.addr = x, !.size = y]
  PROVE  e \in [memory : {TRUE}, is_64bit : {wide}, prefetchable : {p}, addr : {x}, size : {y}]
BY DEF MemRecord

(* The upper dword adds to the address and the size. *)
LEMMA AddUpper ==
  ASSUME NEW wide, NEW p, NEW a, NEW n, NEW base, NEW mask
  PROVE  WithUpper(MemRecord(wide, p, a, n), base, mask) =
           MemRecord(wide, p, a + WORD * base, n + WORD * (WORD - 1 - mask))
<1> DEFINE e == MemRecord(wide, p, a, n)
<1>1. e.addr = a /\ e.size = n
  BY DEF MemRecord
<1>2. PICK x, y : x = a + WORD * base /\ y = n + WORD * (WORD - 1 - mask)
  OBVIOUS
<1>4. [e EXCEPT !.addr = x, !.size = y] = MemRecord(wide, p, x, y)
  <2>1. PICK f : f = [e EXCEPT !.addr = x, !.size = y]
    OBVIOUS
  <2>2. f \in [memory : {TRUE}, is_64bit : {wide}, prefetchable : {p}, addr : {x}, size : {y}]
    BY <2>1, MemReplace
  <2>3. f = MemRecord(wide, p, x, y)
    BY <2>2, MemRecordOf
  <2> QED
    BY <2>1, <2>3
<1>5. WithUpper(e, base, mask) = [e EXCEPT !.addr = x, !.size = y]
  <2> HIDE DEF e
  <2> QED
    BY <1>1, <1>2 DEF WithUpper
<1> QED
  BY <1>2, <1>4, <1>5

(* Rounding increments the size. *)
LEMMA RoundUp ==
  ASSUME NEW wide, NEW p, NEW a, NEW n, n # 0
  PROVE  Rounded(MemRecord(wide, p, a, n)) = MemRecord(wide, p, a, (n + 1) % (WORD * WORD))
BY DEF MemRecord, Rounded

(* The parts of the entry. *)
LEMMA MemParts ==
  ASSUME NEW wide, NEW p, NEW a, NEW n
  PROVE  MemRecord(wide, p, a, n).is_64bit = wide /\ MemRecord(wide, p, a, n).size = n
BY DEF MemRecord

(* A truth value is one of the two. *)
LEMMA Truth ==
  ASSUME NEW x, NEW S
  PROVE  \E p \in BOOLEAN : p = (x \in S)
<1>1. CASE x \in S
  <2>1. (x \in S) = TRUE
    BY <1>1
  <2> QED
    BY <2>1
<1>2. CASE x \notin S
  <2>1. (x \in S) = FALSE
    BY <1>2
  <2> QED
    BY <2>1
<1> QED
  BY <1>1, <1>2

(* A 64-bit BAR is decoded right from its two halves. *)
LEMMA Decode64 ==
  ASSUME NEW d \in Devices, NEW b \in Bars, NEW k, d.slots[b].kind = "mem64"
  PROVE  /\ LowerOf(d, b).is_64bit
         /\ \/ Rounded(WholeOf(d, b)) = EntryOf(k, b, d) /\ Rounded(WholeOf(d, b)).size # 0
            \/ /\ Rounded(WholeOf(d, b)).size = 0
               /\ d.slots[b].gran = WORD /\ d.slots[b + 1].gran = WORD
<1> DEFINE s == d.slots[b]
           up == d.slots[b + 1]
<1>1. b \in Regs /\ b + 1 \in Regs
  BY BarsAssumption DEF Bars, Regs
<1>2. up.kind = "upper" /\ (s.gran = WORD \/ up.gran = 1)
  BY DevicesAssumption DEF WellFormed
<1>3. /\ s.gran \in Nat /\ s.gran >= 16 /\ s.gran <= WORD /\ s.addr \in Nat
      /\ s.lim = WORD
  <2>1. WellFormedSlot(s)
    BY <1>1, DevicesAssumption DEF WellFormed
  <2>2. s.gran % 16 = 0 /\ s.lim = WORD
    BY <2>1 DEF WellFormedSlot
  <2>3. s.gran \in Nat /\ s.gran > 0 /\ s.gran <= WORD /\ s.addr \in Nat
    BY <1>1, <2>2, RangeFacts
  <2>4. 16 <= s.gran
    <3>1. 16 \in Nat /\ 16 > 0
      OBVIOUS
    <3> QED
      BY <2>2, <2>3, <3>1, DivisorBelow
  <2> QED
    BY <2>2, <2>3, <2>4
<1>4. up.gran \in Nat /\ up.gran >= 1 /\ up.gran <= WORD /\ up.addr \in Nat
  <2>1. up.gran \in Nat /\ up.gran > 0 /\ up.gran <= up.lim /\ up.lim <= WORD /\ up.lim \in Nat /\ up.addr \in Nat
    BY <1>1, RangeFacts
  <2> QED
    BY <2>1, WordAssumption
<1>5. WORD \in Nat /\ WORD >= 16
  BY <1>3, WordAssumption
<1>p. PICK p \in BOOLEAN, wide \in BOOLEAN : p = (s.flags \in {8, 10, 12}) /\ wide = TRUE
  BY Truth
<1>6. LowerOf(d, b) = MemRecord(wide, p, s.addr, s.gran - 1)
  <2>1. ~IsIo(Reset(s)) /\ MemEntry(Reset(s), Latch(s, WORD - 1)) =
          [memory |-> TRUE, is_64bit |-> s.kind = "mem64",
           prefetchable |-> s.flags \in {8, 10, 12}, addr |-> s.addr, size |-> s.gran - 1]
    BY <1>1, DecodeMem
  <2>2. (s.kind = "mem64") = wide
    BY <1>p
  <2> QED
    BY <1>p, <2>1, <2>2, Zenon DEF LowerOf, MemRecord
<1>7. Reset(up) = up.addr /\ Latch(up, WORD - 1) = WORD - up.gran
  BY <1>1, <1>2, DecodeUpper
<1>x. PICK x, a, g : /\ x = (s.gran - 1) + WORD * (WORD - 1 - (WORD - up.gran))
                     /\ a = s.addr + WORD * up.addr /\ g = s.gran * up.gran
  OBVIOUS
<1>8. /\ x # 0 /\ g # 0
      /\ (x + 1) % (WORD * WORD) = IF s.gran = WORD /\ up.gran = WORD THEN 0 ELSE g
  <2>1. PICK w \in Nat, v \in Nat, u \in Nat : w = WORD /\ v = s.gran /\ u = up.gran
    BY <1>3, <1>4, <1>5
  <2>2. w >= 16 /\ v >= 16 /\ v <= w /\ u >= 1 /\ u <= w /\ (v = w \/ u = 1)
    BY <1>2, <1>3, <1>4, <1>5, <2>1, Zenon
  <2>3. Size64(w, v, u)
    BY <2>1, <2>2, SizeOf64
  <2>4. Size64(WORD, s.gran, up.gran)
    BY <2>1, <2>3, Zenon
  <2> QED
    BY <1>x, <2>4 DEF Size64
<1>9. WholeOf(d, b) = MemRecord(wide, p, a, x)
  <2>1. LowerOf(d, b).is_64bit = TRUE
    <3>1. MemRecord(wide, p, s.addr, s.gran - 1).is_64bit = wide
      BY MemParts
    <3> QED
      BY <1>6, <1>p, <3>1, Zenon
  <2>2. WholeOf(d, b) = WithUpper(LowerOf(d, b), up.addr, WORD - up.gran)
    BY <1>7, <2>1, Zenon DEF WholeOf
  <2>3. WithUpper(MemRecord(wide, p, s.addr, s.gran - 1), up.addr, WORD - up.gran) =
          MemRecord(wide, p, a, x)
    BY <1>x, AddUpper
  <2> QED
    BY <1>6, <2>2, <2>3, Zenon
<1>10. EntryOf(k, b, d) = MemRecord(wide, p, a, g)
  <2>1. (s.kind = "mem64") = wide /\ (s.kind # "io") = TRUE
    BY <1>p
  <2>2. /\ Promise!Line(k, b, d).memory = TRUE /\ Promise!Line(k, b, d).is_64bit = wide
        /\ Promise!Line(k, b, d).prefetchable = p
        /\ Promise!Line(k, b, d).addr = a /\ Promise!Line(k, b, d).size = g
    BY <1>p, <1>x, <2>1 DEF Promise!Line
  <2> QED
    BY <2>2, Zenon DEF EntryOf, MemRecord
<1>11. Rounded(WholeOf(d, b)) = MemRecord(wide, p, a, (x + 1) % (WORD * WORD))
  BY <1>8, <1>9, RoundUp
<1>12. Rounded(WholeOf(d, b)).size = (x + 1) % (WORD * WORD)
  BY <1>11, MemParts
<1>13. LowerOf(d, b).is_64bit = TRUE
  <2>1. MemRecord(wide, p, s.addr, s.gran - 1).is_64bit = wide
    BY MemParts
  <2> QED
    BY <1>6, <1>p, <2>1, Zenon
<1> HIDE DEF s, up
<1>14. CASE s.gran = WORD /\ up.gran = WORD
  <2>1. Rounded(WholeOf(d, b)).size = 0
    BY <1>8, <1>12, <1>14, Zenon
  <2> QED
    BY <1>13, <1>14, <2>1, Zenon DEF s, up
<1>15. CASE ~(s.gran = WORD /\ up.gran = WORD)
  <2>1. (x + 1) % (WORD * WORD) = g
    BY <1>8, <1>15, Zenon
  <2>2. Rounded(WholeOf(d, b)) = EntryOf(k, b, d)
    BY <1>10, <1>11, <2>1, Zenon
  <2>3. Rounded(WholeOf(d, b)).size # 0
    BY <1>8, <1>12, <2>1, Zenon
  <2> QED
    BY <1>13, <2>2, <2>3, Zenon
<1> QED
  BY <1>14, <1>15

(* Every BAR firmware has assigned is decoded right, and only its kind      *)
(* decides whether it takes a second dword. *)
LEMMA DecodeAll ==
  ASSUME NEW d \in Devices, NEW b \in Bars, NEW k,
         Reset(d.slots[b]) # 0, d.slots[b].kind # "upper"
  PROVE  /\ Promise!Assigned(d.slots[b])
         /\ LowerOf(d, b).is_64bit <=> d.slots[b].kind = "mem64"
         /\ Rounded(WholeOf(d, b)).size = 0 \/ Rounded(WholeOf(d, b)) = EntryOf(k, b, d)
         /\ RangesFit => Rounded(WholeOf(d, b)).size # 0
<1> DEFINE s == d.slots[b]
<1>1. b \in Regs /\ WellFormedSlot(s) /\ s.kind \in Kinds
  BY BarsAssumption, DevicesAssumption, RangeFacts DEF WellFormed, Bars, Regs
<1>2. s.kind \in {"io", "mem32", "mem64"}
  <2>1. CASE s.kind = "none"
    <3>1. s = NoSlot
      BY <1>1, <2>1 DEF WellFormedSlot
    <3> QED
      BY <3>1 DEF NoSlot, Reset
  <2> QED
    BY <1>1, <2>1 DEF Kinds
<1>3. Promise!Assigned(s)
  BY <1>2 DEF Promise!Assigned, Promise!Reset, Reset
<1>4. s.gran \in Nat /\ s.lim \in Nat /\ s.gran > 0 /\ s.lim <= WORD /\ WORD \in Nat
  BY <1>1, RangeFacts, WordAssumption
<1>5. CASE s.kind = "io"
  <2>1. LowerOf(d, b) =
          [memory |-> FALSE, is_64bit |-> FALSE, prefetchable |-> FALSE, addr |-> s.addr,
           size |-> IF s.gran = s.lim THEN 0 ELSE s.gran + (WORD - s.lim)]
    BY <1>1, <1>5, DecodeIo DEF LowerOf
  <2>2. Rounded(WholeOf(d, b)) = LowerOf(d, b)
    BY <2>1 DEF WholeOf, Rounded
  <2>3. EntryOf(k, b, d) =
          [memory |-> FALSE, is_64bit |-> FALSE, prefetchable |-> FALSE, addr |-> s.addr,
           size |-> s.gran + (WORD - s.lim)]
    <3>1. s.flags = 1 /\ s.addr \in Nat
      BY <1>1, <1>5, RangeFacts DEF WellFormedSlot
    <3>2. (s.flags \in {8, 10, 12}) = FALSE /\ s.addr + 0 = s.addr
      BY <3>1
    <3> QED
      BY <1>5, <3>2 DEF EntryOf, Promise!Line
  <2>4. RangesFit => s.gran < s.lim
    BY <1>5 DEF RangesFit
  <2>5. s.gran # s.lim => s.gran + (WORD - s.lim) # 0
    BY <1>4
  <2>6. LowerOf(d, b).is_64bit = FALSE /\ s.kind # "mem64"
    BY <1>5, <2>1
  <2>7. CASE s.gran = s.lim
    <3>1. Rounded(WholeOf(d, b)).size = 0
      BY <2>1, <2>2, <2>7
    <3>2. ~RangesFit
      BY <1>4, <2>4, <2>7
    <3> QED
      BY <1>3, <2>6, <3>1, <3>2, Zenon
  <2>8. CASE s.gran # s.lim
    <3>1. LowerOf(d, b) = EntryOf(k, b, d)
      BY <2>1, <2>3, <2>8
    <3>2. LowerOf(d, b).size # 0
      BY <2>1, <2>5, <2>8
    <3> QED
      BY <1>3, <2>2, <2>6, <3>1, <3>2, Zenon
  <2> QED
    BY <2>7, <2>8
<1>p. PICK p \in BOOLEAN, wide \in BOOLEAN : p = (s.flags \in {8, 10, 12}) /\ wide = FALSE
  BY Truth
<1>6. CASE s.kind = "mem32"
  <2>1. LowerOf(d, b) = MemRecord(wide, p, s.addr, s.gran - 1)
    <3>1. ~IsIo(Reset(s)) /\ MemEntry(Reset(s), Latch(s, WORD - 1)) =
            [memory |-> TRUE, is_64bit |-> s.kind = "mem64",
             prefetchable |-> s.flags \in {8, 10, 12}, addr |-> s.addr, size |-> s.gran - 1]
      BY <1>1, <1>6, DecodeMem
    <3>2. (s.kind = "mem64") = wide
      BY <1>6, <1>p
    <3> QED
      BY <1>p, <3>1, <3>2, Zenon DEF LowerOf, MemRecord
  <2>2. s.gran % 16 = 0 /\ s.lim = WORD /\ s.addr \in Nat
    BY <1>1, <1>6, RangeFacts DEF WellFormedSlot
  <2>3. s.gran >= 16 /\ s.gran <= WORD /\ WORD >= 16
    <3>1. 16 \in Nat /\ 16 > 0
      OBVIOUS
    <3>2. 16 <= s.gran
      BY <1>4, <2>2, <3>1, DivisorBelow
    <3>3. s.gran <= s.lim
      BY <1>1, RangeFacts
    <3> QED
      BY <1>4, <2>2, <3>2, <3>3
  <2>4. s.gran % (WORD * WORD) = s.gran
    <3>1. PICK w \in Nat, g \in Nat, u \in Nat : w = WORD /\ g = s.gran /\ u = 1
      BY <1>4
    <3>2. w >= 16 /\ g >= 16 /\ g <= w /\ u >= 1 /\ u <= w /\ (g = w \/ u = 1)
      BY <2>3, <3>1
    <3>3. g % (w * w) = g
      BY <3>1, <3>2, SizeOf64 DEF Size64
    <3> QED
      BY <3>1, <3>3, Zenon
  <2>5. /\ (s.gran - 1) + 1 = s.gran /\ s.gran - 1 # 0 /\ s.gran # 0
        /\ s.gran + (WORD - s.lim) = s.gran /\ s.addr + 0 = s.addr
    <3>1. PICK g \in Nat, a \in Nat, w \in Nat : g = s.gran /\ a = s.addr /\ w = WORD
      BY <1>4, <2>2
    <3>2. g >= 16
      BY <2>3, <3>1
    <3>3. (g - 1) + 1 = g /\ g - 1 # 0 /\ g # 0 /\ g + (w - w) = g /\ a + 0 = a
      BY <3>2
    <3> QED
      BY <2>2, <3>1, <3>3, Zenon
  <2>6. LowerOf(d, b).is_64bit = FALSE
    <3>1. MemRecord(wide, p, s.addr, s.gran - 1).is_64bit = wide
      BY MemParts
    <3> QED
      BY <1>p, <2>1, <3>1, Zenon
  <2>7. Rounded(WholeOf(d, b)) = MemRecord(wide, p, s.addr, s.gran)
    <3>1. WholeOf(d, b) = MemRecord(wide, p, s.addr, s.gran - 1)
      BY <2>1, <2>6, Zenon DEF WholeOf
    <3>2. Rounded(MemRecord(wide, p, s.addr, s.gran - 1)) =
            MemRecord(wide, p, s.addr, ((s.gran - 1) + 1) % (WORD * WORD))
      BY <2>5, RoundUp
    <3> QED
      BY <2>4, <2>5, <3>1, <3>2, Zenon
  <2>8. EntryOf(k, b, d) = MemRecord(wide, p, s.addr, s.gran)
    <3>1. (s.kind = "mem64") = wide /\ (s.kind # "io") = TRUE /\ s.kind # "mem64"
      BY <1>6, <1>p
    <3>2. /\ Promise!Line(k, b, d).memory = TRUE /\ Promise!Line(k, b, d).is_64bit = wide
          /\ Promise!Line(k, b, d).prefetchable = p
          /\ Promise!Line(k, b, d).addr = s.addr /\ Promise!Line(k, b, d).size = s.gran
      BY <1>p, <2>5, <3>1 DEF Promise!Line
    <3> QED
      BY <3>2, Zenon DEF EntryOf, MemRecord
  <2>9. Rounded(WholeOf(d, b)).size = s.gran
    BY <2>7, MemParts
  <2>10. s.kind # "mem64"
    BY <1>6
  <2> QED
    BY <1>3, <2>5, <2>6, <2>7, <2>8, <2>9, <2>10, Zenon
<1>7. CASE s.kind = "mem64"
  <2>1. RangesFit => s.gran < WORD \/ d.slots[b + 1].gran < WORD
    BY <1>7 DEF RangesFit
  <2> QED
    BY <1>3, <1>4, <1>7, <2>1, Decode64
<1> QED
  BY <1>2, <1>5, <1>6, <1>7

-----------------------------------------------------------------------------
(* Types and loops *)

(* The invariant holds when efi_setup_pci starts. *)
LEMMA InitIInv == Init => IInv
<1> SUFFICES ASSUME Init PROVE IInv
  OBVIOUS
<1>1. devs \in [Handles -> Devices]
  BY MachinesAssumption DEF Init
<1>2. \A k \in Handles, r \in Regs : reg[k][r] = Reset(devs[k].slots[r])
  BY DEF Init
<1>3. TypeOK
  <2>1. cmd \in [Handles -> SUBSET CommandBits]
    BY <1>1, DevicesAssumption DEF Init, WellFormed
  <2>2. reg \in [Handles -> [Regs -> Word]]
    BY <1>1, SlotFacts DEF Init
  <2>3. 0 \in Bars /\ 0 \in Word /\ 0 \in 0 .. NumHandles /\ 0 \in 0 .. NumBars + 1
    BY WordAssumption, BarsAssumption, HandlesAssumption DEF Bars, Word
  <2> QED
    BY <1>1, <2>1, <2>2, <2>3 DEF Init, TypeOK, NoEntry
<1>4. LoopInv /\ BaseInv
  BY HandlesAssumption
     DEF Init, LoopInv, BaseInv, DevicePcs, SilentPcs, SizingPcs, Handles
<1>5. CommandInv
  BY DEF Init, CommandInv, DevicePcs, SilentPcs, SizingPcs
<1>6. AddressesRestored
  BY <1>2 DEF AddressesRestored, Original
<1> QED
  BY <1>3, <1>4, <1>5, <1>6 DEF IInv

(* A failed call is recorded for a handle and a BAR that exist. *)
LEMMA FailsType ==
  ASSUME TypeOK, h \in Handles, NEW b \in Bars, NEW c \in Calls, Fails(b, c)
  PROVE  failed' \subseteq Handles \X Bars \X Calls
<1>1. <<h, b, c>> \in Handles \X Bars \X Calls
  OBVIOUS
<1> QED
  BY <1>1 DEF TypeOK, Fails

(* The dword being sized exists. *)
LEMMA TargetExists ==
  ASSUME TypeOK
  PROVE  bar + half \in Regs
BY BarsAssumption DEF TypeOK, Bars, Regs

(* Reading and writing a dword keep the types. *)
LEMMA ConfigReadType ==
  ASSUME TypeOK, h \in Handles, NEW v, ConfigRead(bar + half, v)
  PROVE  /\ v \in Word
         /\ failed' \subseteq Handles \X Bars \X Calls
<1>1. bar + half \in Regs /\ bar \in Bars /\ "read" \in Calls
  BY TargetExists DEF TypeOK, Calls
<1>2. CASE v = reg[h][bar + half] /\ UNCHANGED failed
  BY <1>1, <1>2 DEF TypeOK
<1>3. CASE Fails(bar, "read") /\ v = WORD - 1
  BY <1>1, <1>3, FailsType, WordAssumption DEF Word
<1> QED
  BY <1>2, <1>3 DEF ConfigRead

(* The registers hold dwords after a write, done or lost. *)
LEMMA ConfigWriteType ==
  ASSUME TypeOK, h \in Handles, NEW v \in Word, ConfigWrite(bar + half, v)
  PROVE  /\ reg' \in [Handles -> [Regs -> Word]]
         /\ failed' \subseteq Handles \X Bars \X Calls
<1>1. bar + half \in Regs /\ bar \in Bars /\ "write" \in Calls
  BY TargetExists DEF TypeOK, Calls
<1>2. CASE /\ reg' = [reg EXCEPT ![h][bar + half] = Latch(devs[h].slots[bar + half], v)]
           /\ UNCHANGED failed
  <2>1. Latch(devs[h].slots[bar + half], v) \in Word
    BY <1>1, LatchType DEF TypeOK
  <2> QED
    BY <1>1, <1>2, <2>1 DEF TypeOK
<1>3. CASE Fails(bar, "write") /\ UNCHANGED reg
  BY <1>1, <1>3, FailsType DEF TypeOK
<1> QED
  BY <1>2, <1>3 DEF ConfigWrite

(* All ones is a dword. *)
LEMMA OnesIsWord == WORD - 1 \in Word
BY WordAssumption DEF Word

(* Every step keeps the types. *)
LEMMA TypeStep ==
  ASSUME IInv, [Next]_vars
  PROVE  TypeOK'
<1> USE WordAssumption, BarsAssumption, HandlesAssumption
    DEF IInv, TypeOK, LoopInv, hardware, locals, DevicePcs, SilentPcs, SizingPcs,
        Handles, Bars, Calls
<1>1. CASE Locate
  <2>1. pc' \in {"done", "open"} /\ handles' \in {handles, "held"}
    BY <1>1, Zenon DEF Locate
  <2>2. failed' \subseteq Handles \X Bars \X Calls
    BY <1>1 DEF Locate, Fails
  <2> QED
    BY <1>1, <2>1, <2>2 DEF Locate
<1>2. CASE HandleProtocol
  BY <1>2 DEF HandleProtocol, Fails
<1>3. CASE FreeHandles
  BY <1>3 DEF FreeHandles
<1>4. CASE Identify
  BY <1>4 DEF Identify, Fails
<1>5. CASE Disable
  <2>1. h \in Handles /\ idx \in Bars
    BY <1>5 DEF Disable
  <2>2. cmd' \in [Handles -> SUBSET CommandBits]
    <3>1. command \ ResponseBits \in SUBSET CommandBits
      OBVIOUS
    <3>2. CASE cmd' = [cmd EXCEPT ![h] = command \ ResponseBits]
      BY <2>1, <3>1, <3>2
    <3>3. CASE UNCHANGED cmd
      BY <3>3
    <3> QED
      BY <1>5, <3>2, <3>3 DEF Disable
  <2>3. failed' \subseteq Handles \X Bars \X Calls
    BY <1>5, <2>1, FailsType DEF Disable
  <2>4. /\ pc' \in {"bars", "base"} /\ bar' \in Bars /\ idx' \in 0 .. NumBars + 1
    BY <1>5, <2>1 DEF Disable
  <2> QED
    BY <1>5, <2>2, <2>3, <2>4 DEF Disable
<1>6. CASE EndDevice
  BY <1>6 DEF EndDevice
<1>7. CASE ReadBase
  <2>1. h \in Handles
    BY <1>7 DEF ReadBase
  <2>2. base_addr' \in Word /\ failed' \subseteq Handles \X Bars \X Calls
    BY <1>7, <2>1, ConfigReadType DEF ReadBase
  <2> QED
    BY <1>7, <2>2 DEF ReadBase, NoEntry
<1>8. CASE Skip
  <2>1. h \in Handles
    BY <1>8 DEF Skip
  <2>2. cmd' \in [Handles -> SUBSET CommandBits]
    BY <1>8, <2>1 DEF Skip, RestoreCommand
  <2>3. failed' \subseteq Handles \X Bars \X Calls
    BY <1>8, <2>1, FailsType DEF Skip, RestoreCommand
  <2>4. pc' = "bars" /\ idx' \in 0 .. NumBars + 1
    BY <1>8 DEF Skip
  <2>5. UNCHANGED <<devs, reg, handles, h, bar, half, command, base_addr, size, entry, report>>
    BY <1>8 DEF Skip
  <2> HIDE DEF LoopInv, IInv
  <2>6. TypeOK
    BY DEF IInv
  <2> QED
    BY <2>2, <2>3, <2>4, <2>5, <2>6
<1>9. CASE WriteOnes
  <2>1. h \in Handles /\ WORD - 1 \in Word
    BY <1>9, OnesIsWord DEF WriteOnes
  <2>2. reg' \in [Handles -> [Regs -> Word]] /\ failed' \subseteq Handles \X Bars \X Calls
    BY <1>9, <2>1, ConfigWriteType DEF WriteOnes
  <2> QED
    BY <1>9, <2>2 DEF WriteOnes
<1>10. CASE ReadSize
  <2>1. h \in Handles
    BY <1>10 DEF ReadSize
  <2>2. size' \in Word /\ failed' \subseteq Handles \X Bars \X Calls
    BY <1>10, <2>1, ConfigReadType DEF ReadSize
  <2> QED
    BY <1>10, <2>2 DEF ReadSize
<1>11. CASE Restore
  <2>1. h \in Handles
    BY <1>11 DEF Restore
  <2>2. reg' \in [Handles -> [Regs -> Word]] /\ failed' \subseteq Handles \X Bars \X Calls
    BY <1>11, <2>1, ConfigWriteType DEF Restore
  <2>3. Decoded \in Entries
    BY DecodeType DEF Decoded, Entries
  <2>4. entry' \in Entries
    BY <1>11, <2>3, RoundedType DEF Restore
  <2>5. half' \in 0 .. 1 /\ pc' \in {"base", "enable"}
    BY <1>11 DEF Restore
  <2>6. idx' \in 0 .. NumBars + 1
    BY <1>11 DEF Restore
  <2>7. UNCHANGED <<devs, cmd, handles, h, bar, command, base_addr, size, report>>
    BY <1>11 DEF Restore
  <2> HIDE DEF LoopInv, IInv
  <2>8. TypeOK
    BY DEF IInv
  <2> QED
    BY <2>2, <2>4, <2>5, <2>6, <2>7, <2>8 DEF Entries
<1>12. CASE Enable
  <2>1. h \in Handles /\ bar \in Bars
    BY <1>12 DEF Enable
  <2>2. cmd' \in [Handles -> SUBSET CommandBits]
    BY <1>12, <2>1 DEF Enable, RestoreCommand
  <2>3. failed' \subseteq Handles \X Bars \X Calls
    BY <1>12, <2>1, FailsType DEF Enable, RestoreCommand
  <2>4. pc' = "print"
    BY <1>12 DEF Enable
  <2>5. UNCHANGED <<devs, reg, handles, h, idx, bar, half, command, base_addr, size, entry, report>>
    BY <1>12 DEF Enable
  <2> HIDE DEF LoopInv, IInv
  <2>6. TypeOK
    BY DEF IInv
  <2> QED
    BY <2>2, <2>3, <2>4, <2>5, <2>6
<1>13. CASE PrintBar
  <2> DEFINE Lines == [handle : Handles, bar : Bars, memory : BOOLEAN,
                       is_64bit : BOOLEAN, prefetchable : BOOLEAN,
                       addr : Nat, size : Nat]
  <2>1. h \in Handles
    BY <1>13 DEF PrintBar
  <2>2. PrintedLine \in Lines
    BY <2>1 DEF PrintedLine
  <2>3. report' \in Seq(Lines)
    <3>1. report \in Seq(Lines)
      OBVIOUS
    <3> HIDE DEF Lines
    <3> QED
      BY <1>13, <2>2, <3>1 DEF PrintBar
  <2>4. idx' \in 0 .. NumBars + 1
    BY <1>13 DEF PrintBar
  <2> QED
    BY <1>13, <2>3, <2>4 DEF PrintBar
<1>14. CASE Done \/ UNCHANGED vars
  BY <1>14 DEF Done, vars
<1> QED
  BY <1>1, <1>2, <1>3, <1>4, <1>5, <1>6, <1>7, <1>8, <1>9, <1>10, <1>11,
     <1>12, <1>13, <1>14 DEF Next

(* Every step keeps the loops in step. *)
LEMMA LoopStep ==
  ASSUME IInv, [Next]_vars
  PROVE  LoopInv'
<1> USE BarsAssumption, HandlesAssumption
    DEF IInv, TypeOK, LoopInv, hardware, locals, DevicePcs, SilentPcs, SizingPcs,
        Handles, Bars
<1>1. CASE Locate
  BY <1>1 DEF Locate
<1>2. CASE HandleProtocol
  BY <1>2 DEF HandleProtocol
<1>3. CASE FreeHandles
  BY <1>3 DEF FreeHandles
<1>4. CASE Identify
  BY <1>4 DEF Identify
<1>5. CASE Disable
  BY <1>5 DEF Disable
<1>6. CASE EndDevice
  BY <1>6 DEF EndDevice
<1>7. CASE ReadBase
  BY <1>7 DEF ReadBase
<1>8. CASE Skip
  BY <1>8 DEF Skip
<1>9. CASE WriteOnes
  BY <1>9 DEF WriteOnes
<1>10. CASE ReadSize
  BY <1>10 DEF ReadSize
<1>11. CASE Restore
  BY <1>11 DEF Restore
<1>12. CASE Enable
  BY <1>12 DEF Enable
<1>13. CASE PrintBar
  BY <1>13 DEF PrintBar
<1>14. CASE Done \/ UNCHANGED vars
  BY <1>14 DEF Done, vars
<1> QED
  BY <1>1, <1>2, <1>3, <1>4, <1>5, <1>6, <1>7, <1>8, <1>9, <1>10, <1>11,
     <1>12, <1>13, <1>14 DEF Next

(* History only grows, and devices do not change. *)
LEMMA FailedGrows ==
  ASSUME [Next]_vars
  PROVE  failed \subseteq failed' /\ devs' = devs
<1> USE DEF hardware, locals, Fails
<1>1. CASE Locate
  BY <1>1 DEF Locate
<1>2. CASE HandleProtocol
  BY <1>2 DEF HandleProtocol
<1>3. CASE FreeHandles
  BY <1>3 DEF FreeHandles
<1>4. CASE Identify
  BY <1>4 DEF Identify
<1>5. CASE Disable
  BY <1>5 DEF Disable
<1>6. CASE EndDevice
  BY <1>6 DEF EndDevice
<1>7. CASE ReadBase
  BY <1>7 DEF ReadBase, ConfigRead
<1>8. CASE Skip
  BY <1>8 DEF Skip, RestoreCommand
<1>9. CASE WriteOnes
  BY <1>9 DEF WriteOnes, ConfigWrite
<1>10. CASE ReadSize
  BY <1>10 DEF ReadSize, ConfigRead
<1>11. CASE Restore
  BY <1>11 DEF Restore, ConfigWrite
<1>12. CASE Enable
  BY <1>12 DEF Enable, RestoreCommand
<1>13. CASE PrintBar
  BY <1>13 DEF PrintBar
<1>14. CASE Done \/ UNCHANGED vars
  BY <1>14 DEF Done, vars
<1> QED
  BY <1>1, <1>2, <1>3, <1>4, <1>5, <1>6, <1>7, <1>8, <1>9, <1>10, <1>11,
     <1>12, <1>13, <1>14 DEF Next

-----------------------------------------------------------------------------
(* Command registers *)

(* A lost write excuses as long as the loop passes nothing but BARs that   *)
(* could not be silenced. *)
LEMMA SilencedStays ==
  ASSUME NEW k, SilencedByFault(k), failed \subseteq failed',
         \A c \in Bars : Passed(k, c)' => Passed(k, c) \/ FailedAt(k, c, {"disable"})'
  PROVE  SilencedByFault(k)'
BY DEF SilencedByFault, FailedAt

(* Which BARs a step passes: all steps but the two that give the device its *)
(* command register back keep the excuse of a device that needs one. *)
LEMMA SilenceStep ==
  ASSUME IInv, [Next]_vars, NEW k \in Handles, SilencedByFault(k),
         cmd[k] # devs[k].command, ~(k = h /\ pc \in {"skip", "enable"})
  PROVE  SilencedByFault(k)'
<1>0. TypeOK /\ LoopInv /\ CommandInv /\ failed \subseteq failed' /\ NumBars \in Nat /\ Bars \subseteq Nat
      /\ NumHandles \in Nat
  BY FailedGrows, BarsAssumption, HandlesAssumption DEF IInv, Bars
<1>1. h \in Nat /\ k \in Nat /\ idx \in Nat
  BY <1>0 DEF TypeOK, Handles
<1>2. k < h \/ (k = h /\ pc \in DevicePcs)
  BY <1>0, <1>1 DEF CommandInv
<1> SUFFICES ASSUME NEW c \in Bars, Passed(k, c)'
             PROVE  Passed(k, c) \/ FailedAt(k, c, {"disable"})'
  BY <1>0, SilencedStays
<1>3. CASE k < h
  BY <1>3 DEF Passed
<1> SUFFICES ASSUME k = h, pc \in DevicePcs
             PROVE  Passed(k, c) \/ FailedAt(k, c, {"disable"})'
  BY <1>2, <1>3
<1> USE <1>0, <1>1 DEF DevicePcs, SilentPcs, SizingPcs, hardware, locals
<1>5. CASE Disable
  <2>1. CASE Fails(idx, "disable") /\ idx' = idx + 1 /\ UNCHANGED <<cmd, pc, bar>>
    <3>1. pc = "bars" /\ h' = h /\ c < idx + 1 /\ c \in Nat
      BY <1>5, <2>1 DEF Disable, Passed
    <3>2. CASE c = idx
      BY <2>1, <3>2 DEF Fails, FailedAt
    <3>3. CASE c # idx
      BY <3>1, <3>3 DEF Passed
    <3> QED
      BY <3>2, <3>3
  <2>2. CASE pc' = "base"
    BY <1>5, <2>2 DEF Disable, Passed
  <2> QED
    BY <1>5, <2>1, <2>2 DEF Disable
<1>6. CASE EndDevice
  BY <1>6 DEF EndDevice, Passed, Bars
<1>7. CASE ReadBase
  BY <1>7 DEF ReadBase, Passed
<1>9. CASE WriteOnes
  BY <1>9 DEF WriteOnes, Passed
<1>10. CASE ReadSize
  BY <1>10 DEF ReadSize, Passed
<1>11. CASE Restore
  BY <1>11 DEF Restore, Passed
<1>13. CASE PrintBar
  BY <1>13 DEF PrintBar, Passed
<1>14. CASE Done \/ UNCHANGED vars
  BY <1>14 DEF Done, vars, Passed
<1> QED
  BY <1>5, <1>6, <1>7, <1>9, <1>10, <1>11, <1>13, <1>14
     DEF Next, Locate, HandleProtocol, FreeHandles, Identify, Skip, Enable

(* A write just lost excuses: the loop is at its BAR, or at the upper half. *)
LEMMA JustSilenced ==
  ASSUME TypeOK, bar' = bar, h' = h, Fails(bar, "enable"),
         \/ pc' = "bars" /\ idx' = bar + 1
         \/ pc' = "print" /\ idx' \in bar .. bar + 1
  PROVE  SilencedByFault(h)'
<1>1. bar \in Bars /\ bar \in Nat /\ Bars \subseteq Nat
  BY BarsAssumption DEF TypeOK, Bars
<1>2. FailedAt(h, bar, {"enable"})'
  BY DEF Fails, FailedAt
<1>3. ASSUME NEW c \in Bars, c > bar + 1, Passed(h, c)'
      PROVE  FALSE
  <2>1. h \in Nat
    BY HandlesAssumption DEF TypeOK
  <2> QED
    BY <1>1, <1>3, <2>1 DEF Passed
<1> QED
  BY <1>1, <1>2, <1>3 DEF SilencedByFault

(* Every step keeps what the command registers hold. *)
LEMMA CommandStep ==
  ASSUME IInv, [Next]_vars
  PROVE  CommandInv'
<1>0. /\ TypeOK /\ LoopInv /\ CommandInv /\ devs' = devs
      /\ \A k \in Handles : SilencedByFault(k) =>
           \/ SilencedByFault(k)'
           \/ cmd[k] = devs[k].command
           \/ k = h /\ pc \in {"skip", "enable"}
  BY FailedGrows, SilenceStep DEF IInv
<1> USE DEF TypeOK, LoopInv, CommandInv, hardware, locals,
            DevicePcs, SilentPcs, SizingPcs, Handles
<1>1. CASE Locate
  BY <1>0, <1>1 DEF Locate
<1>2. CASE HandleProtocol
  BY <1>0, <1>2 DEF HandleProtocol
<1>3. CASE FreeHandles
  BY <1>0, <1>3 DEF FreeHandles
<1>4. CASE Identify
  BY <1>0, <1>4 DEF Identify
<1>5. CASE Disable
  <2>1. CASE /\ cmd' = [cmd EXCEPT ![h] = command \ ResponseBits]
             /\ pc' = "base"
    <3>1. /\ h \in Handles /\ h' = h /\ command' = devs[h].command
          /\ cmd'[h] = devs[h].command \ ResponseBits
          /\ \A k \in Handles \ {h} : cmd'[k] = cmd[k]
      BY <1>0, <1>5, <2>1 DEF Disable
    <3> QED
      BY <1>0, <2>1, <3>1
  <2>2. CASE UNCHANGED <<cmd, pc>>
    BY <1>0, <1>5, <2>2 DEF Disable
  <2> QED
    BY <1>5, <2>1, <2>2 DEF Disable
<1>6. CASE EndDevice
  BY <1>0, <1>6 DEF EndDevice
<1>7. CASE ReadBase
  BY <1>0, <1>7 DEF ReadBase
<1>8. CASE Skip
  <2>1. CASE Fails(bar, "enable") /\ UNCHANGED cmd
    <3>1. SilencedByFault(h)'
      BY <1>0, <1>8, <2>1, JustSilenced DEF Skip
    <3> QED
      BY <1>0, <1>8, <2>1, <3>1 DEF Skip
  <2>2. CASE cmd' = [cmd EXCEPT ![h] = command] /\ UNCHANGED failed
    BY <1>0, <1>8, <2>2 DEF Skip
  <2> QED
    BY <1>8, <2>1, <2>2 DEF Skip, RestoreCommand
<1>9. CASE WriteOnes
  BY <1>0, <1>9 DEF WriteOnes
<1>10. CASE ReadSize
  BY <1>0, <1>10 DEF ReadSize
<1>11. CASE Restore
  BY <1>0, <1>11 DEF Restore
<1>12. CASE Enable
  <2>1. CASE Fails(bar, "enable") /\ UNCHANGED cmd
    <3>1. SilencedByFault(h)'
      BY <1>0, <1>12, <2>1, JustSilenced DEF Enable
    <3> QED
      BY <1>0, <1>12, <2>1, <3>1 DEF Enable
  <2>2. CASE cmd' = [cmd EXCEPT ![h] = command] /\ UNCHANGED failed
    BY <1>0, <1>12, <2>2 DEF Enable
  <2> QED
    BY <1>12, <2>1, <2>2 DEF Enable, RestoreCommand
<1>13. CASE PrintBar
  BY <1>0, <1>13 DEF PrintBar
<1>14. CASE Done \/ UNCHANGED vars
  BY <1>0, <1>14 DEF Done, vars
<1> QED
  BY <1>1, <1>2, <1>3, <1>4, <1>5, <1>6, <1>7, <1>8, <1>9, <1>10, <1>11,
     <1>12, <1>13, <1>14 DEF Next

-----------------------------------------------------------------------------
(* Base address registers *)

(* A failure that touched a register stays on record. *)
LEMMA UntouchableStays ==
  ASSUME [Next]_vars, NEW k, NEW r, Untouchable(k, r)
  PROVE  Untouchable(k, r)'
BY FailedGrows DEF Untouchable, FailedAt

(* A failed access to the dword being sized is on record for it. *)
LEMMA FailureTouches ==
  ASSUME TypeOK, NEW c \in {"read", "write"}, Fails(bar, c)
  PROVE  Untouchable(h, bar + half)'  \/ h' # h \/ bar' # bar \/ half' # half
<1>1. bar + half = bar \/ (bar + half) - 1 = bar
  BY BarsAssumption DEF TypeOK, Bars
<1>2. <<h, bar, c>> \in failed'
  BY DEF Fails
<1> QED
  BY <1>1, <1>2 DEF Untouchable, FailedAt

(* The base address read is the assigned one, or a failure is on record. *)
LEMMA BaseStep ==
  ASSUME IInv, [Next]_vars
  PROVE  BaseInv'
<1>0. TypeOK /\ BaseInv /\ devs' = devs
  BY FailedGrows DEF IInv
<1>1. CASE ReadBase
  <2> SUFFICES ASSUME pc' = "ones"
               PROVE  \/ base_addr' = Reset(devs[h].slots[bar + half])
                      \/ Untouchable(h, bar + half)'
    BY <1>0, <1>1 DEF ReadBase, BaseInv
  <2>1. h \in Handles /\ bar + half \in Regs
    BY <1>0, <1>1, TargetExists DEF ReadBase, IInv, LoopInv, DevicePcs, SilentPcs, SizingPcs
  <2>2. Original(h, bar + half) \/ Untouchable(h, bar + half)
    BY <1>1, <2>1 DEF IInv, AddressesRestored, ReadBase
  <2>3. CASE base_addr' = reg[h][bar + half]
    BY <2>2, <2>3, UntouchableStays, <1>1 DEF Original, ReadBase
  <2>4. CASE Fails(bar, "read")
    BY <1>0, <1>1, <2>4, FailureTouches DEF ReadBase
  <2> QED
    BY <1>1, <2>3, <2>4 DEF ReadBase, ConfigRead
<1>2. CASE WriteOnes \/ ReadSize
  <2>1. /\ pc \in {"ones", "size", "restore"}
        /\ UNCHANGED <<h, bar, half, base_addr>>
    BY <1>2 DEF WriteOnes, ReadSize, locals
  <2> QED
    BY <1>0, <2>1, UntouchableStays DEF BaseInv
<1>3. CASE Done \/ UNCHANGED vars
  <2>1. UNCHANGED vars
    BY <1>3 DEF Done
  <2> QED
    BY <1>0, <2>1 DEF BaseInv, Untouchable, FailedAt, vars
<1>4. CASE \/ Locate \/ HandleProtocol \/ FreeHandles \/ Identify \/ Disable \/ EndDevice
           \/ Skip \/ Restore \/ Enable \/ PrintBar
  <2>1. pc' \notin {"ones", "size", "restore"}
    BY <1>4 DEF Locate, HandleProtocol, FreeHandles, Identify, Disable, EndDevice,
                Skip, Restore, Enable, PrintBar
  <2> QED
    BY <2>1 DEF BaseInv
<1> QED
  BY <1>1, <1>2, <1>3, <1>4 DEF Next

(* Outside its own sizing every register has its address: only WriteOnes   *)
(* and Restore write one, and Restore writes back what ReadBase read. *)
LEMMA RestoredStep ==
  ASSUME IInv, [Next]_vars
  PROVE  AddressesRestored'
<1>0. TypeOK /\ LoopInv /\ BaseInv /\ AddressesRestored /\ devs' = devs
  BY FailedGrows DEF IInv
<1> SUFFICES ASSUME NEW k \in Handles, NEW r \in Regs
             PROVE  \/ Original(k, r)'
                    \/ Untouchable(k, r)'
                    \/ k = h' /\ r = bar' + half' /\ pc' \in {"size", "restore"}
  BY DEF AddressesRestored
<1>a. \/ Original(k, r)
      \/ Untouchable(k, r)'
      \/ k = h /\ r = bar + half /\ pc \in {"size", "restore"}
  BY <1>0, UntouchableStays DEF AddressesRestored
<1>1. CASE WriteOnes
  <2>1. CASE k = h /\ r = bar + half
    BY <1>1, <2>1 DEF WriteOnes, locals
  <2>2. CASE ~(k = h /\ r = bar + half)
    <3>1. reg'[k][r] = reg[k][r]
      BY <1>0, <1>1, <2>2 DEF WriteOnes, ConfigWrite, TypeOK
    <3> QED
      BY <1>0, <1>1, <1>a, <2>2, <3>1 DEF Original, WriteOnes
  <2> QED
    BY <2>1, <2>2
<1>2. CASE Restore
  <2>1. CASE k = h /\ r = bar + half
    <3>1. CASE Fails(bar, "write")
      <4>1. <<h, bar, "write">> \in failed'
        BY <3>1 DEF Fails
      <4>2. r = bar \/ r - 1 = bar
        BY <1>0, <2>1, BarsAssumption DEF TypeOK, Bars
      <4> QED
        BY <2>1, <4>1, <4>2 DEF Untouchable, FailedAt
    <3>2. CASE reg' = [reg EXCEPT ![h][bar + half] =
                         Latch(devs[h].slots[bar + half], base_addr)]
      <4>1. reg'[k][r] = Latch(devs[k].slots[r], base_addr)
        BY <1>0, <2>1, <3>2 DEF TypeOK
      <4>2. CASE base_addr = Reset(devs[h].slots[bar + half])
        BY <1>0, <2>1, <4>1, <4>2, LatchRestores DEF Original, TypeOK
      <4>3. CASE Untouchable(h, bar + half)
        BY <2>1, <4>3, UntouchableStays
      <4> QED
        BY <1>0, <1>2, <4>2, <4>3 DEF BaseInv, Restore
    <3> QED
      BY <1>2, <3>1, <3>2 DEF Restore, ConfigWrite
  <2>2. CASE ~(k = h /\ r = bar + half)
    <3>1. reg'[k][r] = reg[k][r]
      BY <1>0, <1>2, <2>2 DEF Restore, ConfigWrite, TypeOK
    <3> QED
      BY <1>0, <1>a, <2>2, <3>1 DEF Original
  <2> QED
    BY <2>1, <2>2
<1>3. CASE ReadSize
  BY <1>0, <1>a, <1>3 DEF ReadSize, Original, hardware
<1>4. CASE \/ Locate \/ HandleProtocol \/ FreeHandles \/ Identify \/ Disable \/ EndDevice
           \/ ReadBase \/ Skip \/ Enable \/ PrintBar
  <2>1. reg' = reg /\ pc \notin {"size", "restore"}
    BY <1>4 DEF Locate, HandleProtocol, FreeHandles, Identify, Disable, EndDevice,
                ReadBase, Skip, Enable, PrintBar, hardware
  <2> QED
    BY <1>0, <1>a, <2>1 DEF Original
<1>5. CASE Done \/ UNCHANGED vars
  BY <1>0, <1>a, <1>5 DEF Done, Original, vars
<1> QED
  BY <1>1, <1>2, <1>3, <1>4, <1>5 DEF Next

-----------------------------------------------------------------------------
(* What the probe knows of a BAR *)

(* A write touches one register only. *)
LEMMA OthersKept ==
  ASSUME TypeOK, NEW k \in Handles, NEW r \in Regs, NEW v, ConfigWrite(bar + half, v),
         ~(k = h /\ r = bar + half)
  PROVE  reg'[k][r] = reg[k][r]
BY DEF ConfigWrite, TypeOK

(* The registers ahead of the sizing have not been written. *)
LEMMA AheadStep ==
  ASSUME IInv, AheadInv, [Next]_vars
  PROVE  AheadInv'
<1>0. TypeOK /\ LoopInv /\ devs' = devs
  BY FailedGrows DEF IInv
<1> SUFFICES ASSUME NEW k \in Handles, NEW r \in Regs, k > h' \/ (k = h' /\ Ahead(r)')
             PROVE  Original(k, r)'
  BY DEF AheadInv
<1>a. h \in 0 .. NumHandles /\ idx \in 0 .. NumBars + 1 /\ bar \in Nat /\ half \in 0 .. 1
  BY <1>0, BarsAssumption DEF TypeOK, Bars
<1>b. k > h \/ (k = h /\ Ahead(r)) => Original(k, r)
  BY DEF AheadInv
<1> USE DEF Handles, Regs
<1>1. CASE WriteOnes
  <2>1. k > h \/ (k = h /\ r > bar + half)
    BY <1>1 DEF WriteOnes, Ahead, locals
  <2>2. Original(k, r)
    BY <1>1, <1>a, <1>b, <2>1 DEF WriteOnes, Ahead, SizingPcs
  <2>3. reg'[k][r] = reg[k][r]
    <3>1. ~(k = h /\ r = bar + half)
      BY <1>a, <2>1
    <3> QED
      BY <1>0, <1>1, <3>1, OthersKept DEF WriteOnes
  <2> QED
    BY <1>0, <2>2, <2>3 DEF Original
<1>2. CASE Restore
  <2>0. pc = "restore" /\ h' = h /\ bar' = bar
    BY <1>2 DEF Restore
  <2>1. k > h \/ (k = h /\ r > bar + half)
    <3>1. CASE half' = 1 /\ pc' = "base" /\ half = 0
      BY <1>a, <2>0, <3>1 DEF Ahead, SizingPcs
    <3>2. CASE pc' = "enable" /\ idx' = idx + half
      <4>1. idx = bar
        BY <1>0, <2>0 DEF LoopInv, SizingPcs
      <4> QED
        BY <1>a, <2>0, <3>2, <4>1 DEF Ahead, SizingPcs
    <3> QED
      BY <1>2, <3>1, <3>2 DEF Restore
  <2>2. Original(k, r)
    BY <1>a, <1>b, <2>0, <2>1 DEF Ahead
  <2>3. reg'[k][r] = reg[k][r]
    <3>1. ~(k = h /\ r = bar + half)
      BY <1>a, <2>1
    <3> QED
      BY <1>0, <1>2, <3>1, OthersKept DEF Restore
  <2> QED
    BY <1>0, <2>2, <2>3 DEF Original
<1>3. CASE Disable
  <2>1. half = 0
    BY <1>0, <1>3, <1>a DEF Disable, LoopInv, SizingPcs
  <2>2. k > h \/ (k = h /\ Ahead(r))
    BY <1>3, <1>a, <2>1 DEF Disable, Ahead, SizingPcs
  <2> QED
    BY <1>0, <1>3, <1>b, <2>2 DEF Disable, Original
<1>4. CASE ReadBase
  <2>1. k > h \/ (k = h /\ Ahead(r))
    BY <1>4, <1>a DEF ReadBase, Ahead, SizingPcs
  <2> QED
    BY <1>0, <1>4, <1>b, <2>1 DEF ReadBase, Original, hardware
<1>5. CASE Skip
  <2>1. half = 0 /\ idx = bar
    BY <1>0, <1>5, <1>a DEF Skip, LoopInv, SizingPcs
  <2>2. k > h \/ (k = h /\ Ahead(r))
    BY <1>5, <1>a, <2>1 DEF Skip, Ahead, SizingPcs, locals
  <2> QED
    BY <1>0, <1>5, <1>b, <2>2 DEF Skip, Original
<1>6. CASE ReadSize \/ Enable \/ PrintBar
  <2>1. k > h \/ (k = h /\ Ahead(r))
    BY <1>6, <1>a DEF ReadSize, Enable, PrintBar, Ahead, SizingPcs, locals
  <2> QED
    BY <1>0, <1>6, <1>b, <2>1 DEF ReadSize, Enable, PrintBar, Original, hardware
<1>7. CASE Locate \/ HandleProtocol \/ FreeHandles \/ Identify \/ EndDevice
  <2>1. k > h \/ (k = h /\ Ahead(r))
    <3>1. CASE h' = h + 1
      BY <1>a, <3>1
    <3>2. CASE h' = h /\ idx' = idx
      BY <1>7, <1>a, <3>2 DEF Locate, HandleProtocol, FreeHandles, Identify, EndDevice, Ahead, SizingPcs
    <3> QED
      BY <1>7, <3>1, <3>2 DEF Locate, HandleProtocol, FreeHandles, Identify, EndDevice
  <2> QED
    BY <1>0, <1>7, <1>b, <2>1
       DEF Locate, HandleProtocol, FreeHandles, Identify, EndDevice, Original, hardware
<1>8. CASE Done \/ UNCHANGED vars
  BY <1>b, <1>8 DEF Done, Original, Ahead, vars
<1> QED
  BY <1>1, <1>2, <1>3, <1>4, <1>5, <1>6, <1>7, <1>8 DEF Next

(* A BAR whose accesses have not failed had none fail before. *)
LEMMA CleanBefore ==
  ASSUME [Next]_vars, h' = h, bar' = bar, Clean'
  PROVE  Clean
BY FailedGrows DEF Clean, FailedAt

(* A failed access to the BAR being sized is on record for it. *)
LEMMA AccessFailed ==
  ASSUME NEW c \in {"read", "write"}, Fails(bar, c), h' = h, bar' = bar
  PROVE  ~Clean'
BY DEF Fails, Clean, FailedAt

(* What the registers of a BAR tell depends on the device and the BAR only. *)
LEMMA DecodedSame ==
  ASSUME devs' = devs, h' = h, bar' = bar
  PROVE  /\ Lower' = Lower /\ Whole' = Whole
         /\ \A r : Base(r)' = Base(r) /\ Mask(r)' = Mask(r)
BY DEF Lower, Whole, Base, Mask, Reset, Latch

(* Reading the base address: untouched, the register has the assigned one. *)
LEMMA SizingReadBase ==
  ASSUME IInv, AheadInv, Clean, SizingAt, ReadBase, devs' = devs, Clean'
  PROVE  SizingAt'
<1>1. pc = "base" /\ h' = h /\ bar' = bar /\ half' = half /\ half \in 0 .. 1 /\ bar \in Nat
  BY BarsAssumption DEF ReadBase, IInv, TypeOK, Bars
<1>2. h \in Handles /\ bar + half \in Regs
  BY <1>1, TargetExists DEF IInv, LoopInv, DevicePcs, SilentPcs, SizingPcs
<1>3. Original(h, bar + half)
  BY <1>1, <1>2 DEF AheadInv, Ahead, SizingPcs
<1>4. base_addr' = Base(bar + half)
  <2>1. base_addr' = reg[h][bar + half]
    BY <1>1, AccessFailed DEF ReadBase, ConfigRead
  <2> QED
    BY <1>3, <2>1 DEF Original, Base
<1>5. Lower' = Lower /\ \A r : Base(r)' = Base(r)
  BY <1>1, DecodedSame
<1>6. pc' = (IF half = 0 /\ base_addr' = 0 THEN "skip" ELSE "ones") /\ (half = 1 => entry' = entry)
  BY DEF ReadBase
<1>7. half = 0 => bar + half = bar
  BY <1>1
<1> QED
  BY <1>1, <1>4, <1>5, <1>6, <1>7 DEF SizingAt

(* Restoring the base address: the entry is decoded from the locals. *)
LEMMA SizingRestore ==
  ASSUME IInv, Clean, SizingAt, Restore, devs' = devs
  PROVE  SizingAt'
<1>1. pc = "restore" /\ h' = h /\ bar' = bar /\ half \in 0 .. 1 /\ idx = bar /\ bar \in Nat
  BY BarsAssumption DEF Restore, IInv, TypeOK, LoopInv, SizingPcs, Bars
<1>2. Lower' = Lower /\ Whole' = Whole /\ Base(bar)' = Base(bar)
  BY <1>1, DecodedSame
<1>3. Base(bar) # 0 /\ base_addr = Base(bar + half) /\ size = Mask(bar + half)
  BY <1>1 DEF SizingAt
<1>4. CASE half = 0
  <2>1. Decoded = Lower
    <3>1. base_addr = Base(bar) /\ size = Mask(bar)
      BY <1>1, <1>3, <1>4
    <3> QED
      BY <1>4, <3>1 DEF Decoded, Lower
  <2>2. CASE Lower.is_64bit
    <3>1. entry' = Lower /\ half' = 1 /\ pc' = "base"
      BY <1>4, <2>1, <2>2 DEF Restore
    <3> QED
      BY <1>2, <1>3, <2>2, <3>1 DEF SizingAt
  <2>3. CASE ~Lower.is_64bit
    <3>1. entry' = Rounded(Lower) /\ half' = 0 /\ pc' = "enable" /\ idx' = bar
      BY <1>1, <1>4, <2>1, <2>3 DEF Restore
    <3>2. Whole = Lower
      BY <2>3 DEF Whole
    <3>3. bar = bar + 0
      BY <1>1
    <3>4. Rounded(Whole)' = Rounded(Whole)
      BY <1>2 DEF Rounded
    <3> QED
      BY <1>1, <1>2, <1>3, <2>3, <3>1, <3>2, <3>3, <3>4 DEF SizingAt
  <2> QED
    BY <2>2, <2>3
<1>5. CASE half = 1
  <2>1. entry = Lower /\ Lower.is_64bit
    BY <1>5 DEF SizingAt
  <2>2. Decoded = Whole
    BY <1>3, <1>5, <2>1 DEF Decoded, Whole
  <2>3. entry' = Rounded(Whole) /\ half' = 0 /\ pc' = "enable" /\ idx' = bar + 1
    BY <1>1, <1>5, <2>2 DEF Restore
  <2>4. Rounded(Whole)' = Rounded(Whole)
    BY <1>2 DEF Rounded
  <2> QED
    BY <1>1, <1>2, <1>3, <2>1, <2>3, <2>4 DEF SizingAt
<1> QED
  BY <1>1, <1>4, <1>5

(* Unless an access fails, the locals hold what the device is made of. *)
LEMMA SizingStep ==
  ASSUME IInv, AheadInv, SizingInv, [Next]_vars
  PROVE  SizingInv'
<1>0. TypeOK /\ LoopInv /\ devs' = devs
  BY FailedGrows DEF IInv
<1>a. (pc \in DevicePcs => devs[h].normal) /\ (Clean => SizingAt)
  BY DEF SizingInv
<1>b. SUFFICES (pc' \in DevicePcs => devs[h'].normal) /\ (Clean' => SizingAt')
  BY <1>0 DEF SizingInv
<1>c. half # 1 \/ pc \in SizingPcs
  BY <1>0 DEF LoopInv
<1> USE DEF DevicePcs, SilentPcs, SizingPcs
<1>1. CASE \/ Locate \/ HandleProtocol \/ FreeHandles \/ Identify \/ Disable \/ EndDevice
           \/ Skip \/ PrintBar
  <2>1. /\ pc' \in {"locate", "open", "identify", "bars", "base", "done"}
        /\ half' # 1 /\ (pc' \in DevicePcs => devs[h'].normal)
    BY <1>1, <1>a, <1>c DEF Locate, HandleProtocol, FreeHandles, Identify, Disable, EndDevice,
                Skip, PrintBar, locals
  <2> QED
    BY <2>1 DEF SizingAt
<1>2. CASE ReadBase
  <2>1. pc = "base" /\ h' = h /\ bar' = bar
    BY <1>2 DEF ReadBase
  <2> QED
    BY <1>0, <1>2, <1>a, <2>1, CleanBefore, SizingReadBase
<1>3. CASE WriteOnes
  <2>1. /\ pc = "ones" /\ pc' = "size"
        /\ UNCHANGED <<h, bar, half, base_addr, entry>>
    BY <1>3 DEF WriteOnes, locals
  <2>2. ASSUME Clean' PROVE SizingAt'
    <3>1. SizingAt
      BY <1>a, <2>1, <2>2, CleanBefore
    <3>2. reg' = [reg EXCEPT ![h][bar + half] = Latch(devs[h].slots[bar + half], WORD - 1)]
      BY <1>3, <2>1, <2>2, AccessFailed DEF WriteOnes, ConfigWrite
    <3>3. h \in Handles /\ bar + half \in Regs
      BY <1>0, <2>1, TargetExists DEF LoopInv
    <3>4. reg'[h][bar + half] = Mask(bar + half)
      BY <1>0, <3>2, <3>3 DEF TypeOK, Mask
    <3>5. Lower' = Lower /\ \A r : Base(r)' = Base(r) /\ Mask(r)' = Mask(r)
      BY <1>0, <2>1, DecodedSame
    <3> QED
      BY <2>1, <3>1, <3>4, <3>5 DEF SizingAt
  <2> QED
    BY <1>0, <1>a, <2>1, <2>2
<1>4. CASE ReadSize
  <2>1. /\ pc = "size" /\ pc' = "restore"
        /\ UNCHANGED <<h, bar, half, base_addr, entry, reg>>
    BY <1>4 DEF ReadSize, hardware
  <2>2. ASSUME Clean' PROVE SizingAt'
    <3>1. SizingAt
      BY <1>a, <2>1, <2>2, CleanBefore
    <3>2. size' = reg[h][bar + half]
      BY <1>4, <2>1, <2>2, AccessFailed DEF ReadSize, ConfigRead
    <3>3. Lower' = Lower /\ \A r : Base(r)' = Base(r) /\ Mask(r)' = Mask(r)
      BY <1>0, <2>1, DecodedSame
    <3> QED
      BY <2>1, <3>1, <3>2, <3>3 DEF SizingAt
  <2> QED
    BY <1>0, <1>a, <2>1, <2>2
<1>5. CASE Restore
  <2>1. pc = "restore" /\ h' = h /\ bar' = bar
    BY <1>5 DEF Restore
  <2> QED
    BY <1>0, <1>5, <1>a, <2>1, CleanBefore, SizingRestore
<1>6. CASE Enable
  <2>1. /\ pc = "enable" /\ pc' = "print"
        /\ UNCHANGED <<h, bar, half, idx, entry>>
    BY <1>6 DEF Enable, locals
  <2>2. ASSUME Clean' PROVE SizingAt'
    <3>1. SizingAt
      BY <1>a, <2>1, <2>2, CleanBefore
    <3>2. Lower' = Lower /\ Whole' = Whole /\ \A r : Base(r)' = Base(r)
      BY <1>0, <2>1, DecodedSame
    <3>3. Rounded(Whole)' = Rounded(Whole)
      BY <3>2 DEF Rounded
    <3> QED
      BY <1>c, <2>1, <3>1, <3>2, <3>3 DEF SizingAt
  <2> QED
    BY <1>0, <1>a, <2>1, <2>2
<1>7. CASE Done \/ UNCHANGED vars
  <2>1. UNCHANGED vars
    BY <1>7 DEF Done
  <2>2. UNCHANGED <<pc, h, bar, half, base_addr, size, idx, entry, reg>>
    BY <2>1 DEF vars
  <2>3. Lower' = Lower /\ Whole' = Whole /\ \A r : Base(r)' = Base(r) /\ Mask(r)' = Mask(r)
    BY <1>0, <2>2, DecodedSame
  <2>4. Rounded(Whole)' = Rounded(Whole)
    BY <2>3 DEF Rounded
  <2>5. Clean' => Clean
    BY <2>2, CleanBefore
  <2> QED
    BY <1>0, <1>a, <2>2, <2>3, <2>4, <2>5 DEF SizingAt
<1> QED
  BY <1>1, <1>2, <1>3, <1>4, <1>5, <1>6, <1>7 DEF Next

(* The record of failures only grows. *)
LEMMA StumbledStays ==
  ASSUME [Next]_vars
  PROVE  \A k, b : Stumbled(k, b) => Stumbled(k, b)'
BY FailedGrows DEF Stumbled, FailedAt

(* A failure below is a failure further below, too. *)
LEMMA StumbledAbove ==
  ASSUME NEW k, NEW a \in Nat, NEW b \in Nat, a <= b, Stumbled(k, a)
  PROVE  Stumbled(k, b)
BY DEF Stumbled

(* The kinds of two neighbouring dwords of a device. *)
LEMMA Neighbours ==
  ASSUME TypeOK, h \in Handles, NEW b \in Bars
  PROVE  /\ devs[h] \in Devices /\ b \in Regs /\ b + 1 \in Regs
         /\ devs[h].slots[b].kind = "mem64" <=> devs[h].slots[b + 1].kind = "upper"
         /\ devs[h].slots[b].kind = "mem64" => Reset(devs[h].slots[b]) # 0
         /\ devs[h].slots[0].kind # "upper"
<1>1. devs[h] \in Devices /\ b \in Regs /\ b + 1 \in Regs
  BY BarsAssumption DEF TypeOK, Bars, Regs
<1>2. /\ devs[h].slots[b].kind = "mem64" <=> devs[h].slots[b + 1].kind = "upper"
      /\ devs[h].slots[0].kind # "upper"
  BY <1>1, DevicesAssumption DEF WellFormed
<1>3. devs[h].slots[b].kind = "mem64" => Reset(devs[h].slots[b]) # 0
  BY <1>1, DecodeMem
<1> QED
  BY <1>1, <1>2, <1>3

(* What printing knows: the BAR is decoded right, or a call has failed. *)
LEMMA AtPrint ==
  ASSUME IInv, SizingInv, UpperInv, pc = "print", Clean
  PROVE  /\ devs[h] \in Devices /\ bar \in Bars /\ h \in Handles
         /\ Base(bar) # 0 /\ entry = Rounded(WholeOf(devs[h], bar))
         /\ idx = bar + IF LowerOf(devs[h], bar).is_64bit THEN 1 ELSE 0
         /\ devs[h].slots[bar].kind = "upper" => Stumbled(h, bar - 1)
<1>1. h \in Handles /\ bar \in Bars /\ devs[h] \in Devices
  BY DEF IInv, TypeOK, LoopInv, DevicePcs
<1>2. Base(bar) # 0 /\ entry = Rounded(Whole) /\ idx = bar + IF Lower.is_64bit THEN 1 ELSE 0
  BY DEF SizingInv, SizingAt
<1>3. Lower = LowerOf(devs[h], bar) /\ Whole = WholeOf(devs[h], bar)
  BY DEF Lower, LowerOf, Whole, WholeOf, Base, Mask
<1>4. devs[h].slots[bar].kind = "upper" => Stumbled(h, bar - 1)
  BY <1>1 DEF UpperInv, AtBar, DevicePcs
<1> QED
  BY <1>1, <1>2, <1>3, <1>4

(* If nothing failed, the next BAR is not an upper half. *)
LEMMA NextUpper ==
  ASSUME IInv, SizingInv, UpperInv, pc \in {"skip", "print"},
         idx + 1 \in Bars, devs[h].slots[idx + 1].kind = "upper"
  PROVE  Stumbled(h, idx)
<1>1. h \in Handles /\ bar \in Bars /\ bar \in Nat /\ idx \in bar .. bar + 1 /\ idx \in Bars
  BY BarsAssumption DEF IInv, TypeOK, LoopInv, DevicePcs, SilentPcs, SizingPcs, Bars
<1>2. devs[h].slots[idx].kind = "mem64" /\ Reset(devs[h].slots[idx]) # 0
  BY <1>1, Neighbours DEF IInv
<1>3. CASE ~Clean
  BY <1>1, <1>3 DEF Clean, Stumbled, FailedAt
<1>4. CASE Clean /\ pc = "skip"
  <2>1. Base(bar) = 0 /\ idx = bar
    BY <1>4 DEF SizingInv, SizingAt, IInv, LoopInv
  <2> QED
    BY <1>2, <2>1 DEF Base
<1>5. CASE Clean /\ pc = "print"
  <2>1. /\ devs[h] \in Devices /\ Reset(devs[h].slots[bar]) # 0
        /\ idx = bar + IF LowerOf(devs[h], bar).is_64bit THEN 1 ELSE 0
        /\ devs[h].slots[bar].kind = "upper" => Stumbled(h, bar - 1)
    BY <1>5, AtPrint DEF Base
  <2>2. CASE devs[h].slots[bar].kind = "upper"
    <3>1. Stumbled(h, bar - 1) /\ bar # 0
      BY <1>1, <2>1, <2>2, Neighbours DEF IInv
    <3> QED
      BY <1>1, <3>1, StumbledAbove
  <2>3. CASE devs[h].slots[bar].kind # "upper"
    <3>1. LowerOf(devs[h], bar).is_64bit <=> devs[h].slots[bar].kind = "mem64"
      BY <1>1, <2>1, <2>3, DecodeAll
    <3>2. devs[h].slots[bar].kind = "mem64" <=> devs[h].slots[bar + 1].kind = "upper"
      BY <1>1, Neighbours DEF IInv
    <3>3. CASE idx = bar
      BY <1>1, <1>2, <2>1, <3>1, <3>3
    <3>4. CASE idx = bar + 1
      BY <1>1, <1>2, <2>1, <3>1, <3>2, <3>4
    <3> QED
      BY <1>1, <3>3, <3>4
  <2> QED
    BY <2>2, <2>3
<1> QED
  BY <1>3, <1>4, <1>5

(* The loop comes to an upper half only after a failure. *)
LEMMA UpperStep ==
  ASSUME IInv, SizingInv, UpperInv, [Next]_vars
  PROVE  UpperInv'
<1>0. /\ TypeOK /\ LoopInv /\ devs' = devs
      /\ \A k, b : Stumbled(k, b) => Stumbled(k, b)'
  BY FailedGrows, StumbledStays DEF IInv
<1> SUFFICES ASSUME NEW k, NEW b, k = h', b = AtBar',
                    pc' \in DevicePcs, b \in Bars, devs'[k].slots[b].kind = "upper"
             PROVE  Stumbled(k, b - 1)'
  BY DEF UpperInv, Bars
<1> USE DEF DevicePcs, SilentPcs, SizingPcs
<1>1. CASE Locate \/ HandleProtocol \/ FreeHandles \/ EndDevice
  BY <1>1 DEF Locate, HandleProtocol, FreeHandles, EndDevice
<1>2. CASE Identify
  <2>1. AtBar' = 0 /\ h' = h /\ h \in Handles
    BY <1>0, <1>2 DEF Identify, AtBar, LoopInv
  <2>2. 0 \in Bars
    BY BarsAssumption DEF Bars
  <2> QED
    BY <1>0, <2>1, <2>2, Neighbours
<1>3. CASE Disable
  <2>1. CASE pc' = "base" /\ bar' = idx
    BY <1>0, <1>3, <2>1 DEF Disable, AtBar, UpperInv
  <2>2. CASE Fails(idx, "disable") /\ idx' = idx + 1 /\ UNCHANGED <<cmd, pc, bar>>
    <3>1. idx \in Nat
      BY <1>0, BarsAssumption DEF TypeOK
    <3>2. b = idx + 1 /\ k = h
      BY <1>3, <2>2 DEF Disable, AtBar
    <3>3. <<k, idx, "disable">> \in failed'
      BY <2>2, <3>2 DEF Fails
    <3>4. b - 1 = idx /\ idx \in 0 .. b - 1
      BY <3>1, <3>2
    <3> QED
      BY <3>3, <3>4 DEF Stumbled, FailedAt
  <2> QED
    BY <1>3, <2>1, <2>2 DEF Disable
<1>4. CASE Skip \/ PrintBar
  <2>1. pc \in {"skip", "print"} /\ AtBar' = idx + 1 /\ h' = h /\ idx \in Nat
    BY <1>0, <1>4, BarsAssumption DEF Skip, PrintBar, AtBar, TypeOK
  <2>2. Stumbled(h, idx)
    BY <1>0, <2>1, NextUpper
  <2> QED
    BY <1>0, <2>1, <2>2
<1>5. CASE ReadBase \/ WriteOnes \/ ReadSize \/ Restore \/ Enable
  <2>1. /\ pc \in DevicePcs /\ AtBar' = AtBar /\ h' = h
    BY <1>5 DEF ReadBase, WriteOnes, ReadSize, Restore, Enable, AtBar, locals
  <2> QED
    BY <1>0, <2>1 DEF UpperInv
<1>6. CASE Done \/ UNCHANGED vars
  <2>1. UNCHANGED vars
    BY <1>6 DEF Done
  <2>2. pc' = pc /\ h' = h /\ AtBar' = AtBar
    BY <2>1 DEF vars, AtBar
  <2> QED
    BY <1>0, <2>2 DEF UpperInv
<1> QED
  BY <1>1, <1>2, <1>3, <1>4, <1>5, <1>6 DEF Next

-----------------------------------------------------------------------------
(* The report *)

(* The printing step, as one entry more or none. *)
LEMMA PrintFacts ==
  ASSUME IInv, PrintBar
  PROVE  /\ \/ report' = report /\ entry.size = 0
            \/ /\ entry.size > 0 /\ Len(report) \in Nat
               /\ DOMAIN report' = 1 .. Len(report) + 1 /\ DOMAIN report = 1 .. Len(report)
               /\ \A n \in DOMAIN report : report'[n] = report[n]
               /\ report'[Len(report) + 1] = PrintedLine
         /\ entry.size \in Nat
<1> DEFINE Lines == [handle : Handles, bar : Bars, memory : BOOLEAN,
                     is_64bit : BOOLEAN, prefetchable : BOOLEAN,
                     addr : Nat, size : Nat]
<1>1. report \in Seq(Lines) /\ entry.size \in Nat
  BY DEF IInv, TypeOK
<1>2. report' = IF entry.size > 0 THEN Append(report, PrintedLine) ELSE report
  BY DEF PrintBar
<1> HIDE DEF Lines
<1>3. CASE entry.size > 0
  <2>1. report' = Append(report, PrintedLine)
    BY <1>2, <1>3
  <2>2. /\ Len(report) \in Nat /\ DOMAIN report = 1 .. Len(report)
        /\ DOMAIN Append(report, PrintedLine) = 1 .. Len(report) + 1
        /\ \A n \in 1 .. Len(report) : Append(report, PrintedLine)[n] = report[n]
        /\ Append(report, PrintedLine)[Len(report) + 1] = PrintedLine
    BY <1>1
  <2> QED
    BY <1>1, <1>3, <2>1, <2>2
<1>4. CASE ~(entry.size > 0)
  <2>1. entry.size = 0
    BY <1>1, <1>4
  <2> QED
    BY <1>1, <1>2, <1>4, <2>1
<1> QED
  BY <1>3, <1>4

(* Only printing changes the report. *)
LEMMA ReportSame ==
  ASSUME [Next]_vars, ~PrintBar
  PROVE  report' = report
BY DEF Next, Locate, HandleProtocol, FreeHandles, Identify, Disable, EndDevice, ReadBase, Skip,
       WriteOnes, ReadSize, Restore, Enable, Done, vars

(* The parts of the line that is printed. *)
LEMMA LineParts ==
  ASSUME NEW d, NEW k, NEW b, NEW e,
         e = EntryOf(k, b, d)
  PROVE  [handle |-> k, bar |-> b, memory |-> e.memory, is_64bit |-> e.is_64bit,
          prefetchable |-> e.prefetchable, addr |-> e.addr, size |-> e.size] =
         Promise!Line(k, b, d)
BY DEF EntryOf, Promise!Line

(* An entry printed without a failure is a true line. *)
LEMMA TrueLine ==
  ASSUME IInv, SizingInv, UpperInv, pc = "print", entry.size > 0
  PROVE  \/ /\ Promise!Assigned(devs[h].slots[bar])
            /\ PrintedLine = Promise!Line(h, bar, devs[h])
         \/ FailedAt(h, bar, {"read", "write"})
         \/ devs[h].slots[bar].kind = "upper" /\ Stumbled(h, bar - 1)
<1> SUFFICES ASSUME Clean, devs[h].slots[bar].kind # "upper"
             PROVE  /\ Promise!Assigned(devs[h].slots[bar])
                    /\ PrintedLine = Promise!Line(h, bar, devs[h])
  BY AtPrint DEF Clean
<1>1. /\ devs[h] \in Devices /\ bar \in Bars /\ Reset(devs[h].slots[bar]) # 0
      /\ entry = Rounded(WholeOf(devs[h], bar))
  BY AtPrint DEF Base
<1>2. /\ Promise!Assigned(devs[h].slots[bar])
      /\ entry.size = 0 \/ entry = EntryOf(h, bar, devs[h])
  BY <1>1, DecodeAll
<1>3. entry = EntryOf(h, bar, devs[h])
  BY <1>2
<1> QED
  BY <1>2, <1>3, LineParts DEF PrintedLine

(* The lines printed stay true. *)
LEMMA ReportsStep ==
  ASSUME IInv, SizingInv, UpperInv, ReportsTrue, [Next]_vars
  PROVE  ReportsTrue'
<1> DEFINE True(l) ==
      \/ /\ Promise!Assigned(devs[l.handle].slots[l.bar])
         /\ l = Promise!Line(l.handle, l.bar, devs[l.handle])
      \/ FailedAt(l.handle, l.bar, {"read", "write"})
      \/ devs[l.handle].slots[l.bar].kind = "upper" /\ Stumbled(l.handle, l.bar - 1)
<1>0. /\ devs' = devs /\ \A k, b : Stumbled(k, b) => Stumbled(k, b)'
      /\ \A k, b : FailedAt(k, b, {"read", "write"}) => FailedAt(k, b, {"read", "write"})'
  BY FailedGrows, StumbledStays DEF FailedAt
<1>1. ASSUME NEW l, True(l) PROVE True(l)'
  <2>1. Promise!Line(l.handle, l.bar, devs[l.handle])' = Promise!Line(l.handle, l.bar, devs[l.handle])
    BY <1>0 DEF Promise!Line, Promise!Reset
  <2>2. (devs[l.handle].slots[l.bar])' = devs[l.handle].slots[l.bar]
    BY <1>0
  <2>3. CASE Promise!Assigned(devs[l.handle].slots[l.bar])
             /\ l = Promise!Line(l.handle, l.bar, devs[l.handle])
    BY <2>1, <2>2, <2>3 DEF Promise!Assigned, Promise!Reset
  <2> QED
    BY <1>0, <1>1, <2>2, <2>3
<1>2. \A n \in DOMAIN report : True(report[n])
  BY DEF ReportsTrue
<1>3. \A n \in DOMAIN report' : \A l : l = report'[n] => True(l)'
  <2> HIDE DEF True
  <2>1. CASE PrintBar /\ report' # report
    <3>1. /\ entry.size > 0 /\ DOMAIN report' = 1 .. Len(report) + 1
          /\ DOMAIN report = 1 .. Len(report) /\ Len(report) \in Nat
          /\ \A n \in DOMAIN report : report'[n] = report[n]
          /\ report'[Len(report) + 1] = PrintedLine
      BY <2>1, PrintFacts
    <3>2. PICK l : l = PrintedLine
      OBVIOUS
    <3>3. True(l)
      <4>1. PrintedLine.handle = h /\ PrintedLine.bar = bar
        BY DEF PrintedLine
      <4>2. pc = "print"
        BY <2>1 DEF PrintBar
      <4> QED
        BY <3>1, <3>2, <4>1, <4>2, TrueLine DEF True
    <3>4. True(l)'
      BY <1>1, <3>3
    <3>5. ASSUME NEW n \in DOMAIN report', NEW m, m = report'[n]
          PROVE  True(m)'
      <4>1. CASE n \in DOMAIN report
        <5>1. m = report[n]
          BY <3>1, <3>5, <4>1
        <5>2. True(m)
          BY <1>2, <4>1, <5>1
        <5> QED
          BY <1>1, <5>2
      <4>2. CASE n \notin DOMAIN report
        <5>1. n = Len(report) + 1
          BY <3>1, <4>2
        <5>2. m = l
          BY <3>1, <3>2, <3>5, <5>1
        <5> QED
          BY <3>4, <5>2
      <4> QED
        BY <4>1, <4>2
    <3> QED
      BY <3>5
  <2>2. CASE report' = report
    BY <1>1, <1>2, <2>2
  <2> QED
    BY <2>1, <2>2, ReportSame
<1> QED
  BY <1>3 DEF ReportsTrue

(* What has been listed stays listed. *)
LEMMA ListedStays ==
  ASSUME IInv, [Next]_vars
  PROVE  \A k, b : Listed(k, b) => Listed(k, b)'
<1> SUFFICES ASSUME NEW k, NEW b, Listed(k, b)
             PROVE  Listed(k, b)'
  OBVIOUS
<1>1. PICK n \in DOMAIN report : report[n].handle = k /\ report[n].bar = b
  BY DEF Listed
<1>2. CASE report' = report
  BY <1>1, <1>2 DEF Listed
<1>3. CASE PrintBar /\ report' # report
  <2>1. n \in DOMAIN report' /\ report'[n] = report[n]
    BY <1>1, <1>3, PrintFacts
  <2> QED
    BY <1>1, <2>1 DEF Listed
<1> QED
  BY <1>2, <1>3, ReportSame

(* After printing, the BAR is listed, and so is no upper half above it     *)
(* left out, unless a call has failed. *)
LEMMA PrintLists ==
  ASSUME RangesFit, IInv, SizingInv, UpperInv, PrintBar, NEW b \in bar .. idx, b \in Bars,
         Promise!Assigned(devs[h].slots[b])
  PROVE  Listed(h, b)' \/ Stumbled(h, b)
<1>0. /\ h \in Handles /\ bar \in Bars /\ bar \in Nat /\ b \in Nat /\ bar <= b
      /\ pc = "print" /\ idx \in bar .. bar + 1
  BY BarsAssumption DEF PrintBar, IInv, TypeOK, LoopInv, DevicePcs, Bars
<1>1. devs[h].slots[b].kind \in {"io", "mem32", "mem64"}
  BY DEF Promise!Assigned
<1>2. CASE ~Clean
  BY <1>0, <1>2 DEF Clean, Stumbled, FailedAt
<1>3. CASE Clean /\ devs[h].slots[bar].kind = "upper"
  <2>1. Stumbled(h, bar - 1) /\ bar # 0
    BY <1>0, <1>3, AtPrint, Neighbours DEF IInv
  <2> QED
    BY <1>0, <2>1, StumbledAbove
<1>4. CASE Clean /\ devs[h].slots[bar].kind # "upper"
  <2>1. /\ devs[h] \in Devices /\ Reset(devs[h].slots[bar]) # 0
        /\ entry = Rounded(WholeOf(devs[h], bar))
        /\ idx = bar + IF LowerOf(devs[h], bar).is_64bit THEN 1 ELSE 0
    BY <1>0, <1>4, AtPrint DEF Base
  <2>2. /\ LowerOf(devs[h], bar).is_64bit <=> devs[h].slots[bar].kind = "mem64"
        /\ entry.size # 0
    BY <1>0, <1>4, <2>1, DecodeAll
  <2>3. b = bar
    <3>1. devs[h].slots[bar].kind = "mem64" => devs[h].slots[bar + 1].kind = "upper"
      BY <1>0, Neighbours DEF IInv
    <3>2. CASE b = bar + 1
      <4>1. LowerOf(devs[h], bar).is_64bit
        BY <1>0, <2>1, <3>2
      <4> QED
        BY <1>1, <2>2, <3>1, <3>2, <4>1
    <3> QED
      BY <1>0, <3>2
  <2>4. PICK n \in DOMAIN report' : report'[n] = PrintedLine
    <3>1. Len(report) \in Nat /\ DOMAIN report' = 1 .. Len(report) + 1
          /\ report'[Len(report) + 1] = PrintedLine
      BY <2>2, PrintFacts
    <3> QED
      BY <3>1
  <2> QED
    <3>1. PrintedLine.handle = h /\ PrintedLine.bar = bar
      BY DEF PrintedLine
    <3>2. h' = h
      BY DEF PrintBar
    <3> QED
      BY <2>3, <2>4, <3>1, <3>2 DEF Listed
<1> QED
  BY <1>2, <1>3, <1>4

(* A skipped BAR was not assigned, unless a call has failed. *)
LEMMA SkipMisses ==
  ASSUME IInv, SizingInv, Skip, Promise!Assigned(devs[h].slots[idx])
  PROVE  Stumbled(h, idx)
<1>1. idx = bar /\ bar \in Bars /\ pc = "skip"
  BY DEF Skip, IInv, TypeOK, LoopInv
<1>2. ~Clean
  BY <1>1 DEF SizingInv, SizingAt, Base, Promise!Assigned, Promise!Reset, Reset
<1>3. bar \in 0 .. bar
  BY <1>1, BarsAssumption DEF Bars
<1> QED
  BY <1>1, <1>2, <1>3 DEF Clean, Stumbled, FailedAt

(* Every assigned BAR below the loop index is listed. *)
LEMMA ListedStep ==
  ASSUME RangesFit, IInv, SizingInv, UpperInv, ListedInv, [Next]_vars
  PROVE  ListedInv'
<1>0. /\ TypeOK /\ LoopInv /\ devs' = devs
      /\ \A k, b : Stumbled(k, b) => Stumbled(k, b)'
      /\ \A k, b : Listed(k, b) => Listed(k, b)'
  BY FailedGrows, StumbledStays, ListedStays DEF IInv
<1> SUFFICES ASSUME pc' \in DevicePcs, NEW b \in Bars, b < AtBar',
                    NEW k, k = h', Promise!Assigned(devs[k].slots[b])
             PROVE  Listed(k, b)' \/ Stumbled(k, b)'
  BY <1>0 DEF ListedInv
<1>b. b \in Nat /\ idx \in Nat /\ bar \in Nat
  BY <1>0, BarsAssumption DEF Bars, TypeOK
<1>c. pc \in DevicePcs /\ k = h /\ b < AtBar => Listed(k, b)' \/ Stumbled(k, b)'
  BY <1>0 DEF ListedInv
<1> USE DEF DevicePcs, SilentPcs, SizingPcs
<1>1. CASE Locate \/ HandleProtocol \/ FreeHandles \/ EndDevice
  BY <1>1 DEF Locate, HandleProtocol, FreeHandles, EndDevice
<1>2. CASE Identify
  <2>1. AtBar' = 0
    BY <1>0, <1>2 DEF Identify, AtBar, LoopInv
  <2> QED
    BY <1>b, <2>1
<1>3. CASE Disable
  <2>0. pc = "bars" /\ h' = h /\ AtBar = idx
    BY <1>3 DEF Disable, AtBar
  <2>1. CASE pc' = "base" /\ bar' = idx
    BY <1>c, <2>0, <2>1 DEF AtBar
  <2>2. CASE Fails(idx, "disable") /\ idx' = idx + 1 /\ UNCHANGED <<cmd, pc, bar>>
    <3>1. AtBar' = idx + 1
      <4>1. pc' = "bars" /\ idx' = idx + 1
        BY <2>0, <2>2
      <4> QED
        BY <4>1 DEF AtBar
    <3>2. <<h, idx, "disable">> \in failed'
      BY <2>2 DEF Fails
    <3>3. CASE b = idx
      <4>1. b \in 0 .. b /\ k = h
        BY <1>b, <2>0
      <4> QED
        BY <3>2, <3>3, <4>1 DEF Stumbled, FailedAt
    <3> QED
      BY <1>b, <1>c, <2>0, <3>1, <3>3
  <2> QED
    BY <1>3, <2>1, <2>2 DEF Disable
<1>4. CASE Skip
  <2>1. pc = "skip" /\ h' = h /\ AtBar = bar /\ AtBar' = idx + 1 /\ idx = bar
    BY <1>0, <1>4 DEF Skip, AtBar, LoopInv
  <2>2. CASE b = idx
    BY <1>0, <1>4, <2>1, <2>2, SkipMisses
  <2> QED
    BY <1>b, <1>c, <2>1, <2>2
<1>5. CASE PrintBar
  <2>1. pc = "print" /\ h' = h /\ AtBar = bar /\ AtBar' = idx + 1
    BY <1>5 DEF PrintBar, AtBar, locals
  <2>2. CASE b \in bar .. idx
    BY <1>0, <1>5, <2>1, <2>2, PrintLists
  <2> QED
    BY <1>b, <1>c, <2>1, <2>2
<1>6. CASE ReadBase \/ WriteOnes \/ ReadSize \/ Restore \/ Enable
  <2>1. pc \in DevicePcs /\ AtBar' = AtBar /\ h' = h
    BY <1>6 DEF ReadBase, WriteOnes, ReadSize, Restore, Enable, AtBar, locals
  <2> QED
    BY <1>c, <2>1
<1>7. CASE Done \/ UNCHANGED vars
  <2>1. UNCHANGED vars
    BY <1>7 DEF Done
  <2>2. pc' = pc /\ h' = h /\ AtBar' = AtBar
    BY <2>1 DEF vars, AtBar
  <2> QED
    BY <1>c, <2>2
<1> QED
  BY <1>1, <1>2, <1>3, <1>4, <1>5, <1>6, <1>7 DEF Next

(* Nothing is missing from the devices listed. *)
LEMMA MissedStep ==
  ASSUME IInv, SizingInv, ListedInv, NothingMissed, [Next]_vars
  PROVE  NothingMissed'
<1>0. /\ TypeOK /\ LoopInv /\ devs' = devs /\ failed \subseteq failed'
      /\ \A k, b : Stumbled(k, b) => Stumbled(k, b)'
      /\ \A k, b : Listed(k, b) => Listed(k, b)'
  BY FailedGrows, StumbledStays, ListedStays DEF IInv
<1> SUFFICES ASSUME NEW k \in 0 .. h' - 1, NEW b \in Bars, devs[k].normal,
                    Promise!Assigned(devs[k].slots[b])
             PROVE  Listed(k, b)' \/ k \in Refusing' \/ Stumbled(k, b)'
  BY <1>0 DEF NothingMissed, Listed
<1>a. h \in Nat /\ NumHandles \in Nat
  BY <1>0, HandlesAssumption DEF TypeOK
<1>1. CASE k \in 0 .. h - 1
  <2>1. Listed(k, b) \/ k \in Refusing \/ Stumbled(k, b)
    BY <1>1 DEF NothingMissed, Listed
  <2>2. k \in Refusing => k \in Refusing'
    BY <1>0 DEF Refusing, FailedAt
  <2> QED
    BY <1>0, <2>1, <2>2
<1>2. CASE k \notin 0 .. h - 1
  <2>1. h' # h
    BY <1>2
  <2>2. \/ HandleProtocol /\ Fails(0, "protocol")
        \/ Identify /\ Fails(0, "identify")
        \/ Identify /\ ~devs[h].normal
        \/ EndDevice
    BY <2>1 DEF Next, vars, Locate, HandleProtocol, FreeHandles, Identify, Disable, EndDevice,
                ReadBase, Skip, WriteOnes, ReadSize, Restore, Enable, PrintBar, Done
  <2>3. h' = h + 1 /\ k = h
    <3>1. h' = h + 1
      BY <2>1, <2>2 DEF HandleProtocol, Identify, EndDevice
    <3> QED
      BY <1>a, <1>2, <3>1
  <2>4. h \in Handles
    BY <1>0, <1>a, <2>2
       DEF HandleProtocol, Identify, EndDevice, LoopInv, DevicePcs, TypeOK, Handles
  <2>5. CASE Fails(0, "protocol") \/ Fails(0, "identify")
    BY <2>3, <2>4, <2>5 DEF Refusing, FailedAt, Fails
  <2>6. CASE EndDevice
    <3>1. pc \in DevicePcs /\ AtBar = idx /\ b < idx
      BY <1>0, <2>6, BarsAssumption DEF EndDevice, DevicePcs, AtBar, Bars, TypeOK
    <3> QED
      BY <1>0, <2>3, <3>1 DEF ListedInv
  <2> QED
    BY <2>2, <2>3, <2>5, <2>6
<1> QED
  BY <1>1, <1>2

-----------------------------------------------------------------------------
(* Theorems *)

(* The inductive invariant holds in every reachable state. *)
THEOREM Invariance == Spec => []IInv
<1>1. Init => IInv
  BY InitIInv
<1>2. IInv /\ [Next]_vars => IInv'
  <2> SUFFICES ASSUME IInv, [Next]_vars PROVE IInv'
    OBVIOUS
  <2> QED
    BY TypeStep, LoopStep, CommandStep, BaseStep, RestoredStep DEF IInv
<1> QED
  BY <1>1, <1>2, PTL DEF Spec

(* Every variable of the probe has its type. *)
THEOREM TypeCorrect == Spec => []TypeOK
<1>1. IInv => TypeOK
  BY DEF IInv
<1> QED
  BY <1>1, Invariance, PTL

(* No device decodes a range it does not own: while a register holds        *)
(* anything but its address, its device is silent (stub.c:232-302). *)
THEOREM SilentWhileSized == Spec => []SizedOnlyWhileSilent
<1>1. IInv => SizedOnlyWhileSilent
  <2> SUFFICES ASSUME IInv, NEW k \in Handles, NEW r \in Regs,
                      ~Original(k, r), ~Untouchable(k, r)
               PROVE  Silent(cmd[k])
    BY DEF SizedOnlyWhileSilent
  <2>1. k = h /\ pc \in SilentPcs
    BY DEF IInv, AddressesRestored, SilentPcs, SizingPcs
  <2>2. cmd[k] = devs[h].command \ ResponseBits
    BY <2>1 DEF IInv, CommandInv
  <2> QED
    BY <2>2 DEF Silent
<1> QED
  BY <1>1, Invariance, PTL

(* Every register has its address back when the sizing of its BAR is over   *)
(* (stub.c:266-284). *)
THEOREM AddressesAreRestored == Spec => []AddressesRestored
<1>1. IInv => AddressesRestored
  BY DEF IInv
<1> QED
  BY <1>1, Invariance, PTL

(* Whenever the stub prints, every device responds as it did before, unless *)
(* writing its command register back failed (stub.c:296-302). *)
THEOREM RespondsWhenPrinting == Spec => []RespondingWhenPrinting
<1>1. IInv => RespondingWhenPrinting
  BY DEF IInv, CommandInv, RespondingWhenPrinting, SilentPcs, SizingPcs
<1> QED
  BY <1>1, Invariance, PTL

(* What the report properties rest on holds in every reachable state. *)
LEMMA KnownAlways == Spec => [](IInv /\ AheadInv /\ SizingInv /\ UpperInv)
<1>1. Init => AheadInv /\ SizingInv /\ UpperInv
  BY DEF Init, AheadInv, Original, SizingInv, SizingAt, UpperInv, DevicePcs, SilentPcs, SizingPcs
<1>2. IInv /\ AheadInv /\ SizingInv /\ UpperInv /\ [Next]_vars
        => AheadInv' /\ SizingInv' /\ UpperInv'
  BY AheadStep, SizingStep, UpperStep
<1> QED
  BY <1>1, <1>2, Invariance, PTL DEF Spec

(* Every printed line is the true line of an assigned BAR, unless a call   *)
(* failed that the property names (stub.c:263-324). *)
THEOREM ReportsAreTrue == Spec => []ReportsTrue
<1>1. Init => ReportsTrue
  BY DEF Init, ReportsTrue
<1>2. IInv /\ AheadInv /\ SizingInv /\ UpperInv /\ ReportsTrue /\ [Next]_vars => ReportsTrue'
  BY ReportsStep
<1> QED
  BY <1>1, <1>2, KnownAlways, PTL DEF Spec

(* Where every range is smaller than the space it is in, no assigned BAR   *)
(* of a listed device is missing, unless a call failed on it or below it   *)
(* (stub.c:232-325). *)
THEOREM NothingIsMissed ==
  ASSUME RangesFit
  PROVE  Spec => []NothingMissed
<1>1. Init => ListedInv /\ NothingMissed
  BY DEF Init, ListedInv, NothingMissed, DevicePcs, SilentPcs, SizingPcs
<1>2. /\ IInv /\ AheadInv /\ SizingInv /\ UpperInv
      /\ ListedInv /\ NothingMissed /\ [Next]_vars
      => ListedInv' /\ NothingMissed'
  BY ListedStep, MissedStep
<1> QED
  BY <1>1, <1>2, KnownAlways, PTL DEF Spec

-----------------------------------------------------------------------------
(* The inventory *)

(* Until a call on a BAR fails, nothing leads the loop astray. *)
LEMMA NeverStumbles ==
  ASSUME ~BarFailed
  PROVE  Clean /\ \A k, b : ~Stumbled(k, b)
<1>1. ASSUME NEW k, NEW b, NEW c \in {"disable", "read", "write"}, <<k, b, c>> \in failed
      PROVE  FALSE
  <2>1. <<k, b, c>>[3] = c
    OBVIOUS
  <2> QED
    BY <1>1, <2>1 DEF BarFailed
<1> QED
  BY <1>1 DEF Clean, Stumbled, FailedAt

(* A device that could not be silenced is such a failure. *)
LEMMA DisableFailed ==
  ASSUME NEW b, Fails(b, "disable")
  PROVE  BarFailed'
<1>1. <<h, b, "disable">> \in failed' /\ <<h, b, "disable">>[3] = "disable"
  BY DEF Fails
<1> QED
  BY <1>1 DEF BarFailed

(* Which handles are refused changes with their own two calls only. *)
LEMMA RefusingSame ==
  ASSUME \/ failed' = failed
         \/ \E b, c : c \notin {"protocol", "identify"} /\ failed' = failed \cup {<<h, b, c>>}
  PROVE  Refusing' = Refusing
BY DEF Refusing, FailedAt

(* A handle that does not answer is refused. *)
LEMMA RefusingMore ==
  ASSUME NEW c \in {"protocol", "identify"}, Fails(0, c), h \in Handles
  PROVE  Refusing' = Refusing \cup {h}
BY DEF Refusing, FailedAt, Fails

(* The steps that the inventory does not see. *)
LEMMA HiddenSteps ==
  ASSUME ~BarFailed', IInv, [Next]_vars,
         h' = h, report' = report, ~Skip, ~PrintBar
  PROVE  UNCHANGED Promise!ivars
<1>0. TypeOK /\ LoopInv /\ devs' = devs
  BY FailedGrows DEF IInv
<1>1. /\ \/ failed' = failed
         \/ \E b, c : c \notin {"protocol", "identify"} /\ failed' = failed \cup {<<h, b, c>>}
      /\ (IF pc \in {"enable", "print"} THEN bar ELSE idx)'
           = IF pc \in {"enable", "print"} THEN bar ELSE idx
  <2> USE <1>0 DEF hardware, locals, Fails, SizingPcs, LoopInv, Handles
  <2>1. CASE Locate
    BY <2>1 DEF Locate
  <2>2. CASE HandleProtocol
    BY <2>2 DEF HandleProtocol, TypeOK
  <2>3. CASE FreeHandles
    BY <2>3 DEF FreeHandles
  <2>4. CASE Identify
    BY <2>4 DEF Identify, TypeOK
  <2>5. CASE Disable
    <3>1. ~Fails(idx, "disable")
      BY DisableFailed
    <3> QED
      BY <2>5, <3>1 DEF Disable
  <2>6. CASE EndDevice
    BY <2>6 DEF EndDevice, TypeOK
  <2>7. CASE ReadBase
    BY <2>7 DEF ReadBase, ConfigRead
  <2>8. CASE WriteOnes
    BY <2>8 DEF WriteOnes, ConfigWrite
  <2>9. CASE ReadSize
    BY <2>9 DEF ReadSize, ConfigRead
  <2>10. CASE Restore
    BY <2>10 DEF Restore, ConfigWrite
  <2>11. CASE Enable
    BY <2>11 DEF Enable, RestoreCommand
  <2>12. CASE Done \/ UNCHANGED vars
    BY <2>12 DEF Done, vars
  <2> QED
    BY <2>1, <2>2, <2>3, <2>4, <2>5, <2>6, <2>7, <2>8, <2>9, <2>10, <2>11, <2>12 DEF Next
<1>2. Refusing' = Refusing
  BY <1>1, RefusingSame
<1> QED
  BY <1>0, <1>1, <1>2 DEF Promise!ivars

(* A handle that does not answer: Refuse; one without BARs, or with all of  *)
(* its BARs listed: Pass. *)
LEMMA HandleSteps ==
  ASSUME IInv, [Next]_vars, h' # h
  PROVE  Promise!Refuse \/ Promise!Pass
<1>0. TypeOK /\ LoopInv /\ devs' = devs /\ h \in Nat /\ NumHandles \in Nat
  BY FailedGrows, HandlesAssumption DEF IInv, TypeOK
<1>1. \/ HandleProtocol /\ Fails(0, "protocol")
      \/ Identify /\ Fails(0, "identify")
      \/ Identify /\ ~devs[h].normal /\ failed' = failed
      \/ EndDevice
  BY DEF Next, vars, Locate, HandleProtocol, FreeHandles, Identify, Disable, EndDevice,
         ReadBase, Skip, WriteOnes, ReadSize, Restore, Enable, PrintBar, Done
<1>2. /\ h' = h + 1 /\ pc \in {"open", "identify", "bars"} /\ pc' = "open" /\ report' = report
      /\ pc = "open" => h < NumHandles
  BY <1>1 DEF HandleProtocol, Identify, EndDevice
<1>3. h \in Promise!Handles /\ h \in Handles
  BY <1>0, <1>2 DEF Promise!Handles, Handles, LoopInv, DevicePcs, TypeOK
<1>4. CASE /\ HandleProtocol /\ Fails(0, "protocol")
  <2>1. Refusing' = Refusing \cup {h}
    BY <1>3, <1>4, RefusingMore
  <2>2. idx = 0 /\ idx' = 0
    BY <1>0, <1>4 DEF HandleProtocol, LoopInv, DevicePcs, SilentPcs, SizingPcs
  <2> QED
    BY <1>0, <1>2, <1>3, <2>1, <2>2 DEF Promise!Refuse
<1>5. CASE Identify /\ Fails(0, "identify")
  <2>1. Refusing' = Refusing \cup {h}
    BY <1>3, <1>5, RefusingMore
  <2>2. idx = 0 /\ idx' = 0
    BY <1>0, <1>5 DEF Identify, LoopInv, DevicePcs, SilentPcs, SizingPcs
  <2> QED
    BY <1>0, <1>2, <1>3, <2>1, <2>2 DEF Promise!Refuse
<1>6. CASE Identify /\ ~devs[h].normal /\ failed' = failed
  <2>1. Refusing' = Refusing
    BY <1>6, RefusingSame
  <2>2. idx = 0 /\ idx' = 0
    BY <1>0, <1>6 DEF Identify, LoopInv, DevicePcs, SilentPcs, SizingPcs
  <2> QED
    BY <1>0, <1>2, <1>3, <1>6, <2>1, <2>2 DEF Promise!Pass
<1>7. CASE EndDevice
  <2>1. Refusing' = Refusing
    BY <1>7, RefusingSame DEF EndDevice
  <2>2. idx \notin Promise!Bars /\ idx' = 0
    BY <1>0, <1>7, BarsAssumption DEF EndDevice, Promise!Bars, TypeOK
  <2> QED
    BY <1>0, <1>2, <1>3, <2>1, <2>2 DEF Promise!Pass
<1> QED
  BY <1>1, <1>4, <1>5, <1>6, <1>7

(* A BAR that reads zero is one firmware has not assigned. *)
LEMMA SkipImplements ==
  ASSUME ~BarFailed, IInv, SizingInv, Skip
  PROVE  Promise!SkipBar
<1>0. TypeOK /\ LoopInv
  BY DEF IInv
<1>1. /\ pc = "skip" /\ pc' = "bars" /\ idx = bar /\ idx' = idx + 1
      /\ UNCHANGED <<devs, h, report>> /\ bar \in Bars /\ h \in Handles
  BY <1>0 DEF Skip, TypeOK, LoopInv, DevicePcs, SilentPcs
<1>2. devs[h].normal /\ Base(bar) = 0
  BY <1>1, NeverStumbles DEF SizingInv, SizingAt, DevicePcs, SilentPcs
<1>3. ~Promise!Assigned(devs[h].slots[idx])
  BY <1>1, <1>2 DEF Base, Promise!Assigned, Promise!Reset, Reset
<1>4. Refusing' = Refusing
  BY RefusingSame DEF Skip, RestoreCommand, Fails
<1>5. h \in Promise!Handles /\ idx \in Promise!Bars
  BY <1>1 DEF Handles, Bars, Promise!Handles, Promise!Bars
<1> QED
  BY <1>1, <1>2, <1>3, <1>4, <1>5 DEF Promise!SkipBar

(* Printing lists the BAR, and the index leaves its upper half out. *)
LEMMA PrintImplements ==
  ASSUME RangesFit, ~BarFailed, IInv, SizingInv, UpperInv, PrintBar
  PROVE  Promise!ListBar
<1>0. TypeOK /\ pc = "print" /\ Clean
  BY NeverStumbles DEF IInv, PrintBar
<1>1. /\ devs[h] \in Devices /\ bar \in Bars /\ h \in Handles /\ Reset(devs[h].slots[bar]) # 0
      /\ entry = Rounded(WholeOf(devs[h], bar))
      /\ idx = bar + IF LowerOf(devs[h], bar).is_64bit THEN 1 ELSE 0
      /\ devs[h].slots[bar].kind # "upper"
  BY <1>0, AtPrint, NeverStumbles DEF Base
<1>2. /\ Promise!Assigned(devs[h].slots[bar])
      /\ LowerOf(devs[h], bar).is_64bit <=> devs[h].slots[bar].kind = "mem64"
      /\ entry.size # 0
      /\ entry.size = 0 \/ entry = EntryOf(h, bar, devs[h])
  BY <1>1, DecodeAll
<1>3. entry.size > 0 /\ entry = EntryOf(h, bar, devs[h])
  BY <1>0, <1>2 DEF TypeOK
<1>4. report' = Append(report, Promise!Line(h, bar, devs[h]))
  <2>1. PrintedLine = Promise!Line(h, bar, devs[h])
    BY <1>3, LineParts DEF PrintedLine
  <2> QED
    BY <1>3, <2>1 DEF PrintBar
<1>5. pc' = "bars" /\ idx' = bar + IF devs[h].slots[bar].kind = "mem64" THEN 2 ELSE 1
  <2>1. bar \in Nat
    BY <1>1, BarsAssumption DEF Bars
  <2>2. pc' = "bars" /\ idx' = idx + 1
    BY DEF PrintBar
  <2>3. CASE devs[h].slots[bar].kind = "mem64"
    BY <1>1, <1>2, <2>1, <2>2, <2>3
  <2>4. CASE devs[h].slots[bar].kind # "mem64"
    BY <1>1, <1>2, <2>1, <2>2, <2>4
  <2> QED
    BY <2>3, <2>4
<1>6. devs[h].normal
  BY <1>0 DEF SizingInv, DevicePcs
<1>7. Refusing' = Refusing /\ UNCHANGED <<devs, h>>
  BY RefusingSame DEF PrintBar, hardware
<1>8. h \in Promise!Handles /\ bar \in Promise!Bars
  BY <1>1 DEF Handles, Bars, Promise!Handles, Promise!Bars
<1> QED
  BY <1>0, <1>1, <1>2, <1>4, <1>5, <1>6, <1>7, <1>8 DEF Promise!ListBar

(* Where no range fills its space, probing implements the inventory until  *)
(* a call on a BAR fails: it lists exactly the assigned BARs, once each, in *)
(* order, with their addresses and sizes. *)
THEOREM ProbeImplementsInventory ==
  ASSUME RangesFit
  PROVE  Spec => ImplementsInventory
<1>1. Init => Promise!IInit
  <2> SUFFICES ASSUME Init PROVE Promise!IInit
    OBVIOUS
  <2>1. Refusing = {}
    BY DEF Init, Refusing, FailedAt
  <2> QED
    BY <2>1 DEF Init, Promise!IInit
<1>2. IInv /\ AheadInv /\ SizingInv /\ UpperInv /\ [Next]_vars
        => [Promise!INext \/ BarFailed']_(Promise!ivars)
  <2> SUFFICES ASSUME IInv, SizingInv, UpperInv, [Next]_vars, ~BarFailed'
               PROVE  Promise!INext \/ UNCHANGED Promise!ivars
    OBVIOUS
  <2>0. ~BarFailed
    BY FailedGrows DEF BarFailed
  <2>1. CASE h' # h
    BY <2>1, HandleSteps DEF Promise!INext
  <2>2. CASE Skip
    BY <2>0, <2>2, SkipImplements DEF Promise!INext
  <2>3. CASE PrintBar
    BY <2>0, <2>3, PrintImplements DEF Promise!INext
  <2>4. CASE h' = h /\ ~Skip /\ ~PrintBar
    BY <2>4, ReportSame, HiddenSteps
  <2> QED
    BY <2>1, <2>2, <2>3, <2>4
<1> QED
  BY <1>1, <1>2, KnownAlways, PTL DEF Spec, ImplementsInventory
=============================================================================
