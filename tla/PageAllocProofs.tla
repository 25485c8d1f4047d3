-------------------------- MODULE PageAllocProofs --------------------------
(***************************************************************************)
(* The safety properties of the page functions (PageAlloc), for every page *)
(* size, width of an address, layout of memory and number of ranges.       *)
(***************************************************************************)
EXTENDS PageAlloc, NumberLemmas, TLAPS

-----------------------------------------------------------------------------
(* Rounding *)

(* A remainder is what is left after one subtraction, or nothing is. *)
LEMMA SmallMod ==
  ASSUME NEW x \in Nat, NEW l \in Nat, l > 0, x < 2 * l
  PROVE  x % l = IF x < l THEN x ELSE x - l
<1>1. CASE x < l
  <2>1. x = l * 0 + x
    OBVIOUS
  <2> QED
    BY <1>1, <2>1, DivModUnique
<1>2. CASE ~(x < l)
  <2>1. x = l * 1 + (x - l) /\ x - l \in Nat /\ x - l < l
    BY <1>2
  <2> QED
    BY <1>2, <2>1, DivModUnique
<1> QED
  BY <1>1, <1>2

(* ALIGN rounds the way ALIGN_DIV counts: dividing what is left of a       *)
(* number without its remainder is dividing the number.                    *)
LEMMA AlignedDiv ==
  ASSUME NEW y \in Nat, NEW g \in Nat, g > 0
  PROVE  (y - (y % g)) \div g = y \div g
<1>1. PICK q \in Nat, r \in 0 .. g - 1 : y = g * q + r /\ q = y \div g /\ r = y % g
  BY DivModExists
<1>2. y - (y % g) = g * q + 0
  BY <1>1
<1> QED
  BY <1>1, <1>2, DivModUnique

(* Allocating and freeing agree on the number of pages. *)
LEMMA PagesAgree ==
  ASSUME NEW size \in Addresses
  PROVE  PagesToFree(size) = PagesToAllocate(size) /\ PagesToFree(size) \in Nat
<1> DEFINE y == (size + PAGE - 1) % ADDR
<1>1. size + PAGE - 1 \in Nat
  BY PageAssumption DEF Addresses
<1>2. y \in Nat
  BY <1>1, AddrAssumption, DivModExists
<1>3. y \div PAGE \in Nat
  BY <1>2, PageAssumption, DivModExists
<1>4. (y - (y % PAGE)) \div PAGE = y \div PAGE
  BY <1>2, PageAssumption, AlignedDiv
<1> QED
  BY <1>3, <1>4 DEF PagesToFree, PagesToAllocate, ALIGN, ALIGN_DIV

(* If there are pages at all, the sum did not wrap and they suffice. *)
LEMMA PagesSuffice ==
  ASSUME NEW size \in Addresses, PagesToAllocate(size) > 0
  PROVE  size > 0 /\ size <= PAGE * PagesToAllocate(size)
<1> DEFINE x == size + PAGE - 1
           y == x % ADDR
<1>1. x \in Nat /\ PAGE \in Nat /\ PAGE > 0 /\ ADDR \in Nat /\ size \in Nat /\ size < ADDR
  BY PageAssumption, AddrAssumption DEF Addresses
<1>2. PAGE <= ADDR
  <2>1. 0 % PAGE = 0
    <3>1. 0 = PAGE * 0 + 0
      BY <1>1
    <3> QED
      BY <1>1, <3>1, DivModUnique
  <2>2. 0 + PAGE <= ADDR
    BY <1>1, <2>1, AddrAssumption, RoomBelowMultiple
  <2> QED
    BY <1>1, <2>2
<1>3. x < 2 * ADDR
  BY <1>1, <1>2
<1>4. y = IF x < ADDR THEN x ELSE x - ADDR
  <2>1. ADDR > 0
    BY AddrAssumption
  <2> HIDE DEF x
  <2> QED
    BY <1>1, <1>3, <2>1, SmallMod
<1>5. PagesToAllocate(size) = y \div PAGE
  BY DEF PagesToAllocate, ALIGN_DIV
<1>6. ASSUME y \in Nat, y < PAGE PROVE FALSE
  <2>1. y = PAGE * 0 + y
    BY <1>1, <1>6
  <2>2. y \div PAGE = 0
    BY <1>1, <1>6, <2>1, DivModUnique
  <2> QED
    BY <1>5, <2>2
<1>7. x < ADDR /\ y = x
  <2>1. CASE ~(x < ADDR)
    <3>1. y = x - ADDR
      BY <1>4, <2>1
    <3>2. y \in Nat /\ y < PAGE
      BY <1>1, <2>1, <3>1
    <3> QED
      BY <1>6, <3>2
  <2> QED
    BY <1>4, <2>1
<1>8. size > 0
  BY <1>1, <1>6, <1>7
<1>9. PICK q \in Nat, r \in 0 .. PAGE - 1 : x = PAGE * q + r /\ q = x \div PAGE
  BY <1>1, DivModExists
<1>10. PAGE * q \in Nat
  BY <1>1
<1>11. size <= PAGE * q
  BY <1>1, <1>9, <1>10
<1> QED
  BY <1>5, <1>7, <1>8, <1>9, <1>11

(* The frame of a range's first byte. *)
LEMMA FrameOfAddr ==
  ASSUME NEW p \in Nat
  PROVE  (PAGE * p) \div PAGE = p
<1>1. PAGE * p = PAGE * p + 0 /\ 0 < PAGE /\ PAGE \in Nat
  BY PageAssumption
<1> QED
  BY <1>1, DivModUnique

(* The bytes of a range lie in its frames. *)
LEMMA BytesInFrames ==
  ASSUME NEW p \in Nat, NEW n \in Nat, NEW size \in Nat, size <= PAGE * n,
         NEW b \in PAGE * p .. PAGE * p + size - 1
  PROVE  b \div PAGE \in Run(p, n)
<1>1. PAGE \in Nat /\ PAGE > 0 /\ PAGE * p \in Nat /\ b \in Nat
  BY PageAssumption
<1>2. PICK q \in Nat, r \in 0 .. PAGE - 1 : b = PAGE * q + r /\ q = b \div PAGE
  BY <1>1, DivModExists
<1>3. PAGE * (p + n) = PAGE * p + PAGE * n /\ PAGE * n \in Nat
  BY <1>1
<1>4. PAGE * q \in Nat /\ PAGE * (p + n) \in Nat /\ p + n \in Nat
  BY <1>1
<1>5. ~(q < p)
  <2>1. ASSUME q < p PROVE PAGE * q + PAGE <= PAGE * p
    BY <1>1, <2>1, TimesMonotone
  <2> QED
    BY <1>1, <1>2, <1>4, <2>1
<1>6. q < p + n
  <2>1. b < PAGE * (p + n)
    BY <1>1, <1>3
  <2>2. ASSUME p + n < q PROVE PAGE * (p + n) + PAGE <= PAGE * q
    BY <1>1, <1>4, <2>2, TimesMonotone
  <2> QED
    BY <1>1, <1>2, <1>4, <2>1, <2>2
<1> QED
  BY <1>2, <1>5, <1>6 DEF Run

(* Frames are numbers. *)
LEMMA FramesAreNat == Memory \subseteq Nat
<1>1. ADDR \div PAGE \in Nat
  BY PageAssumption, AddrAssumption, DivModExists
<1> QED
  BY <1>1, MemoryAssumption

-----------------------------------------------------------------------------
(* The inductive invariant *)

(* It holds before the first call. *)
LEMMA InitIInv == Init => IInv
<1>1. ASSUME Init PROVE TypeOK /\ CoverInv
  BY <1>1 DEF Init, TypeOK, CoverInv
<1> QED
  BY <1>1 DEF IInv

(* What an allocation adds: a range of whole, formerly free frames. *)
LEMMA AllocatedRange ==
  ASSUME NEW size \in Addresses, NEW below \in Limits, NEW first \in Memory,
         NEW range, range = [size |-> size, below |-> below, addr |-> first * PAGE],
         PagesToAllocate(size) > 0
  PROVE  /\ range \in [size : Addresses, below : Limits, addr : {PAGE * p : p \in Memory}]
         /\ Frames(range) = Run(first, PagesToAllocate(size))
         /\ range.size > 0 /\ range.size <= PAGE * PagesToFree(range.size)
<1>1. first \in Nat /\ PAGE \in Nat
  BY FramesAreNat, PageAssumption
<1>2. first * PAGE = PAGE * first
  BY <1>1
<1>3. (first * PAGE) \div PAGE = first
  BY <1>1, <1>2, FrameOfAddr
<1>4. PagesToFree(size) = PagesToAllocate(size)
  BY PagesAgree
<1>5. size > 0 /\ size <= PAGE * PagesToAllocate(size)
  BY PagesSuffice
<1> QED
  BY <1>2, <1>3, <1>4, <1>5 DEF Frames

(* Allocating keeps it. *)
LEMMA AllocateKeeps ==
  ASSUME IInv, NEW size \in Addresses, NEW below \in Limits, AllocatePages(size, below)
  PROVE  IInv'
<1> DEFINE pages == PagesToAllocate(size)
<1>1. PICK first \in free :
        /\ pages > 0
        /\ Run(first, pages) \subseteq free
        /\ free' = free \ Run(first, pages)
        /\ owned' = owned \cup {[size |-> size, below |-> below, addr |-> first * PAGE]}
  BY DEF AllocatePages
<1>2. PICK range : range = [size |-> size, below |-> below, addr |-> first * PAGE]
  OBVIOUS
<1>3. first \in Memory
  BY DEF IInv, TypeOK
<1>4. /\ range \in [size : Addresses, below : Limits, addr : {PAGE * p : p \in Memory}]
      /\ Frames(range) = Run(first, pages)
      /\ range.size > 0 /\ range.size <= PAGE * PagesToFree(range.size)
  BY <1>1, <1>2, <1>3, AllocatedRange
<1>5. owned' = owned \cup {range} /\ free' = free \ Frames(range) /\ Frames(range) \subseteq free
  BY <1>1, <1>2, <1>4
<1>6. TypeOK'
  BY <1>4, <1>5 DEF IInv, TypeOK
<1>7. CoverInv'
  <2>1. Memory = free' \cup UNION {Frames(r) : r \in owned'}
    BY <1>5 DEF IInv, CoverInv
  <2>2. ASSUME NEW r \in owned'
        PROVE  /\ Frames(r) \cap free' = {}
               /\ r.size > 0 /\ r.size <= PAGE * PagesToFree(r.size)
               /\ \A s \in owned' \ {r} : Frames(r) \cap Frames(s) = {}
    <3>1. CASE r \in owned
      BY <1>5, <3>1 DEF IInv, CoverInv
    <3>2. CASE r = range
      BY <1>4, <1>5, <3>2 DEF IInv, CoverInv
    <3> QED
      BY <1>5, <3>1, <3>2
  <2> QED
    BY <2>1, <2>2 DEF CoverInv, Frames, PagesToFree, ALIGN, Run
<1> QED
  BY <1>6, <1>7 DEF IInv

(* Freeing keeps it: the firmware never refuses the run. *)
LEMMA FreeKeeps ==
  ASSUME IInv, NEW range \in owned, FreePages(range)
  PROVE  IInv'
<1>1. Frames(range) \cap free = {} /\ Frames(range) \subseteq Memory /\ range.size # 0
  <2>1. range.size \in Nat
    BY AddrAssumption DEF IInv, TypeOK, Addresses
  <2> QED
    BY <2>1 DEF IInv, CoverInv
<1>2. owned' = owned \ {range} /\ free' = free \cup Frames(range)
  BY <1>1 DEF FreePages, Frames
<1>3. TypeOK'
  BY <1>1, <1>2 DEF IInv, TypeOK
<1>4. CoverInv'
  <2>1. Memory = free' \cup UNION {Frames(r) : r \in owned'}
    BY <1>2 DEF IInv, CoverInv
  <2>2. ASSUME NEW r \in owned'
        PROVE  /\ Frames(r) \cap free' = {}
               /\ r.size > 0 /\ r.size <= PAGE * PagesToFree(r.size)
               /\ \A s \in owned' \ {r} : Frames(r) \cap Frames(s) = {}
    BY <1>2 DEF IInv, CoverInv
  <2> QED
    BY <2>1, <2>2 DEF CoverInv, Frames, PagesToFree, ALIGN, Run
<1> QED
  BY <1>3, <1>4 DEF IInv

(* Every step keeps it. *)
LEMMA StepIInv == IInv /\ [Next]_vars => IInv'
<1> SUFFICES ASSUME IInv, [Next]_vars PROVE IInv'
  OBVIOUS
<1>1. ASSUME NEW size \in Addresses, NEW below \in Limits, AllocatePages(size, below)
      PROVE  IInv'
  BY <1>1, AllocateKeeps
<1>2. ASSUME NEW range \in owned, FreePages(range) PROVE IInv'
  BY <1>2, FreeKeeps
<1>3. CASE UNCHANGED vars
  BY <1>3 DEF vars, IInv, TypeOK, CoverInv, Frames, PagesToFree, ALIGN, Run
<1> QED
  BY <1>1, <1>2, <1>3 DEF Next

(* It holds in every reachable state. *)
LEMMA AlwaysIInv == Spec => []IInv
  BY InitIInv, StepIInv, PTL DEF Spec

-----------------------------------------------------------------------------
(* The theorems *)

(* Free frames are frames of the machine and every range a caller holds    *)
(* starts at one. *)
THEOREM TypeCorrect == Spec => []TypeOK
<1>1. IInv => TypeOK
  BY DEF IInv
<1> QED
  BY <1>1, AlwaysIInv, PTL

(* No two callers of efi_allocate_memory_pages ever share a byte, and      *)
(* every byte a caller asked for lies in a page the firmware gave up. *)
THEOREM RangesAreExclusive == Spec => []RangesExclusive
<1>1. ASSUME IInv PROVE RangesExclusive
  <2>1. ASSUME NEW r \in owned, NEW b \in Bytes(r)
        PROVE  b \div PAGE \in Frames(r)
    <3>1. PICK p \in Memory : r.addr = PAGE * p
      BY <1>1 DEF IInv, TypeOK
    <3>2. p \in Nat /\ r.size \in Nat /\ r.size \in Addresses
      BY <1>1, FramesAreNat, AddrAssumption DEF IInv, TypeOK, Addresses
    <3>3. PagesToFree(r.size) \in Nat /\ r.size <= PAGE * PagesToFree(r.size)
      BY <1>1, <3>2, PagesAgree DEF IInv, CoverInv
    <3>4. r.addr \div PAGE = p
      BY <3>1, <3>2, FrameOfAddr
    <3>5. b \in PAGE * p .. PAGE * p + r.size - 1
      BY <3>1 DEF Bytes
    <3>6. b \div PAGE \in Run(p, PagesToFree(r.size))
      BY <3>2, <3>3, <3>5, BytesInFrames
    <3> QED
      BY <3>4, <3>6 DEF Frames
  <2>2. ASSUME NEW r \in owned PROVE Frames(r) \subseteq Memory \ free
    BY <1>1 DEF IInv, CoverInv
  <2>3. ASSUME NEW r \in owned, NEW s \in owned \ {r}
        PROVE  Bytes(r) \cap Bytes(s) = {}
    <3>1. Frames(r) \cap Frames(s) = {}
      BY <1>1 DEF IInv, CoverInv
    <3> QED
      BY <2>1, <3>1
  <2> QED
    BY <2>1, <2>2, <2>3 DEF RangesExclusive
<1> QED
  BY <1>1, AlwaysIInv, PTL

(* When every range was given back by efi_free_memory_pages, every page is *)
(* free again. *)
THEOREM NothingIsLost == Spec => []NothingLeaks
<1>1. IInv => NothingLeaks
  BY DEF IInv, CoverInv, NothingLeaks
<1> QED
  BY <1>1, AlwaysIInv, PTL

-----------------------------------------------------------------------------
(* The limit *)

(* A number below the modulus is its own remainder. *)
LEMMA SelfMod ==
  ASSUME NEW x \in Addresses
  PROVE  x % ADDR = x
<1>1. x \in Nat /\ ADDR \in Nat /\ ADDR > 0 /\ x < ADDR
  BY AddrAssumption DEF Addresses
<1>2. x = ADDR * 0 + x
  BY <1>1
<1> QED
  BY <1>1, <1>2, DivModUnique

(* From one page up no rounding wraps, and the last address an allocation  *)
(* may use is below the limit. *)
LEMMA LimitHolds ==
  ASSUME NEW below \in Addresses, below >= PAGE
  PROVE  AllocLimit(below) \in Nat /\ AllocLimit(below) < below
<1>1. below \in Nat /\ PAGE \in Nat /\ PAGE > 0 /\ ADDR \in Nat /\ below < ADDR
  BY PageAssumption, AddrAssumption DEF Addresses
<1> DEFINE low == below - (PAGE - 1)
<1>2. low \in Addresses /\ low + PAGE - 1 = below
  BY <1>1 DEF Addresses
<1>3. low % ADDR = low /\ below % ADDR = below
  BY <1>2, SelfMod
<1>4. ALIGN_DOWN(below) = below - (below % PAGE)
  <2>1. ALIGN_DOWN(below) = ALIGN(low)
    BY <1>3 DEF ALIGN_DOWN
  <2> HIDE DEF low
  <2> QED
    BY <1>2, <1>3, <2>1 DEF ALIGN
<1>5. PICK q \in Nat, r \in 0 .. PAGE - 1 :
        below = PAGE * q + r /\ q = below \div PAGE /\ r = below % PAGE
  BY <1>1, DivModExists
<1>6. PICK m \in Nat : m = PAGE * q
  BY <1>1, <1>5
<1>7. ALIGN_DOWN(below) = m /\ m <= below /\ below = m + r
  <2>0. r = below % PAGE /\ below = PAGE * q + r
    BY <1>5
  <2>1. below = m + r /\ r \in Nat /\ r = below % PAGE
    <3>1. below = m + r
      BY <1>6, <2>0
    <3>2. r \in Nat
      BY <1>1
    <3> QED
      BY <2>0, <3>1, <3>2
  <2>2. below - r = m
    BY <1>1, <1>6, <2>1
  <2> QED
    BY <1>1, <1>4, <2>1, <2>2
<1>8. m > 0
  BY <1>1, <1>5, <1>7
<1>9. m - 1 \in Addresses
  BY <1>1, <1>7, <1>8 DEF Addresses
<1>10. AllocLimit(below) = m - 1
  BY <1>7, <1>9, SelfMod DEF AllocLimit
<1> QED
  BY <1>1, <1>7, <1>8, <1>10

(* An allocation stays below the limit its caller named. *)
LEMMA AllocateBelow ==
  ASSUME IInv, BelowLimit, NEW size \in Addresses, NEW below \in Limits,
         below >= PAGE, AllocatePages(size, below)
  PROVE  BelowLimit'
<1> DEFINE pages == PagesToAllocate(size)
<1>1. PICK first \in free :
        /\ pages > 0
        /\ (first + pages) * PAGE - 1 <= AllocLimit(below)
        /\ owned' = owned \cup {[size |-> size, below |-> below, addr |-> first * PAGE]}
  BY DEF AllocatePages
<1>2. first \in Nat /\ PAGE \in Nat /\ size \in Nat /\ below \in Addresses
  BY FramesAreNat, PageAssumption, AddrAssumption, LimitAssumption
     DEF IInv, TypeOK, Addresses
<1>3. pages \in Nat /\ size <= PAGE * pages
  BY <1>1, PagesAgree, PagesSuffice
<1>4. AllocLimit(below) \in Nat /\ AllocLimit(below) < below /\ below \in Nat
  BY <1>2, LimitHolds, AddrAssumption DEF Addresses
<1>5. (first + pages) * PAGE = first * PAGE + PAGE * pages
  <2> HIDE DEF pages
  <2> QED
    BY <1>2, <1>3
<1>6. first * PAGE \in Nat /\ PAGE * pages \in Nat
  <2> HIDE DEF pages
  <2> QED
    BY <1>2, <1>3
<1>7. first * PAGE + size <= below
  <2> HIDE DEF pages
  <2> QED
    BY <1>1, <1>2, <1>3, <1>4, <1>5, <1>6
<1> QED
  BY <1>1, <1>7 DEF BelowLimit

(* As long as every caller passes at least one page as its limit, "below   *)
(* the address given by below_addr" (memory.h:28) is what                  *)
(* efi_allocate_memory_pages does; the run pages_limit shows that below    *)
(* one page it is not. *)
THEOREM BelowTheLimit ==
  ASSUME \A below \in Limits : below >= PAGE
  PROVE  Spec => []BelowLimit
<1>1. Init => BelowLimit
  BY DEF Init, BelowLimit
<1>2. ASSUME IInv, BelowLimit, [Next]_vars PROVE BelowLimit'
  <2>1. ASSUME NEW size \in Addresses, NEW below \in Limits, AllocatePages(size, below)
        PROVE  BelowLimit'
    BY <1>2, <2>1, AllocateBelow
  <2>2. ASSUME NEW range \in owned, FreePages(range) PROVE BelowLimit'
    BY <1>2, <2>2 DEF FreePages, BelowLimit
  <2>3. CASE UNCHANGED vars
    BY <1>2, <2>3 DEF vars, BelowLimit
  <2> QED
    BY <1>2, <2>1, <2>2, <2>3 DEF Next
<1> QED
  BY <1>1, <1>2, AlwaysIInv, PTL DEF Spec
=============================================================================
