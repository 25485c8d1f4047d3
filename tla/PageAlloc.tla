----------------------------- MODULE PageAlloc -----------------------------
(***************************************************************************)
(* src/uefistub/memory.c: efi_allocate_memory_pages and                    *)
(* efi_free_memory_pages translate byte sizes and an upper address into    *)
(* page runs of the firmware's page allocator.  Addresses and sizes are    *)
(* unsigned and ADDR wide (2^64 in the code), so the alignment macros may  *)
(* wrap.                                                                   *)
(***************************************************************************)
EXTENDS Integers, FiniteSets

CONSTANTS
  ADDR,      (* number of addresses, 2^64 in the code                      *)
  PAGE,      (* EFI_PAGE_SIZE                                              *)
  Memory,    (* page frames the machine has free at the start              *)
  MaxOwned,  (* bound on the ranges a caller holds at a time               *)
  Limits     (* values of below_addr a caller passes                       *)

ASSUME PageAssumption == PAGE \in Nat \ {0}
ASSUME AddrAssumption == ADDR \in Nat \ {0} /\ ADDR % PAGE = 0
ASSUME LimitAssumption == Limits \subseteq 0 .. ADDR - 1 /\ MaxOwned \in Nat
ASSUME MemoryAssumption == IsFiniteSet(Memory) /\ Memory \subseteq 0 .. (ADDR \div PAGE) - 1

Addresses == 0 .. ADDR - 1

VARIABLES
  free,   (* firmware: page frames it may hand out                          *)
  owned   (* ranges callers hold: what they asked for and what they got     *)

vars == <<free, owned>>

Init == free = Memory /\ owned = {}

-----------------------------------------------------------------------------
(* src/include/align.h, for PAGE a power of two *)

ALIGN(x) == LET y == (x + PAGE - 1) % ADDR IN y - (y % PAGE)

ALIGN_DOWN(x) == ALIGN((x - (PAGE - 1)) % ADDR)

ALIGN_DIV(x) == ((x + PAGE - 1) % ADDR) \div PAGE

-----------------------------------------------------------------------------

Run(first, pages) == first .. first + pages - 1

(* Mutant: the limit is rounded up. *)
LooseLimit(below) == (ALIGN(below) - 1) % ADDR

(* The highest address an allocated byte may have. *)
AllocLimit(below) == (ALIGN_DOWN(below) - 1) % ADDR

(* Mutant: the last, partial page is not counted. *)
RoundedDown(size) == size \div PAGE

PagesToAllocate(size) == ALIGN_DIV(size)

PagesToFree(size) == ALIGN(size) \div PAGE

(* Mutant: the limit that was passed in is returned as the address. *)
AllocateReturnsLimit(size, below) ==
  /\ Cardinality(owned) < MaxOwned
  /\ \E first \in free :
       LET pages == PagesToAllocate(size)
       IN /\ pages > 0 /\ Run(first, pages) \subseteq free
          /\ (first + pages) * PAGE - 1 <= AllocLimit(below)
          /\ free' = free \ Run(first, pages)
          /\ owned' = owned \cup {[size |-> size, below |-> below, addr |-> AllocLimit(below)]}

(* EFI_ALLOCATE_MAX_ADDRESS: any run of free pages whose last byte is not   *)
(* above the limit; no run of zero pages.                                  *)
AllocatePages(size, below) ==
  /\ Cardinality(owned) < MaxOwned
  /\ \E first \in free :
       LET pages == PagesToAllocate(size)
           last  == (first + pages) * PAGE - 1
       IN /\ pages > 0
          /\ Run(first, pages) \subseteq free
          /\ last <= AllocLimit(below)
          /\ free' = free \ Run(first, pages)
          /\ owned' = owned \cup {[size |-> size, below |-> below, addr |-> first * PAGE]}

(* free_pages refuses a run it did not hand out; nothing tells the caller. *)
FreePages(range) ==
  LET pages == PagesToFree(range.size)
      run   == Run(range.addr \div PAGE, pages)
  IN /\ owned' = owned \ {range}
     /\ free' = IF range.size # 0 /\ run \cap free = {} /\ run \subseteq Memory
                THEN free \cup run ELSE free

Next ==
  \/ \E size \in Addresses, below \in Limits : AllocatePages(size, below)
  \/ \E range \in owned : FreePages(range)

Spec == Init /\ [][Next]_vars

-----------------------------------------------------------------------------
(* Properties *)

(* Free frames are frames of the machine, and a range held starts at one.  *)
TypeOK ==
  /\ free \subseteq Memory
  /\ owned \subseteq [size : Addresses, below : Limits, addr : {PAGE * p : p \in Memory}]

Bytes(range) == range.addr .. range.addr + range.size - 1

(* Every range a caller holds has all the bytes it asked for, in pages the *)
(* firmware has taken out of its free pool, and no byte belongs to two     *)
(* callers.  (memory.c:115-125, align.h:15)                                *)
RangesExclusive ==
  \A r \in owned :
    /\ \A b \in Bytes(r) : b \div PAGE \in Memory \ free
    /\ \A s \in owned \ {r} : Bytes(r) \cap Bytes(s) = {}

(* Allocating and freeing round a size to the same number of pages: with   *)
(* no range held every page is free again.  (memory.c:119, 139)            *)
NothingLeaks == owned = {} => free = Memory

(* "Allocate a range of memory (pages) below the address given by          *)
(* below_addr."  (memory.h:28)                                             *)
BelowLimit == \A r \in owned : r.addr + r.size <= r.below

-----------------------------------------------------------------------------
(* The inductive invariant behind RangesExclusive and NothingLeaks         *)
(* (PageAllocProofs): the free frames and those of the ranges held cover   *)
(* memory without overlap, and no range wrapped around.                    *)

Frames(range) == Run(range.addr \div PAGE, PagesToFree(range.size))

CoverInv ==
  /\ Memory = free \cup UNION {Frames(r) : r \in owned}
  /\ \A r \in owned :
       /\ Frames(r) \cap free = {}
       /\ r.size > 0 /\ r.size <= PAGE * PagesToFree(r.size)
       /\ \A s \in owned \ {r} : Frames(r) \cap Frames(s) = {}

IInv == TypeOK /\ CoverInv
=============================================================================
