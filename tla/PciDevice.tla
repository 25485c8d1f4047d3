----------------------------- MODULE PciDevice -----------------------------
(***************************************************************************)
(* A PCI function as the boot stub sees it through EFI_PCI_IO_PROTOCOL:    *)
(* a command register and the dwords 0x10 .. 0x28 of its configuration     *)
(* header.  The device is not part of the repository; it is modelled from  *)
(* the calls src/uefistub/stub.c makes and the masks it uses.              *)
(*                                                                         *)
(* A dword holds WORD values (2^32 on the hardware).  Bit operations on    *)
(* dwords are written arithmetically: x & ~(2^k - 1) is Clear(x, 2^k).     *)
(***************************************************************************)
EXTENDS Integers

CONSTANTS
  WORD,      (* number of values of a configuration dword, 2^32 in the code  *)
  NumBars,   (* base address registers of a normal header, 6 in the code     *)
  Devices,   (* the descriptions of the devices a machine may contain        *)
  NumHandles, (* PCI functions the firmware lists                            *)
  Machines    (* which device may be behind which handle                     *)

Word == 0 .. WORD - 1
Bars == 0 .. NumBars - 1
Handles == 0 .. NumHandles - 1

(* The kinds of firmware calls the probe makes; those that may fail on a   *)
(* device are part of its description.                                     *)
Calls == {"locate", "protocol", "identify", "disable", "read", "write", "enable"}

(* The register after the last BAR (offset 0x28) is read-only zero: a      *)
(* 64-bit decode in the last slot would reach it.                          *)
Regs == 0 .. NumBars

(* PCI_COMMAND bits 0..2 make a device respond on a bus; the probe must    *)
(* keep the other bits, for which one representative is enough.            *)
ResponseBits == {"io", "mem", "master"}
CommandBits  == ResponseBits \cup {"other"}

Kinds == {"none", "io", "mem32", "mem64", "upper"}

(* One dword of the header.  gran is the size of the range it decodes: the *)
(* bits below gran are not writable and read back flags; bits from lim up  *)
(* are hard-wired to zero (an I/O BAR may decode 16 address bits only).    *)
Slots == [kind  : Kinds,
          flags : Word,
          addr  : Word,
          gran  : 1 .. WORD,
          lim   : 1 .. WORD]

NoSlot == [kind |-> "none", flags |-> 0, addr |-> 0, gran |-> WORD, lim |-> WORD]

WellFormedSlot(s) ==
  /\ s \in Slots
  /\ WORD % s.lim = 0 /\ s.lim % s.gran = 0
  /\ s.addr % s.gran = 0
  /\ s.flags < s.gran
  /\ s.addr + s.flags < s.lim
  /\ s.kind # "io" => s.lim = WORD
  /\ CASE s.kind = "none"  -> s = NoSlot
       [] s.kind = "io"    -> s.flags = 1 /\ s.gran % 4 = 0
       [] s.kind = "mem32" -> s.flags \in {0, 2, 8, 10} /\ s.gran % 16 = 0
       [] s.kind = "mem64" -> s.flags \in {4, 12} /\ s.gran % 16 = 0
       [] s.kind = "upper" -> s.flags = 0

(* A 64-bit BAR takes two dwords; the upper one sizes the range only when  *)
(* the lower one has no writable address bit.                              *)
WellFormed(d) ==
  /\ d.command \in SUBSET CommandBits
  /\ d.normal \in BOOLEAN
  /\ d.faults \in SUBSET Calls
  /\ d.slots \in [Regs -> Slots]
  /\ \A r \in Regs : WellFormedSlot(d.slots[r])
  /\ d.slots[0].kind # "upper"
  /\ d.slots[NumBars] = NoSlot
  /\ \A r \in Bars :
       /\ d.slots[r].kind = "mem64" <=> d.slots[r + 1].kind = "upper"
       /\ d.slots[r].kind = "mem64" =>
            d.slots[r].gran = WORD \/ d.slots[r + 1].gran = 1

ASSUME WordAssumption == WORD \in Nat /\ WORD > 0 /\ WORD % 16 = 0
ASSUME BarsAssumption == NumBars \in Nat \ {0}
ASSUME DevicesAssumption == \A d \in Devices : WellFormed(d)
ASSUME HandlesAssumption == NumHandles \in Nat \ {0}
ASSUME MachinesAssumption == Machines \subseteq [Handles -> Devices]

(* What a register holds after reset, and after a write of v.              *)
Reset(s)    == s.addr + s.flags
Latch(s, v) == (v % s.lim) - (v % s.gran) + s.flags

(* x & ~(m - 1), for m a power of two.                                     *)
Clear(x, m) == x - (x % m)
=============================================================================
