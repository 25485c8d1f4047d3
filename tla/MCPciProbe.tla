----------------------------- MODULE MCPciProbe -----------------------------
(***************************************************************************)
(* Machines for TLC.  With WORD = 64 a dword keeps the four flag bits of a *)
(* memory BAR and two address bits, enough for 16- and 32-byte ranges; an  *)
(* upper half of 2 values moves a 64-bit range across the dword boundary.  *)
(***************************************************************************)
EXTENDS PciProbe

Slot(kind, flags, addr, gran, lim) ==
  [kind |-> kind, flags |-> flags, addr |-> addr, gran |-> gran, lim |-> lim]

Io        == Slot("io", 1, 8, 4, 64)
Io16      == Slot("io", 1, 16, 8, 32)      \* upper address bits hard-wired
IoUnset   == Slot("io", 1, 0, 8, 64)
Mem       == Slot("mem32", 0, 32, 16, 64)
MemPref   == Slot("mem32", 8, 32, 32, 64)
MemUnset  == Slot("mem32", 0, 0, 16, 64)
Low       == Slot("mem64", 4, 48, 16, 64)
LowPref   == Slot("mem64", 12, 0, 64, 64)  \* range larger than a dword
Up        == Slot("upper", 0, 3, 1, 64)
UpZero    == Slot("upper", 0, 0, 1, 64)
UpWide    == Slot("upper", 0, 6, 2, 64)
UpFour    == Slot("upper", 0, 4, 4, 64)

Header(normal, cmd0, bars, faults) ==
  [command |-> cmd0, normal |-> normal, faults |-> faults,
   slots |-> [r \in Regs |-> IF r < NumBars /\ r + 1 <= Len(bars) THEN bars[r + 1] ELSE NoSlot]]

On  == {"io", "mem", "other"}
Off == {"other"}

(* Devices whose BARs answer always, though the handle may refuse.         *)
Steady == {"locate", "protocol", "identify"}

SteadyDevices ==
  { Header(TRUE, On, <<Low, Up, Mem>>, Steady),
    Header(TRUE, On, <<Io, LowPref, UpWide>>, Steady),
    Header(TRUE, Off, <<MemUnset, NoSlot, Io16>>, Steady),
    Header(TRUE, {"master"}, <<LowPref, UpFour, IoUnset>>, Steady),
    Header(TRUE, {"mem"}, <<NoSlot, MemPref, MemUnset>>, Steady),
    Header(TRUE, CommandBits, <<Mem, Low, UpZero>>, Steady),
    Header(FALSE, On, <<Mem, NoSlot, NoSlot>>, Steady) }

(* Devices on which calls on the BARs may fail, one or several.            *)
FaultyDevices ==
  { Header(TRUE, On, <<Low, Up, Mem>>, Calls),
    Header(TRUE, On, <<Io, LowPref, UpWide>>, Calls),
    Header(TRUE, {"master"}, <<LowPref, UpFour, Low, Up>>, {"disable", "read", "write"}),
    Header(TRUE, CommandBits, <<NoSlot, Low, UpZero>>, Calls) }

(* A device that goes wrong before another one is probed, and the bridge   *)
(* in front of a faulty device.                                            *)
Lossy  == Header(TRUE, On, <<Mem, Low, UpZero>>, {"disable", "write", "enable"})
Next1  == Header(TRUE, {"mem"}, <<Low, Up, Io>>, {})
Bridge == Header(FALSE, On, <<Mem, NoSlot, NoSlot>>, {})

AllDevices == SteadyDevices \cup FaultyDevices \cup {Lossy, Next1, Bridge}

Pair(d, e) == [k \in Handles |-> IF k = 0 THEN d ELSE e]

AllMachines ==
  {Pair(d, e) : d, e \in SteadyDevices}
    \cup {Pair(Bridge, d) : d \in FaultyDevices}
    \cup {Pair(Lossy, Next1)}

ASSUME RangesFit
=============================================================================
