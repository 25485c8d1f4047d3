------------------------------ MODULE PciProbe ------------------------------
(***************************************************************************)
(* src/uefistub/stub.c: efi_setup_pci walks the handles that carry the PCI *)
(* I/O protocol and print_device_info sizes the base address registers of  *)
(* each: silence the device, read the register, write all ones, read the   *)
(* size mask back, restore the register, let the device respond again,     *)
(* print.  One action is one call to the firmware with the computation     *)
(* that follows it, so every call can fail on its own.                     *)
(***************************************************************************)
EXTENDS PciDevice, Sequences, FiniteSets

VARIABLES
  devs,       (* the device behind each handle (never changes)             *)
  cmd,        (* command register of each device                           *)
  reg,        (* base address registers of each device                     *)
  pc,         (* next call of the stub                                     *)
  handles,    (* the handle buffer: "none", "held" or "freed"              *)
  h,          (* loop variable i of efi_setup_pci                          *)
  idx,        (* loop variable of print_device_info                        *)
  bar,        (* BAR being sized                                           *)
  half,       (* 0: its own dword, 1: the upper dword of a 64-bit BAR      *)
  command,    (* local copy of the command register                        *)
  base_addr,  (* local                                                     *)
  size,       (* local                                                     *)
  entry,      (* locals memory, is_64bit, prefetchable, full_addr, full_size *)
  report,     (* lines printed                                             *)
  failed      (* history: the calls that failed, <<handle, BAR, call>>     *)

hardware == <<devs, cmd, reg>>
locals   == <<bar, half, base_addr, size, entry>>
vars == <<devs, cmd, reg, pc, handles, h, idx, bar, half, command, base_addr,
          size, entry, report, failed>>

NoEntry == [memory |-> FALSE, is_64bit |-> FALSE, prefetchable |-> FALSE,
            addr |-> 0, size |-> 0]

Silent(c) == c \cap ResponseBits = {}

Init ==
  /\ devs \in Machines
  /\ cmd = [k \in Handles |-> devs[k].command]
  /\ reg = [k \in Handles |-> [r \in Regs |-> Reset(devs[k].slots[r])]]
  /\ pc = "locate" /\ handles = "none"
  /\ h = 0 /\ idx = 0 /\ bar = 0 /\ half = 0
  /\ command = {} /\ base_addr = 0 /\ size = 0
  /\ entry = NoEntry
  /\ report = <<>> /\ failed = {}

-----------------------------------------------------------------------------
(* Calls to the firmware.  A failed call has no effect on the device.      *)
(* (The search for the handles is counted with the first of them.)         *)

Fails(b, call) ==
  /\ call \in devs[h].faults
  /\ failed' = failed \cup {<<h, b, call>>}

(* pci_write of the saved command register: the status is dropped. *)
RestoreCommand ==
  \/ /\ cmd' = [cmd EXCEPT ![h] = command]
     /\ UNCHANGED failed
  \/ /\ Fails(bar, "enable")
     /\ UNCHANGED cmd

(* efi_pci_cfg_write32: the status is dropped. *)
ConfigWrite(r, v) ==
  \/ /\ reg' = [reg EXCEPT ![h][r] = Latch(devs[h].slots[r], v)]
     /\ UNCHANGED failed
  \/ /\ Fails(bar, "write")
     /\ UNCHANGED reg

(* Mutant: the failed read returns the 64-bit ~0 untruncated. *)
WideConfigRead(r, v) ==
  \/ v = reg[h][r] /\ UNCHANGED failed
  \/ Fails(bar, "read") /\ v = WORD * WORD - 1

(* efi_pci_cfg_read32: the status is dropped, a failed read returns ~0. *)
ConfigRead(r, v) ==
  \/ /\ v = reg[h][r]
     /\ UNCHANGED failed
  \/ /\ Fails(bar, "read")
     /\ v = WORD - 1

-----------------------------------------------------------------------------
(* efi_setup_pci *)

Locate ==
  /\ pc = "locate"
  /\ \/ /\ Fails(0, "locate")
        /\ pc' = "done"
        /\ UNCHANGED handles
     \/ /\ handles' = "held"
        /\ pc' = "open"
        /\ UNCHANGED failed
  /\ UNCHANGED <<hardware, locals, h, idx, command, report>>

HandleProtocol ==
  /\ pc = "open" /\ h < NumHandles
  /\ \/ /\ Fails(0, "protocol")
        /\ h' = h + 1
        /\ UNCHANGED pc
     \/ /\ pc' = "identify"
        /\ UNCHANGED <<h, failed>>
  /\ UNCHANGED <<hardware, locals, handles, idx, command, report>>

(* Mutant: the handle buffer is not freed. *)
KeepHandles ==
  /\ pc = "open" /\ h = NumHandles
  /\ pc' = "done"
  /\ UNCHANGED <<hardware, locals, handles, h, idx, command, report, failed>>

FreeHandles ==
  /\ pc = "open" /\ h = NumHandles
  /\ handles' = "freed"
  /\ pc' = "done"
  /\ UNCHANGED <<hardware, locals, h, idx, command, report, failed>>

-----------------------------------------------------------------------------
(* print_device_info *)

(* get_location and the reads of the header type, command and class; a     *)
(* header that is not a normal one has no BARs to print.                   *)
Identify ==
  /\ pc = "identify"
  /\ \/ /\ Fails(0, "identify")
        /\ pc' = "open" /\ h' = h + 1
        /\ UNCHANGED command
     \/ /\ command' = cmd[h]
        /\ IF devs[h].normal
           THEN pc' = "bars" /\ UNCHANGED h
           ELSE pc' = "open" /\ h' = h + 1
        /\ UNCHANGED failed
  /\ UNCHANGED <<hardware, locals, handles, idx, report>>

(* Mutant: sizes the BAR although the device could not be silenced. *)
DisableAnyway ==
  /\ pc = "bars" /\ idx < NumBars
  /\ \/ cmd' = [cmd EXCEPT ![h] = command \ ResponseBits] /\ UNCHANGED failed
     \/ Fails(idx, "disable") /\ UNCHANGED cmd
  /\ pc' = "base" /\ bar' = idx
  /\ UNCHANGED <<devs, reg, handles, h, idx, half, command, base_addr, size, entry, report>>

(* Mutant: the command register is read anew for every BAR. *)
DisableReread ==
  /\ pc = "bars" /\ idx < NumBars
  /\ command' = cmd[h]
  /\ \/ /\ cmd' = [cmd EXCEPT ![h] = command' \ ResponseBits]
        /\ pc' = "base" /\ bar' = idx
        /\ UNCHANGED <<idx, failed>>
     \/ /\ Fails(idx, "disable")
        /\ idx' = idx + 1
        /\ UNCHANGED <<cmd, pc, bar>>
  /\ UNCHANGED <<devs, reg, handles, h, half, base_addr, size, entry, report>>

(* A BAR whose device cannot be silenced is left alone. *)
Disable ==
  /\ pc = "bars" /\ idx < NumBars
  /\ \/ /\ cmd' = [cmd EXCEPT ![h] = command \ ResponseBits]
        /\ pc' = "base" /\ bar' = idx
        /\ UNCHANGED <<idx, failed>>
     \/ /\ Fails(idx, "disable")
        /\ idx' = idx + 1
        /\ UNCHANGED <<cmd, pc, bar>>
  /\ UNCHANGED <<devs, reg, handles, h, half, command, base_addr, size, entry, report>>

EndDevice ==
  /\ pc = "bars" /\ idx >= NumBars
  /\ pc' = "open" /\ h' = h + 1 /\ idx' = 0
  /\ UNCHANGED <<hardware, locals, handles, command, report, failed>>

ReadBase ==
  /\ pc = "base"
  /\ ConfigRead(bar + half, base_addr')
  /\ pc' = IF half = 0 /\ base_addr' = 0 THEN "skip" ELSE "ones"
  /\ entry' = IF half = 0 THEN NoEntry ELSE entry
  /\ UNCHANGED <<hardware, handles, h, idx, bar, half, command, size, report>>

(* The register is zero: the BAR is not in use. *)
Skip ==
  /\ pc = "skip"
  /\ RestoreCommand
  /\ pc' = "bars" /\ idx' = idx + 1
  /\ UNCHANGED <<devs, reg, locals, handles, h, command, report>>

WriteOnes ==
  /\ pc = "ones"
  /\ ConfigWrite(bar + half, WORD - 1)
  /\ pc' = "size"
  /\ UNCHANGED <<devs, cmd, locals, handles, h, idx, command, report>>

ReadSize ==
  /\ pc = "size"
  /\ ConfigRead(bar + half, size')
  /\ pc' = "restore"
  /\ UNCHANGED <<hardware, handles, h, idx, bar, half, command, base_addr, entry, report>>

IsIo(base) == base % 2 = 1

IoEntry(base, mask) ==
  [memory |-> FALSE, is_64bit |-> FALSE, prefetchable |-> FALSE,
   addr |-> Clear(base, 4),
   size |-> (WORD - Clear(mask, 4)) % WORD]

(* The lower dword of a memory BAR, before the final increment of the size. *)
MemEntry(base, mask) ==
  [memory |-> TRUE,
   is_64bit |-> (mask \div 2) % 4 = 2,
   prefetchable |-> (mask \div 8) % 2 = 1,
   addr |-> Clear(base, 16),
   size |-> WORD - 1 - Clear(mask, 16)]

WithUpper(e, base, mask) ==
  [e EXCEPT !.addr = @ + WORD * base,
            !.size = @ + WORD * (WORD - 1 - mask)]

(* Mutant: the increment of the size is forgotten. *)
NotRounded(e) == e

(* full_size is 64 bits wide: the increment may wrap it to zero. *)
Rounded(e) ==
  IF e.memory /\ e.size # 0
  THEN [e EXCEPT !.size = (@ + 1) % (WORD * WORD)]
  ELSE e

Decoded ==
  IF half = 1 THEN WithUpper(entry, base_addr, size)
  ELSE IF IsIo(base_addr) THEN IoEntry(base_addr, size)
  ELSE MemEntry(base_addr, size)

(* Mutant: the upper half is restored into the lower register. *)
RestoreLower ==
  /\ pc = "restore"
  /\ ConfigWrite(bar, base_addr)
  /\ IF half = 0 /\ Decoded.is_64bit
     THEN entry' = Decoded /\ half' = 1 /\ pc' = "base" /\ UNCHANGED idx
     ELSE entry' = Rounded(Decoded) /\ half' = 0 /\ pc' = "enable" /\ idx' = idx + half
  /\ UNCHANGED <<devs, cmd, handles, h, bar, command, base_addr, size, report>>

(* Mutant: the upper half keeps its loop index and is sized again. *)
RestoreTwice ==
  /\ pc = "restore"
  /\ ConfigWrite(bar + half, base_addr)
  /\ IF half = 0 /\ Decoded.is_64bit
     THEN entry' = Decoded /\ half' = 1 /\ pc' = "base"
     ELSE entry' = Rounded(Decoded) /\ half' = 0 /\ pc' = "enable"
  /\ UNCHANGED <<devs, cmd, handles, h, idx, bar, command, base_addr, size, report>>

(* Put the base address back and decode; a 64-bit BAR goes on with its     *)
(* upper dword, and consumes the loop index of it.                         *)
Restore ==
  /\ pc = "restore"
  /\ ConfigWrite(bar + half, base_addr)
  /\ IF half = 0 /\ Decoded.is_64bit
     THEN /\ entry' = Decoded
          /\ half' = 1 /\ pc' = "base"
          /\ UNCHANGED idx
     ELSE /\ entry' = Rounded(Decoded)
          /\ half' = 0 /\ pc' = "enable"
          /\ idx' = idx + half
  /\ UNCHANGED <<devs, cmd, handles, h, bar, command, base_addr, size, report>>

(* "need to reenable responses before printing" *)
Enable ==
  /\ pc = "enable"
  /\ RestoreCommand
  /\ pc' = "print"
  /\ UNCHANGED <<devs, reg, locals, handles, h, idx, command, report>>

PrintedLine ==
  [handle |-> h, bar |-> bar, memory |-> entry.memory,
   is_64bit |-> entry.is_64bit, prefetchable |-> entry.prefetchable,
   addr |-> entry.addr, size |-> entry.size]

(* Mutant: the lines of a device end at its first 64-bit BAR. *)
PrintLast ==
  /\ pc = "print"
  /\ report' = IF entry.size > 0 THEN Append(report, PrintedLine) ELSE report
  /\ pc' = "bars" /\ idx' = IF entry.is_64bit THEN NumBars ELSE idx + 1
  /\ UNCHANGED <<hardware, locals, handles, h, command, failed>>

PrintBar ==
  /\ pc = "print"
  /\ report' = IF entry.size > 0 THEN Append(report, PrintedLine) ELSE report
  /\ pc' = "bars" /\ idx' = idx + 1
  /\ UNCHANGED <<hardware, locals, handles, h, command, failed>>

Done ==
  /\ pc = "done"
  /\ UNCHANGED vars

Next ==
  \/ Locate \/ HandleProtocol \/ FreeHandles
  \/ Identify \/ Disable \/ EndDevice
  \/ ReadBase \/ Skip \/ WriteOnes \/ ReadSize \/ Restore \/ Enable \/ PrintBar
  \/ Done

Spec == Init /\ [][Next]_vars

(* The stub is one thread that nothing blocks: it takes its next step.     *)
FairSpec == Spec /\ WF_vars(Next)
-----------------------------------------------------------------------------
(* Properties *)

FailedAt(k, b, calls) == \E c \in calls : <<k, b, c>> \in failed

(* Did a read or a write of register r of device k fail, in the sizing of  *)
(* the BAR it belongs to or of the one below that takes it for its upper   *)
(* half?                                                                   *)
Untouchable(k, r) == FailedAt(k, r, {"read", "write"}) \/ FailedAt(k, r - 1, {"read", "write"})

(* Has the loop tried BAR c of device k and left it behind?                *)
Passed(k, c) ==
  \/ k < h
  \/ k = h /\ pc = "bars" /\ c < idx
  \/ k = h /\ pc = "print" /\ c <= idx

(* The write that should have let device k respond again after BAR b was   *)
(* lost, and no later BAR made up for it: none of them could be silenced   *)
(* either.  (The register above b may have been its upper half.)           *)
SilencedByFault(k) ==
  \E b \in Bars :
    /\ FailedAt(k, b, {"enable"})
    /\ \A c \in Bars : c > b + 1 /\ Passed(k, c) => FailedAt(k, c, {"disable"})

Original(k, r) == reg[k][r] = Reset(devs[k].slots[r])

(* Every variable has its type, and a program counter of the list below.   *)
TypeOK ==
  /\ devs \in [Handles -> Devices]
  /\ cmd \in [Handles -> SUBSET CommandBits]
  /\ reg \in [Handles -> [Regs -> Word]]
  /\ pc \in {"locate", "open", "identify", "bars", "base", "skip", "ones", "size",
             "restore", "enable", "print", "done"}
  /\ handles \in {"none", "held", "freed"}
  /\ h \in 0 .. NumHandles
  /\ idx \in 0 .. NumBars + 1
  /\ bar \in Bars /\ half \in 0 .. 1
  /\ command \in SUBSET CommandBits
  /\ base_addr \in Word /\ size \in Word
  /\ entry \in [memory : BOOLEAN, is_64bit : BOOLEAN, prefetchable : BOOLEAN,
                addr : Nat, size : Nat]
  /\ report \in Seq([handle : Handles, bar : Bars, memory : BOOLEAN,
                     is_64bit : BOOLEAN, prefetchable : BOOLEAN,
                     addr : Nat, size : Nat])
  /\ failed \subseteq Handles \X Bars \X Calls

(* While a register holds anything but its assigned address the device it  *)
(* belongs to answers nobody: it never decodes a range it does not own.    *)
(* Only a failed read or write of that register can leave it otherwise.    *)
(* (stub.c:232-302, disable before sizing, restore before re-enabling.)    *)
SizedOnlyWhileSilent ==
  \A k \in Handles, r \in Regs :
    ~Original(k, r) /\ ~Untouchable(k, r) => Silent(cmd[k])

(* Outside the sizing of its own BAR a register holds the address firmware *)
(* assigned: a 64-bit BAR has both halves back before the next BAR, and    *)
(* nothing is left behind in a device already listed.  (stub.c:266-284)    *)
AddressesRestored ==
  \A k \in Handles, r \in Regs :
    \/ Original(k, r)
    \/ Untouchable(k, r)
    \/ k = h /\ r = bar + half /\ pc \in {"size", "restore"}

(* The console may itself be behind the device being probed: whenever the  *)
(* stub prints, every device responds with the command register it had,    *)
(* unless writing it back failed and no BAR after that was sized.          *)
(* (stub.c:248-254, 296-302, and 240 where the failed disable is reported.)*)
RespondingWhenPrinting ==
  pc \in {"locate", "open", "identify", "bars", "print", "done"} =>
    \A k \in Handles :
      cmd[k] = devs[k].command \/ SilencedByFault(k)

Refusing == {k \in Handles : FailedAt(k, 0, {"protocol", "identify"})}

Promise == INSTANCE PciInventory WITH
  refused <- Refusing,
  i <- IF pc \in {"enable", "print"} THEN bar ELSE idx

(* Did a call fail that makes the loop over the BARs take another way, on  *)
(* a BAR of device k up to b?                                              *)
Stumbled(k, b) == \E c \in 0 .. b : FailedAt(k, c, {"disable", "read", "write"})

(* A printed line is the true line of a BAR that firmware assigned, unless *)
(* a call failed while that BAR was sized.  After a failure the loop may   *)
(* take the upper half of a 64-bit BAR for a BAR of its own, and the upper *)
(* half, when its size mask happens to look like a 64-bit BAR, swallows    *)
(* the register above it, so that the next upper half is listed, too: any  *)
(* failure below excuses the line of an upper half, but no other line.     *)
(* (stub.c:263-324)                                                        *)
ReportsTrue ==
  \A n \in DOMAIN report :
    LET k == report[n].handle
        b == report[n].bar
    IN \/ /\ Promise!Assigned(devs[k].slots[b])
          /\ report[n] = Promise!Line(k, b, devs[k])
       \/ FailedAt(k, b, {"read", "write"})
       \/ devs[k].slots[b].kind = "upper" /\ Stumbled(k, b - 1)

(* A failure hides nothing below it: an assigned BAR of a device that was  *)
(* listed is missing only if a call on it, or on a lower BAR of the same   *)
(* device, failed.  (stub.c:232-325, the continues of the loop)            *)
NothingMissed ==
  \A k \in 0 .. h - 1, b \in Bars :
    devs[k].normal /\ Promise!Assigned(devs[k].slots[b]) =>
      \/ \E n \in DOMAIN report : report[n].handle = k /\ report[n].bar = b
      \/ k \in Refusing
      \/ Stumbled(k, b)

(* Has a call failed on which the loop over the BARs depends?              *)
BarFailed == \E f \in failed : f[3] \in {"disable", "read", "write"}

(* Until a call on a BAR fails, probing implements the inventory: every    *)
(* assigned BAR of every device that answers is listed exactly once, in    *)
(* order, with its true address and size, and nothing else is.             *)
ImplementsInventory ==
  Promise!IInit /\ [][Promise!INext \/ BarFailed']_(Promise!ivars)

(* The probe ends, and then holds no handle buffer. *)
ProbeEnds == <>[](pc = "done" /\ handles # "held")

-----------------------------------------------------------------------------
(* The inductive invariant behind the safety properties (PciProbeProofs).  *)

SizingPcs  == {"base", "ones", "size", "restore"}
SilentPcs  == SizingPcs \cup {"skip", "enable"}      \* between disable and enable
DevicePcs  == SilentPcs \cup {"bars", "print"}      \* inside the loop over BARs

(* Where the loops stand.  Only the upper dword takes the index further    *)
(* than the BAR being listed.                                              *)
LoopInv ==
  /\ pc \in DevicePcs \cup {"locate", "identify"} => h \in Handles
  /\ pc \in SizingPcs \cup {"skip"} => idx = bar
  /\ pc \in {"enable", "print"} => idx \in bar .. bar + 1
  /\ pc = "bars" => idx \in 0 .. NumBars + 1
  /\ pc \notin DevicePcs => idx = 0
  /\ half = 1 => pc \in SizingPcs

(* What the command registers hold.                                        *)
CommandInv ==
  /\ pc \in DevicePcs => command = devs[h].command
  /\ pc \in SilentPcs => cmd[h] = devs[h].command \ ResponseBits
  /\ \A k \in Handles :
       \/ cmd[k] = devs[k].command
       \/ k = h /\ pc \in SilentPcs
       \/ SilencedByFault(k)
  /\ \A k \in Handles : k > h \/ (k = h /\ pc \notin DevicePcs) => cmd[k] = devs[k].command

(* The local copy of the base address is the one to restore.               *)
BaseInv ==
  pc \in {"ones", "size", "restore"} =>
    \/ base_addr = Reset(devs[h].slots[bar + half])
    \/ Untouchable(h, bar + half)

IInv == TypeOK /\ LoopInv /\ CommandInv /\ BaseInv /\ AddressesRestored

(* Registers the sizing has not reached yet are as firmware left them.     *)
Ahead(r) ==
  IF pc \in {"size", "restore"} THEN r > bar + half
  ELSE IF pc \in SizingPcs \cup {"skip"} THEN r >= bar + half
  ELSE IF pc \in {"enable", "print"} THEN r > idx
  ELSE r >= idx

AheadInv ==
  \A k \in Handles, r \in Regs : k > h \/ (k = h /\ Ahead(r)) => Original(k, r)

(* As long as no access to the BAR being sized has failed, the locals hold *)
(* what the device is made of: the assigned address, the size mask, the    *)
(* entry decoded from them.                                                *)
Clean   == ~FailedAt(h, bar, {"read", "write"})
Base(r) == Reset(devs[h].slots[r])
Mask(r) == Latch(devs[h].slots[r], WORD - 1)
Lower   == IF IsIo(Base(bar)) THEN IoEntry(Base(bar), Mask(bar))
           ELSE MemEntry(Base(bar), Mask(bar))
Whole   == IF Lower.is_64bit THEN WithUpper(Lower, Base(bar + 1), Mask(bar + 1)) ELSE Lower

SizingAt ==
  /\ pc = "skip" => Base(bar) = 0
  /\ pc \in {"ones", "size", "restore", "enable", "print"} \/ half = 1 => Base(bar) # 0
  /\ pc \in {"ones", "size", "restore"} => base_addr = Base(bar + half)
  /\ pc = "size" => reg[h][bar + half] = Mask(bar + half)
  /\ pc = "restore" => size = Mask(bar + half)
  /\ half = 1 => entry = Lower /\ Lower.is_64bit
  /\ pc \in {"enable", "print"} =>
       entry = Rounded(Whole) /\ idx = bar + IF Lower.is_64bit THEN 1 ELSE 0

SizingInv == (pc \in DevicePcs => devs[h].normal) /\ (Clean => SizingAt)

(* The loop comes to an upper half only after a failure.                   *)
AtBar == IF pc = "bars" THEN idx ELSE bar

UpperInv ==
  pc \in DevicePcs /\ AtBar \in Bars /\ devs[h].slots[AtBar].kind = "upper" =>
    Stumbled(h, AtBar - 1)

(* What has been listed of the current device.                             *)
Listed(k, b) == \E n \in DOMAIN report : report[n].handle = k /\ report[n].bar = b

ListedInv ==
  pc \in DevicePcs =>
    \A b \in Bars : b < AtBar /\ Promise!Assigned(devs[h].slots[b]) => Listed(h, b) \/ Stumbled(h, b)

(* A range is smaller than the space it is in.  The size of one that fills *)
(* it would wrap to zero, and the BAR would be taken for none.             *)
RangesFit ==
  \A d \in Devices, r \in Bars :
    /\ d.slots[r].kind = "io" => d.slots[r].gran < d.slots[r].lim
    /\ d.slots[r].kind = "mem64" => d.slots[r].gran < WORD \/ d.slots[r + 1].gran < WORD
=============================================================================
