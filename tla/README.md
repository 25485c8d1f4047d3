# A verification project for the ibsenos UEFI stub

ibsenos is a small UEFI application in C. It resets the text console, picks and
switches a graphics mode, fills the screen, prints what it knows about the
machine, sizes the base address registers of every PCI function, and stalls for
ever. This directory holds TLA+ models of the parts that decide something, the
TLC runs that check them on small instances, and TLAPS proofs for every instance.

The program is one thread on top of the firmware. What makes it hard is the
firmware: every call may fail on its own, most statuses are dropped on purpose,
the devices and the memory map change between calls, events race, and the
arithmetic has fixed widths. So the models take **one call to the firmware, with
the computation that follows it, as one action**, and let each call fail.

## Inventory

| Component | Source | State | Operations | Hard behaviour |
|---|---|---|---|---|
| PCI probe | `uefistub/stub.c:72-84, 140-365` | handle buffer, loop indices, saved command, base, size | `efi_setup_pci`, `print_device_info`, `efi_pci_cfg_read32/write32` | partial failure, order of disable / size / restore / enable / print, 64-bit BARs that consume an index, dword arithmetic |
| PCI device | `uefistub/pci.h`, `include/pcidefs.h` | command register, base address registers | latch a write, answer a read | hard-wired bits |
| Graphics setup | `uefistub/gop.c` | adapter's mode, best match, `screen_info`, pool buffers | `efi_setup_gop`, `find_gop`, `choose_mode`, `highest_res`, `set_gop_mode`, `print_modes_list` (debug) | failing queries and mode switches, ties, 16- and 32-bit fields, bit masks |
| Memory map | `uefistub/memory.c:8-89` | pool buffer, size and key | `efi_load_memory_map`, `efi_allocate_buffer`, `efi_free_buffer` | the map grows between the two calls |
| Page allocation | `uefistub/memory.c:95-141`, `include/align.h` | ranges held | `efi_allocate_memory_pages`, `efi_free_memory_pages` | rounding and wrap-around |
| Console output | `uefistub/console.c:14-137`, `stub.c:117-137` | UTF-16 buffer | `efi_puts`, `utf8_to_utf32`, `efi_putd`, `efi_puth`, `efi_put0h`, `print_size` | buffer limit, malformed strings |
| Key wait | `uefistub/console.c:205-243` | timer event, keyboard buffer | `efi_wait_for_key` | key / timer / other reader races, early returns |
| Console reset | `uefistub/console.c:140-202` | text mode | `efi_console_reset`, colours, clear | choice of a mode |
| Boot sequence | `uefistub/stub.c:11-69, 371-452` | system table, watchdog | `uefistub_pe_entry`, `efi_exit`, `print_uefi_info` | order, early exits, the watchdog beside it all |
| Strings and numbers | `utils/string.c` | none | memory, copies, comparisons, reversal, `u64tostr` | digits at the edges, NUL and padding, signed characters |

Interaction is by direct calls. `uefistub_pe_entry` calls `efi_console_reset`,
`efi_setup_gop`, its own fill loop over the `screen_info`, the printers and
`efi_setup_pci`, once each and in this order. All share the system table (`ST`,
`BS`); the `screen_info` passes from graphics setup to the fill loop. Everything
that prints goes through `efi_puts`, and so through a console that may itself be
a PCI device: that is the one hidden coupling, and `RespondingWhenPrinting` is
about it. `efi_wait_for_key` is called by the mode listing of the debug build;
the memory functions have no caller yet ("call ExitBootServices in future",
`stub.c:447`) and are modelled with a caller that uses them as their signatures
suggest.

What makes each correct:

- *PCI probe*: leaves every device as it was; a device never decodes a range it
  does not own; prints only when every device answers; the lines are true and
  complete; what one failing call damages stays confined.
- *Graphics setup*: the adapter and mode it promises; a `screen_info` that is
  true of the mode the adapter is in; a fill loop inside the frame buffer; no leaks.
- *Memory map*: a delivered map is complete or recognisably stale; every buffer
  freed once; outputs only on delivery; the call returns.
- *Page allocation*: exclusive ranges of the size asked for, below the limit, given back whole.
- *Console output*: no unit outside the buffer, no octet beyond the NUL, every
  well-formed character printed as itself.
- *Key wait*: no key lost, no event leaked, a timeout that means timeout.
- *Console reset*: no smaller text mode than 80x25, and the largest that is not narrower.
- *Boot sequence*: what is drawn and printed is true of the graphics mode set;
  without one nothing is drawn or probed; the stub comes to one of its known ends.
- *Strings and numbers*: numbers read back as themselves, copies write what they
  should and nothing else, comparisons order.

PROJECT.json lists the hazards with their lines and the properties that cover them.

## Modules

| Module | Models | How its state and actions correspond to the code |
|---|---|---|
| `PciDevice` | the hardware, external | a device is described by its command register, its header type, the kinds of calls that may fail on it (`faults`) and its registers; `Machines` says which devices may be together. `Slots` describes one base address register by the size of the range it decodes (`gran`), its read-only flag bits, its assigned address and hard-wired upper bits (`lim`). `Latch` is what a write leaves in it. |
| `PciInventory` | abstract specification | handle after handle, register after register, one line per assigned BAR |
| `PciProbe` | `efi_setup_pci`, `print_device_info` | `h`, `idx`, `bar`, `command`, `base_addr`, `size` are the locals; `entry` groups `memory`, `is_64bit`, `prefetchable`, `full_addr`, `full_size`; `half` says which dword of a 64-bit BAR is sized, so the twice-written sequence read / write ones / read / restore is modelled once. `failed` is a history of failed calls, used by the properties only. |
| `MemoryMap` | `efi_load_memory_map` | `tmp` is the local of that name, `map_ptr` and `map_data` the caller's outputs, `live` counts pool buffers, `key` is the firmware's map key. Sizes are in descriptors. |
| `PageAlloc` | the page functions | `free` and `owned`; `ALIGN`, `ALIGN_DOWN`, `ALIGN_DIV` are the macros of `align.h` modulo `ADDR`. |
| `GopSetup` | `efi_setup_gop` and below | `best` is `struct match`, `si` the `screen_info`, `pool` the buffers the firmware allocated for us, `match` the function `choose_mode` was given, `debug` the build. A bit mask is the set of its bits, so `__ffs` and `__fls` are a minimum and a maximum. `PixelOffset` and `Pixel` are the address and the value the fill loop computes. |
| `WaitForKey` | `efi_wait_for_key` | one action per firmware call; keys, another reader and the timer are actions of the environment. |
| `Loops` | | counted loops of the code as functions: a body says what each turn makes of what the turn before has left |
| `StringOps` | `utils/string.c` | one operator per function; memory is a sequence of octets, a pointer an index, and a function that writes yields the memory it leaves and the pointer it returns. A conversion is a `Loop` whose turns (`Divide`, `Shift`, `Subtract`) are those of `naive_convert`, `bitwise_convert` and `to_decimal`. |
| `ConsolePuts` | `efi_puts`, `utf8_to_utf32` and their callers | `PutChar` is one turn of the loop; `Decode` is the decoder, with its shifts written as division and remainder. `call` is the function called, `Text` the string it makes of a number before it calls `efi_puts`. |
| `Boot` | `uefistub_pe_entry`, `efi_console_reset`, `efi_exit` | the composition: `phase` is where the entry point is; in phase `gop` the steps are those of an instance of `GopSetup` over the same variables; `efi_setup_pci` is one step, whose status is dropped; the watchdog is an action of the environment. |
| `MC...` | | give TLC its devices, adapters, frames and strings |
| `PciProbeProofs`, `MemoryMapProofs`, `PageAllocProofs`, `GopSetupProofs`, `WaitForKeyProofs`, `ConsoleProofs`, `BootProofs` | | theorems and their proofs; the parts of the inductive invariants are defined at the end of the modules they are about, so that TLC can check them, too |
| `NumberLemmas` | | division and remainder by multiples, used for registers and for rounding to pages; counted loops and powers: the invariant of a loop holds of what it leaves |

Operators marked "Mutant" in a comment are not part of a specification. Each is
the form a plausible mistake would give one definition, and PROJECT.json pairs it
with the property that notices.

## Runs

| Run | Question | Bounds, and why they are enough |
|---|---|---|
| `pci` | what holds of hardware and lines when any call fails? does probing implement the inventory until then? does it end? | dwords of 64 values (four flag bits, two address bits), four BARs, so that an upper half can swallow the lower half of the next pair; two handles: every pair of seven devices whose handles may be refused (32-bit, I/O and 64-bit BARs in every position that matters, ranges below, equal to and above one dword, unassigned BARs, a bridge), devices on which every subset of calls may fail, behind a bridge (one of four used BARs without failures of the enabling write), and one that goes wrong before another |
| `memory_map` | is the call correct while the map changes? | maps of 1-6 descriptors, three changes (one before, one during, one after the call), slack of two |
| `memory_map_slack` | does the slack absorb growth? (violated) | same |
| `pages` | are ranges exclusive, complete, below the limit, returned? | 32 addresses, pages of four, every size, two ranges, memory with a hole; limits of one page and more |
| `pages_limit` | does a limit below one page limit? (violated) | same, every limit |
| `gop` | adapter, mode, `screen_info`, fill, list, leaks, return | two handles, adapters of up to four modes (one whose area wraps to 0), both builds, a request the code knows and one it does not; fields of 32 values, so that one mode overflows them |
| `wait_key` | the races of key, reader and timer | three keys, three calls: a call after a leaked event, and a key left over by a timeout |
| `puts` | decoding, buffering, numbers, string functions | a buffer of six units, so four characters meet every fill level; the edges of every UTF-8 range; numbers of 16 bits at the edges of every base, units of 8; every string of up to four octets against its prefixes, its reverse and its extensions, in memory with a guard behind |
| `puts_utf8` | are all well-formed characters decoded? (violated) | the edge strings and U+1D800 |
| `boot` | text mode, drawing, exits and ends of the whole stub | three system tables (good, without console input, without signature), three consoles of up to six text modes with a search that stops at five (one mode beyond it, narrower and larger ones before and after wide ones), one graphics handle with three adapters, both builds; a second handle adds nothing `gop` does not check |
| `boot_text` | is the text mode chosen the largest, as the comment says? (violated) | same |
| `boot_revision` | is the revision printed as its comment says? (violated) | same |

Every passing run's state space is explored completely.

### What the violations show

- The slack of 32 descriptors is allocated but never offered: the second
  `get_memory_map` gets the old size (`memory.c:42`), so any growth makes it
  fail, also one for which there is room. The failure is clean: `memory_map` shows
  that nothing leaks and nothing wrong is delivered.
- A `below_addr` smaller than a page wraps (`memory.c:115`).
- The third number of the UEFI revision is the remainder of all 32 bits, not of
  the lower half (`stub.c:16`, `efi.h:66`): 2.70 is printed as 2.7.2.
- Characters such as U+1D800 are taken for surrogates (`console.c:49`).
- "Identify console with largest rows * columns" (`console.c:151`) is not what the
  comparison does: a mode narrower than the best so far is passed over
  (`console.c:166`), so 160x30 is kept over a later 100x60. `TextModeChosen`
  states what is found instead, and is proved.

### What the passing properties leave open, and why

Where the code makes no promise, the property says so in its statement instead of
hiding the case in the model:

- A failed read or write of a base address register goes unnoticed by the code,
  so the register, and the line printed for it, may be wrong (`Untouchable`).
- After a lost write of the command register the device stays silent until a later
  BAR is sized (`SilencedByFault`); that it then has its own command register
  back rests on the copy made once, before the loop.
- The inventory states the printed size of an I/O BAR that decodes 16 bits, which
  is larger than its range.
- `FillStaysInside` is about 32-bit pixels and scan lines that fit 16 bits: with
  others the loop (four bytes a pixel, `stub.c:411`) and the line length disagree.
  It is about frames of up to 2 GiB, too: `lfb_linelength * y` is a signed 32-bit
  product, in the model half of `AREA`.
- `HighestModeChosen` compares areas as the code does, as 32-bit products.
- `lfb_linelength` is the length of a scan line in bytes, and so `FillStaysInside`
  states it: the fill loop uses it that way. Its comment says "pixels per scan
  line" (`boot.h:17`), which is true of no mode the stub draws on; no run is spent
  on it, since the two units differ by a factor of four in every mode.
- `ScreenInfoTrue` excepts an adapter that described no usable mode: mode 0 is
  then set unseen (`gop.c:242`).
- `StringsRight` orders strings by signed characters, as `strncmp` does
  (`string.c:131`); the C library compares unsigned ones.
- `NumbersPrinted` covers mode numbers up to 999 in the debug list: four digits do
  not fit its buffer (`gop.c:144`).
- `EntryEnds` counts a call through a missing console input (`console.c:148`) or
  through a table without signature (`stub.c:378`) among the ends of the stub, for
  such machines and no other; and a reset by the watchdog, which the release build
  leaves armed.
- `EventsClosed` counts the event left open when the timer cannot be set
  (`console.c:228`): that leak is there, and the property excludes any other.

## Fairness

The stub is a single thread that nothing preempts for good, and boot services
answer every call: weak fairness of the program's own steps. In `WaitForKey` the
timer, once armed, expires (weak fairness of `TimerExpires`); no fairness is
assumed of keys, of other readers, or of failures. In `MemoryMap` none is assumed
of the map's changes or of the caller. In `Boot` the firmware's watchdog, while
armed, runs out: five minutes pass, so weak fairness of `WatchdogExpires`; that
`set_watchdog_timer` succeeds is not assumed. `puts` checks safety and an action
property and needs no fairness.

`CHECK_DEADLOCK FALSE` is set for `puts` and `puts_utf8`, where the function has
returned at the end of the string, and for `wait_key`, where the environment may
press no more keys and the caller may stop calling.

## Proofs

All proofs hold for every value of the constants under the named assumptions of
the modules.

**PCI probe** (`PciProbeProofs`; assumptions: the dword's size is a multiple of
16, at least one BAR and one handle, well-formed devices; any of the calls may
fail on any of them). `TypeOK`, `SizedOnlyWhileSilent`, `AddressesRestored` and
`RespondingWhenPrinting` are invariants. None is inductive. `AddressesRestored`
needs to know that the value written back is the one the register had: that is
`BaseInv`, which in turn needs the register to have held its address when it was
read, the induction hypothesis for another program counter. It also needs that
writing the reset value back restores it (`LatchRestores`), where the arithmetic
of granularity and limit (`NumberLemmas`) comes in. `SizedOnlyWhileSilent` needs
`CommandInv`: between disable and enable the command register is the saved one
without its response bits, and the saved copy is the original, which holds
because earlier BARs restored it or failed to. `RespondingWhenPrinting` excuses a
lost write only as long as no later BAR is sized; `SilenceStep` follows the excuse
through the loop. `LoopInv` ties the loop index to
the BAR being sized. `IInv` is the conjunction; the proof of a step has one lemma
per conjunct and one step per action.

**Memory map** (`MemoryMapProofs`): all four safety invariants. `CallInv` says
where in a call the buffer is held and that the key of a map held is not newer
than the firmware's; a later map then has a different key.

**Page allocation** (`PageAllocProofs`; assumptions: the page size divides the
number of addresses, memory is a set of frames below it). `RangesExclusive` is
not inductive: a freed range must not take frames of another with it.
`CoverInv` says that the free frames and the frames of the ranges held cover
memory without overlap, and that a range is not longer than its frames. It rests
on `PagesAgree` (allocating and freeing round to the same number of pages) and
`PagesSuffice` (if `ALIGN_DIV` gives a page at all, it did not wrap); from it
the firmware refuses no run a caller gives back. `BelowLimit` is proved for
limits of at least one page, which is where `ALIGN_DOWN` stops wrapping
(`LimitHolds`); the run `pages_limit` shows why the hypothesis is needed.

**Key wait** (`WaitForKeyProofs`): all four safety invariants. `CallsInv` (a call
leaves at most one event) bounds the counters, `TimeoutInv` says what is known
between the wait and the timeout.

**PCI probe, the lines printed** (`PciProbeProofs`, second half). What is printed
is true only if what was read is, so the invariants follow the data: `AheadInv`
(a register the loop has not come to holds what it was reset to), `SizingInv`
(as long as no access to the BAR has failed, the locals hold the assigned
address, the size mask and the entry decoded from them), `UpperInv` (the loop
takes an upper half for a BAR only after a failure below), `ListedInv` (what
has been listed of the current device). Two things came out of the proof:

- After a failure the loop may read the upper half of a 64-bit BAR as a BAR of its
  own; if its mask then looks like that of another 64-bit BAR it swallows the
  register above. So `ReportsTrue` excuses the line of an upper half after *any*
  failure below, not only after one on its own lower half.
- The size of a range that fills its space wraps to zero, and the BAR passes for
  none. `NothingIsMissed` and `ProbeImplementsInventory` therefore assume
  `RangesFit`: no range fills its space. `ReportsAreTrue` needs no such
  hypothesis, since what is not listed is not untrue.

`ProbeImplementsInventory` is the refinement of `PciInventory`: every step up to the
first failure of an access to a BAR or of silencing a device is one of the
inventory's or a stutter (`BarFailed`; the inventory makes no promise about what
follows). Each kind of step is mapped by a lemma:
the accesses to the hardware stutter, `HandleProtocol`, `Identify` and
`EndDevice` move on as the inventory does (`HandleSteps`), a skipped register is
one that the inventory does not list (`SkipImplements`), and printing is the
inventory's `ListBar` (`PrintImplements`), by `SizingInv`.

**Graphics setup** (`GopSetupProofs`): all six safety invariants, by an inductive
invariant of five parts besides the type. `PoolInv` says which buffers are held at
each program counter; `FindInv` what is known of the handles asked so far and of
the first usable one; `ModeInv` that an adapter is in the mode it was in or in the
one chosen; `BestInv` that `best` is the lexicographic maximum (area, depth, then
lowest number) of the modes described so far; `LoopInv` where the loops stand and
that the list agrees with the adapter. `highest_res` starts from area 0 and depth
0, so a mode whose area wraps to 0 and whose masks are empty is no better than
none: `HighestModeChosen` speaks of `SizedModes`, and an adapter with such a mode
is among those of the run `gop`. `FillInside` is proved for firmware that
describes its modes by its contract (`FirmwareContract`: lines no shorter than
the picture, masks contiguous and disjoint, as the UEFI specification has it and
`gop.c:78` relies on); for others the statement is false, since the bits between
the ends of a mask would be drawn over.

**Console output** (`ConsoleProofs`): type, `BufferFits`, `NeverPastNul`,
`BuffersWhole` and the action property `PrintsRight`, for any strings of octets
and any buffer of more than three units. The buffers need to know that the one
being filled is whole, too (`Whole(buf)`); whole sequences are closed under
concatenation (`WholeConcat`), and each turn adds a whole one (`AddedWhole`).
`NeverPastNul` rests on `ReadBound`: the decoder looks at the octet behind a
sequence only when the octets before it are trailing ones, which a NUL is not.
For `PrintsRight` the decoder (shifts, a count of leading ones, a length check at
the end) is compared with table 3-7 of the Unicode standard, length by length
(`TwoRight`, `ThreeRight`, `FourRight`, `DecodesRight`): what the table accepts is
decoded to its code point unless it looks like a surrogate, and what it rejects
is printed octet by octet.

**Numbers** (`ConsoleProofs`, first part and `NumbersArePrinted`; assumptions: `WidthAssumption`,
the decimal digits provided for are those of the width; `DigitsAssumption`, at
least two hexadecimal digits; `NumbersAssumption` and `KiloAssumption`).
`ConversionsReadBack` says that every number of the width, in every base the
conversion knows, reads back as itself and has no zero in front. Each conversion
has an invariant of its turns: `Divided` (remaining value times a power of the
base, plus what the digits are worth, is the value) for the digits that come
lowest first, `Reads` for those that come highest first. A loop's invariant holds
of what the loop leaves by `LoopInvariant` of `NumberLemmas`: its proof takes the
first turn after which the invariant fails (`LeastExists`), because the library's
induction theorems take an operator and cannot be instantiated. `PaddedIs` and
`FilledValue` say what reversing, setting zeros and reversing again leaves in the
buffer, `SizeText` that the unit chosen by `print_size` divides the size as often
as it says. `TextsAreOctets` follows: what `efi_puts` is given is always a string.
`NumbersArePrinted` joins the two halves: by the invariant `InOrder` the buffers
handed on, one behind the other, and the buffer being filled are the text up to
the octet decoded next, so at the end the console has been handed all of it.

**Strings** (`ConsoleProofs`, last part; no assumption beyond octets being octets).
`StringFunctions` says that every function of `string.c` on strings and memory does
what `string.h` promises, for any two strings, one behind the other in memory and
with room behind them (`Memory`). What a function writes is stated whole: the
memory it leaves is the memory it was given with the result at the destination and
nothing else changed (`With`). One lemma per function establishes that for a string
that stands anywhere (`Stands`): `CopyIs`, `StpcpyIs`, `StrcatIs`, `StrrevIs`,
`StpncpyIs`; `StrcatIs` needs that writing over the NUL of what was written before
continues it (`WithMore`). A comparison is decided at the first difference
(`FirstDifference`, `NoDifference`), which its loop finds as the least offset where
it stops (`LeastOffset`, `StrncmpStops`); `StrcmpRight` adds that the NUL at the end
of the shorter string is such a difference. `StringsAreRight` needs of the console
only that what it prints is a string. `StringsRight` stops at four octets for TLC's
sake; `StringFunctions` has no bound.

**Boot sequence** (`BootProofs`): type, `TextModeChosen`, `DrawnTrue`, and that the
stub refines graphics setup (`SetupRefined`: a step of the stub is one of
`GopSetup` in phase `gop` and leaves its variables alone in all others). Through
it the invariant proved in `GopSetupProofs` holds of the stub: `Gop` is a second
instance that brings the theorems, `SameMode` says that both instances describe
a mode alike. On it build `SearchInv` (the text mode is the best of those seen,
at every turn of the search) and `PhaseInv` (how far the stub is, by what it has
drawn, printed and probed). `DrawnIsTrue` assumes `FramesFit`: pixels of 32 bits
and sizes that fit the 16-bit fields of `screen_info`; the fields truncate others.

The hypotheses `RangesFit`, `FirmwareContract` and `FramesFit` are
assumptions of the MC modules, so TLC confirms that the instances of the runs
meet them. The theorems that do not name them hold without.

Only model-checked:

- Liveness (`ProbeEnds`, the `CallReturns` of both modules, `SetupReturns`,
  `EntryEnds`): fairness is out of the prover's reach.
- The five violations, which are counterexamples by nature.

## Not modelled

- Device and class names, text attributes (`efi_console_color`, `efi_console_restore`,
  `console.c:177-202`) and the wording of messages: no state depends on them.
- What a mode number of four digits does to the memory behind `print_list_entry`'s
  buffer (`gop.c:144`), and what a call through a table without signature does.
- `__ffz`, `ffs` and `fls` of `bitops.h`: nothing calls them. (`fls` returns an
  uninitialised value for an argument unknown at compile time, and `variable_ffs`
  the index minus one.)
- Accesses of firmware drivers to a device while it is probed: the repository
  says nothing about them.
- Declarations (`efi.h`, `pcidefs.h`, `pci.h`), most of which nothing uses; build
  files, licences.

## Plan

Done, in this order: the PCI device, inventory and probe with their proofs; the
memory map, page allocation, graphics setup, key wait and console output with
their runs; the proofs for the memory map and the key wait; the debug build's
list of modes and the bit masks of graphics setup; the string functions and the
printing of numbers; the boot sequence with the console reset; the proofs for
page allocation; the proofs for graphics setup, the lines of the PCI probe and
their refinement of the inventory, the console output, the boot sequence, the
conversion and printing of numbers, and the string functions.

Left of the model: in `PciProbe`, a driver of the firmware that uses its device
from a notification function, once its accesses can be stated from the code.

Left to prove: of `MemoryMap`, that a delivered map is current or recognisably
stale, as an action property of its own.
