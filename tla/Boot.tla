-------------------------------- MODULE Boot --------------------------------
(***************************************************************************)
(* src/uefistub/stub.c, uefistub_pe_entry: the whole stub, from the call   *)
(* of the firmware to the endless stall.  It composes efi_console_reset    *)
(* (console.c), modelled here, and efi_setup_gop, the actions of GopSetup  *)
(* over the same variables; efi_setup_pci has a module of its own and is   *)
(* one step here, whose status is dropped.  The watchdog of the firmware   *)
(* runs beside all of it.                                                  *)
(***************************************************************************)
EXTENDS Integers, Sequences, FiniteSets

CONSTANTS
  NumHandles, Adapters, AREA, LINE, Requests, None,  (* see GopSetup        *)
  Tables,     (* the system tables the stub may be called with              *)
  Consoles,   (* text consoles: the sizes of their modes, from mode 0 on    *)
  LASTMODE    (* mode number the search for a text mode stops at, 64 in the *)
              (* code                                                       *)

VARIABLES
  adapters, debug, requested, cur, pc, pool, n, first_gop, gop, match, m,
  best, si, status, refused, answered, list,         (* see GopSetup        *)
  phase,     (* where the entry point is                                    *)
  ST,        (* the system table                                            *)
  sizes,     (* sizes of the console's text modes (never changes)           *)
  tmode,     (* text mode the console is in                                 *)
  i,         (* loop variable of efi_console_reset                          *)
  text,      (* its locals mode, columns and rows                           *)
  seen,      (* history: text modes whose query succeeded                   *)
  watchdog,  (* whether the firmware's watchdog timer is armed              *)
  drawn,     (* the screen_info the screen was filled by, None before       *)
  shown,     (* what was printed about firmware and screen, None before     *)
  probed     (* whether efi_setup_pci was called                            *)

Setup == INSTANCE GopSetup

setup == <<adapters, debug, requested, cur, pc, pool, n, first_gop, gop, match, m, best,
           si, status, refused, answered, list>>
console == <<sizes, tmode, i, text, seen>>
report == <<drawn, shown, probed>>
vars == <<setup, phase, ST, console, watchdog, report>>

SystemTable ==
  [valid : BOOLEAN, conin : BOOLEAN, revision : Nat, fw_revision : Nat]

Size == [columns : Nat, rows : Nat]

(* What is printed about firmware and screen. *)
Reports ==
  [uefi       : [revision : Nat \X Nat \X Nat, firmware : Nat \X Nat],
   resolution : Nat \X Nat \X Nat,
   fields     : [Setup!Colours -> [pos : Nat, size : Nat]],
   size       : Nat]

ASSUME SetupAssumption ==
  /\ NumHandles \in Nat \ {0} /\ None \notin Setup!Handles
  /\ \A a \in Adapters : a \in Setup!Protocol /\ a.current < Len(a.modes)
  /\ Requests \subseteq Setup!GraphicsMode
  /\ AREA \in Nat \ {0} /\ LINE \in Nat \ {0}
ASSUME TablesAssumption == Tables \subseteq SystemTable
ASSUME ConsolesAssumption ==
  Consoles \subseteq Seq(Size) \ {<<>>} /\ LASTMODE \in Nat \ {0}
ASSUME NoneAssumption == None \notin Setup!ScreenInfos /\ None \notin Reports

Init ==
  /\ Setup!Init
  /\ phase = "entry" /\ ST \in Tables
  /\ sizes \in Consoles /\ tmode = 0
  /\ i = 1 /\ text = [mode |-> 0, columns |-> 80, rows |-> 25] /\ seen = {}
  /\ watchdog = "armed"
  /\ drawn = None /\ shown = None /\ probed = FALSE

(* The next phase in the order of the source. *)
Goto(next) == phase' = next

-----------------------------------------------------------------------------
(* Mutant: an error is printed, and the stub goes on. *)
CheckSignatureOnly ==
  /\ phase = "entry"
  /\ Goto("reset")
  /\ UNCHANGED <<setup, ST, console, watchdog, report>>

(* A table without the signature is used all the same, to exit through. *)
CheckSignature ==
  /\ phase = "entry"
  /\ Goto(IF ST.valid THEN "reset" ELSE "exit")
  /\ UNCHANGED <<setup, ST, console, watchdog, report>>

(* Both consoles are reset, each status dropped.  Without an input console *)
(* the call goes through a NULL pointer.                                   *)
ResetConsoles ==
  /\ phase = "reset"
  /\ Goto(IF ST.conin THEN "text" ELSE "lost")
  /\ UNCHANGED <<setup, ST, console, watchdog, report>>

Cells(k) == sizes[k + 1].columns * sizes[k + 1].rows

(* Mutant: a mode may be narrower than the best so far. *)
LargerAnyWidth(k) == Cells(k) > text.columns * text.rows

Larger(k) ==
  /\ Cells(k) > text.columns * text.rows
  /\ sizes[k + 1].columns >= text.columns

(* The query of a mode the console has may fail; of any other it does. *)
QueryTextMode ==
  /\ phase = "text" /\ i < LASTMODE
  /\ \/ UNCHANGED <<text, seen>>
     \/ /\ i < Len(sizes)
        /\ seen' = seen \cup {i}
        /\ text' = IF Larger(i)
                   THEN [mode |-> i, columns |-> sizes[i + 1].columns, rows |-> sizes[i + 1].rows]
                   ELSE text
  /\ i' = i + 1
  /\ UNCHANGED <<setup, phase, ST, sizes, tmode, watchdog, report>>

(* Mutant: the release build, too, disables the watchdog. *)
SetTextModeBoth ==
  /\ phase = "text" /\ i = LASTMODE
  /\ tmode' \in {tmode, text.mode}
  /\ i' = 1 /\ seen' = {}
  /\ Goto("watchdog")
  /\ UNCHANGED <<setup, ST, sizes, text, watchdog, report>>

(* The mode is set whether or not it is the current one, and may be refused. *)
SetTextMode ==
  /\ phase = "text" /\ i = LASTMODE
  /\ tmode' \in {tmode, text.mode}
  /\ i' = 1 /\ seen' = {}
  /\ Goto(IF debug THEN "watchdog" ELSE "gop")
  /\ UNCHANGED <<setup, ST, sizes, text, watchdog, report>>

(* The firmware may leave the watchdog as it is; the status is dropped. *)
disable_watchdog_timer == watchdog' \in {"off", watchdog}

(* Debug build: the watchdog is disabled and the screen is cleared. *)
DisableWatchdog ==
  /\ phase = "watchdog"
  /\ disable_watchdog_timer
  /\ Goto("gop")
  /\ UNCHANGED <<setup, ST, console, report>>

SetupGop ==
  /\ phase = "gop" /\ pc # "done"
  /\ Setup!Next
  /\ UNCHANGED <<phase, ST, console, watchdog, report>>

(* Mutant: without graphics the devices are probed all the same. *)
GopReturnsAnyway ==
  /\ phase = "gop" /\ pc = "done"
  /\ Goto(IF status = "success" THEN "fill" ELSE "pci")
  /\ UNCHANGED <<setup, ST, console, watchdog, report>>

GopReturns ==
  /\ phase = "gop" /\ pc = "done"
  /\ Goto(IF status = "success" THEN "fill" ELSE "exit")
  /\ UNCHANGED <<setup, ST, console, watchdog, report>>

(* Every pixel is written where Setup!PixelOffset says. *)
Fill ==
  /\ phase = "fill"
  /\ drawn' = si
  /\ Goto("print")
  /\ UNCHANGED <<setup, ST, console, watchdog, shown, probed>>

(* The parts of the revision of the specification, as they are printed. *)
Revision(rev) == <<rev \div 65536, (rev % 65536) \div 10, rev % 10>>

(* The numbers printed for the specification and the firmware. *)
print_uefi_info ==
  [revision |-> Revision(ST.revision),
   firmware |-> <<ST.fw_revision \div 65536, ST.fw_revision % 65536>>]

PrintInfo ==
  /\ phase = "print"
  /\ shown' = [uefi       |-> print_uefi_info,
               resolution |-> <<si.lfb_width, si.lfb_height, si.lfb_depth>>,
               fields     |-> si.fields,
               size       |-> si.lfb_size]
  /\ Goto("pci")
  /\ UNCHANGED <<setup, ST, console, watchdog, drawn, probed>>

(* Whatever efi_setup_pci returns, "Goodbye!" and a stall without end. *)
SetupPci ==
  /\ phase = "pci"
  /\ probed' = TRUE
  /\ Goto("stall")
  /\ UNCHANGED <<setup, ST, console, watchdog, drawn, shown>>

(* efi_exit: BS->exit should not return; when it does the processor halts. *)
(* What is called through a table without signature nobody knows.          *)
Exit ==
  /\ phase = "exit"
  /\ phase' \in (IF ST.valid THEN {"exited", "halt"} ELSE {"exited", "halt", "lost"})
  /\ UNCHANGED <<setup, ST, console, watchdog, report>>

Stall ==
  /\ phase \in {"stall", "halt", "exited", "lost", "rebooted"}
  /\ UNCHANGED vars

(* The firmware resets the machine after five minutes, wherever it is. *)
WatchdogExpires ==
  /\ watchdog = "armed" /\ phase \notin {"exited", "lost", "rebooted"}
  /\ Goto("rebooted")
  /\ UNCHANGED <<setup, ST, console, watchdog, report>>

Step ==
  \/ CheckSignature \/ ResetConsoles \/ QueryTextMode \/ SetTextMode
  \/ DisableWatchdog \/ SetupGop \/ GopReturns
  \/ Fill \/ PrintInfo \/ SetupPci
  \/ Exit \/ Stall

Next == Step \/ WatchdogExpires

Spec == Init /\ [][Next]_vars

(* One thread, and a timer that runs out. *)
FairSpec == Spec /\ WF_vars(Step) /\ WF_vars(WatchdogExpires)

-----------------------------------------------------------------------------
(* Properties *)

(* Every variable has its type, the component's variables have theirs, and *)
(* the component does not run outside its phase.                           *)
TypeOK ==
  /\ Setup!TypeOK
  /\ phase \in {"entry", "reset", "text", "watchdog", "gop", "fill", "print", "pci",
                "stall", "exit", "exited", "halt", "lost", "rebooted"}
  /\ phase \in {"entry", "reset", "text", "watchdog"} => pc = "locate"
  /\ phase \in {"fill", "print", "pci", "stall"} => pc = "done" /\ si # None
  /\ ST \in Tables /\ sizes \in Consoles
  /\ tmode \in 0 .. Len(sizes) - 1 /\ i \in 1 .. LASTMODE
  /\ text \in [mode : 0 .. LASTMODE - 1, columns : Nat, rows : Nat]
  /\ watchdog \in {"armed", "off"} /\ (watchdog = "off" => debug)
  /\ drawn \in Setup!ScreenInfos \cup {None} /\ shown \in Reports \cup {None}
  /\ probed \in BOOLEAN

(* What the search for a text mode gives: the mode has at least the 80     *)
(* columns and 2000 cells of mode 0, and no mode that was described and is *)
(* as wide has more cells.  A narrower one may, when a wider one came      *)
(* first.  (console.c:152-173)                                             *)
BestOfSeen ==
  /\ text.columns >= 80 /\ text.columns * text.rows >= 80 * 25
  /\ text.mode \in seen \cup {0}
  /\ \A k \in seen :
       /\ Cells(k) > text.columns * text.rows => sizes[k + 1].columns < text.columns
       /\ Cells(k) = text.columns * text.rows /\ sizes[k + 1].columns >= text.columns =>
            text.mode <= k

TextModeChosen == phase = "text" /\ i = LASTMODE => BestOfSeen

(* console.c:151, "Identify console with largest rows * columns": no mode  *)
(* that was described has more cells than the one chosen.                  *)
LargestTextMode ==
  phase = "text" /\ i = LASTMODE =>
    \A k \in seen : Cells(k) <= text.columns * text.rows

(* From the fill to the stall, what fills the screen and what is printed   *)
(* of it is true of the mode the adapter is in at the time, and devices    *)
(* are probed last.  When graphics could not be set up nothing is drawn or *)
(* probed, and nothing is left allocated when the stub exits.              *)
(* (stub.c:394-445)                                                        *)
DrawnTrue ==
  LET mode == Setup!Current(gop)
  IN  /\ drawn # None =>
           /\ status = "success" /\ gop \in Setup!Handles
           /\ drawn = Setup!ScreenInfo(mode)
      /\ shown # None =>
           /\ drawn # None
           /\ shown.resolution = <<mode.width, mode.height, Setup!LfbDepth(mode)>>
           /\ mode.width * mode.height * 4 <= shown.size
      /\ probed => shown # None
      /\ phase \in {"exit", "exited", "halt"} => drawn = None /\ ~probed /\ pool = {}

(* The stub comes to an end, and to which one is no accident: only the     *)
(* debug build, called with a good table and with a console to read from,  *)
(* stalls for ever; it exits only for want of a signature or of graphics,  *)
(* and is left halted only when the exit returned to the debug build; it   *)
(* is lost only in a call through a bad pointer.  Every other run is ended *)
(* by the watchdog.  (stub.c:48-69, 377-402, 448-451, console.c:148)       *)
EntryEnds ==
  \/ <>[](phase = "stall" /\ debug /\ ST.valid /\ ST.conin)
  \/ <>[](phase = "halt" /\ debug /\ ST.valid /\ status # "success")
  \/ <>(phase = "exited" /\ (~ST.valid \/ (pc = "done" /\ status # "success")))
  \/ <>(phase = "lost" /\ ~(ST.valid /\ ST.conin))
  \/ <>(phase = "rebooted")

(* efi.h:66: the revision is "in (major).(minor upper).(minor lower)       *)
(* format"; what print_uefi_info prints as its three numbers.              *)
RevisionTrue ==
  shown # None =>
    LET minor == ST.revision % 65536
    IN shown.uefi.revision = <<ST.revision \div 65536, minor \div 10, minor % 10>>

-----------------------------------------------------------------------------
(* The inductive invariant behind the safety properties (BootProofs).      *)

(* The search for a text mode: of the modes before i, those seen exist,    *)
(* and the mode chosen is the best of them.                                *)
SearchInv ==
  /\ phase \in {"entry", "reset", "text"} => seen \subseteq 1 .. i - 1 /\ BestOfSeen
  /\ seen \subseteq 1 .. Len(sizes) - 1 /\ text.mode < Len(sizes)

(* How far the stub has come, by what it has drawn, printed and probed.    *)
PhaseInv ==
  /\ phase \in {"fill", "print", "pci", "stall"} => status = "success"
  /\ phase = "watchdog" => debug
  /\ phase \in {"exit", "exited", "halt"} => pc \in {"locate", "done"}
  /\ phase \in {"print", "pci", "stall"} => drawn # None
  /\ phase \in {"pci", "stall"} => shown # None
  /\ phase \notin {"print", "pci", "stall", "rebooted"} => drawn = None
  /\ drawn # None => status = "success" /\ drawn = si
  /\ shown # None =>
       /\ drawn # None
       /\ shown.resolution = <<si.lfb_width, si.lfb_height, si.lfb_depth>>
       /\ shown.size = si.lfb_size
  /\ probed => shown # None

IInv == TypeOK /\ SearchInv /\ PhaseInv

(* Modes of 32-bit pixels whose sizes fit the 16-bit fields.               *)
FramesFit ==
  \A a \in Adapters : \A k \in Setup!ModesOf(a) :
    LET mode == a.modes[k + 1]
    IN /\ mode.width <= mode.ppsl /\ mode.ppsl * 4 < LINE /\ mode.height < LINE
       /\ Setup!LfbDepth(mode) = 32
=============================================================================
