------------------------------ MODULE GopSetup ------------------------------
(***************************************************************************)
(* src/uefistub/gop.c: efi_setup_gop picks a graphics adapter, switches it *)
(* to the mode with the highest resolution and describes the frame buffer  *)
(* in a screen_info, which the entry point (stub.c) then fills pixel by    *)
(* pixel.  The debug build lists all modes and waits for a key.  Every     *)
(* call to the firmware may fail on its own.                               *)
(***************************************************************************)
EXTENDS Integers, Sequences, FiniteSets, FiniteSetsExt

CONSTANTS
  NumHandles,  (* adapters the firmware lists                              *)
  Adapters,    (* the descriptions of the adapters a machine may contain   *)
  AREA,        (* values of struct match's area, 2^32 in the code          *)
  LINE,        (* values of the 16-bit fields of a screen_info, 2^16       *)
  Requests,    (* graphics modes efi_setup_gop is asked for                *)
  None         (* NULL                                                     *)

Handles == 0 .. NumHandles - 1

ASSUME HandlesAssumption == NumHandles \in Nat \ {0} /\ None \notin Handles

(* What firmware says of a mode, and of an adapter; "blt" stands for every *)
(* format without a linear frame buffer.  A mask is the set of its bits.   *)
PixelFormat == {"rgb", "bgr", "mask", "blt"}

Colours == {"red", "green", "blue", "reserved"}

PixelBitmask == [Colours -> SUBSET (0 .. 31)]

ModeInfo == [width : Nat, height : Nat, format : PixelFormat, masks : PixelBitmask, ppsl : Nat]

Protocol == [current : Nat, console : BOOLEAN, modes : Seq(ModeInfo)]

GraphicsMode == {"auto", "highest_resolution", "unknown"}

ASSUME AdaptersAssumption ==
  \A a \in Adapters : a \in Protocol /\ a.current < Len(a.modes)
ASSUME RequestsAssumption == Requests \subseteq GraphicsMode
ASSUME WidthAssumption == AREA \in Nat \ {0} /\ LINE \in Nat \ {0}

VARIABLES
  adapters,   (* the adapter behind each handle (never changes)            *)
  debug,      (* whether this is the debug build (never changes)           *)
  requested,  (* the graphics mode asked for (never changes)               *)
  cur,        (* mode each adapter is in                                   *)
  pc,         (* next step of efi_setup_gop                                *)
  pool,       (* pool buffers the firmware allocated for us, not yet freed *)
  n,          (* loop variable i of find_gop                               *)
  first_gop,  (* local of find_gop                                         *)
  gop,        (* the adapter in use                                        *)
  match,      (* the function choose_mode was given                        *)
  m,          (* loop variable of choose_mode                              *)
  best,       (* struct match                                              *)
  si,         (* the screen_info, None until it is filled in               *)
  status,     (* what efi_setup_gop returned                               *)
  refused,    (* history: handles whose protocol could not be opened       *)
  answered,   (* history: modes whose query succeeded                      *)
  list        (* history: the modes listed, with their marks               *)

machine == <<adapters, debug, requested>>
search == <<n, first_gop, refused>>
choice == <<match, m, best, answered, list>>
vars == <<machine, cur, pc, pool, gop, si, status, search, choice>>

ModesOf(a) == 0 .. Len(a.modes) - 1
Mode(g, k) == adapters[g].modes[k + 1]
Current(g) == Mode(g, cur[g])

(* Only a mode with a linear frame buffer can be drawn on directly. *)
Usable(mode) == mode.format \in {"rgb", "bgr", "mask"}

Init ==
  /\ adapters \in [Handles -> Adapters]
  /\ debug \in BOOLEAN /\ requested \in Requests
  /\ cur = [g \in Handles |-> adapters[g].current]
  /\ pc = "locate" /\ pool = {}
  /\ n = 0 /\ first_gop = None /\ gop = None
  /\ match = "highest_res" /\ m = 0 /\ best = [mode |-> 0, area |-> 0, depth |-> 0]
  /\ si = None /\ status = "none"
  /\ refused = {} /\ answered = {} /\ list = <<>>

-----------------------------------------------------------------------------
(* find_gop *)

Locate ==
  /\ pc = "locate"
  /\ \/ /\ pc' = "done" /\ status' = "not_located"
        /\ UNCHANGED pool
     \/ /\ pc' = "find" /\ pool' = {"handles"}
        /\ UNCHANGED status
  /\ UNCHANGED <<machine, cur, gop, search, choice, si>>

(* The loop goes on past a handle. *)
PassOver(first) ==
  /\ n' = n + 1 /\ first_gop' = first
  /\ UNCHANGED <<pc, gop>>

(* Mutant: the last adapter that is not a console wins. *)
ExamineLast ==
  /\ pc = "find" /\ n < NumHandles
  /\ \/ refused' = refused \cup {n} /\ PassOver(first_gop)
     \/ ~Usable(Current(n)) /\ PassOver(first_gop) /\ UNCHANGED refused
     \/ /\ Usable(Current(n)) /\ adapters[n].console
        /\ gop' = n /\ pc' = "switch" /\ UNCHANGED search
     \/ Usable(Current(n)) /\ ~adapters[n].console /\ PassOver(n) /\ UNCHANGED refused
  /\ UNCHANGED <<machine, cur, pool, choice, si, status>>

Examine ==
  /\ pc = "find" /\ n < NumHandles
  /\ \/ /\ refused' = refused \cup {n}
        /\ PassOver(first_gop)
     \/ /\ ~Usable(Current(n))
        /\ PassOver(first_gop)
        /\ UNCHANGED refused
     \/ /\ Usable(Current(n)) /\ adapters[n].console
        /\ gop' = n /\ pc' = "switch"
        /\ UNCHANGED search
     \/ /\ Usable(Current(n)) /\ ~adapters[n].console
        /\ PassOver(IF first_gop = None THEN n ELSE first_gop)
        /\ UNCHANGED refused
  /\ UNCHANGED <<machine, cur, pool, choice, si, status>>

(* Mutant: nobody checks whether an adapter was found. *)
EndFindUnchecked ==
  /\ pc = "find" /\ n = NumHandles
  /\ gop' = first_gop /\ pc' = "switch"
  /\ UNCHANGED <<machine, cur, pool, status, search, choice, si>>

EndFind ==
  /\ pc = "find" /\ n = NumHandles
  /\ gop' = first_gop
  /\ IF first_gop = None
     THEN pool' = pool \ {"handles"} /\ pc' = "done" /\ status' = "not_found"
     ELSE pc' = "switch" /\ UNCHANGED <<pool, status>>
  /\ UNCHANGED <<machine, cur, search, choice, si>>

-----------------------------------------------------------------------------
(* set_gop_mode, choose_mode and the two functions it is given             *)

(* "auto" and "highest_resolution" are the same; any other is reported. *)
Switch ==
  /\ pc = "switch"
  /\ pc' = IF requested \in {"auto", "highest_resolution"} THEN "query" ELSE "describe"
  /\ UNCHANGED <<machine, cur, pool, gop, si, status, search, choice>>

ffs(mask) == Min(mask)

fls(mask) == Max(mask)

(* pixel_bpp: from the lowest to the highest bit of any mask. *)
Depth(mode) ==
  LET used == UNION {mode.masks[c] : c \in Colours}
  IN IF mode.format # "mask" THEN 32
     ELSE IF used = {} THEN 0 ELSE fls(used) - ffs(used) + 1

Area(mode) == (mode.width * mode.height) % AREA

(* Mutant: depth alone decides between modes of different size. *)
BetterDepth(mode) == Area(mode) > best.area \/ Depth(mode) > best.depth

Better(mode) ==
  \/ Area(mode) > best.area
  \/ Area(mode) = best.area /\ Depth(mode) > best.depth

QueryMode ==
  /\ pc = "query" /\ m \in ModesOf(adapters[gop])
  /\ \/ /\ m' = m + 1
        /\ UNCHANGED <<pc, pool>>
     \/ /\ pool' = pool \cup {"info"}
        /\ pc' = "match"
        /\ UNCHANGED m
  /\ UNCHANGED <<machine, cur, gop, search, match, best, answered, list, si, status>>

highest_res ==
  LET mode == Mode(gop, m)
  IN /\ best' = IF Usable(mode) /\ Better(mode)
                THEN [mode |-> m, area |-> Area(mode), depth |-> Depth(mode)]
                ELSE best
     /\ answered' = answered \cup {m}
     /\ UNCHANGED list

print_list_entry ==
  /\ list' = Append(list, [mode |-> m, star |-> m = cur[gop], dash |-> ~Usable(Mode(gop, m))])
  /\ UNCHANGED <<best, answered>>

(* Mutant: the match returns before the mode's description is freed. *)
MatchLeaks ==
  /\ pc = "match"
  /\ IF match = "highest_res" THEN highest_res ELSE print_list_entry
  /\ m' = m + 1 /\ pc' = "query"
  /\ UNCHANGED <<machine, cur, gop, search, match, pool, si, status>>

(* Mutant: the loop over the modes does not advance past a match. *)
MatchAgain ==
  /\ pc = "match"
  /\ IF match = "highest_res" THEN highest_res ELSE print_list_entry
  /\ pool' = pool \ {"info"} /\ pc' = "query"
  /\ UNCHANGED <<machine, cur, gop, search, match, m, si, status>>

(* Neither function ends the loop. *)
Match ==
  /\ pc = "match"
  /\ IF match = "highest_res" THEN highest_res ELSE print_list_entry
  /\ pool' = pool \ {"info"}
  /\ m' = m + 1 /\ pc' = "query"
  /\ UNCHANGED <<machine, cur, gop, search, match, si, status>>

(* The mode is what it will be: print_modes_list in the debug build. *)
Switched ==
  IF debug
  THEN pc' = "query" /\ match' = "print_list_entry" /\ m' = 0
  ELSE pc' = "describe" /\ UNCHANGED <<match, m>>

EndChoose ==
  /\ pc = "query" /\ match = "highest_res" /\ m \notin ModesOf(adapters[gop])
  /\ IF best.mode = cur[gop] THEN Switched ELSE pc' = "set" /\ UNCHANGED <<match, m>>
  /\ UNCHANGED <<machine, cur, pool, gop, search, best, answered, list, si, status>>

(* A mode that cannot be set is reported, and the current one is kept. *)
SetMode ==
  /\ pc = "set"
  /\ \/ cur' = [cur EXCEPT ![gop] = best.mode]
     \/ UNCHANGED cur
  /\ Switched
  /\ UNCHANGED <<machine, pool, gop, search, best, answered, list, si, status>>

EndList ==
  /\ pc = "query" /\ match = "print_list_entry" /\ m \notin ModesOf(adapters[gop])
  /\ pc' = "wait"
  /\ UNCHANGED <<machine, cur, pool, gop, search, choice, si, status>>

(* A key or the timeout; if the key cannot be read the wait is made up for. *)
Wait ==
  /\ pc = "wait"
  /\ pc' \in {"describe", "stall"}
  /\ UNCHANGED <<machine, cur, pool, gop, search, choice, si, status>>

Stall ==
  /\ pc = "stall"
  /\ pc' = "describe"
  /\ UNCHANGED <<machine, cur, pool, gop, search, choice, si, status>>

-----------------------------------------------------------------------------
(* The rest of efi_setup_gop *)

find_bits(mask) ==
  IF mask = {} THEN [pos |-> 0, size |-> 0]
  ELSE [pos |-> ffs(mask), size |-> fls(mask) - ffs(mask) + 1]

(* Where each colour is in a pixel. *)
Fields(mode) ==
  [c \in Colours |->
     IF mode.format = "mask" THEN find_bits(mode.masks[c])
     ELSE [pos  |-> CASE c = "green" -> 8 [] c = "reserved" -> 24
                      [] c = "red"   -> IF mode.format = "rgb" THEN 0 ELSE 16
                      [] c = "blue"  -> IF mode.format = "rgb" THEN 16 ELSE 0,
           size |-> 8]]

(* lfb_depth adds the widths of the colour fields up. *)
LfbDepth(mode) ==
  LET f == Fields(mode)
  IN f["red"].size + f["green"].size + f["blue"].size + f["reserved"].size

(* Mutant: scan lines are taken to be as long as the screen is wide. *)
LinelengthOfWidth(mode) == (mode.width * LfbDepth(mode)) \div 8

Linelength(mode) ==
  (IF mode.format = "mask" THEN (mode.ppsl * LfbDepth(mode)) \div 8 ELSE mode.ppsl * 4) % LINE

ScreenInfo(mode) ==
  [lfb_width      |-> mode.width % LINE,
   lfb_height     |-> mode.height % LINE,
   lfb_depth      |-> LfbDepth(mode),
   lfb_linelength |-> Linelength(mode),
   fields         |-> Fields(mode),
   lfb_size       |-> Linelength(mode) * (mode.height % LINE)]

ScreenInfos ==
  [lfb_width : Nat, lfb_height : Nat, lfb_depth : Nat, lfb_linelength : Nat,
   fields : [Colours -> [pos : Nat, size : Nat]], lfb_size : Nat]

(* Mutant: describes the mode that was asked for. *)
DescribeRequested ==
  /\ pc = "describe"
  /\ si' = ScreenInfo(Mode(gop, best.mode))
  /\ pool' = pool \ {"handles"}
  /\ pc' = "done" /\ status' = "success"
  /\ UNCHANGED <<machine, cur, gop, search, choice>>

(* gop->mode->info is read again after the mode was set. *)
Describe ==
  /\ pc = "describe"
  /\ si' = ScreenInfo(Current(gop))
  /\ pool' = pool \ {"handles"}
  /\ pc' = "done" /\ status' = "success"
  /\ UNCHANGED <<machine, cur, gop, search, choice>>

Done ==
  /\ pc = "done"
  /\ UNCHANGED vars

Next ==
  \/ Locate \/ Examine \/ EndFind
  \/ Switch \/ QueryMode \/ Match \/ EndChoose \/ SetMode
  \/ EndList \/ Wait \/ Stall
  \/ Describe
  \/ Done

Spec == Init /\ [][Next]_vars

(* One thread, and the firmware answers every call. *)
FairSpec == Spec /\ WF_vars(Next)

(* stub.c, the fill loop: the offset of pixel (x, y) in the frame buffer.  *)
(* The code computes it as a signed 32-bit number: half of AREA and more,  *)
(* in frames of that size, is outside its range.                           *)
PixelOffset(x, y) == si.lfb_linelength * y + 4 * x

(* The bits of the colour 0x913f92 in red, green and blue, each moved to   *)
(* its position: the bits of the pixel that is written.                    *)
Shade == [red |-> {0, 4, 7}, green |-> 0 .. 5, blue |-> {1, 4, 7}]

Shifted(c) == {b + si.fields[c].pos : b \in Shade[c]}

Pixel == UNION {Shifted(c) : c \in DOMAIN Shade}

-----------------------------------------------------------------------------
(* Properties *)

(* Every variable has its type, and the code past find_gop has an adapter. *)
TypeOK ==
  /\ adapters \in [Handles -> Adapters]
  /\ cur \in [Handles -> Nat] /\ \A g \in Handles : cur[g] \in ModesOf(adapters[g])
  /\ pc \in {"locate", "find", "switch", "query", "match", "set", "wait", "stall", "describe", "done"}
  /\ pool \subseteq {"handles", "info"}
  /\ n \in 0 .. NumHandles
  /\ first_gop \in Handles \cup {None} /\ gop \in Handles \cup {None}
  /\ pc \notin {"locate", "find", "done"} => gop # None
  /\ m \in Nat /\ best \in [mode : Nat, area : 0 .. AREA - 1, depth : 0 .. 32]
  /\ status \in {"none", "not_located", "not_found", "success"}
  /\ refused \subseteq Handles /\ answered \subseteq Nat
  /\ si \in ScreenInfos \cup {None}

(* The handles and modes the code could have chosen from. *)
Candidates   == {g \in Handles \ refused : Usable(Mode(g, adapters[g].current))}
UsableModes  == {k \in answered : Usable(Mode(gop, k))}

(* A mode whose area wraps to 0 and whose masks are empty is not better    *)
(* than none: choose_mode starts from area 0 and depth 0, and from mode 0. *)
SizedModes   == {k \in UsableModes : Area(Mode(gop, k)) # 0 \/ Depth(Mode(gop, k)) # 0}

(* The highest mode has been chosen: choose_mode's first loop is over. *)
Chosen ==
  \/ pc = "set"
  \/ gop # None /\ pc \notin {"switch", "query", "match"} /\ requested # "unknown"
  \/ match = "print_list_entry"

(* The adapter used is one that can be drawn on: the first that is also a  *)
(* console output device, else the first at all; and no adapter is found   *)
(* only if every handle was refused or unusable.  (gop.c:15-52, 302-306)   *)
AdapterPreferred ==
  /\ gop # None =>
       LET consoles == {g \in Candidates : adapters[g].console}
       IN gop = IF consoles = {} THEN Min(Candidates) ELSE Min(consoles)
  /\ status = "not_found" => Candidates = {}

(* "Find screen mode with highest resolution": of the usable modes the     *)
(* firmware described, the chosen one has the largest area, among those    *)
(* the greatest depth, among those the lowest number, as soon as one of    *)
(* them has an area or a depth at all.  (gop.c:92-107, 216-245)            *)
HighestModeChosen ==
  Chosen /\ SizedModes # {} =>
    /\ best.mode \in UsableModes
    /\ \A k \in UsableModes :
         LET b == Mode(gop, best.mode)
             o == Mode(gop, k)
         IN \/ Area(b) > Area(o)
            \/ Area(b) = Area(o) /\ Depth(b) > Depth(o)
            \/ Area(b) = Area(o) /\ Depth(b) = Depth(o) /\ best.mode <= k

(* What the screen_info describes is the mode the adapter is really in,    *)
(* also when setting the mode failed, and a mode that can be drawn on: the *)
(* exception is an adapter that described no usable mode of any size, for  *)
(* which mode 0 is set unseen.  The debug build's list, too, marks the mode the adapter *)
(* is in and those that cannot be used.  (gop.c:272-275, 310-351, 242-244, *)
(* 113-168)                                                                *)
ScreenInfoTrue ==
  /\ status = "success" =>
       /\ si = ScreenInfo(Current(gop))
       /\ Usable(Current(gop)) \/ (SizedModes = {} /\ cur[gop] = 0)
  /\ \A k \in DOMAIN list :
       /\ list[k].star <=> list[k].mode = cur[gop]
       /\ list[k].dash <=> ~Usable(Mode(gop, list[k].mode))
       /\ k > 1 => list[k - 1].mode < list[k].mode

(* Whatever fails, every pool buffer has been freed on return.             *)
(* (gop.c:103, 304, 353)                                                   *)
NothingLeaks == pc = "done" => pool = {}

(* The bits of a pixel that show a colour, by the UEFI specification. *)
ColourBits(mode, c) ==
  IF mode.format = "mask" THEN mode.masks[c]
  ELSE CASE c = "green" -> 8 .. 15
         [] c = IF mode.format = "rgb" THEN "red" ELSE "blue" -> 0 .. 7
         [] OTHER -> 16 .. 23

(* What the code takes for granted of the firmware's descriptions: a scan  *)
(* line holds a row of pixels, masks do not overlap, and "EFI              *)
(* specification guarantees that the set bits are contiguous" (gop.c:78).  *)
WellDescribed(mode) ==
  /\ mode.width <= mode.ppsl
  /\ mode.format = "mask" => \A c \in Colours :
       /\ mode.masks[c] = {} \/ mode.masks[c] = ffs(mode.masks[c]) .. fls(mode.masks[c])
       /\ \A d \in Colours \ {c} : mode.masks[c] \cap mode.masks[d] = {}

FirmwareContract ==
  \A a \in Adapters : \A k \in ModesOf(a) : WellDescribed(a.modes[k + 1])

(* With four-byte pixels and a scan line that fits its field, the fill     *)
(* loop of the entry point writes each pixel at its own place, all within  *)
(* the frame buffer; with eight bits to a colour it writes the same shade  *)
(* whatever the order of the colours.  (gop.c:319-351, stub.c:406-413)     *)
FillStaysInside ==
  status = "success" /\ Usable(Current(gop)) =>
    LET mode == Current(gop)
    IN /\ (LfbDepth(mode) = 32 /\ mode.ppsl * 4 < LINE
            /\ si.lfb_linelength * si.lfb_height <= AREA \div 2) =>
            \A x \in 0 .. si.lfb_width - 1, y \in 0 .. si.lfb_height - 1 :
              /\ PixelOffset(x, y) = 4 * (mode.ppsl * y + x)
              /\ PixelOffset(x, y) + 4 <= si.lfb_size
       /\ (\A c \in Colours : si.fields[c].size = 8) =>
            \A c \in DOMAIN Shade : Pixel \cap ColourBits(mode, c) = Shifted(c)

(* efi_setup_gop returns. *)
SetupReturns == <>(status # "none")

-----------------------------------------------------------------------------
(* The inductive invariant behind the safety properties (GopSetupProofs).  *)

FindPcs == {"locate", "find"}
ListPcs == {"query", "match", "wait", "stall", "describe", "done"}

(* Which buffers are allocated, and when the outcome is there.             *)
PoolInv ==
  /\ pool = CASE pc \in {"locate", "done"} -> {}
              [] pc = "match" -> {"handles", "info"}
              [] OTHER -> {"handles"}
  /\ status = "none" <=> pc # "done"
  /\ status = "not_found" => gop = None
  /\ status = "success" => gop # None /\ si = ScreenInfo(Current(gop))

(* What is known of the handles up to n, and of the adapter taken.         *)
FindInv ==
  /\ pc \in FindPcs => gop = None /\ refused \subseteq 0 .. n - 1
  /\ pc = "locate" => n = 0 /\ first_gop = None
  /\ pc = "find" =>
       /\ \A g \in Candidates : g < n => ~adapters[g].console
       /\ IF first_gop = None THEN \A g \in Candidates : n <= g
          ELSE first_gop \in Candidates /\ \A g \in Candidates : first_gop <= g
       /\ first_gop # None => first_gop < n
  /\ gop # None =>
       /\ gop \in Candidates
       /\ \A g \in Candidates :
            IF adapters[gop].console THEN adapters[g].console => gop <= g
            ELSE ~adapters[g].console /\ gop <= g
  /\ status = "not_found" => Candidates = {}

(* An adapter is in the mode it was in, or in the one chosen for it.       *)
ModeInv ==
  /\ \A g \in Handles \ {gop} : cur[g] = adapters[g].current
  /\ gop # None =>
       \/ cur[gop] = adapters[gop].current
       \/ cur[gop] = best.mode /\ pc \in ListPcs
           /\ (pc \in {"query", "match"} => match = "print_list_entry")

(* The best mode so far, of those the firmware described.  A mode without  *)
(* area and depth is not better than none.                                 *)
NoMode == [mode |-> 0, area |-> 0, depth |-> 0]

BestInv ==
  /\ gop = None => answered = {}
  /\ gop # None => answered \subseteq ModesOf(adapters[gop])
  /\ \/ /\ best = NoMode
        /\ \A k \in UsableModes : Area(Mode(gop, k)) = 0 /\ Depth(Mode(gop, k)) = 0
     \/ /\ best.mode \in UsableModes
        /\ best.area = Area(Mode(gop, best.mode)) /\ best.depth = Depth(Mode(gop, best.mode))
        /\ \A k \in UsableModes :
             \/ best.area > Area(Mode(gop, k))
             \/ best.area = Area(Mode(gop, k)) /\ best.depth > Depth(Mode(gop, k))
             \/ best.area = Area(Mode(gop, k)) /\ best.depth = Depth(Mode(gop, k)) /\ best.mode <= k

(* Where the loops over the modes stand, and what has been listed.         *)
LoopInv ==
  /\ pc = "match" => m \in ModesOf(adapters[gop])
  /\ match \in {"highest_res", "print_list_entry"}
  /\ match = "print_list_entry" => pc \in ListPcs /\ debug
  /\ match = "highest_res" => list = <<>> /\ answered \subseteq 0 .. m - 1
                              /\ pc \notin {"wait", "stall"}
  /\ pc \in FindPcs \cup {"switch"} => m = 0 /\ match = "highest_res"
  /\ list \in Seq([mode : Nat, star : BOOLEAN, dash : BOOLEAN])
  /\ \A k \in DOMAIN list :
       /\ list[k].mode < m
       /\ list[k].star <=> list[k].mode = cur[gop]
       /\ list[k].dash <=> ~Usable(Mode(gop, list[k].mode))
       /\ k > 1 => list[k - 1].mode < list[k].mode

IInv == TypeOK /\ PoolInv /\ FindInv /\ ModeInv /\ BestInv /\ LoopInv
=============================================================================
