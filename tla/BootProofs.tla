----------------------------- MODULE BootProofs -----------------------------
(***************************************************************************)
(* The safety properties of the entry point (Boot).  While graphics are    *)
(* set up its steps are those of GopSetup, so the theorems about that      *)
(* module hold here, too: Gop is a second copy of it that brings them.     *)
(***************************************************************************)
EXTENDS Boot, TLAPS

Gop == INSTANCE GopSetupProofs

-----------------------------------------------------------------------------
(* The two copies of GopSetup *)

(* What GopSetup assumes of its constants. *)
LEMMA GopAssumptions ==
  /\ NumHandles \in Nat \ {0} /\ None \notin Gop!Handles
  /\ \A a \in Adapters : a \in Gop!Protocol /\ a.current < Len(a.modes)
  /\ Requests \subseteq Gop!GraphicsMode
  /\ AREA \in Nat \ {0} /\ LINE \in Nat \ {0}
BY SetupAssumption
   DEF Setup!Protocol, Gop!Protocol, Setup!Handles, Gop!Handles,
       Setup!GraphicsMode, Gop!GraphicsMode, Setup!ModeInfo, Gop!ModeInfo,
       Setup!PixelFormat, Gop!PixelFormat, Setup!PixelBitmask, Gop!PixelBitmask,
       Setup!Colours, Gop!Colours

(* They describe a mode alike. *)
LEMMA SameMode ==
  ASSUME NEW mode
  PROVE  /\ Setup!Usable(mode) <=> Gop!Usable(mode)
         /\ Setup!Depth(mode) = Gop!Depth(mode)
         /\ Setup!Area(mode) = Gop!Area(mode)
         /\ Setup!Fields(mode) = Gop!Fields(mode)
         /\ Setup!LfbDepth(mode) = Gop!LfbDepth(mode)
         /\ Setup!Linelength(mode) = Gop!Linelength(mode)
         /\ Setup!ScreenInfo(mode) = Gop!ScreenInfo(mode)
<1>1. Setup!Usable(mode) <=> Gop!Usable(mode)
  BY DEF Setup!Usable, Gop!Usable
<1>2. \A s : Setup!ffs(s) = Gop!ffs(s) /\ Setup!fls(s) = Gop!fls(s)
  BY Zenon DEF Setup!ffs, Gop!ffs, Setup!fls, Gop!fls, Setup!Min, Gop!Min, Setup!Max, Gop!Max
<1>3. Setup!Depth(mode) = Gop!Depth(mode)
  BY <1>2, Zenon DEF Setup!Depth, Gop!Depth, Setup!Colours, Gop!Colours
<1>4. Setup!Area(mode) = Gop!Area(mode)
  BY DEF Setup!Area, Gop!Area
<1>5. \A s : Setup!find_bits(s) = Gop!find_bits(s)
  BY <1>2 DEF Setup!find_bits, Gop!find_bits
<1>6. Setup!Fields(mode) = Gop!Fields(mode)
  BY <1>5, Zenon DEF Setup!Fields, Gop!Fields, Setup!Colours, Gop!Colours
<1>7. Setup!LfbDepth(mode) = Gop!LfbDepth(mode)
  BY <1>6 DEF Setup!LfbDepth, Gop!LfbDepth
<1>8. Setup!Linelength(mode) = Gop!Linelength(mode)
  BY <1>7 DEF Setup!Linelength, Gop!Linelength
<1>9. Setup!ScreenInfo(mode) = Gop!ScreenInfo(mode)
  BY <1>6, <1>7, <1>8, Zenon DEF Setup!ScreenInfo, Gop!ScreenInfo
<1> QED
  BY <1>1, <1>3, <1>4, <1>6, <1>7, <1>8, <1>9

(* They name the same adapters and modes. *)
LEMMA SameNames ==
  /\ Setup!Handles = Gop!Handles
  /\ Setup!Colours = Gop!Colours /\ Setup!ScreenInfos = Gop!ScreenInfos
  /\ \A a : Setup!ModesOf(a) = Gop!ModesOf(a)
  /\ \A g, k : Setup!Mode(g, k) = Gop!Mode(g, k)
  /\ \A g : Setup!Current(g) = Gop!Current(g)
BY DEF Setup!Handles, Gop!Handles, Setup!Colours, Gop!Colours,
       Setup!ScreenInfos, Gop!ScreenInfos, Setup!ModesOf, Gop!ModesOf,
       Setup!Mode, Gop!Mode, Setup!Current, Gop!Current

(* The variables of GopSetup. *)
LEMMA SetupUnchanged == UNCHANGED setup <=> UNCHANGED Gop!vars
BY DEF setup, Gop!vars, Gop!machine, Gop!search, Gop!choice

(* They take the same steps. *)
LEMMA SameSteps == Setup!Next <=> Gop!Next
<1> USE SameMode, SameNames DEF Setup!machine, Gop!machine, Setup!search, Gop!search,
        Setup!choice, Gop!choice
<1>1. Setup!Locate <=> Gop!Locate
  BY DEF Setup!Locate, Gop!Locate
<1>2. Setup!Examine <=> Gop!Examine
  BY DEF Setup!Examine, Gop!Examine, Setup!PassOver, Gop!PassOver
<1>3. Setup!EndFind <=> Gop!EndFind
  BY DEF Setup!EndFind, Gop!EndFind
<1>4. Setup!Switch <=> Gop!Switch
  BY DEF Setup!Switch, Gop!Switch
<1>5. Setup!QueryMode <=> Gop!QueryMode
  BY DEF Setup!QueryMode, Gop!QueryMode
<1>6. Setup!Match <=> Gop!Match
  <2>1. \A mode : Setup!Better(mode) <=> Gop!Better(mode)
    BY DEF Setup!Better, Gop!Better
  <2>2. Setup!highest_res <=> Gop!highest_res
    BY <2>1 DEF Setup!highest_res, Gop!highest_res
  <2>3. Setup!print_list_entry <=> Gop!print_list_entry
    BY DEF Setup!print_list_entry, Gop!print_list_entry
  <2> QED
    BY <2>2, <2>3 DEF Setup!Match, Gop!Match
<1>7. Setup!Switched <=> Gop!Switched
  BY DEF Setup!Switched, Gop!Switched
<1>8. Setup!EndChoose <=> Gop!EndChoose
  BY <1>7 DEF Setup!EndChoose, Gop!EndChoose
<1>9. Setup!SetMode <=> Gop!SetMode
  BY <1>7, Zenon DEF Setup!SetMode, Gop!SetMode
<1>10. (Setup!EndList <=> Gop!EndList) /\ (Setup!Wait <=> Gop!Wait) /\ (Setup!Stall <=> Gop!Stall)
  BY DEF Setup!EndList, Gop!EndList, Setup!Wait, Gop!Wait, Setup!Stall, Gop!Stall
<1>11. Setup!Describe <=> Gop!Describe
  BY DEF Setup!Describe, Gop!Describe
<1>12. Setup!Done <=> Gop!Done
  BY DEF Setup!Done, Gop!Done, Setup!vars, Gop!vars
<1> QED
  BY <1>1, <1>2, <1>3, <1>4, <1>5, <1>6, <1>8, <1>9, <1>10, <1>11, <1>12
     DEF Setup!Next, Gop!Next

(* They have the same types. *)
LEMMA SameTypes == Setup!TypeOK <=> Gop!TypeOK
BY SameNames DEF Setup!TypeOK, Gop!TypeOK

-----------------------------------------------------------------------------
(* Graphics setup as a part of the stub *)

(* A step of the stub is a step of graphics setup or leaves it alone. *)
LEMMA SetupStep == [Next]_vars => [Setup!Next]_(Setup!vars)
<1> SUFFICES ASSUME [Next]_vars PROVE Setup!Next \/ UNCHANGED setup
  BY DEF setup, Setup!vars, Setup!machine, Setup!search, Setup!choice
<1> USE DEF Goto
<1>1. CASE SetupGop
  BY <1>1 DEF SetupGop
<1>2. CASE UNCHANGED vars \/ Stall
  BY <1>2 DEF vars, Stall
<1>3. CASE CheckSignature \/ ResetConsoles \/ QueryTextMode \/ SetTextMode \/ DisableWatchdog
  BY <1>3 DEF CheckSignature, ResetConsoles, QueryTextMode, SetTextMode, DisableWatchdog
<1>4. CASE GopReturns \/ Fill \/ PrintInfo \/ SetupPci \/ Exit \/ WatchdogExpires
  BY <1>4 DEF GopReturns, Fill, PrintInfo, SetupPci, Exit, WatchdogExpires
<1> QED
  BY <1>1, <1>2, <1>3, <1>4 DEF Next, Step

(* The stub runs graphics setup as GopSetup specifies it: nothing it does  *)
(* before, after or beside disturbs the adapters or the locals of          *)
(* efi_setup_gop. *)
THEOREM SetupRefined == Spec => Setup!Spec
<1>1. Init => Setup!Init
  BY DEF Init
<1> QED
  BY <1>1, SetupStep, PTL DEF Spec, Setup!Spec

(* So what holds of graphics setup at any time holds here. *)
LEMMA GopInvariant == Spec => []Gop!IInv
<1>1. Init => Gop!IInv
  <2>1. Init => Gop!Init
    BY DEF Init, Setup!Init, Gop!Init, Setup!Handles, Gop!Handles
  <2> QED
    BY <2>1, GopAssumptions, Gop!InitIInv
<1>2. Gop!IInv /\ [Next]_vars => Gop!IInv'
  <2> SUFFICES ASSUME Gop!IInv, [Next]_vars PROVE Gop!IInv'
    OBVIOUS
  <2>1. [Gop!Next]_(Gop!vars)
    BY SetupStep, SameSteps DEF Setup!vars, Gop!vars, Setup!machine, Gop!machine,
       Setup!search, Gop!search, Setup!choice, Gop!choice
  <2> QED
    BY <2>1, GopAssumptions, Gop!NextIInv
<1> QED
  BY <1>1, <1>2, PTL DEF Spec

(* When graphics setup has succeeded, the screen_info is that of the mode  *)
(* the adapter is in. *)
LEMMA ScreenFacts ==
  ASSUME Gop!IInv, status = "success"
  PROVE  /\ gop \in Setup!Handles /\ pc = "done" /\ pool = {}
         /\ si = Setup!ScreenInfo(Setup!Current(gop))
         /\ si \in Setup!ScreenInfos /\ si # None
         /\ adapters[gop] \in Adapters /\ cur[gop] \in Setup!ModesOf(adapters[gop])
         /\ Setup!Current(gop) \in Setup!ModeInfo
<1>1. gop # None /\ si = Gop!ScreenInfo(Gop!Current(gop)) /\ pc = "done" /\ pool = {}
  BY DEF Gop!IInv, Gop!PoolInv
<1>2. /\ gop \in Gop!Handles /\ adapters[gop] \in Adapters
      /\ cur[gop] \in Gop!ModesOf(adapters[gop])
      /\ \A k \in Gop!ModesOf(adapters[gop]) : Gop!Mode(gop, k) \in Gop!ModeInfo
  BY <1>1, GopAssumptions, Gop!GopFacts
<1>3. Gop!Current(gop) \in Gop!ModeInfo
  BY <1>2 DEF Gop!Current
<1>4. si \in Gop!ScreenInfos
  BY <1>1, <1>3, GopAssumptions, Gop!ScreenInfoType
<1>5. Gop!ModeInfo = Setup!ModeInfo
  BY DEF Setup!ModeInfo, Gop!ModeInfo, Setup!PixelFormat, Gop!PixelFormat,
         Setup!PixelBitmask, Gop!PixelBitmask, Setup!Colours, Gop!Colours
<1> QED
  BY <1>1, <1>2, <1>3, <1>4, <1>5, SameMode, SameNames, NoneAssumption

(* Its variables have their types. *)
LEMMA GopTypes == Gop!IInv => Setup!TypeOK
BY SameTypes DEF Gop!IInv

-----------------------------------------------------------------------------
(* Types *)

(* They hold when the firmware calls the stub. *)
LEMMA InitTypes == Init /\ Gop!IInv => TypeOK
<1> SUFFICES ASSUME Init, Gop!IInv PROVE TypeOK
  OBVIOUS
<1>1. Setup!TypeOK /\ pc = "locate"
  BY GopTypes DEF Init, Setup!Init
<1>2. Len(sizes) \in Nat \ {0}
  BY ConsolesAssumption DEF Init
<1>3. 0 \in 0 .. LASTMODE - 1 /\ 1 \in 1 .. LASTMODE
  BY ConsolesAssumption
<1>4. text \in [mode : 0 .. LASTMODE - 1, columns : Nat, rows : Nat]
  <2>1. text = [mode |-> 0, columns |-> 80, rows |-> 25]
    BY DEF Init
  <2> QED
    BY <1>3, <2>1
<1>5. /\ phase = "entry" /\ ST \in Tables /\ sizes \in Consoles /\ tmode = 0 /\ i = 1
      /\ watchdog = "armed" /\ drawn = None /\ shown = None /\ probed = FALSE
  BY DEF Init
<1>6. tmode \in 0 .. Len(sizes) - 1 /\ i \in 1 .. LASTMODE
  BY <1>2, <1>3, <1>5
<1> QED
  BY <1>1, <1>4, <1>5, <1>6 DEF TypeOK

(* The size of a text mode is a pair of numbers. *)
LEMMA SizeType ==
  ASSUME sizes \in Consoles
  PROVE  /\ Len(sizes) \in Nat \ {0}
         /\ \A k \in 0 .. Len(sizes) - 1 :
              /\ sizes[k + 1].columns \in Nat /\ sizes[k + 1].rows \in Nat
              /\ Cells(k) \in Nat
<1>1. sizes \in Seq(Size) /\ sizes # <<>>
  BY ConsolesAssumption
<1>2. Len(sizes) \in Nat \ {0}
  BY <1>1
<1>3. ASSUME NEW k \in 0 .. Len(sizes) - 1
      PROVE  sizes[k + 1].columns \in Nat /\ sizes[k + 1].rows \in Nat /\ Cells(k) \in Nat
  <2>1. sizes[k + 1] \in Size
    BY <1>1, <1>2
  <2>2. PICK c \in Nat, r \in Nat : sizes[k + 1].columns = c /\ sizes[k + 1].rows = r
    BY <2>1 DEF Size
  <2>3. c * r \in Nat
    OBVIOUS
  <2> QED
    BY <2>2, <2>3 DEF Cells
<1> QED
  BY <1>2, <1>3

(* What is printed is made of numbers. *)
LEMMA ReportType ==
  ASSUME ST \in Tables, si \in Setup!ScreenInfos
  PROVE  [uefi       |-> print_uefi_info,
          resolution |-> <<si.lfb_width, si.lfb_height, si.lfb_depth>>,
          fields     |-> si.fields,
          size       |-> si.lfb_size] \in Reports
<1>1. PICK r \in Nat, f \in Nat : ST.revision = r /\ ST.fw_revision = f
  BY TablesAssumption DEF SystemTable
<1>2. r \div 65536 \in Nat /\ (r % 65536) \div 10 \in Nat /\ r % 10 \in Nat
  OBVIOUS
<1>3. f \div 65536 \in Nat /\ f % 65536 \in Nat
  OBVIOUS
<1>4. print_uefi_info \in [revision : Nat \X Nat \X Nat, firmware : Nat \X Nat]
  BY <1>1, <1>2, <1>3 DEF print_uefi_info, Revision
<1>5. <<si.lfb_width, si.lfb_height, si.lfb_depth>> \in Nat \X Nat \X Nat
      /\ si.fields \in [Setup!Colours -> [pos : Nat, size : Nat]] /\ si.lfb_size \in Nat
  BY DEF Setup!ScreenInfos
<1> HIDE DEF print_uefi_info
<1> QED
  BY <1>4, <1>5 DEF Reports

(* Every step keeps them. *)
LEMMA TypeStep ==
  ASSUME IInv, Gop!IInv, Gop!IInv', [Next]_vars
  PROVE  TypeOK'
<1>0. TypeOK /\ SearchInv /\ PhaseInv /\ Setup!TypeOK'
  <2>1. Setup!TypeOK'
    BY GopTypes, PTL
  <2> QED
    BY <2>1 DEF IInv
<1> USE <1>0 DEF Goto, console, report
<1>1. CASE CheckSignature
  BY <1>1 DEF CheckSignature, setup, TypeOK
<1>2. CASE ResetConsoles
  BY <1>2 DEF ResetConsoles, setup, TypeOK
<1>3. CASE QueryTextMode
  <2>1. i' \in 1 .. LASTMODE
    BY <1>3, ConsolesAssumption DEF QueryTextMode, TypeOK
  <2>2. text' \in [mode : 0 .. LASTMODE - 1, columns : Nat, rows : Nat]
    <3>1. CASE text' = text
      BY <3>1 DEF TypeOK
    <3>2. CASE /\ i < Len(sizes)
               /\ text' = [mode |-> i, columns |-> sizes[i + 1].columns, rows |-> sizes[i + 1].rows]
      <4>1. i \in 0 .. LASTMODE - 1 /\ i \in 0 .. Len(sizes) - 1
        BY <1>3, <3>2, SizeType, ConsolesAssumption DEF QueryTextMode, TypeOK
      <4>2. sizes[i + 1].columns \in Nat /\ sizes[i + 1].rows \in Nat
        BY <4>1, SizeType DEF TypeOK
      <4> QED
        BY <3>2, <4>1, <4>2
    <3> QED
      BY <1>3, <3>1, <3>2 DEF QueryTextMode
  <2> QED
    BY <1>3, <2>1, <2>2 DEF QueryTextMode, setup, TypeOK
<1>4. CASE SetTextMode
  <2>1. tmode' \in 0 .. Len(sizes) - 1 /\ i' \in 1 .. LASTMODE
    BY <1>4, SizeType, ConsolesAssumption DEF SetTextMode, TypeOK, SearchInv
  <2> QED
    BY <1>4, <2>1 DEF SetTextMode, setup, TypeOK
<1>5. CASE DisableWatchdog
  BY <1>5 DEF DisableWatchdog, disable_watchdog_timer, setup, TypeOK, PhaseInv
<1>6. CASE SetupGop
  <2>1. debug' = debug
    BY <1>6, SameSteps DEF SetupGop, Gop!Next, Gop!Locate, Gop!Examine, Gop!EndFind, Gop!Switch,
       Gop!QueryMode, Gop!Match, Gop!EndChoose, Gop!SetMode, Gop!EndList, Gop!Wait, Gop!Stall,
       Gop!Describe, Gop!Done, Gop!vars, Gop!machine
  <2> QED
    BY <1>6, <2>1 DEF SetupGop, TypeOK
<1>7. CASE GopReturns
  BY <1>7, ScreenFacts DEF GopReturns, setup, TypeOK
<1>8. CASE Fill
  BY <1>8, ScreenFacts DEF Fill, setup, TypeOK, PhaseInv
<1>9. CASE PrintInfo
  <2>1. shown' \in Reports
    BY <1>9, ScreenFacts, ReportType DEF PrintInfo, TypeOK, PhaseInv
  <2> QED
    BY <1>9, <2>1 DEF PrintInfo, setup, TypeOK
<1>10. CASE SetupPci
  BY <1>10 DEF SetupPci, setup, TypeOK
<1>11. CASE Exit
  BY <1>11 DEF Exit, setup, TypeOK
<1>12. CASE WatchdogExpires
  BY <1>12 DEF WatchdogExpires, setup, TypeOK
<1>13. CASE Stall \/ UNCHANGED vars
  BY <1>13 DEF Stall, vars, setup, TypeOK
<1> QED
  BY <1>1, <1>2, <1>3, <1>4, <1>5, <1>6, <1>7, <1>8, <1>9, <1>10, <1>11, <1>12, <1>13
     DEF Next, Step

-----------------------------------------------------------------------------
(* The search for a text mode *)

(* It starts with the size every console has. *)
LEMMA InitSearch == Init => SearchInv
<1> SUFFICES ASSUME Init PROVE SearchInv
  OBVIOUS
<1>1. Len(sizes) \in Nat \ {0}
  BY ConsolesAssumption DEF Init
<1>2. text.columns = 80 /\ text.rows = 25 /\ text.mode = 0 /\ seen = {} /\ i = 1
  BY DEF Init
<1> QED
  BY <1>1, <1>2 DEF SearchInv, BestOfSeen

(* A mode that was described leaves the best of those seen behind. *)
LEMMA SeenGrows ==
  ASSUME IInv, QueryTextMode, i < Len(sizes), seen' = seen \cup {i},
         text' = IF Larger(i)
                 THEN [mode |-> i, columns |-> sizes[i + 1].columns, rows |-> sizes[i + 1].rows]
                 ELSE text
  PROVE  BestOfSeen'
<1>1. /\ i \in Nat /\ i \in 0 .. Len(sizes) - 1 /\ i # 0
      /\ seen \subseteq 1 .. i - 1 /\ seen \subseteq 0 .. Len(sizes) - 1
      /\ text.mode \in seen \cup {0} /\ sizes' = sizes
  BY SizeType DEF IInv, TypeOK, SearchInv, BestOfSeen, QueryTextMode
<1>2. PICK c \in Nat, r \in Nat, t \in Nat : text.columns = c /\ text.rows = r /\ text.mode = t
  BY <1>1 DEF IInv, TypeOK
<1>3. PICK p \in Nat : p = c * r
  OBVIOUS
<1>4. /\ c >= 80 /\ p >= 2000
      /\ \A k \in seen :
           /\ Cells(k) > p => sizes[k + 1].columns < c
           /\ Cells(k) = p /\ sizes[k + 1].columns >= c => t <= k
  BY <1>1, <1>2, <1>3 DEF IInv, SearchInv, BestOfSeen, QueryTextMode
<1>5. \A k \in seen \cup {i} : k \in Nat /\ Cells(k) \in Nat /\ sizes[k + 1].columns \in Nat
  BY <1>1, SizeType DEF IInv, TypeOK
<1>6. \A k \in seen : k < i
  BY <1>1
<1>7. CASE Larger(i)
  <2>1. PICK c2 \in Nat, r2 \in Nat : sizes[i + 1].columns = c2 /\ sizes[i + 1].rows = r2
    BY <1>1, SizeType DEF IInv, TypeOK
  <2>2. PICK p2 \in Nat : p2 = c2 * r2
    OBVIOUS
  <2>3. Cells(i) = p2 /\ p2 > p /\ c2 >= c
    BY <1>2, <1>3, <1>7, <2>1, <2>2 DEF Larger, Cells
  <2>4. text'.columns = c2 /\ text'.rows = r2 /\ text'.mode = i
    BY <1>7, <2>1
  <2>5. \A k \in seen \cup {i} :
          /\ Cells(k) > p2 => sizes[k + 1].columns < c2
          /\ Cells(k) = p2 /\ sizes[k + 1].columns >= c2 => i <= k
    <3>1. ASSUME NEW k \in seen
          PROVE  /\ Cells(k) > p2 => sizes[k + 1].columns < c2
                 /\ ~(Cells(k) = p2 /\ sizes[k + 1].columns >= c2)
      <4>1. PICK q \in Nat, w \in Nat : Cells(k) = q /\ sizes[k + 1].columns = w
        BY <1>5
      <4>2. q > p => w < c
        BY <1>4, <4>1
      <4>3. (q > p2 => w < c2) /\ ~(q = p2 /\ w >= c2)
        BY <2>3, <4>2
      <4> QED
        BY <4>1, <4>3
    <3>2. ~(Cells(i) > p2) /\ i <= i
      BY <1>1, <2>3
    <3> QED
      BY <3>1, <3>2, Zenon
  <2>6. c2 >= 80 /\ p2 >= 2000
    BY <1>4, <2>3
  <2>7. text'.columns * text'.rows = p2
    BY <2>2, <2>4
  <2>8. \A k \in seen' : Cells(k)' = Cells(k)
    BY <1>1 DEF Cells
  <2>9. i \in seen' \cup {0}
    OBVIOUS
  <2>10. \A k \in seen' :
           /\ Cells(k)' > p2 => sizes'[k + 1].columns < c2
           /\ Cells(k)' = p2 /\ sizes'[k + 1].columns >= c2 => i <= k
    BY <1>1, <2>5, <2>8, Zenon
  <2>11. p2 >= 80 * 25
    BY <2>6
  <2> QED
    BY <2>4, <2>6, <2>7, <2>9, <2>10, <2>11 DEF BestOfSeen
<1>8. CASE ~Larger(i)
  <2>1. text' = text
    BY <1>8
  <2>2. Cells(i) > p => sizes[i + 1].columns < c
    <3>1. text.columns * text.rows = p
      BY <1>2, <1>3
    <3>2. Cells(i) > p => ~(sizes[i + 1].columns >= c)
      BY <1>2, <1>8, <3>1, Zenon DEF Larger
    <3> QED
      BY <1>5, <3>2
  <2>3. t <= i
    BY <1>1, <1>2
  <2>4. \A k \in seen \cup {i} :
          /\ Cells(k) > p => sizes[k + 1].columns < c
          /\ Cells(k) = p /\ sizes[k + 1].columns >= c => t <= k
    BY <1>4, <2>2, <2>3
  <2>5. \A k \in seen' : Cells(k)' = Cells(k)
    BY <1>1 DEF Cells
  <2>6. text'.columns * text'.rows = p
    BY <1>2, <1>3, <2>1
  <2>7. t \in seen' \cup {0} /\ text'.columns = c /\ text'.mode = t
    BY <1>1, <1>2, <2>1
  <2>8. \A k \in seen' :
          /\ Cells(k)' > p => sizes'[k + 1].columns < c
          /\ Cells(k)' = p /\ sizes'[k + 1].columns >= c => t <= k
    BY <1>1, <2>4, <2>5, Zenon
  <2>9. p >= 80 * 25 /\ c >= 80
    BY <1>4
  <2> QED
    BY <2>6, <2>7, <2>8, <2>9 DEF BestOfSeen
<1> QED
  BY <1>7, <1>8

(* Every other step leaves the console alone. *)
LEMMA SearchStep ==
  ASSUME IInv, [Next]_vars
  PROVE  SearchInv'
<1>0. /\ i \in Nat /\ Len(sizes) \in Nat \ {0} /\ SearchInv
      /\ phase = "text" => seen \subseteq 1 .. i - 1
  BY SizeType DEF IInv, TypeOK, SearchInv
<1> USE <1>0 DEF Goto
<1>1. CASE QueryTextMode
  <2>1. i' = i + 1 /\ sizes' = sizes /\ phase' = phase /\ phase = "text"
    BY <1>1 DEF QueryTextMode
  <2>2. CASE text' = text /\ seen' = seen
    <3>1. BestOfSeen'
      <4>1. \A k : Cells(k)' = Cells(k)
        BY <2>1 DEF Cells
      <4> QED
        BY <2>1, <2>2, <4>1 DEF SearchInv, BestOfSeen
    <3> QED
      BY <2>1, <2>2, <3>1 DEF SearchInv
  <2>3. CASE /\ i < Len(sizes) /\ seen' = seen \cup {i}
             /\ text' = IF Larger(i)
                        THEN [mode |-> i, columns |-> sizes[i + 1].columns,
                              rows |-> sizes[i + 1].rows]
                        ELSE text
    <3>1. BestOfSeen'
      BY <1>1, <2>3, SeenGrows
    <3>2. i \in 1 .. Len(sizes) - 1
      BY <2>3 DEF IInv, TypeOK
    <3>3. text'.mode < Len(sizes)
      BY <2>3 DEF SearchInv
    <3> QED
      BY <2>1, <2>3, <3>1, <3>2, <3>3 DEF SearchInv
  <2> QED
    BY <1>1, <2>2, <2>3 DEF QueryTextMode
<1>2. CASE SetTextMode
  BY <1>2 DEF SetTextMode, SearchInv
<1>3. ASSUME UNCHANGED console, phase' \in {"entry", "reset", "text"} =>
                                   phase \in {"entry", "reset", "text"}
      PROVE  SearchInv'
  <2>1. UNCHANGED <<sizes, text, seen, i>>
    BY <1>3 DEF console
  <2>2. \A k : Cells(k)' = Cells(k)
    BY <2>1 DEF Cells
  <2> QED
    BY <1>3, <2>1, <2>2 DEF SearchInv, BestOfSeen
<1>4. CASE \/ CheckSignature \/ ResetConsoles \/ DisableWatchdog \/ SetupGop \/ GopReturns
           \/ Fill \/ PrintInfo \/ SetupPci \/ Exit \/ WatchdogExpires
           \/ Stall \/ UNCHANGED vars
  BY <1>3, <1>4
     DEF CheckSignature, ResetConsoles, DisableWatchdog, SetupGop, GopReturns, Fill, PrintInfo,
         SetupPci, Exit, WatchdogExpires, Stall, vars, console
<1> QED
  BY <1>1, <1>2, <1>4 DEF Next, Step

-----------------------------------------------------------------------------
(* What is drawn, printed and probed *)

(* Nothing at the start; later it follows the phase. *)
LEMMA PhaseStep ==
  ASSUME IInv, Gop!IInv, [Next]_vars
  PROVE  PhaseInv'
<1>0. TypeOK /\ PhaseInv
  BY DEF IInv
<1> USE <1>0 DEF Goto, report, PhaseInv
<1>1. CASE CheckSignature
  BY <1>1 DEF CheckSignature, setup, TypeOK
<1>2. CASE ResetConsoles
  BY <1>2 DEF ResetConsoles, setup
<1>3. CASE QueryTextMode
  BY <1>3 DEF QueryTextMode, setup
<1>4. CASE SetTextMode
  BY <1>4 DEF SetTextMode, setup
<1>5. CASE DisableWatchdog
  BY <1>5 DEF DisableWatchdog, setup
<1>6. CASE SetupGop
  BY <1>6 DEF SetupGop
<1>7. CASE GopReturns
  BY <1>7 DEF GopReturns, setup
<1>8. CASE Fill
  BY <1>8 DEF Fill, setup, TypeOK
<1>9. CASE PrintInfo
  <2>1. shown' # None
    <3>1. status = "success"
      BY <1>9 DEF PrintInfo
    <3>2. si \in Setup!ScreenInfos
      BY <3>1, ScreenFacts
    <3> QED
      BY <1>9, <3>2, ReportType, NoneAssumption DEF PrintInfo, TypeOK
  <2>2. /\ shown'.resolution = <<si.lfb_width, si.lfb_height, si.lfb_depth>>
        /\ shown'.size = si.lfb_size
    BY <1>9 DEF PrintInfo
  <2> QED
    BY <1>9, <2>1, <2>2 DEF PrintInfo, setup
<1>10. CASE SetupPci
  BY <1>10 DEF SetupPci, setup
<1>11. CASE Exit
  BY <1>11 DEF Exit, setup
<1>12. CASE WatchdogExpires
  BY <1>12 DEF WatchdogExpires, setup
<1>13. CASE Stall \/ UNCHANGED vars
  BY <1>13 DEF Stall, vars, setup
<1> QED
  BY <1>1, <1>2, <1>3, <1>4, <1>5, <1>6, <1>7, <1>8, <1>9, <1>10, <1>11, <1>12, <1>13
     DEF Next, Step

-----------------------------------------------------------------------------
(* The theorems *)

(* The invariant holds in every reachable state, beside that of graphics   *)
(* setup. *)
THEOREM Invariance == Spec => [](IInv /\ Gop!IInv)
<1>1. Init /\ Gop!IInv => IInv
  <2> SUFFICES ASSUME Init, Gop!IInv PROVE IInv
    OBVIOUS
  <2>1. PhaseInv
    BY DEF Init, PhaseInv
  <2> QED
    BY <2>1, InitTypes, InitSearch DEF IInv
<1>2. IInv /\ Gop!IInv /\ Gop!IInv' /\ [Next]_vars => IInv'
  BY TypeStep, SearchStep, PhaseStep DEF IInv
<1> QED
  BY GopInvariant, <1>1, <1>2, PTL DEF Spec

(* Every variable has its type, and graphics are set up in their phase     *)
(* only: before it efi_setup_gop has not begun, after it it has returned.  *)
THEOREM TypeCorrect == Spec => []TypeOK
<1>1. IInv => TypeOK
  BY DEF IInv
<1> QED
  BY Invariance, <1>1, PTL

(* The text mode set is at least 80 by 25, and the largest of those at     *)
(* least as wide, whatever modes the console has and whichever queries     *)
(* fail. *)
THEOREM TextModeIsChosen == Spec => []TextModeChosen
<1>1. IInv => TextModeChosen
  BY DEF IInv, SearchInv, TextModeChosen
<1> QED
  BY Invariance, <1>1, PTL

(* A frame of 32-bit pixels that fits its fields is as large as it is      *)
(* said to be. *)
LEMMA FrameSize ==
  ASSUME NEW mode \in Setup!ModeInfo, mode.width <= mode.ppsl, mode.ppsl * 4 < LINE,
         mode.height < LINE, Setup!LfbDepth(mode) = 32
  PROVE  /\ Setup!ScreenInfo(mode).lfb_width = mode.width
         /\ Setup!ScreenInfo(mode).lfb_height = mode.height
         /\ Setup!ScreenInfo(mode).lfb_depth = 32
         /\ mode.width * mode.height * 4 <= Setup!ScreenInfo(mode).lfb_size
<1>1. PICK w \in Nat, h \in Nat, p \in Nat :
        mode.width = w /\ mode.height = h /\ mode.ppsl = p
  BY DEF Setup!ModeInfo
<1>2. LINE \in Nat /\ w < LINE /\ h < LINE /\ w <= p
  BY <1>1, SetupAssumption
<1>3. \A v \in Nat : v < LINE => v % LINE = v
  BY <1>2
<1>4. mode.width % LINE = w /\ mode.height % LINE = h
  BY <1>1, <1>2, <1>3
<1>5. Setup!Linelength(mode) = p * 4
  <2>1. (p * 32) \div 8 = p * 4 /\ (p * 4) % LINE = p * 4
    BY <1>1, <1>3
  <2> QED
    BY <1>1, <2>1 DEF Setup!Linelength
<1>6. w * h * 4 <= (p * 4) * h
  <2>1. PICK d \in Nat : p = w + d
    BY <1>2
  <2>2. (p * 4) * h = w * h * 4 + d * h * 4
    BY <2>1
  <2>3. d * h * 4 \in Nat /\ w * h * 4 \in Nat
    OBVIOUS
  <2> QED
    BY <2>2, <2>3
<1> QED
  BY <1>1, <1>4, <1>5, <1>6 DEF Setup!ScreenInfo

(* What fills the screen and what is printed of it is true of the mode the *)
(* adapter is in, for modes of 32-bit pixels whose sizes fit their fields; *)
(* without graphics nothing is drawn, and no buffer is left. *)
THEOREM DrawnIsTrue ==
  ASSUME FramesFit
  PROVE  Spec => []DrawnTrue
<1>1. ASSUME IInv, Gop!IInv PROVE DrawnTrue
  <2> DEFINE mode == Setup!Current(gop)
  <2>1. PhaseInv
    BY <1>1 DEF IInv
  <2>2. ASSUME drawn # None
        PROVE  /\ status = "success" /\ gop \in Setup!Handles
               /\ drawn = Setup!ScreenInfo(mode)
    BY <1>1, <2>1, <2>2, ScreenFacts DEF PhaseInv
  <2>3. ASSUME shown # None
        PROVE  /\ drawn # None
               /\ shown.resolution = <<mode.width, mode.height, Setup!LfbDepth(mode)>>
               /\ mode.width * mode.height * 4 <= shown.size
    <3>1. /\ drawn # None /\ status = "success"
          /\ shown.resolution = <<si.lfb_width, si.lfb_height, si.lfb_depth>>
          /\ shown.size = si.lfb_size
      BY <2>1, <2>3 DEF PhaseInv
    <3>2. /\ si = Setup!ScreenInfo(mode) /\ mode \in Setup!ModeInfo
          /\ adapters[gop] \in Adapters /\ cur[gop] \in Setup!ModesOf(adapters[gop])
      BY <1>1, <3>1, ScreenFacts
    <3>3. /\ mode.width <= mode.ppsl /\ mode.ppsl * 4 < LINE /\ mode.height < LINE
          /\ Setup!LfbDepth(mode) = 32
      BY <3>2, FramesFit DEF FramesFit, Setup!Current, Setup!Mode
    <3> HIDE DEF mode
    <3> QED
      BY <3>1, <3>2, <3>3, FrameSize
  <2>4. phase \in {"exit", "exited", "halt"} => drawn = None /\ ~probed /\ pool = {}
    <3>1. pc \in {"locate", "done"} => pool = {}
      BY <1>1 DEF Gop!IInv, Gop!PoolInv
    <3> QED
      BY <2>1, <3>1 DEF PhaseInv
  <2> QED
    BY <2>1, <2>2, <2>3, <2>4 DEF DrawnTrue, PhaseInv
<1> QED
  BY Invariance, <1>1, PTL
=============================================================================
