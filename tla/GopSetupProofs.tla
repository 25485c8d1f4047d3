--------------------------- MODULE GopSetupProofs ---------------------------
(***************************************************************************)
(* The safety properties of efi_setup_gop (GopSetup), for every number of  *)
(* adapters, whatever modes they have, and every width of the fields.      *)
(***************************************************************************)
EXTENDS GopSetup, NumberLemmas

-----------------------------------------------------------------------------
(* Least and greatest elements *)

(* Min is the least element, and the only one. *)
LEMMA MinIsLeast ==
  ASSUME NEW S, S \subseteq Nat, NEW x \in S, \A y \in S : x <= y
  PROVE  Min(S) = x
<1>1. Min(S) \in S /\ \A y \in S : Min(S) <= y
  BY Zenon DEF Min
<1>2. Min(S) <= x /\ x <= Min(S) /\ Min(S) \in Nat /\ x \in Nat
  BY <1>1
<1> QED
  BY <1>2

(* Bits of a word have a lowest and a highest one (ffs and fls). *)
LEMMA BitRange ==
  ASSUME NEW S, S \subseteq 0 .. 31, S # {}
  PROVE  /\ ffs(S) \in S /\ \A b \in S : ffs(S) <= b
         /\ fls(S) \in S /\ \A b \in S : b <= fls(S)
<1>0. S \subseteq Nat
  OBVIOUS
<1>1. PICK x \in S : \A y \in S : x <= y
  BY <1>0, LeastExists
<1>2. ffs(S) \in S /\ \A b \in S : ffs(S) <= b
  BY <1>1, Zenon DEF ffs, Min
<1> DEFINE U == {31 - b : b \in S}
<1>3. U \subseteq Nat /\ U # {}
  OBVIOUS
<1>4. PICK u \in U : \A y \in U : u <= y
  BY <1>3, LeastExists
<1>5. PICK z \in S : u = 31 - z
  OBVIOUS
<1>6. \A b \in S : b <= z
  <2> SUFFICES ASSUME NEW b \in S PROVE b <= z
    OBVIOUS
  <2>1. 31 - b \in U
    OBVIOUS
  <2>2. 31 - z <= 31 - b
    BY <1>4, <1>5, <2>1
  <2> QED
    BY <2>2
<1>7. fls(S) \in S /\ \A b \in S : b <= fls(S)
  <2>1. \E t \in S : \A y \in S : t >= y
    BY <1>6
  <2>2. fls(S) \in S /\ \A b \in S : fls(S) >= b
    BY <2>1, Zenon DEF fls, Max
  <2> QED
    BY <2>2
<1> QED
  BY <1>2, <1>7

-----------------------------------------------------------------------------
(* Modes *)

(* A mode an adapter has is described by a ModeInfo. *)
LEMMA ModeType ==
  ASSUME NEW a \in Adapters, NEW k \in ModesOf(a)
  PROVE  a.modes[k + 1] \in ModeInfo
<1>1. a \in Protocol
  BY AdaptersAssumption
<1>2. a.modes \in Seq(ModeInfo)
  BY <1>1 DEF Protocol
<1>3. Len(a.modes) \in Nat /\ k + 1 \in 1 .. Len(a.modes)
  BY <1>2 DEF ModesOf
<1> QED
  BY <1>2, <1>3

(* Every adapter has a mode 0, and is in a mode it has. *)
LEMMA CurrentExists ==
  ASSUME NEW a \in Adapters
  PROVE  /\ a.current \in ModesOf(a) /\ 0 \in ModesOf(a)
         /\ ModesOf(a) \subseteq Nat
<1>1. a \in Protocol /\ a.current < Len(a.modes)
  BY AdaptersAssumption
<1>2. a.modes \in Seq(ModeInfo) /\ a.current \in Nat
  BY <1>1 DEF Protocol
<1>3. Len(a.modes) \in Nat
  BY <1>2
<1> QED
  BY <1>1, <1>2, <1>3 DEF ModesOf

(* The masks span at most a word. *)
LEMMA DepthType ==
  ASSUME NEW mode \in ModeInfo
  PROVE  Depth(mode) \in 0 .. 32
<1> DEFINE used == UNION {mode.masks[c] : c \in Colours}
<1>1. CASE mode.format # "mask" \/ used = {}
  BY <1>1 DEF Depth
<1>2. CASE mode.format = "mask" /\ used # {}
  <2>1. \A c \in Colours : mode.masks[c] \subseteq 0 .. 31
    BY DEF ModeInfo, PixelBitmask
  <2>2. used \subseteq 0 .. 31
    BY <2>1
  <2> HIDE DEF used
  <2>3. fls(used) \in 0 .. 31 /\ ffs(used) \in 0 .. 31 /\ ffs(used) <= fls(used)
    BY <1>2, <2>2, BitRange
  <2>4. Depth(mode) = fls(used) - ffs(used) + 1
    BY <1>2 DEF Depth, used
  <2> QED
    BY <2>3, <2>4
<1> QED
  BY <1>1, <1>2

(* The area is taken modulo the width of its field. *)
LEMMA AreaType ==
  ASSUME NEW mode \in ModeInfo
  PROVE  Area(mode) \in 0 .. AREA - 1
<1>1. mode.width \in Nat /\ mode.height \in Nat
  BY DEF ModeInfo
<1>2. mode.width * mode.height \in Nat
  BY <1>1
<1>3. AREA \in Nat /\ AREA > 0
  BY WidthAssumption
<1> QED
  BY <1>2, <1>3, DivModExists DEF Area

(* A colour is at a bit of the pixel, and has a number of bits. *)
LEMMA FieldsType ==
  ASSUME NEW mode \in ModeInfo
  PROVE  Fields(mode) \in [Colours -> [pos : Nat, size : Nat]]
<1> SUFFICES ASSUME NEW c \in Colours
             PROVE  Fields(mode)[c] \in [pos : Nat, size : Nat]
  BY DEF Fields
<1>1. CASE mode.format = "mask"
  <2>1. Fields(mode)[c] = find_bits(mode.masks[c])
    BY <1>1 DEF Fields
  <2>2. mode.masks[c] \subseteq 0 .. 31
    BY DEF ModeInfo, PixelBitmask
  <2>3. CASE mode.masks[c] = {}
    BY <2>1, <2>3 DEF find_bits
  <2>4. CASE mode.masks[c] # {}
    <3>1. PICK p \in Nat, q \in Nat : ffs(mode.masks[c]) = p /\ fls(mode.masks[c]) = q /\ p <= q
      BY <2>2, <2>4, BitRange
    <3>2. find_bits(mode.masks[c]) = [pos |-> p, size |-> q - p + 1]
      BY <2>4, <3>1 DEF find_bits
    <3> QED
      BY <2>1, <3>1, <3>2
  <2> QED
    BY <2>3, <2>4
<1>2. CASE mode.format # "mask"
  BY <1>2 DEF Fields, Colours
<1> QED
  BY <1>1, <1>2

(* A screen_info is made of numbers. *)
LEMMA ScreenInfoType ==
  ASSUME NEW mode \in ModeInfo
  PROVE  ScreenInfo(mode) \in ScreenInfos
<1>1. Fields(mode) \in [Colours -> [pos : Nat, size : Nat]]
  BY FieldsType
<1>2. LfbDepth(mode) \in Nat
  BY <1>1 DEF LfbDepth, Colours
<1>3. \A v \in Nat : v % LINE \in Nat
  BY WidthAssumption, DivModExists
<1>4. mode.width % LINE \in Nat /\ mode.height % LINE \in Nat
  BY <1>3 DEF ModeInfo
<1>5. Linelength(mode) \in Nat
  <2>1. PICK p \in Nat, d \in Nat : mode.ppsl = p /\ LfbDepth(mode) = d
    BY <1>2 DEF ModeInfo
  <2>2. p * d \in Nat /\ p * 4 \in Nat
    OBVIOUS
  <2>3. (p * d) \div 8 \in Nat
    BY <2>2, DivModExists
  <2> QED
    BY <1>3, <2>1, <2>2, <2>3 DEF Linelength
<1>6. Linelength(mode) * (mode.height % LINE) \in Nat
  BY <1>4, <1>5
<1> QED
  BY <1>1, <1>2, <1>4, <1>5, <1>6 DEF ScreenInfo, ScreenInfos

-----------------------------------------------------------------------------
(* The invariant at the start *)

(* It holds when efi_setup_gop is called. *)
LEMMA InitIInv == Init => IInv
<1> SUFFICES ASSUME Init PROVE IInv
  OBVIOUS
<1>0. \A g \in Handles : adapters[g] \in Adapters /\ cur[g] = adapters[g].current
  BY DEF Init
<1>1. TypeOK
  <2>1. cur \in [Handles -> Nat] /\ \A g \in Handles : cur[g] \in ModesOf(adapters[g])
    BY <1>0, CurrentExists DEF Init
  <2>2. best \in [mode : Nat, area : 0 .. AREA - 1, depth : 0 .. 32]
    BY WidthAssumption DEF Init
  <2> QED
    BY <2>1, <2>2, HandlesAssumption DEF Init, TypeOK
<1>2. PoolInv
  BY DEF Init, PoolInv
<1>3. FindInv
  BY HandlesAssumption DEF Init, FindInv, FindPcs, Candidates, Handles
<1>4. ModeInv
  BY <1>0 DEF Init, ModeInv
<1>5. BestInv
  BY DEF Init, BestInv, NoMode, UsableModes
<1>6. LoopInv
  BY DEF Init, LoopInv, FindPcs
<1> QED
  BY <1>1, <1>2, <1>3, <1>4, <1>5, <1>6 DEF IInv

(* The mode being looked at has a description, an area and a depth. *)
LEMMA GopFacts ==
  ASSUME IInv, gop # None
  PROVE  /\ gop \in Handles /\ adapters[gop] \in Adapters
         /\ cur[gop] \in ModesOf(adapters[gop]) /\ 0 \in ModesOf(adapters[gop])
         /\ ModesOf(adapters[gop]) \subseteq Nat
         /\ \A k \in ModesOf(adapters[gop]) :
              /\ Mode(gop, k) \in ModeInfo
              /\ Area(Mode(gop, k)) \in 0 .. AREA - 1
              /\ Depth(Mode(gop, k)) \in 0 .. 32
<1>1. gop \in Handles /\ adapters[gop] \in Adapters /\ cur[gop] \in ModesOf(adapters[gop])
  BY DEF IInv, TypeOK
<1>2. \A k \in ModesOf(adapters[gop]) : Mode(gop, k) \in ModeInfo
  BY <1>1, ModeType DEF Mode
<1> QED
  BY <1>1, <1>2, CurrentExists, AreaType, DepthType

(* What set_gop_mode may set is a mode of the adapter. *)
LEMMA BestIsMode ==
  ASSUME IInv, gop # None
  PROVE  best.mode \in ModesOf(adapters[gop])
<1>1. CASE best = NoMode
  BY <1>1, GopFacts DEF NoMode
<1>2. CASE best.mode \in UsableModes
  BY <1>2 DEF IInv, BestInv, UsableModes
<1> QED
  BY <1>1, <1>2 DEF IInv, BestInv

-----------------------------------------------------------------------------
(* Every step keeps the types. *)
LEMMA TypeStep ==
  ASSUME IInv, [Next]_vars
  PROVE  TypeOK'
<1>0. TypeOK /\ m \in Nat /\ answered \subseteq Nat /\ pool \subseteq {"handles", "info"}
  BY DEF IInv, TypeOK
<1> USE <1>0 DEF machine, search, choice
<1>1. CASE Locate
  BY <1>1 DEF Locate, TypeOK
<1>2. CASE Examine
  <2>1. n \in Handles /\ n + 1 \in 0 .. NumHandles /\ n # None
    BY <1>2, HandlesAssumption DEF Examine, TypeOK, Handles
  <2>2. first_gop' \in Handles \cup {None} /\ gop' \in Handles \cup {None}
        /\ refused' \subseteq Handles /\ n' \in 0 .. NumHandles
    BY <1>2, <2>1 DEF Examine, PassOver, TypeOK
  <2>3. pc' \in {"find", "switch"} /\ (pc' # "find" => gop' # None)
    BY <1>2, <2>1 DEF Examine, PassOver
  <2>4. UNCHANGED <<adapters, cur, pool, m, best, answered, status, si>>
    BY <1>2 DEF Examine
  <2> QED
    BY <2>2, <2>3, <2>4 DEF TypeOK
<1>3. CASE EndFind
  BY <1>3 DEF EndFind, TypeOK
<1>4. CASE Switch
  BY <1>4 DEF Switch, TypeOK
<1>5. CASE QueryMode
  <2>1. m' \in Nat /\ pc' \in {"query", "match"} /\ gop # None
    BY <1>5 DEF QueryMode, TypeOK
  <2>2. pool' \subseteq {"handles", "info"}
    BY <1>5 DEF QueryMode
  <2> QED
    BY <1>5, <2>1 DEF QueryMode, TypeOK
<1>6. CASE Match
  <2>1. gop # None /\ m \in ModesOf(adapters[gop])
    BY <1>6 DEF Match, TypeOK, IInv, LoopInv
  <2>2. best' \in [mode : Nat, area : 0 .. AREA - 1, depth : 0 .. 32]
    <3>1. m \in Nat /\ Area(Mode(gop, m)) \in 0 .. AREA - 1 /\ Depth(Mode(gop, m)) \in 0 .. 32
      BY <2>1, GopFacts
    <3> HIDE DEF machine, search, choice
    <3>2. best \in [mode : Nat, area : 0 .. AREA - 1, depth : 0 .. 32]
      BY DEF TypeOK
    <3>3. \/ best' = best
          \/ best' = [mode |-> m, area |-> Area(Mode(gop, m)), depth |-> Depth(Mode(gop, m))]
      BY <1>6 DEF Match, highest_res, print_list_entry
    <3> QED
      BY <3>1, <3>2, <3>3
  <2>3. m' \in Nat /\ pc' = "query"
    BY <1>6 DEF Match
  <2>4. answered' = answered \/ answered' = answered \cup {m}
    BY <1>6 DEF Match, highest_res, print_list_entry
  <2>5. answered' \subseteq Nat
    BY <2>4
  <2> QED
    BY <1>6, <2>1, <2>2, <2>3, <2>5 DEF Match, TypeOK
<1>7. CASE EndChoose
  BY <1>7 DEF EndChoose, Switched, TypeOK
<1>8. CASE SetMode
  <2>1. gop # None
    BY <1>8 DEF SetMode, TypeOK
  <2>2. cur' \in [Handles -> Nat] /\ \A g \in Handles : cur'[g] \in ModesOf(adapters[g])
    <3>1. cur \in [Handles -> Nat] /\ best.mode \in Nat
      BY DEF TypeOK
    <3>2. /\ cur' \in [Handles -> Nat]
          /\ \A g \in Handles : cur'[g] = cur[g] \/ (g = gop /\ cur'[g] = best.mode)
      BY <1>8, <3>1 DEF SetMode
    <3> QED
      BY <2>1, <3>2, BestIsMode DEF TypeOK
  <2>3. pc' \in {"query", "describe"} /\ m' \in Nat
    BY <1>8 DEF SetMode, Switched, TypeOK
  <2> QED
    BY <1>8, <2>1, <2>2, <2>3 DEF SetMode, TypeOK
<1>9. CASE EndList
  BY <1>9 DEF EndList, TypeOK
<1>10. CASE Wait
  BY <1>10 DEF Wait, TypeOK
<1>11. CASE Stall
  BY <1>11 DEF Stall, TypeOK
<1>12. CASE Describe
  <2>1. gop # None
    BY <1>12 DEF Describe, TypeOK
  <2>2. Current(gop) \in ModeInfo
    BY <2>1, GopFacts DEF Current
  <2>3. si' \in ScreenInfos
    BY <1>12, <2>2, ScreenInfoType DEF Describe
  <2> QED
    BY <1>12, <2>3 DEF Describe, TypeOK
<1>13. CASE Done \/ UNCHANGED vars
  BY <1>13 DEF Done, vars, TypeOK
<1> QED
  BY <1>1, <1>2, <1>3, <1>4, <1>5, <1>6, <1>7, <1>8, <1>9, <1>10, <1>11,
     <1>12, <1>13 DEF Next

-----------------------------------------------------------------------------
(* Every step keeps the accounts of buffers and outcome. *)
LEMMA PoolStep ==
  ASSUME IInv, [Next]_vars
  PROVE  PoolInv'
<1>0. TypeOK /\ PoolInv
  BY DEF IInv
<1> USE <1>0 DEF machine, search, choice
<1>1. CASE Locate
  BY <1>1 DEF Locate, PoolInv
<1>2. CASE Examine
  BY <1>2 DEF Examine, PassOver, PoolInv
<1>3. CASE EndFind
  <2>1. gop' = first_gop /\ UNCHANGED <<cur, si, adapters>>
    BY <1>3 DEF EndFind
  <2>2. CASE first_gop = None
    <3>1. pool' = {} /\ pc' = "done" /\ status' = "not_found"
      BY <1>3, <2>2 DEF EndFind, PoolInv
    <3> QED
      BY <2>1, <2>2, <3>1 DEF PoolInv
  <2>3. CASE first_gop # None
    <3>1. pc' = "switch" /\ pool' = {"handles"} /\ status' = "none"
      BY <1>3, <2>3 DEF EndFind, PoolInv
    <3> QED
      BY <3>1 DEF PoolInv
  <2> QED
    BY <2>2, <2>3
<1>4. CASE Switch
  BY <1>4 DEF Switch, PoolInv
<1>5. CASE QueryMode
  <2>1. pc' \in {"query", "match"} /\ status' = "none"
    BY <1>5 DEF QueryMode, PoolInv
  <2>2. pool' = IF pc' = "match" THEN {"handles", "info"} ELSE {"handles"}
    BY <1>5 DEF QueryMode, PoolInv
  <2> QED
    BY <2>1, <2>2 DEF PoolInv
<1>6. CASE Match
  <2>1. pc' = "query" /\ status' = "none" /\ pool' = {"handles"}
    BY <1>6 DEF Match, PoolInv
  <2> QED
    BY <2>1 DEF PoolInv
<1>7. CASE EndChoose
  <2>1. pc' \in {"query", "describe", "set"} /\ status' = "none" /\ pool' = {"handles"}
    BY <1>7 DEF EndChoose, Switched, PoolInv
  <2> QED
    BY <2>1 DEF PoolInv
<1>8. CASE SetMode
  <2>1. pc' \in {"query", "describe"} /\ status' = "none" /\ pool' = {"handles"}
    BY <1>8 DEF SetMode, Switched, PoolInv
  <2> QED
    BY <2>1 DEF PoolInv
<1>9. CASE EndList
  BY <1>9 DEF EndList, PoolInv
<1>10. CASE Wait
  BY <1>10 DEF Wait, PoolInv
<1>11. CASE Stall
  BY <1>11 DEF Stall, PoolInv
<1>12. CASE Describe
  <2>1. pc' = "done" /\ status' = "success" /\ pool' = {} /\ gop' # None
    BY <1>12 DEF Describe, PoolInv, TypeOK
  <2>2. si' = ScreenInfo(Current(gop)) /\ UNCHANGED <<adapters, cur, gop>>
    BY <1>12 DEF Describe
  <2>3. si' = ScreenInfo(Current(gop))'
    BY <2>2 DEF Current, Mode, ScreenInfo
  <2> QED
    BY <2>1, <2>3 DEF PoolInv
<1>13. CASE Done \/ UNCHANGED vars
  <2>1. UNCHANGED vars
    BY <1>13 DEF Done
  <2>2. UNCHANGED <<pc, pool, status, gop, si, adapters, cur>>
    BY <2>1 DEF vars
  <2> QED
    BY <2>2 DEF PoolInv, Current, Mode, ScreenInfo
<1> QED
  BY <1>1, <1>2, <1>3, <1>4, <1>5, <1>6, <1>7, <1>8, <1>9, <1>10, <1>11,
     <1>12, <1>13 DEF Next

-----------------------------------------------------------------------------
(* Choosing an adapter *)

(* Once an adapter is taken nothing about the candidates changes. *)
LEMMA AdapterStays ==
  ASSUME FindInv, pc \notin FindPcs,
         UNCHANGED <<adapters, refused, gop>>, pc' \notin FindPcs,
         status' = "not_found" => status = "not_found"
  PROVE  FindInv'
<1>1. Candidates' = Candidates
  BY DEF Candidates, Usable, Mode
<1> QED
  BY <1>1 DEF FindInv, FindPcs

(* Every step keeps what is known of the handles. *)
LEMMA FindStep ==
  ASSUME IInv, [Next]_vars
  PROVE  FindInv'
<1>0. TypeOK /\ FindInv /\ ModeInv /\ PoolInv
  BY DEF IInv
<1> USE <1>0 DEF machine, search, choice
<1>a. \A g \in Handles : g \in Nat /\ g # None
  BY HandlesAssumption DEF Handles
<1>1. CASE Locate
  <2>1. Candidates' = Candidates
    BY <1>1 DEF Locate, Candidates, Usable, Mode
  <2>2. /\ gop = None /\ gop' = None /\ n' = 0 /\ first_gop' = None
        /\ refused' = {} /\ pc' \in {"find", "done"} /\ status' # "not_found"
    BY <1>1 DEF Locate, FindInv, FindPcs, PoolInv
  <2>3. \A g \in Candidates : g \in Nat
    BY <1>a DEF Candidates
  <2>4. \A g \in Candidates : 0 <= g /\ ~(g < 0)
    BY <2>3
  <2> QED
    BY <2>1, <2>2, <2>4 DEF FindInv, FindPcs
<1>2. CASE Examine
  <2>1. /\ n \in Handles /\ n \in Nat /\ gop = None /\ refused \subseteq 0 .. n - 1
        /\ n' \in {n, n + 1} /\ UNCHANGED <<adapters, status>> /\ status # "not_found"
    <3>1. n \in Handles /\ n \in Nat
      BY <1>2, HandlesAssumption DEF Examine, TypeOK, Handles
    <3>2. gop = None /\ refused \subseteq 0 .. n - 1 /\ status # "not_found"
      BY <1>2 DEF Examine, FindInv, FindPcs, PoolInv
    <3> QED
      BY <1>2, <3>1, <3>2 DEF Examine, PassOver
  <2>2. cur[n] = adapters[n].current
    BY <2>1, <1>a DEF ModeInv
  <2>3. Current(n) = Mode(n, adapters[n].current)
    BY <2>2 DEF Current
  <2>4. /\ \A g \in Candidates : g \in Handles /\ g \in Nat
        /\ \A g \in Candidates : g < n => ~adapters[g].console
        /\ IF first_gop = None THEN \A g \in Candidates : n <= g
           ELSE first_gop \in Candidates /\ \A g \in Candidates : first_gop <= g
        /\ first_gop # None => first_gop < n
    BY <1>2, <1>a DEF Examine, FindInv, Candidates
  <2>5. n \in Candidates <=> Usable(Current(n))
    BY <2>1, <2>3 DEF Candidates
  <2>6. CASE refused' = refused \cup {n} /\ PassOver(first_gop)
    <3>1. Candidates' = Candidates \ {n}
      BY <2>1, <2>6 DEF Candidates, Usable, Mode
    <3>2. refused' \subseteq 0 .. n' - 1 /\ n' = n + 1 /\ first_gop' = first_gop
          /\ gop' = None /\ pc' = "find"
      BY <1>2, <2>1, <2>6 DEF PassOver, Examine
    <3> QED
      BY <2>1, <2>4, <3>1, <3>2 DEF FindInv, FindPcs
  <2>7. CASE UNCHANGED refused
    <3>1. Candidates' = Candidates
      BY <2>1, <2>7 DEF Candidates, Usable, Mode
    <3>2. CASE ~Usable(Current(n)) /\ PassOver(first_gop)
      <4>1. refused' \subseteq 0 .. n' - 1 /\ n' = n + 1 /\ first_gop' = first_gop
            /\ gop' = None /\ pc' = "find"
        BY <1>2, <2>1, <2>7, <3>2 DEF PassOver, Examine
      <4> QED
        BY <2>1, <2>4, <2>5, <3>1, <3>2, <4>1 DEF FindInv, FindPcs
    <3>3. CASE Usable(Current(n)) /\ adapters[n].console /\ gop' = n /\ pc' = "switch"
      <4>1. n # None /\ n \in Candidates
        BY <1>a, <2>1, <2>5, <3>3
      <4> QED
        BY <2>1, <2>4, <3>1, <3>3, <4>1 DEF FindInv, FindPcs
    <3>4. CASE /\ Usable(Current(n)) /\ ~adapters[n].console
               /\ PassOver(IF first_gop = None THEN n ELSE first_gop)
      <4>1. refused' \subseteq 0 .. n' - 1 /\ n' = n + 1 /\ gop' = None /\ pc' = "find"
            /\ first_gop' = (IF first_gop = None THEN n ELSE first_gop)
        BY <1>2, <2>1, <2>7, <3>4 DEF PassOver, Examine
      <4>2. CASE first_gop = None
        <5>1. first_gop' = n /\ n # None
          BY <1>a, <2>1, <4>1, <4>2
        <5> QED
          BY <2>1, <2>4, <2>5, <3>1, <3>4, <4>1, <4>2, <5>1 DEF FindInv, FindPcs
      <4>3. CASE first_gop # None
        BY <2>1, <2>4, <2>5, <3>1, <3>4, <4>1, <4>3 DEF FindInv, FindPcs
      <4> QED
        BY <4>2, <4>3
    <3> QED
      BY <1>2, <2>1, <2>7, <3>2, <3>3, <3>4 DEF Examine, PassOver
  <2> QED
    BY <1>2, <2>6, <2>7 DEF Examine
<1>3. CASE EndFind
  <2>1. Candidates' = Candidates /\ gop' = first_gop /\ n = NumHandles
    BY <1>3 DEF EndFind, Candidates, Usable, Mode
  <2>2. \A g \in Candidates : g \in Nat /\ g < n
    BY <2>1, HandlesAssumption DEF Candidates, Handles
  <2>3. /\ \A g \in Candidates : ~adapters[g].console
        /\ IF first_gop = None THEN \A g \in Candidates : n <= g
           ELSE first_gop \in Candidates /\ \A g \in Candidates : first_gop <= g
    BY <1>3, <2>2 DEF EndFind, FindInv
  <2>4. UNCHANGED adapters
    BY <1>3 DEF EndFind
  <2>5. CASE first_gop = None
    <3>1. Candidates = {}
      BY <2>1, <2>2, <2>3, <2>5, HandlesAssumption
    <3>2. pc' = "done"
      BY <1>3, <2>5 DEF EndFind
    <3> QED
      BY <2>1, <2>5, <3>1, <3>2 DEF FindInv, FindPcs
  <2>6. CASE first_gop # None
    <3>1. pc' = "switch" /\ status' # "not_found"
      BY <1>3, <2>6 DEF EndFind, PoolInv
    <3> QED
      BY <2>1, <2>3, <2>4, <2>6, <3>1 DEF FindInv, FindPcs
  <2> QED
    BY <2>5, <2>6
<1>4. CASE Switch
  BY <1>4, AdapterStays DEF Switch, FindPcs
<1>5. CASE QueryMode
  BY <1>5, AdapterStays DEF QueryMode, FindPcs
<1>6. CASE Match
  BY <1>6, AdapterStays DEF Match, FindPcs
<1>7. CASE EndChoose
  BY <1>7, AdapterStays DEF EndChoose, Switched, FindPcs
<1>8. CASE SetMode
  BY <1>8, AdapterStays DEF SetMode, Switched, FindPcs
<1>9. CASE EndList
  BY <1>9, AdapterStays DEF EndList, FindPcs
<1>10. CASE Wait
  BY <1>10, AdapterStays DEF Wait, FindPcs
<1>11. CASE Stall
  BY <1>11, AdapterStays DEF Stall, FindPcs
<1>12. CASE Describe
  BY <1>12, AdapterStays DEF Describe, FindPcs
<1>13. CASE Done \/ UNCHANGED vars
  <2>1. UNCHANGED vars
    BY <1>13 DEF Done
  <2>2. UNCHANGED <<pc, n, first_gop, gop, refused, adapters, status>>
    BY <2>1 DEF vars
  <2>3. Candidates' = Candidates
    BY <2>2 DEF Candidates, Usable, Mode
  <2> QED
    BY <2>2, <2>3 DEF FindInv
<1> QED
  BY <1>1, <1>2, <1>3, <1>4, <1>5, <1>6, <1>7, <1>8, <1>9, <1>10, <1>11,
     <1>12, <1>13 DEF Next

-----------------------------------------------------------------------------
(* Every step keeps what is known of the modes the adapters are in. *)
LEMMA ModeStep ==
  ASSUME IInv, [Next]_vars
  PROVE  ModeInv'
<1>0. TypeOK /\ ModeInv /\ FindInv /\ LoopInv
  BY DEF IInv
<1> USE <1>0 DEF machine, search, choice
<1>a. \A g \in Handles : g # None
  BY HandlesAssumption
<1>b. \A g \in Handles \ {gop} : cur[g] = adapters[g].current
  BY DEF ModeInv
<1>c. gop # None => gop \in Handles
  BY DEF TypeOK
<1>d. (gop # None /\ (pc \in {"switch", "set"} \/ (match = "highest_res" /\ pc \in {"query", "match"}))) =>
        cur[gop] = adapters[gop].current
  BY DEF ModeInv, ListPcs
<1>1. CASE Locate
  <2>1. gop = None /\ gop' = None /\ UNCHANGED <<adapters, cur>>
    BY <1>1 DEF Locate, FindInv, FindPcs
  <2> QED
    BY <2>1, <1>b DEF ModeInv
<1>2. CASE Examine \/ EndFind
  <2>1. gop = None /\ gop' \in Handles \cup {None} /\ UNCHANGED <<adapters, cur>>
    <3>1. gop = None /\ UNCHANGED <<adapters, cur>>
      BY <1>2 DEF Examine, EndFind, FindInv, FindPcs
    <3>2. gop' \in Handles \cup {None}
      <4>1. TypeOK'
        BY <1>2, TypeStep DEF Next
      <4> QED
        BY <4>1 DEF TypeOK
    <3> QED
      BY <3>1, <3>2
  <2>2. \A g \in Handles : cur[g] = adapters[g].current
    BY <1>a, <1>b, <2>1
  <2> QED
    BY <2>1, <2>2 DEF ModeInv
<1>3. CASE Switch
  <2>1. cur[gop] = adapters[gop].current /\ UNCHANGED <<adapters, cur, gop>>
    BY <1>3, <1>d DEF Switch, TypeOK
  <2> QED
    BY <1>b, <2>1 DEF ModeInv
<1>4. CASE QueryMode
  BY <1>4 DEF QueryMode, ModeInv, ListPcs
<1>5. CASE Match
  <2>1. UNCHANGED <<adapters, cur, gop, match>> /\ pc' = "query" /\ pc = "match"
    BY <1>5 DEF Match
  <2>2. CASE match = "highest_res"
    BY <1>b, <1>d, <2>1, <2>2 DEF ModeInv
  <2>3. CASE match # "highest_res"
    <3>1. UNCHANGED best /\ match = "print_list_entry"
      BY <1>5, <2>3 DEF Match, print_list_entry, LoopInv
    <3> QED
      BY <2>1, <3>1 DEF ModeInv, ListPcs
  <2> QED
    BY <2>2, <2>3
<1>6. CASE EndChoose
  <2>1. UNCHANGED <<adapters, cur, gop>> /\ gop # None /\ cur[gop] = adapters[gop].current
    BY <1>6, <1>d DEF EndChoose, TypeOK
  <2> QED
    BY <1>b, <2>1 DEF ModeInv
<1>7. CASE SetMode
  <2>1. gop # None /\ cur[gop] = adapters[gop].current /\ UNCHANGED <<adapters, gop, best>>
    BY <1>7, <1>d DEF SetMode, TypeOK
  <2>2. cur \in [Handles -> Nat]
    BY DEF TypeOK
  <2>3. /\ \A g \in Handles \ {gop} : cur'[g] = cur[g]
        /\ cur'[gop] = best.mode \/ cur'[gop] = cur[gop]
    BY <1>7, <1>c, <2>1, <2>2 DEF SetMode
  <2>4. (pc' = "query" /\ match' = "print_list_entry") \/ pc' = "describe"
    BY <1>7 DEF SetMode, Switched
  <2> QED
    BY <1>b, <2>1, <2>3, <2>4 DEF ModeInv, ListPcs
<1>8. CASE EndList
  BY <1>8 DEF EndList, ModeInv, ListPcs
<1>9. CASE Wait
  BY <1>9 DEF Wait, ModeInv, ListPcs
<1>10. CASE Stall
  BY <1>10 DEF Stall, ModeInv, ListPcs
<1>11. CASE Describe
  BY <1>11 DEF Describe, ModeInv, ListPcs
<1>12. CASE Done \/ UNCHANGED vars
  <2>1. UNCHANGED vars
    BY <1>12 DEF Done
  <2>2. UNCHANGED <<adapters, cur, gop, best, pc, match>>
    BY <2>1 DEF vars
  <2> QED
    BY <2>2 DEF ModeInv
<1> QED
  BY <1>1, <1>2, <1>3, <1>4, <1>5, <1>6, <1>7, <1>8, <1>9, <1>10, <1>11,
     <1>12 DEF Next

-----------------------------------------------------------------------------
(* Choosing a mode *)

(* A step that describes no mode and keeps the adapter keeps the best one. *)
LEMMA BestStays ==
  ASSUME BestInv, UNCHANGED <<adapters, gop, best, answered>>
  PROVE  BestInv'
<1>1. UsableModes' = UsableModes
  BY DEF UsableModes, Usable, Mode
<1>2. \A k : Mode(gop, k)' = Mode(gop, k)
  BY DEF Mode
<1>3. \A k : Area(Mode(gop, k))' = Area(Mode(gop, k)) /\ Depth(Mode(gop, k))' = Depth(Mode(gop, k))
  BY DEF Mode, Area, Depth
<1> QED
  BY <1>1, <1>3 DEF BestInv

(* highest_res keeps the best of the modes described. *)
LEMMA BestMatch ==
  ASSUME IInv, Match, match = "highest_res"
  PROVE  BestInv'
<1> DEFINE mode == Mode(gop, m)
           M(k) == Mode(gop, k)
<1>1. /\ BestInv /\ UNCHANGED <<adapters, gop>> /\ gop # None
      /\ m \in ModesOf(adapters[gop]) /\ answered \subseteq 0 .. m - 1
  BY DEF IInv, TypeOK, LoopInv, Match, machine
<1>2. /\ answered' = answered \cup {m}
      /\ best' = IF Usable(mode) /\ Better(mode)
                 THEN [mode |-> m, area |-> Area(mode), depth |-> Depth(mode)] ELSE best
  BY DEF Match, highest_res
<1>3. \A k : M(k)' = M(k)
  BY <1>1 DEF Mode
<1>4. UsableModes' = UsableModes \cup (IF Usable(mode) THEN {m} ELSE {})
  BY <1>2, <1>1 DEF UsableModes, Usable, Mode
<1>5. /\ m \in Nat /\ Area(mode) \in Nat /\ Depth(mode) \in Nat
      /\ best.mode \in Nat /\ best.area \in Nat /\ best.depth \in Nat
  <2>1. ModesOf(adapters[gop]) \subseteq Nat /\ Area(mode) \in 0 .. AREA - 1 /\ Depth(mode) \in 0 .. 32
    BY <1>1, GopFacts
  <2>2. best \in [mode : Nat, area : 0 .. AREA - 1, depth : 0 .. 32]
    BY DEF IInv, TypeOK
  <2>3. AREA \in Nat
    BY WidthAssumption
  <2> QED
    BY <1>1, <2>1, <2>2, <2>3
<1>6. \A k \in UsableModes : k \in Nat /\ k < m /\ Area(M(k)) \in Nat /\ Depth(M(k)) \in Nat
  <2> SUFFICES ASSUME NEW k \in UsableModes PROVE k \in Nat /\ k < m /\ Area(M(k)) \in Nat /\ Depth(M(k)) \in Nat
    OBVIOUS
  <2>1. k \in answered /\ k \in ModesOf(adapters[gop])
    BY <1>1 DEF UsableModes, BestInv
  <2>2. Area(M(k)) \in 0 .. AREA - 1 /\ Depth(M(k)) \in 0 .. 32 /\ AREA \in Nat
    BY <1>1, <2>1, GopFacts, WidthAssumption
  <2> QED
    BY <1>1, <1>5, <2>1, <2>2
<1>7. answered' \subseteq ModesOf(adapters[gop])
  BY <1>1, <1>2 DEF BestInv
<1>8. \/ /\ best' = NoMode
         /\ \A k \in UsableModes' : Area(M(k)) = 0 /\ Depth(M(k)) = 0
      \/ /\ best'.mode \in UsableModes'
         /\ best'.area = Area(M(best'.mode)) /\ best'.depth = Depth(M(best'.mode))
         /\ \A k \in UsableModes' :
              \/ best'.area > Area(M(k))
              \/ best'.area = Area(M(k)) /\ best'.depth > Depth(M(k))
              \/ best'.area = Area(M(k)) /\ best'.depth = Depth(M(k)) /\ best'.mode <= k
  <2> DEFINE Old ==
        \/ /\ best = NoMode
           /\ \A k \in UsableModes : Area(M(k)) = 0 /\ Depth(M(k)) = 0
        \/ /\ best.mode \in UsableModes
           /\ best.area = Area(M(best.mode)) /\ best.depth = Depth(M(best.mode))
           /\ \A k \in UsableModes :
                \/ best.area > Area(M(k))
                \/ best.area = Area(M(k)) /\ best.depth > Depth(M(k))
                \/ best.area = Area(M(k)) /\ best.depth = Depth(M(k)) /\ best.mode <= k
  <2>1. Old
    BY <1>1 DEF BestInv
  <2>a. NoMode.area = 0 /\ NoMode.depth = 0
    BY DEF NoMode
  <2>2. CASE ~Usable(mode)
    BY <1>2, <1>4, <2>1, <2>2
  <2>3. CASE Usable(mode) /\ Better(mode)
    <3>1. best'.mode = m /\ best'.area = Area(mode) /\ best'.depth = Depth(mode)
      BY <1>2, <2>3
    <3>2. UsableModes' = UsableModes \cup {m}
      BY <1>4, <2>3
    <3>3. \/ Area(mode) > best.area
          \/ Area(mode) = best.area /\ Depth(mode) > best.depth
      BY <2>3 DEF Better
    <3>4. \A k \in UsableModes :
            \/ Area(mode) > Area(M(k))
            \/ Area(mode) = Area(M(k)) /\ Depth(mode) > Depth(M(k))
      <4> HIDE DEF mode, M
      <4> SUFFICES ASSUME NEW k \in UsableModes
                   PROVE  \/ Area(mode) > Area(M(k))
                          \/ Area(mode) = Area(M(k)) /\ Depth(mode) > Depth(M(k))
        OBVIOUS
      <4>1. \/ best.area > Area(M(k))
            \/ best.area = Area(M(k)) /\ best.depth >= Depth(M(k))
        BY <2>1, <2>a, <1>5, <1>6
      <4> QED
        BY <1>5, <1>6, <3>3, <4>1
    <3> HIDE DEF M
    <3>5. mode = M(m)
      BY DEF M
    <3> QED
      BY <1>5, <3>1, <3>2, <3>4, <3>5
  <2>4. CASE Usable(mode) /\ ~Better(mode)
    <3>1. best' = best /\ UsableModes' = UsableModes \cup {m}
      BY <1>2, <1>4, <2>4
    <3>2. \/ best.area > Area(mode)
          \/ best.area = Area(mode) /\ best.depth >= Depth(mode)
      BY <1>5, <2>4 DEF Better
    <3> HIDE DEF M
    <3>3. mode = M(m)
      BY DEF M
    <3> HIDE DEF mode
    <3>4. CASE best = NoMode /\ \A k \in UsableModes : Area(M(k)) = 0 /\ Depth(M(k)) = 0
      BY <1>5, <2>a, <3>1, <3>2, <3>3, <3>4
    <3>5. CASE /\ best.mode \in UsableModes
               /\ best.area = Area(M(best.mode)) /\ best.depth = Depth(M(best.mode))
               /\ \A k \in UsableModes :
                    \/ best.area > Area(M(k))
                    \/ best.area = Area(M(k)) /\ best.depth > Depth(M(k))
                    \/ best.area = Area(M(k)) /\ best.depth = Depth(M(k)) /\ best.mode <= k
      <4>1. best.mode <= m
        BY <1>5, <1>6, <3>5
      <4>2. \/ best.area > Area(M(m))
            \/ best.area = Area(M(m)) /\ best.depth > Depth(M(m))
            \/ best.area = Area(M(m)) /\ best.depth = Depth(M(m)) /\ best.mode <= m
        BY <1>5, <3>2, <3>3, <4>1
      <4> QED
        BY <3>1, <3>5, <4>2
    <3> QED
      BY <2>1, <3>4, <3>5
  <2> QED
    BY <2>2, <2>3, <2>4
<1> QED
  <2>1. \A k : Area(Mode(gop, k))' = Area(M(k)) /\ Depth(Mode(gop, k))' = Depth(M(k))
    BY <1>1 DEF Mode, Area, Depth
  <2>2. gop' # None /\ ModesOf(adapters[gop])' = ModesOf(adapters[gop])
    BY <1>1
  <2> QED
    BY <1>7, <1>8, <2>1, <2>2 DEF BestInv, NoMode

(* Every step keeps what is known of the best mode. *)
LEMMA BestStep ==
  ASSUME IInv, [Next]_vars
  PROVE  BestInv'
<1>0. BestInv /\ FindInv /\ LoopInv
  BY DEF IInv
<1> USE <1>0 DEF machine, search, choice
<1>1. CASE Locate \/ Switch \/ QueryMode \/ EndChoose \/ SetMode \/ EndList \/ Wait \/ Stall \/ Describe
  BY <1>1, BestStays DEF Locate, Switch, QueryMode, EndChoose, SetMode, EndList, Wait, Stall, Describe
<1>2. CASE Examine \/ EndFind
  <2>1. gop = None /\ UNCHANGED <<best, answered, adapters>>
    BY <1>2 DEF Examine, EndFind, FindInv, FindPcs
  <2>2. answered = {} /\ UsableModes = {} /\ UsableModes' = {}
    BY <2>1 DEF BestInv, UsableModes
  <2>3. best = NoMode
    BY <2>2 DEF BestInv
  <2> QED
    BY <2>1, <2>2, <2>3 DEF BestInv, NoMode
<1>3. CASE Match
  <2>1. CASE match = "highest_res"
    BY <1>3, <2>1, BestMatch
  <2>2. CASE match # "highest_res"
    BY <1>3, <2>2, BestStays DEF Match, print_list_entry
  <2> QED
    BY <2>1, <2>2
<1>4. CASE Done \/ UNCHANGED vars
  <2>1. UNCHANGED vars
    BY <1>4 DEF Done
  <2> QED
    BY <2>1, BestStays DEF vars
<1> QED
  BY <1>1, <1>2, <1>3, <1>4 DEF Next

-----------------------------------------------------------------------------
(* The loops over the modes *)

(* The elements of a sequence, and of a longer one. *)
LEMMA SeqFacts ==
  ASSUME NEW S, NEW s \in Seq(S)
  PROVE  /\ Len(s) \in Nat /\ DOMAIN s = 1 .. Len(s)
         /\ \A k \in DOMAIN s : s[k] \in S
         /\ \A x \in S : /\ Append(s, x) \in Seq(S)
                       /\ DOMAIN Append(s, x) = 1 .. (Len(s) + 1)
                       /\ \A k \in DOMAIN s : Append(s, x)[k] = s[k]
                       /\ Append(s, x)[Len(s) + 1] = x
OBVIOUS

(* A step of the loops that lists no mode and leaves the mode alone. *)
LEMMA ListStays ==
  ASSUME LoopInv, UNCHANGED <<adapters, debug, cur, gop, match, answered, list>>, m \in Nat,
         m' = m \/ (m' = m + 1 /\ pc' = "query"),
         pc \in ListPcs \cup {"switch"}, pc' \in ListPcs,
         pc' = "match" => m' \in ModesOf(adapters[gop]),
         match = "highest_res" => pc' \notin {"wait", "stall"}
  PROVE  LoopInv'
<1> DEFINE Line == [mode : Nat, star : BOOLEAN, dash : BOOLEAN]
<1>0. list \in Seq(Line) /\ \A k \in DOMAIN list : list[k].mode < m
  BY DEF LoopInv
<1>1. \A k \in DOMAIN list : list[k].mode \in Nat
  <2> HIDE DEF Line
  <2>1. \A k \in DOMAIN list : list[k] \in Line
    BY <1>0, SeqFacts
  <2> QED
    BY <2>1 DEF Line
<1>2. \A k \in DOMAIN list : list[k].mode < m'
  BY <1>0, <1>1
<1>3. match = "highest_res" => answered \subseteq 0 .. m' - 1
  BY DEF LoopInv
<1>4. \A k \in DOMAIN list : Mode(gop, list[k].mode)' = Mode(gop, list[k].mode)
  BY DEF Mode
<1>5. pc' \notin FindPcs \cup {"switch"}
  BY DEF ListPcs, FindPcs
<1>6. pc' = "match" => m' \in ModesOf(adapters[gop])'
  OBVIOUS
<1> QED
  BY <1>2, <1>3, <1>4, <1>5, <1>6 DEF LoopInv, Usable

(* As long as no mode is listed the loops are at their start or choosing. *)
LEMMA NothingListed ==
  ASSUME list' = <<>>, match' = "highest_res", answered' \subseteq 0 .. m' - 1,
         pc' \notin {"match", "wait", "stall"}, pc' \in FindPcs \cup {"switch"} => m' = 0
  PROVE  LoopInv'
BY DEF LoopInv

(* The list of the debug build starts empty at mode 0. *)
LEMMA ListStarts ==
  ASSUME list' = <<>>, match' = "print_list_entry", debug', pc' = "query"
  PROVE  LoopInv'
BY DEF LoopInv, ListPcs, FindPcs

(* print_list_entry adds a true line, in the order of the modes. *)
LEMMA ListMatch ==
  ASSUME IInv, Match, match = "print_list_entry"
  PROVE  LoopInv'
<1> DEFINE r == [mode |-> m, star |-> m = cur[gop], dash |-> ~Usable(Mode(gop, m))]
           Line == [mode : Nat, star : BOOLEAN, dash : BOOLEAN]
<1>1. /\ LoopInv /\ m \in Nat /\ debug /\ list \in Seq(Line)
      /\ UNCHANGED <<adapters, debug, cur, gop, match>>
      /\ m' = m + 1 /\ pc' = "query" /\ list' = Append(list, r)
  BY DEF IInv, TypeOK, LoopInv, Match, print_list_entry, machine
<1>2. r \in Line
  BY <1>1
<1>3. list' \in Seq(Line)
  BY <1>1, <1>2
<1>4. /\ Len(list) \in Nat /\ DOMAIN list = 1 .. Len(list)
      /\ DOMAIN list' = 1 .. (Len(list) + 1)
      /\ \A k \in DOMAIN list : list'[k] = list[k] /\ list[k].mode \in Nat /\ list[k].mode < m
      /\ list'[Len(list) + 1] = r
  <2> HIDE DEF r, Line
  <2>1. /\ Len(list) \in Nat /\ DOMAIN list = 1 .. Len(list)
        /\ \A k \in DOMAIN list : list[k] \in Line
        /\ DOMAIN list' = 1 .. (Len(list) + 1)
        /\ \A k \in DOMAIN list : list'[k] = list[k]
        /\ list'[Len(list) + 1] = r
    BY <1>1, <1>2, SeqFacts
  <2>2. \A k \in DOMAIN list : list[k].mode < m
    BY <1>1 DEF LoopInv
  <2>3. \A k \in DOMAIN list : list[k].mode \in Nat
    BY <2>1 DEF Line
  <2> QED
    BY <2>1, <2>2, <2>3
<1>5. \A k : Mode(gop, k)' = Mode(gop, k)
  BY <1>1 DEF Mode
<1>6. \A k \in DOMAIN list' :
       /\ list'[k].mode < m'
       /\ list'[k].star <=> list'[k].mode = cur[gop]
       /\ list'[k].dash <=> ~Usable(Mode(gop, list'[k].mode))
       /\ k > 1 => list'[k - 1].mode < list'[k].mode
  <2> SUFFICES ASSUME NEW k \in DOMAIN list'
               PROVE  /\ list'[k].mode < m'
                      /\ list'[k].star <=> list'[k].mode = cur[gop]
                      /\ list'[k].dash <=> ~Usable(Mode(gop, list'[k].mode))
                      /\ k > 1 => list'[k - 1].mode < list'[k].mode
    OBVIOUS
  <2>1. CASE k \in DOMAIN list
    <3>1. list'[k] = list[k] /\ list[k].mode < m /\ list[k].mode \in Nat
      BY <1>4, <2>1
    <3>2. /\ list[k].star <=> list[k].mode = cur[gop]
          /\ list[k].dash <=> ~Usable(Mode(gop, list[k].mode))
          /\ k > 1 => list[k - 1].mode < list[k].mode
      BY <1>1, <2>1 DEF LoopInv
    <3>3. k > 1 => list'[k - 1] = list[k - 1]
      BY <1>4, <2>1
    <3> HIDE DEF r
    <3> QED
      BY <1>1, <3>1, <3>2, <3>3
  <2>2. CASE k \notin DOMAIN list
    <3>1. k = Len(list) + 1 /\ list'[k] = r
      BY <1>4, <2>2
    <3>2. k > 1 => k - 1 \in DOMAIN list
      BY <1>4, <3>1
    <3>3. k > 1 => list'[k - 1].mode < m
      BY <1>4, <3>2
    <3>4. r.mode = m /\ (r.star <=> m = cur[gop]) /\ (r.dash <=> ~Usable(Mode(gop, m)))
      OBVIOUS
    <3> HIDE DEF r
    <3> QED
      BY <1>1, <3>1, <3>3, <3>4
  <2> QED
    BY <2>1, <2>2
<1>7. cur[gop]' = cur[gop] /\ \A k : Usable(Mode(gop, k))' = Usable(Mode(gop, k))
  BY <1>1 DEF Mode, Usable
<1> HIDE DEF r
<1>8. \A k \in DOMAIN list' : Usable(Mode(gop, list[k].mode))' = Usable(Mode(gop, list'[k].mode))
  BY <1>1 DEF Mode, Usable
<1> QED
  BY <1>1, <1>3, <1>6, <1>7, <1>8 DEF LoopInv, ListPcs, FindPcs

(* Every step keeps the loops in order. *)
LEMMA LoopStep ==
  ASSUME IInv, [Next]_vars
  PROVE  LoopInv'
<1>0. TypeOK /\ LoopInv /\ m \in Nat
  BY DEF IInv, TypeOK
<1> USE <1>0 DEF machine, search, choice
<1>a. pc \in FindPcs \cup {"switch"} =>
        m = 0 /\ match = "highest_res" /\ list = <<>> /\ answered \subseteq 0 .. m - 1
  BY DEF LoopInv
<1>b. match = "highest_res" => list = <<>> /\ answered \subseteq 0 .. m - 1
  BY DEF LoopInv
<1>c. pc \in {"wait", "stall"} => match = "print_list_entry"
  BY DEF LoopInv
<1>1. CASE Locate \/ Examine \/ EndFind
  <2>1. UNCHANGED <<m, match, list, answered>> /\ pc \in FindPcs
    BY <1>1 DEF Locate, Examine, EndFind, FindPcs
  <2>2. pc' \in {"find", "switch", "done"}
    BY <1>1 DEF Locate, Examine, EndFind, PassOver
  <2> QED
    BY <1>a, <2>1, <2>2, NothingListed
<1>2. CASE Switch
  <2>1. UNCHANGED <<m, match, list, answered>> /\ pc = "switch" /\ pc' \in {"query", "describe"}
    BY <1>2 DEF Switch
  <2> QED
    BY <1>a, <2>1, NothingListed DEF FindPcs
<1>3. CASE QueryMode
  <2>1. /\ pc = "query" /\ pc' \in {"query", "match"} /\ m \in ModesOf(adapters[gop])
        /\ UNCHANGED <<adapters, debug, cur, gop, match, answered, list>>
        /\ (m' = m /\ pc' = "match") \/ (m' = m + 1 /\ pc' = "query")
    BY <1>3 DEF QueryMode
  <2> QED
    BY <2>1, ListStays DEF ListPcs
<1>4. CASE Match
  <2>1. CASE match = "highest_res"
    <3>1. /\ pc' = "query" /\ m' = m + 1 /\ answered' = answered \cup {m}
          /\ UNCHANGED <<list, match>>
      BY <1>4, <2>1 DEF Match, highest_res
    <3>2. answered' \subseteq 0 .. m' - 1
      BY <1>b, <2>1, <3>1
    <3> QED
      BY <1>b, <2>1, <3>1, <3>2, NothingListed DEF FindPcs
  <2>2. CASE match = "print_list_entry"
    BY <1>4, <2>2, ListMatch
  <2> QED
    BY <2>1, <2>2 DEF LoopInv
<1>5. CASE EndChoose \/ SetMode
  <2>1. match = "highest_res" /\ UNCHANGED <<list, answered, debug>> /\ list = <<>>
    BY <1>5 DEF EndChoose, SetMode, LoopInv, ListPcs
  <2>2. \/ match' = match /\ m' = m /\ pc' \in {"set", "describe"}
        \/ match' = "print_list_entry" /\ pc' = "query" /\ debug
    BY <1>5 DEF EndChoose, SetMode, Switched
  <2>3. CASE match' = match /\ m' = m /\ pc' \in {"set", "describe"}
    BY <1>b, <2>1, <2>3, NothingListed DEF FindPcs
  <2>4. CASE match' = "print_list_entry" /\ pc' = "query" /\ debug
    BY <2>1, <2>4, ListStarts
  <2> QED
    BY <2>2, <2>3, <2>4
<1>6. CASE EndList \/ Wait \/ Stall \/ Describe
  <2>1. /\ UNCHANGED <<adapters, debug, cur, gop, match, answered, list, m>>
        /\ pc \in {"query", "wait", "stall", "describe"}
        /\ pc' \in {"wait", "describe", "stall", "done"}
        /\ pc' \in {"wait", "stall"} => match = "print_list_entry"
    BY <1>6, <1>c DEF EndList, Wait, Stall, Describe
  <2> QED
    BY <2>1, ListStays DEF ListPcs
<1>7. CASE Done \/ UNCHANGED vars
  <2>1. UNCHANGED vars
    BY <1>7 DEF Done
  <2>2. UNCHANGED <<adapters, debug, cur, gop, match, answered, list, m, pc>>
    BY <2>1 DEF vars
  <2>3. \A k : Usable(Mode(gop, k))' = Usable(Mode(gop, k))
    BY <2>2 DEF Usable, Mode
  <2>4. \A k : Usable(Mode(gop, list[k].mode))' = Usable(Mode(gop, list[k].mode))
    BY <2>2 DEF Usable, Mode
  <2> QED
    BY <2>2, <2>3, <2>4 DEF LoopInv
<1> QED
  BY <1>1, <1>2, <1>3, <1>4, <1>5, <1>6, <1>7 DEF Next

-----------------------------------------------------------------------------
(* The theorems *)

(* A step of efi_setup_gop keeps the invariant. *)
LEMMA NextIInv == IInv /\ [Next]_vars => IInv'
BY TypeStep, PoolStep, FindStep, ModeStep, BestStep, LoopStep DEF IInv

(* The invariant holds in every reachable state. *)
THEOREM Invariance == Spec => []IInv
BY InitIInv, NextIInv, PTL DEF Spec

(* Every variable has its type, and past find_gop there is an adapter. *)
THEOREM TypeCorrect == Spec => []TypeOK
<1>1. IInv => TypeOK
  BY DEF IInv
<1> QED
  BY Invariance, <1>1, PTL

(* Whatever call fails, efi_setup_gop has freed every buffer on return. *)
THEOREM NoLeaks == Spec => []NothingLeaks
<1>1. IInv => NothingLeaks
  BY DEF IInv, PoolInv, NothingLeaks
<1> QED
  BY Invariance, <1>1, PTL

(* However many adapters there are and whichever handles are refused, the  *)
(* one used is the first usable console adapter, else the first usable one. *)
THEOREM FirstConsoleUsed == Spec => []AdapterPreferred
<1>1. ASSUME IInv PROVE AdapterPreferred
  <2>1. Candidates \subseteq Nat
    BY HandlesAssumption DEF Candidates, Handles
  <2>2. ASSUME gop # None
        PROVE  LET consoles == {g \in Candidates : adapters[g].console}
               IN gop = IF consoles = {} THEN Min(Candidates) ELSE Min(consoles)
    <3> DEFINE consoles == {g \in Candidates : adapters[g].console}
    <3>1. /\ gop \in Candidates
          /\ \A g \in Candidates :
               IF adapters[gop].console THEN adapters[g].console => gop <= g
               ELSE ~adapters[g].console /\ gop <= g
      BY <1>1, <2>2 DEF IInv, FindInv
    <3>2. CASE adapters[gop].console
      <4>1. gop \in consoles /\ consoles \subseteq Nat /\ \A g \in consoles : gop <= g
        BY <2>1, <3>1, <3>2
      <4> HIDE DEF consoles
      <4>2. Min(consoles) = gop
        BY <4>1, MinIsLeast
      <4>3. gop = IF consoles = {} THEN Min(Candidates) ELSE Min(consoles)
        BY <4>1, <4>2
      <4> QED
        BY <4>3 DEF consoles
    <3>3. CASE ~adapters[gop].console
      <4>1. consoles = {} /\ \A g \in Candidates : gop <= g
        BY <3>1, <3>3
      <4>2. Min(Candidates) = gop
        BY <2>1, <3>1, <4>1, MinIsLeast
      <4> QED
        BY <4>1, <4>2
    <3> QED
      BY <3>2, <3>3
  <2>3. status = "not_found" => Candidates = {}
    BY <1>1 DEF IInv, FindInv
  <2> QED
    BY <2>2, <2>3 DEF AdapterPreferred
<1> QED
  BY Invariance, <1>1, PTL

(* The mode chosen is the best of those the firmware described, whatever   *)
(* modes there are and whichever queries fail. *)
THEOREM BestModeChosen == Spec => []HighestModeChosen
<1>1. ASSUME IInv PROVE HighestModeChosen
  <2>1. ASSUME SizedModes # {}
        PROVE  /\ best.mode \in UsableModes
               /\ best.area = Area(Mode(gop, best.mode)) /\ best.depth = Depth(Mode(gop, best.mode))
               /\ \A k \in UsableModes :
                    \/ best.area > Area(Mode(gop, k))
                    \/ best.area = Area(Mode(gop, k)) /\ best.depth > Depth(Mode(gop, k))
                    \/ best.area = Area(Mode(gop, k)) /\ best.depth = Depth(Mode(gop, k)) /\ best.mode <= k
    BY <1>1, <2>1 DEF IInv, BestInv, SizedModes
  <2> QED
    BY <2>1 DEF HighestModeChosen
<1> QED
  BY Invariance, <1>1, PTL

(* The screen_info and the list tell the truth, also when a mode could not *)
(* be set. *)
THEOREM ScreenInfoIsTrue == Spec => []ScreenInfoTrue
<1>1. ASSUME IInv PROVE ScreenInfoTrue
  <2>1. ASSUME status = "success"
        PROVE  /\ si = ScreenInfo(Current(gop))
               /\ Usable(Current(gop)) \/ (SizedModes = {} /\ cur[gop] = 0)
    <3>1. gop # None /\ si = ScreenInfo(Current(gop))
      BY <1>1, <2>1 DEF IInv, PoolInv
    <3>2. Usable(Mode(gop, adapters[gop].current))
      BY <1>1, <3>1 DEF IInv, FindInv, Candidates
    <3>3. CASE cur[gop] = adapters[gop].current
      BY <3>1, <3>2, <3>3 DEF Current
    <3>4. CASE cur[gop] = best.mode
      <4>1. CASE best.mode \in UsableModes
        BY <3>1, <3>4, <4>1 DEF Current, UsableModes
      <4>2. CASE best = NoMode /\ \A k \in UsableModes : Area(Mode(gop, k)) = 0 /\ Depth(Mode(gop, k)) = 0
        BY <3>1, <3>4, <4>2 DEF NoMode, SizedModes
      <4> QED
        BY <1>1, <4>1, <4>2 DEF IInv, BestInv
    <3> QED
      BY <1>1, <3>1, <3>3, <3>4 DEF IInv, ModeInv
  <2>2. \A k \in DOMAIN list :
          /\ list[k].star <=> list[k].mode = cur[gop]
          /\ list[k].dash <=> ~Usable(Mode(gop, list[k].mode))
          /\ k > 1 => list[k - 1].mode < list[k].mode
    BY <1>1 DEF IInv, LoopInv
  <2> QED
    BY <2>1, <2>2 DEF ScreenInfoTrue
<1> QED
  BY Invariance, <1>1, PTL

-----------------------------------------------------------------------------
(* The fill loop *)

(* Pixels of four bytes, in rows of at least as many as are shown. *)
LEMMA PixelsInside ==
  ASSUME NEW p \in Nat, NEW w \in Nat, NEW h \in Nat, w <= p,
         NEW x \in 0 .. w - 1, NEW y \in 0 .. h - 1
  PROVE  /\ (p * 4) * y + 4 * x = 4 * (p * y + x)
         /\ (p * 4) * y + 4 * x + 4 <= (p * 4) * h
<1>1. PICK d \in Nat : h = y + 1 + d
  OBVIOUS
<1>2. PICK s \in Nat : s = p * y
  OBVIOUS
<1>3. PICK t \in Nat : t = p * d
  OBVIOUS
<1>4. (p * 4) * y = 4 * s
  BY <1>2
<1>5. (p * 4) * h = 4 * s + 4 * p + 4 * t
  <2>1. (p * 4) * h = (p * 4) * y + p * 4 + (p * 4) * d
    BY <1>1
  <2>2. (p * 4) * d = 4 * t
    BY <1>3
  <2> QED
    BY <1>4, <2>1, <2>2
<1> QED
  BY <1>2, <1>4, <1>5

(* A number below the width of its field is kept, a larger one truncated. *)
LEMMA Truncated ==
  ASSUME NEW v \in Nat
  PROVE  /\ v % LINE \in Nat /\ v % LINE <= v
         /\ v < LINE => v % LINE = v
<1>1. LINE \in Nat /\ LINE > 0
  BY WidthAssumption
<1>2. v \div LINE \in Nat /\ v % LINE \in 0 .. LINE - 1 /\ v = LINE * (v \div LINE) + (v % LINE)
  BY <1>1, DivModExists
<1>3. LINE * (v \div LINE) \in Nat
  BY <1>1, <1>2
<1>4. v < LINE => v % LINE = v
  <2> SUFFICES ASSUME v < LINE PROVE v % LINE = v
    OBVIOUS
  <2>1. v = LINE * 0 + v
    BY <1>1
  <2> QED
    BY <1>1, <2>1, DivModUnique
<1> QED
  BY <1>2, <1>3, <1>4

(* With 32 bits to a pixel a scan line is four bytes a pixel. *)
LEMMA LinelengthOfWords ==
  ASSUME NEW mode \in ModeInfo, LfbDepth(mode) = 32, mode.ppsl * 4 < LINE
  PROVE  Linelength(mode) = mode.ppsl * 4
<1>1. mode.ppsl \in Nat /\ mode.ppsl * 4 \in Nat
  BY DEF ModeInfo
<1>2. (mode.ppsl * 32) \div 8 = mode.ppsl * 4
  <2>1. mode.ppsl * 32 = 8 * (mode.ppsl * 4) + 0
    BY <1>1
  <2> QED
    BY <1>1, <2>1, DivModUnique
<1>3. Linelength(mode) = (mode.ppsl * 4) % LINE
  BY <1>2 DEF Linelength
<1> QED
  BY <1>1, <1>3, Truncated

(* A colour of eight bits is where the mode has it, and nowhere else. *)
LEMMA ColoursApart ==
  ASSUME NEW mode \in ModeInfo, Usable(mode), WellDescribed(mode),
         \A c \in Colours : Fields(mode)[c].size = 8
  PROVE  /\ \A c \in DOMAIN Shade :
              /\ Fields(mode)[c].pos \in Nat
              /\ ColourBits(mode, c) = Fields(mode)[c].pos .. Fields(mode)[c].pos + 7
         /\ \A c, d \in DOMAIN Shade :
              c # d => ColourBits(mode, c) \cap ColourBits(mode, d) = {}
<1> DEFINE P(c) == Fields(mode)[c].pos
           B(c) == ColourBits(mode, c)
           Found(c) == P(c) \in Nat /\ B(c) = P(c) .. P(c) + 7
<1>1. DOMAIN Shade = {"red", "green", "blue"}
  BY DEF Shade
<1>2. CASE mode.format = "mask"
  <2> SUFFICES ASSUME NEW c \in DOMAIN Shade
               PROVE  /\ Found(c)
                      /\ \A d \in DOMAIN Shade : c # d => B(c) \cap B(d) = {}
    OBVIOUS
  <2> DEFINE mask == mode.masks[c]
  <2>1. \A d \in DOMAIN Shade : d \in Colours /\ B(d) = mode.masks[d]
    BY <1>1, <1>2 DEF ColourBits, Colours
  <2>2. \A d \in DOMAIN Shade : c # d => B(c) \cap B(d) = {}
    <3>1. \A d \in Colours \ {c} : mask \cap mode.masks[d] = {}
      BY <1>2, <2>1 DEF WellDescribed
    <3> HIDE DEF B, mask
    <3>2. B(c) = mask
      BY <2>1 DEF mask
    <3> QED
      BY <2>1, <3>1, <3>2
  <2>3. Fields(mode)[c] = find_bits(mask) /\ find_bits(mask).size = 8
    BY <1>2, <2>1 DEF Fields
  <2>4. mask \subseteq 0 .. 31
    BY <2>1 DEF ModeInfo, PixelBitmask
  <2>5. mask # {}
    BY <2>3 DEF find_bits
  <2>6. mask = ffs(mask) .. fls(mask)
    BY <1>2, <2>1, <2>5 DEF WellDescribed
  <2> HIDE DEF mask
  <2>7. find_bits(mask).pos = ffs(mask) /\ fls(mask) - ffs(mask) + 1 = 8
    BY <2>3, <2>5 DEF find_bits
  <2>8. ffs(mask) \in 0 .. 31 /\ fls(mask) \in 0 .. 31
    BY <2>4, <2>5, BitRange
  <2>9. P(c) = ffs(mask) /\ B(c) = mask
    BY <2>1, <2>3, <2>7 DEF mask
  <2> HIDE DEF P, B
  <2>10. fls(mask) = P(c) + 7 /\ P(c) \in Nat
    BY <2>7, <2>8, <2>9
  <2>11. B(c) = P(c) .. P(c) + 7
    BY <2>6, <2>9, <2>10, Zenon
  <2> QED
    BY <2>2, <2>10, <2>11
<1>3. ASSUME mode.format \in {"rgb", "bgr"}, NEW c \in DOMAIN Shade
      PROVE  /\ Found(c)
             /\ \A d \in DOMAIN Shade : c # d => B(c) \cap B(d) = {}
  <2>1. \/ /\ P("red") = 0 /\ P("green") = 8 /\ P("blue") = 16
           /\ B("red") = 0 .. 7 /\ B("green") = 8 .. 15 /\ B("blue") = 16 .. 23
        \/ /\ P("red") = 16 /\ P("green") = 8 /\ P("blue") = 0
           /\ B("red") = 16 .. 23 /\ B("green") = 8 .. 15 /\ B("blue") = 0 .. 7
    BY <1>3 DEF Fields, ColourBits, Colours
  <2> HIDE DEF P, B
  <2> DEFINE Byte(q, b) ==
        \/ q = 0  /\ b = 0 .. 7
        \/ q = 8  /\ b = 8 .. 15
        \/ q = 16 /\ b = 16 .. 23
  <2>2. Found("red") /\ Found("green") /\ Found("blue")
    <3>1. ASSUME NEW q, NEW b, Byte(q, b) PROVE q \in Nat /\ b = q .. q + 7
      <4>1. CASE q = 0 /\ b = 0 .. 7
        BY <4>1
      <4>2. CASE q = 8 /\ b = 8 .. 15
        BY <4>2
      <4>3. CASE q = 16 /\ b = 16 .. 23
        BY <4>3
      <4> QED
        BY <3>1, <4>1, <4>2, <4>3
    <3>2. Byte(P("red"), B("red")) /\ Byte(P("green"), B("green")) /\ Byte(P("blue"), B("blue"))
      BY <2>1
    <3> HIDE DEF Byte
    <3> QED
      BY <3>1, <3>2
  <2>3. /\ B("red") \cap B("green") = {} /\ B("red") \cap B("blue") = {}
        /\ B("green") \cap B("blue") = {}
    BY <2>1
  <2> HIDE DEF Found
  <2>4. \A d \in DOMAIN Shade : c # d => B(c) \cap B(d) = {}
    BY <1>1, <1>3, <2>3
  <2> QED
    BY <1>1, <1>3, <2>2, <2>4
<1> QED
  BY <1>2, <1>3 DEF Usable

(* The shade has at most eight bits to a colour. *)
LEMMA ShadeBits == \A c \in DOMAIN Shade : Shade[c] \subseteq 0 .. 7
BY DEF Shade

(* On firmware that keeps to the specification the fill loop writes every  *)
(* pixel at its place in the frame buffer, in the same shade. *)
THEOREM FillInside ==
  ASSUME FirmwareContract
  PROVE  Spec => []FillStaysInside
<1>1. ASSUME IInv PROVE FillStaysInside
  <2> SUFFICES ASSUME status = "success", Usable(Current(gop))
               PROVE  LET mode == Current(gop)
                      IN /\ (LfbDepth(mode) = 32 /\ mode.ppsl * 4 < LINE
                              /\ si.lfb_linelength * si.lfb_height <= AREA \div 2) =>
                              \A x \in 0 .. si.lfb_width - 1, y \in 0 .. si.lfb_height - 1 :
                                /\ PixelOffset(x, y) = 4 * (mode.ppsl * y + x)
                                /\ PixelOffset(x, y) + 4 <= si.lfb_size
                         /\ (\A c \in Colours : si.fields[c].size = 8) =>
                              \A c \in DOMAIN Shade : Pixel \cap ColourBits(mode, c) = Shifted(c)
    BY DEF FillStaysInside
  <2> DEFINE mode == Current(gop)
  <2>1. gop # None /\ si = ScreenInfo(mode)
    BY <1>1 DEF IInv, PoolInv
  <2>2. mode \in ModeInfo /\ WellDescribed(mode)
    <3>1. /\ adapters[gop] \in Adapters /\ cur[gop] \in ModesOf(adapters[gop])
          /\ Mode(gop, cur[gop]) \in ModeInfo
      BY <1>1, <2>1, GopFacts
    <3> QED
      BY <3>1, FirmwareContract DEF FirmwareContract, Current, Mode
  <2> HIDE DEF mode
  <2>3. /\ si.lfb_width = mode.width % LINE /\ si.lfb_height = mode.height % LINE
        /\ si.lfb_linelength = Linelength(mode) /\ si.fields = Fields(mode)
        /\ si.lfb_size = Linelength(mode) * (mode.height % LINE)
    BY <2>1 DEF ScreenInfo
  <2>4. ASSUME LfbDepth(mode) = 32, mode.ppsl * 4 < LINE,
               NEW x \in 0 .. si.lfb_width - 1, NEW y \in 0 .. si.lfb_height - 1
        PROVE  /\ PixelOffset(x, y) = 4 * (mode.ppsl * y + x)
               /\ PixelOffset(x, y) + 4 <= si.lfb_size
    <3>1. Linelength(mode) = mode.ppsl * 4
      BY <2>2, <2>4, LinelengthOfWords
    <3>2. /\ mode.ppsl \in Nat /\ mode.width \in Nat /\ mode.height \in Nat
          /\ mode.width <= mode.ppsl
      BY <2>2 DEF ModeInfo, WellDescribed
    <3>3. /\ si.lfb_width \in Nat /\ si.lfb_width <= mode.ppsl /\ si.lfb_height \in Nat
      BY <2>3, <3>2, Truncated
    <3>4. PixelOffset(x, y) = (mode.ppsl * 4) * y + 4 * x
      BY <2>3, <3>1 DEF PixelOffset
    <3>5. si.lfb_size = (mode.ppsl * 4) * si.lfb_height
      BY <2>3, <3>1
    <3> QED
      BY <3>2, <3>3, <3>4, <3>5, PixelsInside
  <2>5. ASSUME \A c \in Colours : si.fields[c].size = 8, NEW c \in DOMAIN Shade
        PROVE  Pixel \cap ColourBits(mode, c) = Shifted(c)
    <3>1. /\ \A d \in DOMAIN Shade :
               /\ Fields(mode)[d].pos \in Nat
               /\ ColourBits(mode, d) = Fields(mode)[d].pos .. Fields(mode)[d].pos + 7
          /\ \A d \in DOMAIN Shade :
               c # d => ColourBits(mode, c) \cap ColourBits(mode, d) = {}
      <4>1. Usable(mode)
        BY DEF mode
      <4> QED
        BY <2>2, <2>3, <2>5, <4>1, ColoursApart
    <3>2. \A d \in DOMAIN Shade : Shifted(d) \subseteq ColourBits(mode, d)
      <4> SUFFICES ASSUME NEW d \in DOMAIN Shade, NEW b \in Shade[d]
                   PROVE  b + si.fields[d].pos \in ColourBits(mode, d)
        BY DEF Shifted
      <4>1. b \in 0 .. 7
        BY ShadeBits
      <4> QED
        BY <2>3, <3>1, <4>1
    <3> QED
      BY <3>1, <3>2 DEF Pixel
  <2> QED
    BY <2>4, <2>5 DEF mode
<1> QED
  BY Invariance, <1>1, PTL
=============================================================================
